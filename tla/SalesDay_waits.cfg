SPECIFICATION MCFairSpec
CONSTANTS
  Scenarios = {{l1, s1, s2}, {o1, l1, s1}, {b1, b2}, {b1, u1, s1}}
  None = None
  Am = Am
  Pm = Pm
  Opening = {o1}
  Moving = {}
  Limiting = {l1}
  Editing = {}
  Blocking = {b1, b2}
  Unblocking = {u1}
  Selling = {s1, s2}
  Voiding = {}
  Drawing = {}
  Paying = {}
  Fallible = {o1, s2, b1}
  Requests <- MCRequests
  Kind <- MCKind
  Tenants = {"acme"}
  Sellers = {"ana"}
  InitialSellers = {"ana"}
  Configs <- BothShifts
  Numbers = {1, 2}
  Dates = {1}
  ConfigOf <- OwnConfig
  DateOf <- OneDate
  TenantOf <- OneTenant
  Shifts <- BothShifts
  StartsOpen <- AmOnly
  OpenLists <- AutoList
  Baskets <- CrossBaskets
  InitialLimits <- NoRows
  LimitOrders <- CrossOrders
  LimitEdits = {}
  BlockOrders <- BlockBoth
  InitialBlocks <- NoRows
PROPERTIES
  RequestsEnd
  BlocksHold
