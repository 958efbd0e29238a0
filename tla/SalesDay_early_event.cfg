SPECIFICATION Spec
CONSTANTS
  Scenarios = {}
  None = None
  Am = Am
  Pm = Pm
  Opening = {}
  Moving = {}
  Limiting = {}
  Editing = {}
  Blocking = {}
  Unblocking = {}
  Selling = {s1, s2}
  Voiding = {}
  Drawing = {}
  Paying = {}
  Fallible = {s1}
  Requests <- MCRequests
  Kind <- MCKind
  Tenants = {"acme"}
  Sellers = {"ana"}
  InitialSellers = {"ana"}
  Configs <- BothShifts
  Numbers = {1}
  Dates = {1}
  ConfigOf <- OwnConfig
  DateOf <- OneDate
  TenantOf <- OneTenant
  Shifts <- AmOnly
  StartsOpen <- AmOnly
  OpenLists = {}
  Baskets <- SingleBaskets
  InitialLimits <- NoRows
  LimitOrders = {}
  LimitEdits = {}
  BlockOrders = {}
  InitialBlocks <- NoRows
INVARIANTS
  EventsAfterPersist
