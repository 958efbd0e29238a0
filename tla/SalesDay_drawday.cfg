SPECIFICATION MCSpec
CONSTANTS
  Scenarios = {{m1, s1, a1, d1, d2, p1, p2}}
  None = None
  Am = Am
  Pm = Pm
  Opening = {}
  Moving = {m1}
  Limiting = {}
  Editing = {}
  Blocking = {}
  Unblocking = {}
  Selling = {s1}
  Voiding = {a1}
  Drawing = {d1, d2}
  Paying = {p1, p2}
  Fallible = {}
  Requests <- MCRequests
  Kind <- MCKind
  Tenants = {"acme"}
  Sellers = {"ana"}
  InitialSellers = {"ana"}
  Configs <- BothShifts
  Numbers = {1, 2}
  Dates = {1}
  ConfigOf <- OwnConfig
  DateOf <- OneDate
  TenantOf <- OneTenant
  Shifts <- BothShifts
  StartsOpen <- BothShifts
  OpenLists = {}
  Baskets <- SingleBaskets
  InitialLimits <- NoRows
  LimitOrders = {}
  LimitEdits = {}
  BlockOrders = {}
  InitialBlocks <- NoRows
SYMMETRY DrawSymmetry
INVARIANTS
  PaymentsAreWinnings
  PaidOnce
PROPERTIES
  ResultsFinal
  ImplementsLedger
