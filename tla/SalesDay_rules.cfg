SPECIFICATION MCSpec
CONSTANTS
  None = None
  Scenarios = {{o1, o2, m1}, {l1, l2, e1}, {s1, s2, s3, a1}}
  Am = Am
  Pm = Pm
  Opening = {o1, o2}
  Moving = {m1}
  Limiting = {l1, l2}
  Editing = {e1}
  Blocking = {}
  Unblocking = {}
  Selling = {s1, s2, s3}
  Voiding = {a1}
  Drawing = {}
  Paying = {}
  Fallible = {o1, s1}
  Requests <- MCRequests
  Kind <- MCKind
  Tenants = {"acme"}
  Sellers = {"ana", "beto"}
  InitialSellers = {"ana"}
  Configs <- BothShifts
  Numbers = {1, 2}
  Dates = {1, 2}
  ConfigOf <- OwnConfig
  DateOf <- OneDate
  TenantOf <- OneTenant
  Shifts <- BothShifts
  StartsOpen <- AmOnly
  OpenLists <- Lists
  Baskets <- MixedBaskets
  InitialLimits <- DrawLimits
  LimitOrders <- RangeOrders
  LimitEdits <- RangeEdits
  BlockOrders = {}
  InitialBlocks <- NoRows
SYMMETRY RuleSymmetry
INVARIANTS
  TypeOK
  DrawLimitsRespected
  OneLimitApplies
PROPERTIES
  OpeningOnlyAdds
