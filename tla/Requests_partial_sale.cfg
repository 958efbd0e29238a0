SPECIFICATION Spec
CONSTANTS
  None = None
  Requests = {r1, r2}
  Calls <- SaleCalls
  PoolSize = 2
  Impatient = {r1}
  Slow = {r2}
  Listeners = {"ana"}
  Sellers = {"ana"}
  Admins = {"admin"}
  Milestone = 1
INVARIANTS
  NoPartialSale
