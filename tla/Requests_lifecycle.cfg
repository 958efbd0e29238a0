SPECIFICATION FairSpec
CONSTANTS
  None = None
  Requests = {r1, r2}
  Calls <- DayCalls
  PoolSize = 2
  Impatient = {r1}
  Slow = {r2}
  Listeners = {"ana"}
  Sellers = {"ana"}
  Admins = {"admin"}
  Milestone = 1
INVARIANTS
  TypeOK
  RefusalsLeaveNothing
  AuditedAtMostOnce
  OneRowPerKey
  NotificationsOfConfirmed
PROPERTIES
  InboxIsPrivate
  ConnectionsReturn
  KeepsPromise
