SPECIFICATION Spec
CONSTANTS
  None = None
  Month = 2
  RenewalDays = 1
  GraceDays = 1
  PauseDays = 1
  ReissueDays = 1
  OnboardingDays = 2
  ArchiveDays = 1
  DueDays = 1
  References = {b1}
  Uploads = {u1, u2}
  MaxAge = 0
  MaxEvents = 2
  MaxSubmissions = 2
  MaxInvoices = 3
  Horizon = 3
SYMMETRY Symmetric
CHECK_DEADLOCK FALSE
INVARIANTS
  TypeOK
  LedgerExact
  ApprovedArePaid
  EvidenceKept
PROPERTIES
  NoRenewalForTheGone
