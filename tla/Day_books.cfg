SPECIFICATION MCSpec
CONSTANTS
  Handlers = {h1, h2}
  Nothing = Nothing
  Erased = Erased
  NoNumber = NoNumber
  Daily = Daily
  Special = Special
  K1 = K1
  K2 = K2
  K3 = K3
  Tickets = {K1, K2, K3}
  Draws <- MCDraws
  Winners = {1, 2}
  Items <- MCItems
  Configs <- MCConfigs
  Dates = {1, 2}
  Tuesdays = {1}
  NewConfigs <- MCNewConfigs
  Patches <- MCPatches
  Templates <- MCTemplates
  SellerOf <- MCSellerOf
  SoldOn <- MCSoldOn
  Queries <- MCQueries
  Periods <- MCPeriods
  CreatedAt <- MCCreatedAt
  Listings <- MCListings
SYMMETRY BooksSymmetry
CHECK_DEADLOCK FALSE
INVARIANTS
  TypeOK
  NothingOrphaned
  GenerationMatchesOpening
  SellersAddUp
  NumbersAddUp
  CutAgreesWithOverview
  MatrixReconciles
  PendingIsOutstanding
  ListsSkipOnlyForLost
