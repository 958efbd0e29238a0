SPECIFICATION MCSpec
CONSTANTS
  Handlers = {h1, h2}
  Persons = {ana}
  Emails = {e1, e2}
  Nobody = Nobody
  MaxCodes = 3
  MaxAccounts = 2
  Accounts = {luis}
  Enabled = {luis}
  MaxPasswords = 3
  MaxCredentials = 2
  Members = {m1, m2}
  Administrators = {m1, m2}
  RoleNames = {"CAJA"}
  Modules <- MCModules
  Matrices <- MCMatrices
  MaxWrites = 2
CHECK_DEADLOCK FALSE
INVARIANT
  OneMatrix
