SPECIFICATION Spec
CONSTANTS
  p1 = p1
  p2 = p2
  main = main
  Paths = {p1, p2}
  NameOf <- MCNameOf
  Fragments = {f, g}
  NoFile = NoFile
  NoAction = NoAction
  Permissions <- MCPermissions
  MaxActions = 2
  MaxEdits = 1
  MaxKills = 1
  MaxLen = 2
INVARIANTS TypeOK BackupRestores
PROPERTIES OnlyWithConsent ReadOnlyAgent TrustNeverAsks
CHECK_DEADLOCK FALSE
