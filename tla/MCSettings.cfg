SPECIFICATION Spec
CONSTANTS
  Names <- MCNames
  Sessions = {s1, s2}
  Catalog <- MCCatalog
  Found <- MCFound
  Typed <- MCTyped
  Defaults <- MCDefaults
  Environments <- MCEnvironments
  Arguments <- MCArguments
  Files <- MCFiles
  MaxSteps = 3
INVARIANTS TypeOK SavedProviderStarts KindAgrees ToldIsSaved
PROPERTIES SwitchFindsModel
CHECK_DEADLOCK FALSE
SYMMETRY Perms
