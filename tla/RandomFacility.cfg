SPECIFICATION FairSpec
CONSTANTS
  Engines = {e1, e2}
  SeedSizes = {0, 48}
  None = None
INVARIANTS
  TypeOK
  NothingLeaks
  ClientsEnginesExist
  ErrorFlagIsRight
PROPERTIES
  DestroyedOnce
  ProviderSpec
  CallsReturn
