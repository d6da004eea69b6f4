SPECIFICATION FairSpec
CONSTANTS
  Keystream <- MCKeystream
  BufferSize = 3
  MaxRequest = 5
  MaxBytes = 9
INVARIANTS
  TypeOK
  RunAhead
  InTransit
PROPERTIES
  NoUseAfterDestroy
  EngineSpec
  CallReturns
  DestructorReturns
