SPECIFICATION Spec
CONSTANTS
  Keystream <- MCKeystream
  BatchSize = 4
  NoByte = NoByte
  MaxRequest = 14
  MaxBytes = 40
INVARIANTS
  TypeOK
  BatchIsFull
  MadeOnDemand
PROPERTIES
  EngineSpec
