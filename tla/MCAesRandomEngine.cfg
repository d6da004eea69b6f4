SPECIFICATION Spec
CONSTANTS
  AesStream <- MCAesStream
  BlockSize = 3
  ParallelBlocks = 2
  CounterLimit = 6
  NoByte = NoByte
  MaxRequest = 20
  MaxBytes = 80
INVARIANTS
  TypeOK
  MemcpyInBounds
  KeyBudget
PROPERTIES
  FreshKeys
  EngineSpec
