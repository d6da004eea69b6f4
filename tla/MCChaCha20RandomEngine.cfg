SPECIFICATION Spec
CONSTANTS
  Cipher <- MCCipher
  Lanes = 4
  Words = 2
  WordBytes = 1
  Modulus = 8
  NoByte = NoByte
  MaxRequest = 25
  MaxBytes = 150
INVARIANTS
  TypeOK
  MemcpyInBounds
  LanesDoNotOverflow
  CounterCountsBlocks
PROPERTIES
  EngineSpec
