SPECIFICATION RegistersSpec
CONSTANTS
  ByteValues = 4
  BitXor <- MCBitXor
  snow_alpha_mul <- MCAlphaMul
  snow_alphainv_mul <- MCAlphaInvMul
  snow_T0 <- MCT0
  snow_T1 <- MCT1
  snow_T2 <- MCT2
  snow_T3 <- MCT3
  Seeds <- MCSeeds
  MaxBatches = 2
  NoWord = NoWord
CHECK_DEADLOCK FALSE
INVARIANTS
  SubstitutionLosesNothing
