SPECIFICATION Spec
CONSTANTS
  Cipher <- MCCipher
  Lanes = 4
  Words = 2
  WordBytes = 1
  Modulus = 8
  NoByte = NoByte
  MaxRequest = 5
  MaxBytes = 10
INVARIANT
  FourthWordIsFromFirstBlock
