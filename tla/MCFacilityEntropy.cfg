SPECIFICATION FacilityFairSpec
CONSTANTS
  Callers = {c1, c2}
  Builds = {"getrandom", "files"}
  Asserts = TRUE
  OtherErrors = TRUE
  PoolSize = 2
  MaxRequest = 3
  NoByte = NoByte
  Free = Free
INVARIANTS
  TypeOK
  Contract
  ResumesWhereItStopped
  EntryContract
PROPERTIES
  NonblockingReturns
  BlockingReturns
