SPECIFICATION FacilitySpec
CONSTANTS
  Callers = {c1, c2}
  Builds = {"getrandom", "files"}
  Asserts = TRUE
  OtherErrors = TRUE
  PoolSize = 2
  MaxRequest = 2
  NoByte = NoByte
  Free = Free
SYMMETRY Symmetry
INVARIANTS
  EntrySource
