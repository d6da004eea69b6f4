SPECIFICATION FairSpec
CONSTANTS
  Processes = {p1, p2}
  Asserts = TRUE
  Needed = 3
  EstimateMax = 3
  MaxCredit = 5
  MaxCrashes = 1
INVARIANTS
  TypeOK
  EntropyGathered
  WaitsOnce
PROPERTIES
  SegmentReleases
