\* One round at a time over three drivers in two cells; one of them is asked.
SPECIFICATION CandidatesSpec
CONSTANTS
  Workers = {1}
  Cabs = {1, 2, 3}
  Reluctant = {1}
  Missed = 10
  WeightAcceptance = 90
  MaxCandidates = 3
  BatchSize = 1
  CacheTTL = 2
  LastBeat = 3
INVARIANT NoWayIsLast
CHECK_DEADLOCK FALSE
