\* Two drivers and two requests in flight, so that any pair of requests
\* interleaves.  Liveness is checked: no symmetry.
SPECIFICATION FairSpec
CONSTANTS
  Drivers = {d1, d2}
  Calls = {c1, c2}
  Loops = {l1}
  MaxRounds = 2
  BatchSize = 1
  MaxLapses = 1
  NoDriver = NoDriver
  NoCall = NoCall
  NoOffer = NoOffer
INVARIANTS ClaimIsExclusive AcceptedIsTripDriver
PROPERTY SearchEnds
CHECK_DEADLOCK FALSE
