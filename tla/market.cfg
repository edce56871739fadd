\* One driver on three places; one account and three requests of it; one phone
\* number and one address, asked of two pods a tick apart; three copies of a
\* booking; all tariffs; two processes that count the demand of two cells; two
\* rounds over three candidates; one driver's offers, two claimants, two rides
\* of one driver, two requests that look something up.  PingingIsFound is a
\* liveness property: no symmetry.
SPECIFICATION MarketSpec
CONSTANTS
  Places = {0, 1, 2}
  Speed = 1
  Radius = 1
  StaleAfter = 3
  HashTTL = 4
  MaxLag = 1
  Oldest = 4
  MaxEvents = 2
  Calls = {1, 2, 3}
  Challenges = {1}
  Roles = {"driver"}
  LastSecond = 4
  CodeTTL = 1
  AccessTTL = 4
  RecordTTL = 4
  MaxAttempts = 1
  Skew = 1
  Delay = 1
  AccessFaults = 1
  LastTick = 18
  Cooldown = 2
  Hour = 9
  Day = 13
  PerHour = 2
  PerDay = 4
  Rate = 1
  Capacity = 3
  IdleTTL = 3
  SweepEvery = 2
  LimitFaults = 1
  Copies = {c1, c2, c3}
  MaxLives = 2
  BookingFaults = 2
  MaxLost = 1
  Lengths = {0, 19994, 20004, 20005, 31234, 518517}
  Durations = {0, 295, 6004}
  Hours = {6, 8, 14, 15, 21, 22}
  NightStarts = {0, 13, 22}
  NightEnds = {0, 5, 15}
  Multipliers = {800, 1000, 1199, 1700, 3000}
  Processes = {api, worker}
  Cells = {north, south}
  LastMinute = 9
  MaxRequests = 3
  Kept = 3
  SweepAfter = 1
  Late = 1
  Workers = {1, 2}
  Cabs = {1, 2, 3}
  Reluctant = {1}
  Missed = 10
  WeightAcceptance = 90
  MaxCandidates = 2
  BatchSize = 1
  CacheTTL = 2
  LastBeat = 3
  Asked = {a}
  Batches = {1, 2}
  OfferTTL = 2
  OfferRecordTTL = 3
  Until = 6
  StoreFaults = 1
  Rivals = {a, b}
  Leads = {0, 1}
  ClaimTTL = 3
  LastMoment = 8
  Rides = {1, 2}
  Handlers = {1, 2}
  Positions = 2
  Askers = {1, 2}
  Spots = {2, 3, 4}
  TTL = 1
  MaxItems = 1
  Lag = 1
  TokenLife = 4
  Margin = 2
  LastInstant = 5
  LookupFaults = 1
INVARIANTS
  LimitsHold
  OneTripPerKey
  QuotesAreSound
  BestAreAsked
  OffersHold
  OnlyOwnRider
  LookupsAreFresh
PROPERTIES
  SignedOutStaysOut
  PingingIsFound
\* Requests are answered, codes used up and the clocks stand at their last tick.
CHECK_DEADLOCK FALSE
