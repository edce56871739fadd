---------------------------------- MODULE Market ----------------------------------
(***************************************************************************)
(* Everything around a trip: who is signed in and how often they may ask,  *)
(* where the drivers are, what a ride costs, the booking, whom a round of  *)
(* the search asks, how offers and claims are kept, what a rider is shown  *)
(* of the way, and what is looked up elsewhere.  These share no state, so  *)
(* a behaviour is about one of them.                                       *)
(***************************************************************************)
EXTENDS Integers, FiniteSets

CONSTANTS
  Places, Speed, Radius, StaleAfter, HashTTL, MaxLag, Oldest, MaxEvents,
  Calls, Challenges, Roles, LastSecond, CodeTTL, AccessTTL, RecordTTL, MaxAttempts,
  Skew, Delay, AccessFaults,
  LastTick, Cooldown, Hour, Day, PerHour, PerDay, Rate, Capacity, IdleTTL, SweepEvery,
  LimitFaults,
  Copies, MaxLives, BookingFaults, MaxLost,
  Lengths, Durations, Hours, NightStarts, NightEnds, Multipliers,
  Processes, Cells, LastMinute, MaxRequests, Kept, SweepAfter, Late,
  Workers, Cabs, Reluctant, Missed, WeightAcceptance, MaxCandidates, BatchSize, CacheTTL, LastBeat,
  Asked, Batches, OfferTTL, OfferRecordTTL, Until, StoreFaults,
  Rivals, Leads, ClaimTTL, LastMoment,
  Rides, Handlers, Positions,
  Askers, Spots, TTL, MaxItems, Lag, TokenLife, Margin, LastInstant, LookupFaults

\* A token lives no longer than the record that ends the account's tokens: 24 hours by
\* default and 30 days.  Request 0 stands for tokens given out before the run.
ASSUME AccessAssumption ==
  /\ 0 \notin Calls
  /\ AccessTTL \in Nat /\ RecordTTL \in Nat /\ Skew \in Nat /\ Delay \in Nat /\ CodeTTL \in Nat
  /\ AccessTTL <= RecordTTL

\* Codes are counted by the hour and by the day, and one is sent per cooldown.
ASSUME LimitsAssumption ==
  /\ Cooldown \in Nat \ {0} /\ Hour \in Nat /\ Day \in Nat /\ Hour <= Day
  /\ PerHour \in Nat /\ PerDay \in Nat

\* A bucket is full when it is dropped: ten minutes at 30 a second refill a burst of 60.
ASSUME BucketAssumption ==
  /\ Rate \in Nat \ {0} /\ Capacity \in Nat
  /\ IdleTTL \in Nat /\ IdleTTL * Rate >= Capacity

\* No copy of a booking is named like a state of its key.
ASSUME BookingAssumption ==
  /\ \A c \in Copies : c \notin {"none", "held", "error", "in flight"}
  /\ MaxLives \in Nat \ {0}

\* Routes are not negative; the hours are those of a day (settings/groups.go: Validate).
ASSUME FaresAssumption ==
  /\ Lengths \subseteq Nat /\ Durations \subseteq Nat /\ Multipliers \subseteq Int
  /\ Hours \subseteq 0 .. 23 /\ NightStarts \subseteq 0 .. 23 /\ NightEnds \subseteq 0 .. 23

\* Times are not negative.  A consumer may be as late as it likes, but not forever.
ASSUME DemandAssumption == Kept \in Nat /\ SweepAfter \in Nat /\ Late \in Nat

\* A round asks somebody, and an answer is remembered for a while: 1 to 50 drivers, and
\* 60 seconds (settings/groups.go: Validate; matching/eta_osrm.go).
ASSUME CandidatesAssumption ==
  /\ Cabs \subseteq Nat /\ IsFiniteSet(Cabs)
  /\ Missed \in Nat /\ WeightAcceptance \in Nat
  /\ MaxCandidates \in Nat /\ BatchSize \in Nat \ {0} /\ CacheTTL \in Nat \ {0}

\* An offer's record outlives the moment it was written.
ASSUME OffersAssumption ==
  OfferTTL \in Nat /\ OfferRecordTTL \in Nat \ {0} /\ Batches \subseteq Nat

\* Two servers' clocks differ by a bounded time.
ASSUME ClaimsAssumption ==
  /\ ClaimTTL \in Nat \ {0}
  /\ Leads \subseteq Nat /\ \E most \in Leads : \A lead \in Leads : lead <= most

\* A driver's rides are numbered in the order they are assigned, and there is a last one.
ASSUME TrackingAssumption ==
  /\ Rides \subseteq Nat \ {0}
  /\ \E last \in {0} \cup Rides : \A t \in Rides : t <= last

\* A request to the token server ends before the margin is over: 10 seconds and 5
\* minutes, of a token that lives an hour.
ASSUME LookupsAssumption ==
  /\ TTL \in Nat /\ Lag \in Nat /\ Margin \in Nat /\ TokenLife \in Nat
  /\ Lag <= Margin /\ 2 * Lag < TokenLife
  /\ IsFiniteSet(Spots) /\ MaxItems \in Nat \ {0}

VARIABLES
  part,
  index, here, status, online, due, mail, work, wills, spot, hash, hashLife, search,
  found, events,
  second, challenges, sent, accounts, tokens, calls, records, cutoff, ended, accessFaults,
  limiter, tick, window, codes, unasked, bucket, lastSweep, level, limitFaults,
  store, slot, life, copies, trips, bookingFaults, lost,
  quote,
  minute, pending, demand, lastSwept, recorded,
  beat, missed, cache, rounds,
  kept, at, batch, offers, byDriver, byTrip, list, sweep, write, storeFaults,
  keeper, moment, claim, wins,
  rides, busy, measured, letOut, flying, handlers, shown,
  cacheKind, instant, items, asks, token, exchange, lookupFaults

Pr == INSTANCE Presence
Ac == INSTANCE Access
Li == INSTANCE Limits
Bo == INSTANCE Booking
Fa == INSTANCE Fares
De == INSTANCE Demand
Ca == INSTANCE Candidates
Of == INSTANCE Offers
Cl == INSTANCE Claims
Tr == INSTANCE Tracking
Lo == INSTANCE Lookups

presence == <<index, here, status, online, due, mail, work, wills, spot, hash, hashLife,
              search, found, events>>
access == <<second, challenges, sent, accounts, tokens, calls, records, cutoff, ended,
            accessFaults>>
limits == <<limiter, tick, window, codes, unasked, bucket, lastSweep, level, limitFaults>>
booking == <<store, slot, life, copies, trips, bookingFaults, lost>>
demands == <<minute, pending, demand, lastSwept, recorded>>
candidates == <<beat, missed, cache, rounds>>
stored == <<kept, at, batch, offers, byDriver, byTrip, list, sweep, write, storeFaults>>
claims == <<keeper, moment, claim, wins>>
tracking == <<rides, busy, measured, letOut, flying, handlers, shown>>
lookups == <<cacheKind, instant, items, asks, token, exchange, lookupFaults>>
dispatch == <<candidates, stored, claims, tracking, lookups>>

marketVars == <<presence, part, access, limits, booking, quote, demands, dispatch>>

\* The parts a behaviour is not about stay in one initial state.
MarketInit ==
  /\ part \in {"presence", "access", "limits", "booking", "fares", "demand",
              "candidates", "offers", "claims", "tracking", "lookups"}
  /\ Pr!PresenceInit /\ (part # "presence" => index = "redis")
  /\ Ac!AccessInit /\ (part # "access" => accounts = [r \in Roles |-> "none"])
  /\ Li!LimitsInit /\ (part # "limits" => limiter = "codes redis")
  /\ Bo!BookingInit /\ (part # "booking" => store = "redis")
  /\ Fa!FaresInit
  /\ De!DemandInit
  /\ Ca!CandidatesInit /\ (part # "candidates" => missed[CHOOSE d \in Cabs : TRUE] > 0)
  /\ Of!OffersInit /\ (part # "offers" => kept = "redis")
  /\ Cl!ClaimsInit /\ (part # "claims" => keeper = "redis")
  /\ Tr!TrackingInit
  /\ Lo!LookupsInit /\ (part # "lookups" => cacheKind = "redis")

MarketNext ==
  \/ /\ part = "presence" /\ Pr!PresenceNext
     /\ UNCHANGED <<part, access, limits, booking, quote, demands, dispatch>>
  \/ /\ part = "access" /\ Ac!AccessNext
     /\ UNCHANGED <<part, presence, limits, booking, quote, demands, dispatch>>
  \/ /\ part = "limits" /\ Li!LimitsNext
     /\ UNCHANGED <<part, presence, access, booking, quote, demands, dispatch>>
  \/ /\ part = "booking" /\ Bo!BookingNext
     /\ UNCHANGED <<part, presence, access, limits, quote, demands, dispatch>>
  \/ /\ part = "fares" /\ Fa!FaresNext
     /\ UNCHANGED <<part, presence, access, limits, booking, demands, dispatch>>
  \/ /\ part = "demand" /\ De!DemandNext
     /\ UNCHANGED <<part, presence, access, limits, booking, quote, dispatch>>
  \/ /\ UNCHANGED <<part, presence, access, limits, booking, quote, demands>>
     /\ \/ /\ part = "candidates" /\ Ca!CandidatesNext
           /\ UNCHANGED <<stored, claims, tracking, lookups>>
        \/ /\ part = "offers" /\ Of!OffersNext
           /\ UNCHANGED <<candidates, claims, tracking, lookups>>
        \/ /\ part = "claims" /\ Cl!ClaimsNext
           /\ UNCHANGED <<candidates, stored, tracking, lookups>>
        \/ /\ part = "tracking" /\ Tr!TrackingNext
           /\ UNCHANGED <<candidates, stored, claims, lookups>>
        \/ /\ part = "lookups" /\ Lo!LookupsNext
           /\ UNCHANGED <<candidates, stored, claims, tracking>>

MarketFairness ==
  /\ WF_presence(part = "presence" /\ Pr!AppPings)
  /\ WF_presence(part = "presence" /\ Pr!Consumed)
  /\ WF_presence(part = "presence" /\ Pr!Searched)
  /\ WF_presence(part = "presence" /\ Pr!Tick)

MarketSpec == MarketInit /\ [][MarketNext]_marketVars /\ MarketFairness

-------------------------------------------------------------------------------
\* A driver who stays free and connected is found again and again (location:
\* Ingest, Nearby, onStatus).
PingingIsFound == part = "presence" => Pr!PingingIsFound

\* A token its holder was told is signed out is not accepted again while it lives
\* (authn: Require, RevokeToken, RevokeAccount).
SignedOutStaysOut == Ac!SignedOutStaysOut

\* Codes to a number and requests of an address stay within the limits, in memory
\* and in Redis (identity/otp_limit.go, httpx/middleware.go, ratelimit_redis.go).
LimitsHold == part = "limits" => Li!LimitsHold

\* Copies of one request book one trip, and all are told that one (trip/service.go:
\* Create, pkg/idem).
OneTripPerKey == part = "booking" => Bo!OneTripPerKey

\* A quote is what tariff, route, hour and demand make it, without jumps, and the
\* demand is that of the requests there were (pricing/service.go, surge.go, pkg/money).
QuotesAreSound ==
  /\ part = "fares" => Fa!FareIsSound
  /\ part = "demand" => De!DemandIsCounted

\* A round asks the best of those it looks at, each by the time for his own cell
\* (matching/engine.go: candidates; scoring.go; eta_osrm.go).
BestAreAsked == part = "candidates" => Ca!BestAreAsked

\* Open offers are found by the driver and by the withdrawal, and a claim holds as
\* long as it says, in all three stores (matching/store_*.go).
OffersHold == (part = "offers" => Of!OffersAreFound) /\ (part = "claims" => Cl!ClaimHolds)

\* A rider sees the driver of the ride until it ends and no longer (app/realtime.go:
\* DriverMoved).
OnlyOwnRider == part = "tracking" => Tr!OnlyOwnRider

\* What was paid for once and remembered is told while it is fresh, and the memory
\* has an end (places/service.go, cache.go; notification/fcm.go).
LookupsAreFresh == part = "lookups" => Lo!LookupsAreFresh
===============================================================================
