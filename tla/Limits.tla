--------------------------------- MODULE Limits ---------------------------------
(***************************************************************************)
(* How often somebody may ask: codes by SMS per phone number (internal/    *)
(* identity, OTPLimiter) and requests per address (internal/platform/      *)
(* httpx), each with one variant in the memory of a process and one in     *)
(* Redis.  A variant decides in one step: under a mutex, or in a script.   *)
(* The script of the requests is told the time by the pod that asks, so a  *)
(* bucket is filled by the clocks of all pods; the keys of the codes, and  *)
(* the life of every key, go by the clock of Redis.                        *)
(***************************************************************************)
EXTENDS Naturals, FiniteSets, FiniteSetsExt

CONSTANTS
  LastTick,
  Cooldown, Hour, Day,        \* between two codes; the two windows
  PerHour, PerDay,            \* codes in a window
  Rate, Capacity,             \* tokens per tick, and at most
  IdleTTL, SweepEvery,        \* when a bucket is forgotten in memory
  Leads,                      \* how far the clock of a pod may be ahead
  LimitFaults

VARIABLES
  limiter,    \* which of the four
  tick,
  window,     \* the counts of the phone number, or Fresh
  codes,      \* ticks at which a code was sent with the limiter's consent
  unasked,    \* codes sent because the limiter could not be asked: <<tick, number>>
  bucket,     \* the bucket of the address, or Full
  lastSweep,
  level,      \* the most that any stretch of time up to now has let through beyond
              \* what has flowed into the bucket since it began, with time or because
              \* a pod asked whose clock is ahead of the one that asked before
  limitFaults

limitVars == <<limiter, tick, window, codes, unasked, bucket, lastSweep, level, limitFaults>>

Ticks == 1 .. LastTick
Fresh == [last |-> 0, hourStart |-> 0, dayStart |-> 0, hour |-> 0, day |-> 0]
Full == [tokens |-> Capacity, last |-> 0, ts |-> 0]

LimitsInit ==
  /\ limiter \in {"codes memory", "codes redis", "requests memory", "requests redis"}
  /\ tick = 1
  /\ window = Fresh /\ codes = {} /\ unasked = {}
  /\ bucket = Full /\ lastSweep = 1
  /\ level = 0
  /\ limitFaults = 0

-------------------------------------------------------------------------------
(* Codes.                                                                  *)

\* The windows as they are once those that are over have begun again.
Turned(w) ==
  LET known == w # Fresh
      hourOver == ~known \/ tick - w.hourStart >= Hour
      dayOver == ~known \/ tick - w.dayStart >= Day
  IN  [last |-> w.last,
       hourStart |-> IF hourOver THEN tick ELSE w.hourStart,
       hour |-> IF hourOver THEN 0 ELSE w.hour,
       dayStart |-> IF dayOver THEN tick ELSE w.dayStart,
       day |-> IF dayOver THEN 0 ELSE w.day]

Cooling(w) == w.last # 0 /\ tick - w.last < Cooldown
Room(w) == w.hour < PerHour /\ w.day < PerDay
Counted(w) == [w EXCEPT !.last = tick, !.hour = @ + 1, !.day = @ + 1]

\* In memory a question turns the windows even when the answer is no.
AllowInMemory ==
  /\ limiter = "codes memory"
  /\ LET w == Turned(window)
     IN  IF Cooling(window) THEN UNCHANGED <<window, codes>>
         ELSE IF Room(w) THEN window' = Counted(w) /\ codes' = codes \cup {tick}
         ELSE window' = w /\ UNCHANGED codes
  /\ UNCHANGED <<limiter, tick, unasked, bucket, lastSweep, level, limitFaults>>

\* In Redis a window is a counter that expires; it begins with the first code.
AllowInRedis ==
  /\ limiter = "codes redis"
  /\ LET w == Turned(window)
     IN  IF ~Cooling(window) /\ Room(w)
         THEN window' = Counted(w) /\ codes' = codes \cup {tick}
         ELSE UNCHANGED <<window, codes>>
  /\ UNCHANGED <<limiter, tick, unasked, bucket, lastSweep, level, limitFaults>>

\* Mutant: a number is forgotten when its day is over, the code it was just sent too.
SweepAtOnce ==
  /\ limiter = "codes memory"
  /\ window # Fresh /\ tick - window.dayStart >= Day
  /\ window' = Fresh
  /\ UNCHANGED <<limiter, tick, codes, unasked, bucket, lastSweep, level, limitFaults>>

\* A number whose day began long ago is forgotten, with the hour it is in.
SweepNumbers ==
  /\ limiter = "codes memory"
  /\ window # Fresh /\ tick - window.dayStart >= Day /\ tick - window.last >= Cooldown
  /\ window' = Fresh
  /\ UNCHANGED <<limiter, tick, codes, unasked, bucket, lastSweep, level, limitFaults>>

\* When Redis fails the code is sent, and counted in no window.
SendAnyway ==
  /\ limiter = "codes redis" /\ limitFaults < LimitFaults
  /\ limitFaults' = limitFaults + 1
  /\ unasked' = unasked \cup {<<tick, limitFaults'>>}
  /\ UNCHANGED <<limiter, tick, window, codes, bucket, lastSweep, level>>

-------------------------------------------------------------------------------
(* Requests.                                                               *)

Refilled(b, past) == Min({Capacity, b.tokens + past * Rate})

Less(n, by) == IF n > by THEN n - by ELSE 0

\* Take one token if there is one, at the time somebody's clock shows.
Serve(tokens, clock, ahead) ==
  /\ bucket' = [tokens |-> Less(tokens, 1), last |-> tick, ts |-> clock]
  /\ level' = Less(level, ahead * Rate) + (IF tokens >= 1 THEN 1 ELSE 0)

\* Forgotten buckets are full ones: every SweepEvery ticks those untouched for IdleTTL.
SweepDue == tick - lastSweep >= SweepEvery
Forgotten(b) == b.last # 0 /\ SweepDue /\ tick - b.last > IdleTTL

RateInMemory ==
  /\ limiter = "requests memory"
  /\ lastSweep' = IF SweepDue THEN tick ELSE lastSweep
  /\ Serve(IF bucket.last = 0 \/ Forgotten(bucket) THEN Capacity
           ELSE Refilled(bucket, tick - bucket.last), tick, 0)
  /\ UNCHANGED <<limiter, tick, window, codes, unasked, limitFaults>>

\* The key lives for the time the bucket takes to fill, and one second.
KeyLife == Capacity \div Rate + 1
Alive(b) == b.last # 0 /\ tick < b.last + KeyLife

\* A pod whose clock is ahead fills the bucket for it; one whose clock is behind fills
\* nothing, but leaves its own time, and the next may fill it again.
RateInRedis(lead) ==
  LET clock == tick + lead
  IN  /\ limiter = "requests redis"
      /\ IF Alive(bucket)
         THEN Serve(Refilled(bucket, Less(clock, bucket.ts)), clock,
                    Less(lead, bucket.ts - bucket.last))
         ELSE Serve(Capacity, clock, 0)
      /\ UNCHANGED <<limiter, tick, window, codes, unasked, lastSweep, limitFaults>>

\* The middleware lets a request through when Redis fails (FailOpen).
PassAnyway ==
  /\ limiter = "requests redis" /\ limitFaults < LimitFaults
  /\ limitFaults' = limitFaults + 1
  /\ level' = level + 1
  /\ UNCHANGED <<limiter, tick, window, codes, unasked, bucket, lastSweep>>

LimitTick ==
  /\ tick < LastTick
  /\ tick' = tick + 1
  /\ level' = Less(level, Rate)
  /\ UNCHANGED <<limiter, window, codes, unasked, bucket, lastSweep, limitFaults>>

LimitsNext ==
  \/ AllowInMemory \/ AllowInRedis \/ SweepNumbers \/ SendAnyway
  \/ RateInMemory \/ (\E lead \in Leads : RateInRedis(lead)) \/ PassAnyway \/ LimitTick

-------------------------------------------------------------------------------
LimitsTypeOK ==
  /\ tick \in Ticks /\ codes \subseteq Ticks /\ bucket.tokens \in 0 .. Capacity
  /\ window.hour \in 0 .. PerHour /\ window.day \in 0 .. PerDay

CodesWithin(n, t) ==
  LET within(c) == c > t - n /\ c <= t
  IN  Cardinality({c \in codes : within(c)}) + Cardinality({u \in unasked : within(u[1])})

\* However the questions fall and whatever is swept in between: two codes the limiter
\* agreed to are Cooldown apart; a day, wherever it begins, has at most the codes of two
\* daily windows, an hour those of two hourly ones, and of a third when the number was
\* swept, and one more for each time Redis failed; and no stretch of time lets more
\* requests through than a full bucket, one for each failure of Redis and what flows
\* into the bucket, which is more than the rate gives when pods ask in turn whose clocks
\* differ (identity/otp_limit.go, httpx: RateLimit, RedisRateLimit).
LimitsHold ==
  /\ \A c, d \in codes : c < d => d - c >= Cooldown
  /\ \A t \in Ticks :
       /\ CodesWithin(Day, t) <= 2 * PerDay + limitFaults
       /\ CodesWithin(Hour, t) <=
            (IF limiter = "codes memory" THEN 3 ELSE 2) * PerHour + limitFaults
  /\ level <= Capacity + limitFaults
===============================================================================
