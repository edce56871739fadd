--------------------------------- MODULE Claims ---------------------------------
(***************************************************************************)
(* The claim of a trip (matching.Store: ClaimTrip), with the time it lasts *)
(* and in all three stores: a map under a mutex, one statement of Postgres *)
(* with the clock of the pod that sends it, a script in Redis with the     *)
(* clock of Redis.  Matching takes the claim as it is and lets it lapse.   *)
(***************************************************************************)
EXTENDS Naturals, FiniteSetsExt

CONSTANTS
  Rivals,       \* drivers who accept
  Leads,        \* pods, named by how far their clock is ahead
  ClaimTTL,
  LastMoment

VARIABLES
  keeper,       \* "memory", "postgres" or "redis"
  moment,
  claim,        \* [driver, until], or NoClaim
  wins          \* [driver, at, fresh]: the calls that were told "yes"

claimVars == <<keeper, moment, claim, wins>>

NoClaim == [until |-> 0]

ClaimsInit ==
  /\ keeper \in {"memory", "postgres", "redis"}
  /\ moment = 1 /\ claim = NoClaim /\ wins = {}

Owner(d) == claim # NoClaim /\ claim.driver = d

Win(d, held, fresh) ==
  /\ wins' = wins \cup {[driver |-> d, at |-> moment, fresh |-> fresh]}
  /\ claim' = held

Hold(d, from) == [driver |-> d, until |-> from + ClaimTTL]

\* The owner who asks again is told "yes", but the claim is not prolonged.
ClaimInMemory(d) ==
  /\ keeper = "memory"
  /\ \/ moment >= claim.until /\ Win(d, Hold(d, moment), TRUE)
     \/ moment < claim.until /\ Owner(d) /\ Win(d, claim, FALSE)
  /\ UNCHANGED <<keeper, moment>>

\* ON CONFLICT DO UPDATE WHERE it has run out by this pod's clock, or is ours.
ClaimInPostgres(d, lead) ==
  /\ keeper = "postgres"
  /\ claim.until < moment + lead \/ Owner(d)
  /\ Win(d, Hold(d, moment + lead), TRUE)
  /\ UNCHANGED <<keeper, moment>>

\* claimScript: free, or ours and then prolonged.
ClaimInRedis(d) ==
  /\ keeper = "redis"
  /\ moment >= claim.until \/ Owner(d)
  /\ Win(d, Hold(d, moment), TRUE)
  /\ UNCHANGED <<keeper, moment>>

Pass ==
  /\ moment < LastMoment
  /\ moment' = moment + 1
  /\ UNCHANGED <<keeper, claim, wins>>

ClaimsNext ==
  \/ \E d \in Rivals :
       \/ ClaimInMemory(d) \/ ClaimInRedis(d)
       \/ \E lead \in Leads : ClaimInPostgres(d, lead)
  \/ Pass

ClaimsSpec == ClaimsInit /\ [][ClaimsNext]_claimVars

-------------------------------------------------------------------------------
\* Who is told "yes" has ClaimTTL to reserve and to assign before anybody else is:
\* in Postgres less by what the clocks differ, in memory counted from the first
\* "yes" (ClaimTrip in store_memory, store_postgres, store_redis).
ClaimHolds ==
  \A w, v \in wins :
    w.driver # v.driver /\ w.at <= v.at /\ w.fresh =>
      v.at - w.at >= ClaimTTL - (IF keeper = "postgres" THEN Max(Leads) ELSE 0)
===============================================================================
