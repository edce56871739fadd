------------------------------ MODULE Matching ------------------------------
(***************************************************************************)
(* internal/matching: the search for a driver of ONE trip.  The dispatch   *)
(* loop offers the trip in rounds; drivers accept and reject concurrently; *)
(* a cancellation withdraws the open offers.  Offers and the claim live in *)
(* Redis, the store a deployment with REDIS_URL uses, where nothing but    *)
(* the claim script and one SET is atomic.                                 *)
(*                                                                         *)
(* Whether a driver can be reserved is decided elsewhere (DriverStatus);   *)
(* here Reserve succeeds or fails.  A move of the trip is atomic: it is    *)
(* the Save that passed its version check in TripService.                  *)
(***************************************************************************)
EXTENDS TripStates, Naturals, FiniteSets

CONSTANTS
  Drivers,
  Calls,       \* Accept requests and withdrawals in flight
  Loops,       \* dispatch goroutines: deliveries of trip.requested
  MaxRounds,
  BatchSize,   \* offers sent in one round
  MaxLapses,   \* bound: how many times the claim's TTL runs out
  NoDriver, NoCall, NoOffer

ASSUME MatchingAssumption ==
  /\ MaxRounds \in Nat \ {0}
  /\ BatchSize \in Nat
  /\ MaxLapses \in Nat
  /\ NoDriver \notin Drivers

VARIABLES
  trip,        \* status and driver of the trip
  offers,      \* offer:{id}
  claim,       \* claim:{trip}, NoDriver when the key does not exist
  lapses,      \* how many times the claim has run out
  loops,       \* loop -> where its goroutine stands
  calls,       \* requests between two of their steps
  due          \* trip.cancelled still has to be handled by offer-withdraw

vars == <<trip, offers, claim, lapses, loops, calls, due>>

-------------------------------------------------------------------------------
OfferStatus == {"PENDING", "ACCEPTED", "REJECTED", "EXPIRED", "LOST"}
NONE        == "NONE"          \* not sent

Rounds == 0 .. MaxRounds - 1

\* A loop sends a driver at most one offer a round.
Offer == [loop : Loops, round : Rounds, driver : Drivers]

Loop == [step : {"idle", "look", "save", "wait", "expire", "done", "dead"},
         round : Rounds]

\* `to' is what the call is going to write, `left' the offers a withdrawal has
\* yet to visit, `seen' the one it has read as PENDING and not yet written.
Call == [ step  : {"claim", "reserve", "assign", "mark", "withdraw"},
          offer : Offer \cup {NoOffer},
          to    : OfferStatus,
          left  : SUBSET Offer,
          seen  : Offer \cup {NoOffer} ]

Init ==
  /\ trip   = [status |-> SEARCHING, driver |-> NoDriver]
  /\ offers = [o \in Offer |-> NONE]
  /\ claim  = NoDriver
  /\ lapses = 0
  /\ loops  = [l \in Loops |-> [step |-> "idle", round |-> 0]]
  /\ calls  = [c \in Calls |-> NoCall]
  /\ due    = FALSE

Searching == trip.status = SEARCHING

-------------------------------------------------------------------------------
(* Dispatch and DispatchRound.                                             *)

Goto(l, step) == loops' = [loops EXCEPT ![l].step = step]

\* onTripRequested starts a goroutine for every delivery of the message.
Deliver(l) ==
  /\ loops[l].step = "idle"
  /\ Goto(l, "look")
  /\ UNCHANGED <<trip, offers, claim, lapses, calls, due>>

\* DispatchRound reads the trip; a trip that is taken gets no offers.
Look(l) ==
  /\ loops[l].step = "look"
  /\ Goto(l, IF Searching THEN "save" ELSE "wait")
  /\ UNCHANGED <<trip, offers, claim, lapses, calls, due>>

\* SaveOffers, for whichever drivers came out of candidates and rank first.
SaveOffers(l) ==
  /\ loops[l].step = "save"
  /\ \E chosen \in SUBSET Drivers :
       /\ Cardinality(chosen) <= BatchSize
       /\ offers' = [o \in Offer |->
            IF o.loop = l /\ o.round = loops[l].round /\ o.driver \in chosen
            THEN "PENDING" ELSE offers[o]]
  /\ Goto(l, "wait")
  /\ UNCHANGED <<trip, claim, lapses, calls, due>>

\* Mutant: "round <= cfg.MaxRounds".
WakeOneRoundMore(l) ==
  /\ loops[l].step = "wait"
  /\ \/ ~Searching /\ Goto(l, "done")
     \/ /\ Searching
        /\ loops[l].round < MaxRounds
        /\ loops' = [loops EXCEPT ![l] = [step |-> "look", round |-> @.round + 1]]
     \/ Searching /\ loops[l].round = MaxRounds /\ Goto(l, "expire")
  /\ UNCHANGED <<trip, offers, claim, lapses, calls, due>>

\* Mutant: the loop returns after its last round without expiring the trip.
WakeAndLeave(l) ==
  /\ loops[l].step = "wait"
  /\ \/ /\ Searching
        /\ loops[l].round + 1 < MaxRounds
        /\ loops' = [loops EXCEPT ![l] = [step |-> "look", round |-> @.round + 1]]
     \/ ~Searching /\ Goto(l, "done")
     \/ loops[l].round + 1 = MaxRounds /\ Goto(l, "done")
  /\ UNCHANGED <<trip, offers, claim, lapses, calls, due>>

\* OfferTTL (or EmptyRoundWait) is over: read the trip again.
Wake(l) ==
  /\ loops[l].step = "wait"
  /\ \/ ~Searching /\ Goto(l, "done")
     \/ /\ Searching
        /\ loops[l].round + 1 < MaxRounds
        /\ loops' = [loops EXCEPT ![l] = [step |-> "look", round |-> @.round + 1]]
     \/ Searching /\ loops[l].round + 1 = MaxRounds /\ Goto(l, "expire")
  /\ UNCHANGED <<trip, offers, claim, lapses, calls, due>>

\* Expire refuses a trip that is no longer SEARCHING; the goroutine ends.
Expire(l) ==
  /\ loops[l].step = "expire"
  /\ trip' = IF Searching THEN [trip EXCEPT !.status = EXPIRED] ELSE trip
  /\ Goto(l, "done")
  /\ UNCHANGED <<offers, claim, lapses, calls, due>>

Running(l) == loops[l].step \notin {"idle", "done", "dead"}

\* A panic: safego.Recover runs the cleanup, which expires the trip.
Panic(l) ==
  /\ Running(l)
  /\ Goto(l, "expire")
  /\ UNCHANGED <<trip, offers, claim, lapses, calls, due>>

\* The process stops, or a step returns an error: nobody resumes the loop, its
\* message was acknowledged when the goroutine started.
Die(l) ==
  /\ Running(l)
  /\ Goto(l, "dead")
  /\ UNCHANGED <<trip, offers, claim, lapses, calls, due>>

-------------------------------------------------------------------------------
(* Accept, one step per read or write of shared state.                     *)

\* The loop that sent the offer has waited OfferTTL since.
PastTTL(o) ==
  \/ loops[o.loop].round > o.round
  \/ loops[o.loop].step \in {"expire", "done"}

Put(c, r) == calls' = [calls EXCEPT ![c] = r]

NewCall(step, o, to, left) ==
  [step |-> step, offer |-> o, to |-> to, left |-> left, seen |-> NoOffer]

\* GetOffer and the checks.  While the loop waits the offer may have expired
\* already (ExpiresAt counts from before SaveOffers); afterwards it has.
Accept(c, o) ==
  /\ calls[c] = NoCall
  /\ offers[o] = "PENDING"
  /\ \/ ~PastTTL(o) /\ Put(c, NewCall("claim", o, "PENDING", {}))
     \/ Put(c, NewCall("mark", o, "EXPIRED", {}))
  /\ UNCHANGED <<trip, offers, claim, lapses, loops, due>>

\* Mutant: the script forgets to compare the owner.
ClaimTripTaken(c) ==
  /\ calls[c] # NoCall
  /\ calls[c].step = "claim"
  /\ claim' = calls[c].offer.driver
  /\ Put(c, [calls[c] EXCEPT !.step = "reserve"])
  /\ UNCHANGED <<trip, offers, lapses, loops, due>>

\* claimScript: free, or already this driver's; otherwise the offer is LOST.
ClaimTrip(c) ==
  LET d == calls[c].offer.driver
  IN  /\ calls[c] # NoCall
      /\ calls[c].step = "claim"
      /\ \/ /\ claim \in {NoDriver, d}
            /\ claim' = d
            /\ Put(c, [calls[c] EXCEPT !.step = "reserve"])
         \/ /\ claim \notin {NoDriver, d}
            /\ Put(c, [calls[c] EXCEPT !.step = "mark", !.to = "LOST"])
            /\ UNCHANGED claim
      /\ UNCHANGED <<trip, offers, lapses, loops, due>>

\* The key's 30 seconds run out.
ClaimLapses ==
  /\ claim # NoDriver
  /\ lapses < MaxLapses
  /\ claim' = NoDriver
  /\ lapses' = lapses + 1
  /\ UNCHANGED <<trip, offers, loops, calls, due>>

\* A failed Reserve rejects the offer and leaves the claim where it is.
Reserve(c) ==
  /\ calls[c] # NoCall
  /\ calls[c].step = "reserve"
  /\ \/ Put(c, [calls[c] EXCEPT !.step = "assign"])
     \/ Put(c, [calls[c] EXCEPT !.step = "mark", !.to = "REJECTED"])
  /\ UNCHANGED <<trip, offers, claim, lapses, loops, due>>

\* Mutant: Assign without "t.Status != StatusSearching".
AssignAnyway(c) ==
  /\ calls[c] # NoCall
  /\ calls[c].step = "assign"
  /\ trip' = [status |-> ASSIGNED, driver |-> calls[c].offer.driver]
  /\ Put(c, [calls[c] EXCEPT !.step = "mark", !.to = "ACCEPTED"])
  /\ UNCHANGED <<offers, claim, lapses, loops, due>>

\* A refused Assign undoes the reservation and ends the request: Fail.
Assign(c) ==
  /\ calls[c] # NoCall
  /\ calls[c].step = "assign"
  /\ Searching
  /\ trip' = [status |-> ASSIGNED, driver |-> calls[c].offer.driver]
  /\ Put(c, [calls[c] EXCEPT !.step = "mark", !.to = "ACCEPTED"])
  /\ UNCHANGED <<offers, claim, lapses, loops, due>>

\* The offers a withdrawal has to visit: no offer becomes PENDING again.
Pending == {o \in Offer : offers[o] = "PENDING"}

\* UpdateStatus writes whatever the offer has become meanwhile; its error is
\* ignored.  Only the winner goes on, to withdraw the others.
Mark(c) ==
  LET r == calls[c]
  IN  /\ r # NoCall
      /\ r.step = "mark"
      /\ offers' \in {offers, [offers EXCEPT ![r.offer] = r.to]}
      /\ Put(c, IF r.to = "ACCEPTED"
                THEN NewCall("withdraw", r.offer, "LOST", Pending \ {r.offer})
                ELSE NoCall)
      /\ UNCHANGED <<trip, claim, lapses, loops, due>>

\* Reject looks at the owner of the offer only, never at its status.
Reject(o) ==
  /\ offers[o] # NONE
  /\ offers' = [offers EXCEPT ![o] = "REJECTED"]
  /\ UNCHANGED <<trip, claim, lapses, loops, calls, due>>

-------------------------------------------------------------------------------
(* Withdrawal.  ExpireOffers reads and writes one offer after the other.   *)

\* onTripCancelledWithdraw; the message stays due until it is through.
WithdrawOffers(c) ==
  /\ calls[c] = NoCall
  /\ due
  /\ Put(c, NewCall("withdraw", NoOffer, "EXPIRED", Pending))
  /\ UNCHANGED <<trip, offers, claim, lapses, loops, due>>

\* ExpireOffers: GET one offer of the trip; only a PENDING one is to be written.
ExpireRead(c, o) ==
  LET r == calls[c]
  IN  /\ r # NoCall
      /\ r.step = "withdraw"
      /\ r.seen = NoOffer
      /\ o \in r.left
      /\ Put(c, [r EXCEPT !.left = @ \ {o},
                          !.seen = IF offers[o] = "PENDING" THEN o ELSE NoOffer])
      /\ UNCHANGED <<trip, offers, claim, lapses, loops, due>>

ExpireWrite(c) ==
  LET r == calls[c]
  IN  /\ r # NoCall
      /\ r.step = "withdraw"
      /\ r.seen # NoOffer
      /\ offers' = [offers EXCEPT ![r.seen] = r.to]
      /\ Put(c, [r EXCEPT !.seen = NoOffer])
      /\ UNCHANGED <<trip, claim, lapses, loops, due>>

Withdrawn(c) ==
  LET r == calls[c]
  IN  /\ r # NoCall
      /\ r.step = "withdraw"
      /\ r.left = {} /\ r.seen = NoOffer
      /\ due' = (due /\ r.offer # NoOffer)
      /\ Put(c, NoCall)
      /\ UNCHANGED <<trip, offers, claim, lapses, loops>>

\* An error answer, a crash, a client or a handler timeout.
Fail(c) ==
  /\ calls[c] # NoCall
  /\ Put(c, NoCall)
  /\ UNCHANGED <<trip, offers, claim, lapses, loops, due>>

\* Rider or driver, through the trip service.
Cancel ==
  /\ trip.status \in {SEARCHING, ASSIGNED}
  /\ trip' = [trip EXCEPT !.status = CANCELLED]
  /\ due' = TRUE
  /\ UNCHANGED <<offers, claim, lapses, loops, calls>>

-------------------------------------------------------------------------------
Dispatch(l) == Look(l) \/ SaveOffers(l) \/ Wake(l) \/ Expire(l)

Proceed(c) ==
  \/ ClaimTrip(c)
  \/ Reserve(c)
  \/ Assign(c)
  \/ Mark(c)
  \/ \E o \in Offer : ExpireRead(c, o)
  \/ ExpireWrite(c)
  \/ Withdrawn(c)

Next ==
  \/ \E l \in Loops : Deliver(l) \/ Dispatch(l) \/ Panic(l) \/ Die(l)
  \/ \E c \in Calls :
       \/ \E o \in Offer : Accept(c, o)
       \/ WithdrawOffers(c)
       \/ Proceed(c)
       \/ Fail(c)
  \/ \E o \in Offer : Reject(o)
  \/ ClaimLapses
  \/ Cancel

Spec == Init /\ [][Next]_vars

\* The broker hands out the message, and a running goroutine whose timers fire
\* takes its next step.  Nothing is assumed of drivers and riders.
Fairness ==
  /\ WF_vars((\A l \in Loops : loops[l].step = "idle") /\ \E l \in Loops : Deliver(l))
  /\ \A l \in Loops : WF_vars(Dispatch(l))

FairSpec == Spec /\ Fairness

-------------------------------------------------------------------------------
(* Properties.                                                             *)

\* The shape of the stores, the goroutines and the requests in flight.
TypeOK ==
  /\ trip \in [status : {SEARCHING, ASSIGNED, CANCELLED, EXPIRED},
               driver : Drivers \cup {NoDriver}]
  /\ offers \in [Offer -> OfferStatus \cup {NONE}]
  /\ claim \in Drivers \cup {NoDriver}
  /\ lapses \in 0 .. MaxLapses
  /\ loops \in [Loops -> Loop]
  /\ calls \in [Calls -> Call \cup {NoCall}]
  /\ due \in BOOLEAN

\* What the claim is for: as long as its TTL never ran out, drivers between
\* winning the claim and assigning the trip are one and the same driver.
Deciding(c) == calls[c] # NoCall /\ calls[c].step \in {"reserve", "assign"}
ClaimIsExclusive ==
  lapses = 0 =>
    \A b, c \in Calls : Deciding(b) /\ Deciding(c) =>
      calls[b].offer.driver = calls[c].offer.driver

\* Queries #3 and #5 of the operations guide, with no unique index to help: at
\* most one offer is ACCEPTED, and it is the one of the driver the trip went
\* to -- even when claims lapse and withdrawals, rejections and a second
\* dispatch loop write the same offers.
AcceptedIsTripDriver ==
  \A o, p \in Offer :
    /\ offers[o] = "ACCEPTED" => trip.driver = o.driver
    /\ offers[o] = "ACCEPTED" /\ offers[p] = "ACCEPTED" => o = p

\* A search comes to an end whatever drivers and riders do, unless every
\* goroutine that worked on it was killed.
SearchEnds ==
  Searching ~> \/ ~Searching
               \/ \A l \in Loops : loops[l].step \in {"idle", "dead"}
=============================================================================
