--------------------------------- MODULE Booking ---------------------------------
(***************************************************************************)
(* Booking a trip under one Idempotency-Key (pkg/idem, trip.Service.       *)
(* Create): the app repeats a request whose answer it did not get, and     *)
(* several copies of it run at the same time, on several pods.             *)
(***************************************************************************)
EXTENDS Naturals

CONSTANTS
  Copies,        \* of the request
  MaxLives,      \* how often the key begins anew after 24 hours
  BookingFaults, \* statements and calls that fail
  MaxLost        \* failures where the work was done and the reply was lost

VARIABLES
  store,     \* "memory" (one process) or "redis"
  slot,      \* "none", "held", or the copy whose trip is the stored answer
  life,      \* of the key
  copies,    \* copy -> [step, saw, life, answer]
  trips,     \* trips of this key: [of, life, status]
  bookingFaults, lost

bookingVars == <<store, slot, life, copies, trips, bookingFaults, lost>>

Idle == [step |-> "new", life |-> 0, answer |-> "none"]

BookingInit ==
  /\ store \in {"memory", "redis"}
  /\ slot = "none" /\ life = 1
  /\ copies = [c \in Copies |-> Idle]
  /\ trips = {}
  /\ bookingFaults = 0 /\ lost = 0

Go(c, step) == copies' = [copies EXCEPT ![c].step = step]
Say(c, answer) == copies' = [copies EXCEPT ![c].step = "end", ![c].answer = answer]
In(c, step) == copies[c].step = step
Begun(c) == In(c, "new")
Running(c) == copies[c].step \notin {"new", "end", "dead"}

Fine == UNCHANGED <<bookingFaults, lost>>
Fail == bookingFaults < BookingFaults /\ bookingFaults' = bookingFaults + 1 /\ UNCHANGED lost
Lose == lost < MaxLost /\ lost' = lost + 1 /\ UNCHANGED bookingFaults

-------------------------------------------------------------------------------
(* Reserve.                                                                *)

\* Whoever finds the slot empty has it.
Take(c, otherwise) ==
  copies' = [copies EXCEPT ![c].life = life,
                           ![c].step = IF slot = "none" THEN "owner" ELSE otherwise]

\* SET NX; in memory the answer is read under the same lock.
Reserve(c) ==
  /\ Begun(c)
  /\ \/ /\ slot' = (IF slot = "none" THEN "held" ELSE slot)
        /\ Take(c, IF store = "redis" THEN "get" ELSE IF slot = "held" THEN "busy" ELSE "stored")
        /\ Fine
     \/ store = "redis" /\ Say(c, "error") /\ UNCHANGED slot /\ Fail
     \/ store = "redis" /\ Say(c, "error") /\ slot' = (IF slot = "none" THEN "held" ELSE slot) /\ Lose
  /\ UNCHANGED <<store, life, trips>>

\* GET: the holder may have finished or given up since.
GetSlot(c) ==
  /\ In(c, "get")
  /\ \/ /\ Go(c, IF slot = "none" THEN "again" ELSE IF slot = "held" THEN "busy" ELSE "stored")
        /\ Fine
     \/ Say(c, "error") /\ Fail
  /\ UNCHANGED <<store, slot, life, trips>>

\* The key had gone: one more SET NX.
ReserveAgain(c) ==
  /\ In(c, "again")
  /\ \/ slot' = (IF slot = "none" THEN "held" ELSE slot) /\ Take(c, "busy") /\ Fine
     \/ Say(c, "error") /\ UNCHANGED slot /\ Fail
     \/ Say(c, "error") /\ slot' = (IF slot = "none" THEN "held" ELSE slot) /\ Lose
  /\ UNCHANGED <<store, life, trips>>

\* Mutant: the deferred Release is set up before the key is known to be ours.
RequestInFlightReleases(c) ==
  /\ In(c, "busy")
  /\ Say(c, "in flight") /\ Fine
  /\ slot' = (IF slot = "held" THEN "none" ELSE slot)
  /\ UNCHANGED <<store, life, trips>>

\* request_in_flight; this copy does not own the key and does not release it.
RequestInFlight(c) ==
  /\ In(c, "busy")
  /\ Say(c, "in flight") /\ Fine
  /\ UNCHANGED <<store, slot, life, trips>>

\* The answer that was stored names the trip; it is read from the repository.
AnswerStored(c) ==
  /\ In(c, "stored")
  /\ \/ Say(c, slot) /\ Fine
     \/ Say(c, "error") /\ Fail
  /\ UNCHANGED <<store, slot, life, trips>>

-------------------------------------------------------------------------------
(* The owner of the key.                                                   *)

\* The quote has run out, or the wallet is short, or a read fails.
Look(c) ==
  /\ In(c, "owner")
  /\ \/ Go(c, "bookable") /\ Fine
     \/ Go(c, "release") /\ Fine
     \/ Go(c, "release") /\ Fail
  /\ UNCHANGED <<store, slot, life, trips>>

Trip(c, status) == [of |-> c, life |-> copies[c].life, status |-> status]

\* repo.Create.
CreateTrip(c) ==
  /\ In(c, "bookable")
  /\ \/ trips' = trips \cup {Trip(c, "CREATED")} /\ Go(c, "created") /\ Fine
     \/ UNCHANGED trips /\ Go(c, "release") /\ Fail
     \/ trips' = trips \cup {Trip(c, "CREATED")} /\ Go(c, "release") /\ Lose
  /\ UNCHANGED <<store, slot, life>>

\* apply: the trip is searching and trip.requested is in the outbox.
Searching(c) == (trips \ {Trip(c, "CREATED")}) \cup {Trip(c, "SEARCHING")}

Search(c) ==
  /\ In(c, "created")
  /\ \/ trips' = Searching(c) /\ Go(c, "searching") /\ Fine
     \/ UNCHANGED trips /\ Go(c, "release") /\ Fail
     \/ trips' = Searching(c) /\ Go(c, "release") /\ Lose
  /\ UNCHANGED <<store, slot, life>>

\* Complete keeps the life of the key, and writes whatever is there; in memory
\* only a key that is there.  Its error is dropped.
Complete(c) ==
  /\ In(c, "searching")
  /\ Say(c, c)
  /\ \/ slot' = (IF store = "memory" /\ slot = "none" THEN slot ELSE c) /\ Fine
     \/ store = "redis" /\ UNCHANGED slot /\ Fail
  /\ UNCHANGED <<store, life, trips>>

\* The deferred Release after any error, only of a key without an answer.
Release(c) ==
  /\ In(c, "release")
  /\ Say(c, "error")
  /\ \/ slot' = (IF slot = "held" THEN "none" ELSE slot) /\ Fine
     \/ store = "redis" /\ UNCHANGED slot /\ Fail
  /\ UNCHANGED <<store, life, trips>>

-------------------------------------------------------------------------------
\* The pod of a copy dies; what it held in Redis stays.
Die(c) ==
  /\ store = "redis" /\ Running(c)
  /\ Go(c, "dead") /\ Fail
  /\ UNCHANGED <<store, slot, life, trips>>

\* After 24 hours, when no copy is still running, the key is forgotten (by its
\* life in Redis, by the sweep or the next Reserve in memory).
Expire ==
  /\ life < MaxLives /\ slot # "none"
  /\ \A c \in Copies : ~Running(c)
  /\ slot' = "none" /\ life' = life + 1
  /\ UNCHANGED <<store, copies, trips, bookingFaults, lost>>

BookingNext ==
  \/ \E c \in Copies :
       \/ Reserve(c) \/ GetSlot(c) \/ ReserveAgain(c)
       \/ RequestInFlight(c) \/ AnswerStored(c)
       \/ Look(c) \/ CreateTrip(c) \/ Search(c) \/ Complete(c) \/ Release(c) \/ Die(c)
  \/ Expire

BookingSpec == BookingInit /\ [][BookingNext]_bookingVars

-------------------------------------------------------------------------------
BookingTypeOK ==
  /\ slot \in Copies \cup {"none", "held"} /\ life \in 1 .. MaxLives
  /\ \A c \in Copies : copies[c].answer \in Copies \cup {"none", "error", "in flight"}
  /\ \A t \in trips : t.of \in Copies /\ t.status \in {"CREATED", "SEARCHING"}

Looked(l) == {t.of : t \in {u \in trips : u.life = l /\ u.status = "SEARCHING"}}

\* However the copies run into each other, fail, or die: while the key lives at
\* most one trip is looked for, and every copy that is told a trip is told that
\* one; unless the reply to a commit was lost (trip/service.go: Create).
OneTripPerKey ==
  lost = 0 => \A l \in 1 .. MaxLives :
    /\ \A c, d \in Looked(l) : c = d
    /\ \A c \in Copies : copies[c].life = l /\ copies[c].answer \in Copies
         => copies[c].answer \in Looked(l)
===============================================================================
