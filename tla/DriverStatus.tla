---------------------------- MODULE DriverStatus ----------------------------
(***************************************************************************)
(* What keeps drivers.status in step with the trips: Reserve and its undo  *)
(* inside matching.Accept, the consumers of trip.assigned, trip.started,   *)
(* trip.completed and trip.cancelled (internal/app/workers.go) on a broker *)
(* that delivers at least once, and the driver going on- and offline.      *)
(*                                                                         *)
(* A move of a trip is atomic: it is the Save that passed its version      *)
(* check (TripService).  A write to drivers.status is a compare-and-swap   *)
(* on the version; one that reads and swaps in the same function is the    *)
(* atomic step of the swap that succeeded.                                 *)
(***************************************************************************)
EXTENDS TripStates, Naturals

CONSTANTS
  Trips, Drivers, NoDriver,
  MaxDeliver,    \* deliveries after which the broker gives a message up
  MaxFaults      \* bound: crashes, errors, lost acknowledgements, accepts of
                 \* a trip that is gone, papers that run out or are edited

ASSUME DriverStatusAssumption ==
  /\ MaxDeliver \in Nat \ {0}
  /\ MaxFaults \in Nat
  /\ NoDriver \notin Drivers

VARIABLES
  trips,      \* trip -> its status and driver
  drivers,    \* driver -> drivers.status
  papers,     \* driver -> the papers are approved (KYC) and not out of date
  online,     \* driver -> a request to go online has made its checks, and
              \* the row has not been written since
  accepts,    \* <<trip, driver>> -> where Accept stands after Reserve
  inbox,      \* message -> where its consumer stands
  faults

driver == <<drivers, papers, online>>     \* the driver's row and request

vars == <<trips, driver, accepts, inbox, faults>>

-------------------------------------------------------------------------------
OFFLINE == "OFFLINE"
IDLE    == "IDLE"
BUSY    == "ASSIGNED"      \* driver.StatusAssigned
ON_TRIP == "ON_TRIP"

DriverStates == {"OFFLINE", "IDLE", "ASSIGNED", "ON_TRIP"}

Topics   == {"assigned", "started", "completed", "cancelled"}
Messages == Trips \X Topics

\* "ready": (re)delivered; "sync": the handler is about to read the trip;
\* "write": it has, and `want' is the status it will set; "done": acknowledged;
\* "dead": given up.  `tries' counts the deliveries that failed.
Consumer == [step  : {"unsent", "ready", "sync", "write", "done", "dead"},
             want  : DriverStates,
             tries : 0 .. MaxDeliver]

Init ==
  /\ trips    = [t \in Trips |-> [status |-> SEARCHING, driver |-> NoDriver]]
  /\ drivers  = [d \in Drivers |-> IDLE]
  /\ papers   = [d \in Drivers |-> TRUE]
  /\ online   = [d \in Drivers |-> FALSE]
  /\ accepts  = [a \in Trips \X Drivers |-> "none"]
  /\ inbox    = [m \in Messages |-> [step |-> "unsent", want |-> IDLE, tries |-> 0]]
  /\ faults   = 0

\* A compare-and-swap that succeeded: it bumps the version, so a request to go
\* online that read the row before will fail.
SetStatus(d, s) ==
  /\ drivers' = [drivers EXCEPT ![d] = s]
  /\ online'  = [online EXCEPT ![d] = FALSE]
  /\ UNCHANGED papers

Send(t, topic) == inbox' = [inbox EXCEPT ![<<t, topic>>].step = "ready"]

Fault ==
  /\ faults < MaxFaults
  /\ faults' = faults + 1

-------------------------------------------------------------------------------
(* matching.Accept from Reserve on.                                        *)

Accepting(t, d, step) == accepts' = [accepts EXCEPT ![<<t, d>>] = step]

\* The driver holds an offer for the trip and has won the claim.  Nothing tells
\* whether the trip still wants a driver: Assign will.  (Reserving for a trip
\* that is gone counts as a fault to bound how often it happens.)  A driver in
\* debt is refused like one who has no offer: the step is not taken.
Reserve(t, d) ==
  /\ accepts[t, d] = "none"
  /\ IF trips[t].status = SEARCHING THEN UNCHANGED faults ELSE Fault
  /\ drivers[d] = IDLE
  /\ papers[d]
  /\ SetStatus(d, BUSY)
  /\ Accepting(t, d, "reserved")
  /\ UNCHANGED <<trips, inbox>>

\* Mutant: the index leaves the drivers out who wait at the pickup.
IndexWithoutArrived(t, d) ==
  \A u \in Trips \ {t} :
    ~(trips[u].driver = d /\ trips[u].status \in ActiveIndex \ {ARRIVED})

\* trips_one_active_per_driver.
IndexAllows(t, d) ==
  \A u \in Trips \ {t} :
    ~(trips[u].driver = d /\ trips[u].status \in ActiveIndex)

Assign(t, d) ==
  /\ accepts[t, d] = "reserved"
  /\ trips[t].status = SEARCHING
  /\ IndexAllows(t, d)
  /\ trips' = [trips EXCEPT ![t] = [status |-> ASSIGNED, driver |-> d]]
  /\ Send(t, "assigned")
  /\ Accepting(t, d, "none")
  /\ UNCHANGED <<driver, faults>>

AssignFails(t, d) ==
  /\ accepts[t, d] = "reserved"
  /\ \/ /\ trips[t].status # SEARCHING \/ ~IndexAllows(t, d)
        /\ UNCHANGED faults
     \/ Fault
  /\ Accepting(t, d, "undo")
  /\ UNCHANGED <<trips, driver, inbox>>

\* Accept puts the driver back to IDLE without looking at the status.
Undo(t, d) ==
  /\ accepts[t, d] = "undo"
  /\ SetStatus(d, IDLE)
  /\ Accepting(t, d, "none")
  /\ UNCHANGED <<trips, inbox, faults>>

\* The process stops inside Accept, or the undo fails and its error is dropped.
AcceptDies(t, d) ==
  /\ accepts[t, d] # "none"
  /\ Fault
  /\ Accepting(t, d, "none")
  /\ UNCHANGED <<trips, driver, inbox>>

-------------------------------------------------------------------------------
(* The trip goes on.                                                       *)

Move(t, to) ==
  /\ CanTransition(trips[t].status, to)
  /\ trips' = [trips EXCEPT ![t].status = to]
  /\ UNCHANGED <<driver, accepts, faults>>

\* Of these moves, no consumer that concerns the driver hears.
MarkArrived(t) == Move(t, ARRIVED) /\ UNCHANGED inbox
Expire(t)      == Move(t, EXPIRED) /\ UNCHANGED inbox

Start(t)    == Move(t, IN_PROGRESS) /\ Send(t, "started")
Complete(t) == Move(t, COMPLETED) /\ Send(t, "completed")

\* onTripCancelled has nothing to do for a trip without a driver.
Cancel(t) ==
  /\ Move(t, CANCELLED)
  /\ IF trips[t].driver = NoDriver THEN UNCHANGED inbox ELSE Send(t, "cancelled")

-------------------------------------------------------------------------------
(* The consumers.                                                          *)

driverStatusFor(s) ==
  CASE s \in {ASSIGNED, ARRIVED} -> BUSY
    [] s = IN_PROGRESS -> ON_TRIP
    [] OTHER -> IDLE

Step(m, step) == inbox' = [inbox EXCEPT ![m].step = step]

\* Mutant: one delivery too many.
NakOnceMore(m) ==
  inbox' = [inbox EXCEPT ![m] =
    [ step  |-> IF @.tries < MaxDeliver THEN "ready" ELSE "dead",
      want  |-> IDLE,
      tries |-> @.tries + 1 ]]

\* The broker redelivers, until MaxDeliver deliveries have failed.
Nak(m) ==
  inbox' = [inbox EXCEPT ![m] =
    [ step  |-> IF @.tries + 1 < MaxDeliver THEN "ready" ELSE "dead",
      want  |-> IDLE,
      tries |-> @.tries + 1 ]]

\* onTripCompleted: the ledger (idempotent), then MarkPaid, an error of which
\* ends the delivery.  The statistics come next and leave the status alone.
Settle(t) ==
  /\ inbox[t, "completed"].step = "ready"
  /\ \/ /\ CanTransition(trips[t].status, PAID)
        /\ trips' = [trips EXCEPT ![t].status = PAID]
        /\ Step(<<t, "completed">>, "sync")
     \/ /\ ~CanTransition(trips[t].status, PAID)
        /\ UNCHANGED trips
        /\ Nak(<<t, "completed">>)
  /\ UNCHANGED <<driver, accepts, faults>>

\* syncDriverStatus, first half: read the trip, derive what the driver must be.
ReadTrip(t, topic) ==
  /\ inbox[t, topic].step = IF topic = "completed" THEN "sync" ELSE "ready"
  /\ inbox' = [inbox EXCEPT ![<<t, topic>>].step = "write",
                            ![<<t, topic>>].want = driverStatusFor(trips[t].status)]
  /\ UNCHANGED <<trips, driver, accepts, faults>>

\* An error of that read is not the handler's: it acknowledges the message as if
\* the trip had no driver, and the sync is lost.
TripUnreadable(t, topic) ==
  /\ inbox[t, topic].step = IF topic = "completed" THEN "sync" ELSE "ready"
  /\ Fault
  /\ Step(<<t, topic>>, "done")
  /\ UNCHANGED <<trips, driver, accepts>>

\* Second half: read the driver and set the status unless it is right already.
WriteStatus(t, topic) ==
  LET d    == trips[t].driver
      want == inbox[t, topic].want
  IN  /\ inbox[t, topic].step = "write"
      /\ IF drivers[d] = want THEN UNCHANGED <<driver>>
                              ELSE SetStatus(d, want)
      /\ inbox' = [inbox EXCEPT ![<<t, topic>>].step = "done", ![<<t, topic>>].want = IDLE]
      /\ UNCHANGED <<trips, accepts, faults>>

\* A delivery does not come to its end, or its acknowledgement is lost.
HandlerFails(m) ==
  /\ inbox[m].step \in {"ready", "sync", "write", "done"}
  /\ Fault
  /\ Nak(m)
  /\ UNCHANGED <<trips, driver, accepts>>

-------------------------------------------------------------------------------
(* The driver.                                                             *)

HasActiveTrip(d) ==
  \E t \in Trips : trips[t].driver = d /\ trips[t].status \in Unfinished

\* Mutant: the way out is only opened for ON_TRIP.
PressOnlineOnTrip(d) ==
  /\ ~online[d]
  /\ papers[d]
  /\ \/ drivers[d] = OFFLINE
     \/ drivers[d] = ON_TRIP /\ ~HasActiveTrip(d)
  /\ online' = [online EXCEPT ![d] = TRUE]
  /\ UNCHANGED <<trips, drivers, papers, accepts, inbox, faults>>

\* GoOnline up to its swap: it reads the row, goes no further for papers that
\* are not in order nor for IDLE, and asks for the trips of a driver who is
\* ASSIGNED or ON_TRIP: the way out for one who has none.  (Row and trips are
\* read in one step: if the row is written between them, the swap fails.)
PressOnline(d) ==
  /\ ~online[d]
  /\ papers[d]
  /\ \/ drivers[d] = OFFLINE
     \/ drivers[d] \in {BUSY, ON_TRIP} /\ ~HasActiveTrip(d)
  /\ online' = [online EXCEPT ![d] = TRUE]
  /\ UNCHANGED <<trips, drivers, papers, accepts, inbox, faults>>

\* The swap, on the version that was read.
Resume(d) ==
  /\ online[d]
  /\ SetStatus(d, IDLE)
  /\ UNCHANGED <<trips, accepts, inbox, faults>>

\* A read or the swap fails: the driver must ask again.
RequestFails(d) ==
  /\ online[d]
  /\ Fault
  /\ online' = [online EXCEPT ![d] = FALSE]
  /\ UNCHANGED <<trips, drivers, papers, accepts, inbox>>

GoOffline(d) ==
  /\ drivers[d] = IDLE
  /\ SetStatus(d, OFFLINE)
  /\ UNCHANGED <<trips, accepts, inbox, faults>>

\* A paper's date passes: nothing writes the row.
ExpirePapers(d) ==
  /\ papers[d]
  /\ Fault
  /\ papers' = [papers EXCEPT ![d] = FALSE]
  /\ UNCHANGED <<trips, drivers, online, accepts, inbox>>

\* ReviewKYC or UpdateDocumentDates: the papers are in order now or are not,
\* and the version goes up, whichever version was read.
EditProfile(d) ==
  /\ Fault
  /\ \E ok \in BOOLEAN : papers' = [papers EXCEPT ![d] = ok]
  /\ online' = [online EXCEPT ![d] = FALSE]
  /\ UNCHANGED <<trips, drivers, accepts, inbox>>

-------------------------------------------------------------------------------
Consume(t, topic) ==
  \/ topic = "completed" /\ Settle(t)
  \/ ReadTrip(t, topic)
  \/ WriteStatus(t, topic)

FinishAccept(t, d) == Assign(t, d) \/ AssignFails(t, d) \/ Undo(t, d)

Next ==
  \/ \E t \in Trips :
       \/ \E d \in Drivers : Reserve(t, d) \/ FinishAccept(t, d) \/ AcceptDies(t, d)
       \/ MarkArrived(t) \/ Expire(t) \/ Start(t) \/ Complete(t) \/ Cancel(t)
       \/ \E topic \in Topics :
            Consume(t, topic) \/ TripUnreadable(t, topic) \/ HandlerFails(<<t, topic>>)
  \/ \E d \in Drivers :
       \/ PressOnline(d) \/ Resume(d) \/ RequestFails(d)
       \/ GoOffline(d) \/ ExpirePapers(d) \/ EditProfile(d)

Spec == Init /\ [][Next]_vars

Stuck(d) == drivers[d] \in {BUSY, ON_TRIP} /\ ~HasActiveTrip(d)

\* Deliveries and requests do not stay where they are for ever, and a driver
\* who cannot work keeps pressing "go online".  Fairness of each consumer is not
\* needed: every step of one brings all of them closer to their end.
Fairness ==
  /\ WF_vars(\E t \in Trips, topic \in Topics : Consume(t, topic))
  /\ WF_vars(\E t \in Trips, d \in Drivers : FinishAccept(t, d))
  /\ \A d \in Drivers : 
       WF_vars((Stuck(d) /\ PressOnline(d)) \/ Resume(d))

FairSpec == Spec /\ Fairness

-------------------------------------------------------------------------------
(* Properties.                                                             *)

\* The shape of the tables and of the consumers.
TypeOK ==
  /\ trips \in [Trips -> [status : Status, driver : Drivers \cup {NoDriver}]]
  /\ drivers \in [Drivers -> DriverStates]
  /\ papers \in [Drivers -> BOOLEAN]
  /\ online \in [Drivers -> BOOLEAN]
  /\ accepts \in [Trips \X Drivers -> {"none", "reserved", "undo"}]
  /\ inbox \in [Messages -> Consumer]
  /\ faults \in 0 .. MaxFaults

\* A driver is never on two trips, however often a late sync, an undo or a
\* request to go online frees one who is reserved or under way (driver.Reserve's
\* swap alone does not see to it).
OneTripPerDriver ==
  \A t, u \in Trips :
    t # u /\ {trips[t].status, trips[u].status} \subseteq ActiveIndex
      => trips[t].driver # trips[u].driver

\* No sequence of races, faults and lost syncs locks a driver out for good: one
\* who is ASSIGNED or ON_TRIP with no unfinished trip gets out by pressing "go
\* online", as long as the papers are in order.
StuckDriverRecovers ==
  \A d \in Drivers : Stuck(d) /\ papers[d] ~> ~Stuck(d) \/ ~papers[d]
=============================================================================
