-------------------------------- MODULE Tracking --------------------------------
(***************************************************************************)
(* The rider sees the driver come (location.MovementSink, app/realtime.go: *)
(* DriverMoved): every position of a driver who is assigned or on a trip   *)
(* asks again which trip that is, and goes to that trip's rider.  One      *)
(* driver, one trip after the other; his positions come late, twice and    *)
(* out of order, and several handlers work on them at once.                *)
(***************************************************************************)
EXTENDS Integers, FiniteSetsExt

CONSTANTS
  Rides,         \* trips, numbered in the order of requested_at
  Handlers,
  Positions      \* how many the device measures

VARIABLES
  rides,         \* trip -> its status; "SEARCHING" until this driver takes it
  busy,          \* the driver's status is ASSIGNED or ON_TRIP
  measured,      \* the positions so far, numbered
  letOut,        \* trip -> the positions measured before the rider was let out, or -1
  flying,        \* positions between the device and the handlers
  handlers,      \* handler -> [step, at, trip]; .trip is what it last found
  shown          \* [trip, at]: what was last sent, and to which trip's rider

trackingVars == <<rides, busy, measured, letOut, flying, handlers, shown>>

TrackingInit ==
  /\ rides = [t \in Rides |-> "SEARCHING"]
  /\ busy = FALSE
  /\ measured = 0 /\ letOut = [t \in Rides |-> -1]
  /\ flying = {} /\ shown = [trip |-> 0, at |-> 0]
  /\ handlers = [h \in Handlers |-> [step |-> "rest", at |-> 0, trip |-> 0]]

-------------------------------------------------------------------------------
(* The trip, as far as its driver goes; TripService has all of it.         *)

Riding == {t \in Rides : rides[t] \in {"ASSIGNED", "ARRIVED", "IN_PROGRESS"}}
Unpaid == {t \in Rides : rides[t] = "COMPLETED"}

\* ActiveByDriver and noneIfNotFound: the last that was requested; 0 is none.
CurrentForDriver ==
  IF Riding \cup Unpaid = {} THEN 0 ELSE Max(Riding \cup Unpaid)

\* Reserve, then Assign.  A search is over before a ride requested after it is.
Assign(t) ==
  /\ ~busy /\ rides[t] = "SEARCHING"
  /\ \A u \in Rides : u > t => rides[u] = "SEARCHING"
  /\ busy' = TRUE
  /\ rides' = [rides EXCEPT ![t] = "ASSIGNED"]
  /\ UNCHANGED <<measured, letOut, flying, handlers, shown>>

After(status) ==
  CASE status = "ASSIGNED" -> {"ARRIVED", "CANCELLED"}
    [] status = "ARRIVED" -> {"IN_PROGRESS", "CANCELLED"}
    [] status = "IN_PROGRESS" -> {"COMPLETED"}
    [] status = "COMPLETED" -> {"PAID"}
    [] OTHER -> {}

\* MarkArrived, Start, Complete, Cancel, MarkPaid.
Go(t) ==
  /\ \E to \in After(rides[t]) :
       /\ rides' = [rides EXCEPT ![t] = to]
       /\ letOut' = IF to \in {"COMPLETED", "CANCELLED"}
                   THEN [letOut EXCEPT ![t] = measured] ELSE letOut
  /\ UNCHANGED <<busy, measured, flying, handlers, shown>>

\* syncDriverStatus, some time after the trip ended.
SyncDriver ==
  /\ busy /\ Riding = {}
  /\ busy' = FALSE
  /\ UNCHANGED <<rides, measured, letOut, flying, handlers, shown>>

-------------------------------------------------------------------------------
Measure ==
  /\ measured < Positions
  /\ measured' = measured + 1
  /\ flying' = flying \cup {measured + 1}
  /\ UNCHANGED <<rides, busy, letOut, handlers, shown>>

\* Ingest, with what it tells the sink; QoS 1 may bring a position again.
Ingest(h, at) ==
  /\ handlers[h].step = "rest" /\ at \in flying
  /\ flying' \in {flying, flying \ {at}}
  /\ handlers' = [handlers EXCEPT ![h].step = IF busy THEN "look" ELSE "rest", ![h].at = at]
  /\ UNCHANGED <<rides, busy, measured, letOut, shown>>

\* Mutant: a handler that knows a trip does not ask again.
LookRemembered(h) ==
  LET trip == IF handlers[h].trip = 0 THEN CurrentForDriver ELSE handlers[h].trip
  IN  /\ handlers[h].step = "look"
      /\ handlers' = [handlers EXCEPT ![h].trip = trip,
           ![h].step = IF trip # 0 THEN "push" ELSE "rest"]
      /\ UNCHANGED <<rides, busy, measured, letOut, flying, shown>>

\* CurrentForDriver and the switch over its status; an error shows nothing.
Look(h) ==
  /\ handlers[h].step = "look"
  /\ \/ handlers' = [handlers EXCEPT ![h].trip = CurrentForDriver,
          ![h].step = IF CurrentForDriver \in Riding THEN "push" ELSE "rest"]
     \/ handlers' = [handlers EXCEPT ![h].step = "rest"]
  /\ UNCHANGED <<rides, busy, measured, letOut, flying, shown>>

\* QoS 0: it may be lost.
Push(h) ==
  /\ handlers[h].step = "push"
  /\ shown' \in {shown, [trip |-> handlers[h].trip, at |-> handlers[h].at]}
  /\ handlers' = [handlers EXCEPT ![h].step = "rest"]
  /\ UNCHANGED <<rides, busy, measured, letOut, flying>>

TrackingNext ==
  \/ \E t \in Rides : Assign(t) \/ Go(t)
  \/ SyncDriver \/ Measure
  \/ \E h \in Handlers :
       \/ \E at \in flying : Ingest(h, at)
       \/ Look(h) \/ Push(h)

TrackingSpec == TrackingInit /\ [][TrackingNext]_trackingVars

-------------------------------------------------------------------------------
\* A rider never sees where the driver went after letting him out, and the rider
\* who waits or rides is the one who is looked up, though an earlier trip is not
\* paid yet (realtime.go: DriverMoved; store_postgres.go: ActiveByDriver).
OnlyOwnRider ==
  /\ shown.trip # 0 /\ letOut[shown.trip] >= 0 => shown.at <= letOut[shown.trip]
  /\ Riding # {} => Riding = {CurrentForDriver}
===============================================================================
