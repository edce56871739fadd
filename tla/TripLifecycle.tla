---------------------------- MODULE TripLifecycle ----------------------------
(***************************************************************************)
(* What the trip service promises, with no calls, versions or messages:    *)
(* every trip walks the state machine one edge at a time, gets its driver  *)
(* at the moment it becomes ASSIGNED, keeps that driver for ever, and no   *)
(* driver is on two live trips at once.                                    *)
(***************************************************************************)
EXTENDS TripStates

CONSTANTS Trips, Drivers, NoDriver

VARIABLES
  status,   \* trip -> its status, ABSENT before it is requested
  driver    \* trip -> the driver carrying it, NoDriver before ASSIGNED

vars == <<status, driver>>

Init ==
  /\ status = [t \in Trips |-> ABSENT]
  /\ driver = [t \in Trips |-> NoDriver]

Free(d) == \A t \in Trips : driver[t] = d => status[t] \notin ActiveIndex

Request(t) ==
  /\ status[t] = ABSENT
  /\ status' = [status EXCEPT ![t] = CREATED]
  /\ UNCHANGED driver

Match(t, d) ==
  /\ status[t] = SEARCHING
  /\ Free(d)
  /\ status' = [status EXCEPT ![t] = ASSIGNED]
  /\ driver' = [driver EXCEPT ![t] = d]

Move(t, to) ==
  /\ CanTransition(status[t], to)
  /\ to # ASSIGNED
  /\ status' = [status EXCEPT ![t] = to]
  /\ UNCHANGED driver

Next ==
  \E t \in Trips :
    \/ Request(t)
    \/ \E d \in Drivers : Match(t, d)
    \/ \E to \in Status : Move(t, to)

Spec == Init /\ [][Next]_vars
==============================================================================
