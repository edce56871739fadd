----------------------------- MODULE TripStates -----------------------------
(***************************************************************************)
(* The state machine of a trip: the table `transitions' of                 *)
(* internal/trip/domain.go, and the classifications of a status that other *)
(* components rely on (the partial unique index, ActiveByDriver, the       *)
(* driver status a trip calls for).                                        *)
(***************************************************************************)

CREATED     == "CREATED"
SEARCHING   == "SEARCHING"
ASSIGNED    == "ASSIGNED"
ARRIVED     == "ARRIVED"
IN_PROGRESS == "IN_PROGRESS"
COMPLETED   == "COMPLETED"
PAID        == "PAID"
CANCELLED   == "CANCELLED"
EXPIRED     == "EXPIRED"

\* No row with this id has been inserted yet.
ABSENT      == "ABSENT"

Status == { "CREATED", "SEARCHING", "ASSIGNED", "ARRIVED", "IN_PROGRESS",
            "COMPLETED", "PAID", "CANCELLED", "EXPIRED" }

transitions ==
  { <<"CREATED", "SEARCHING">>,    <<"CREATED", "CANCELLED">>,
    <<"SEARCHING", "ASSIGNED">>,   <<"SEARCHING", "CANCELLED">>,
    <<"SEARCHING", "EXPIRED">>,
    <<"ASSIGNED", "ARRIVED">>,     <<"ASSIGNED", "CANCELLED">>,
    <<"ARRIVED", "IN_PROGRESS">>,  <<"ARRIVED", "CANCELLED">>,
    <<"IN_PROGRESS", "COMPLETED">>,
    <<"COMPLETED", "PAID">> }

\* Mutant: a repeated Start is accepted.
CanRestart(from, to) ==
  <<from, to>> \in transitions \cup {<<"IN_PROGRESS", "IN_PROGRESS">>}

\* Mutant: a finished trip can still be cancelled.
CanCancelLate(from, to) ==
  <<from, to>> \in transitions \cup {<<"COMPLETED", "CANCELLED">>}

CanTransition(from, to) == <<from, to>> \in transitions

IsTerminal(s) == s \in Status /\ \A to \in Status : ~CanTransition(s, to)

\* The predicate of the partial unique index trips_one_active_per_driver.
ActiveIndex == { "ASSIGNED", "ARRIVED", "IN_PROGRESS" }

\* A trip CurrentForDriver and HasActiveTrip still report (ActiveByDriver).
Unfinished == ActiveIndex \cup { "COMPLETED" }
=============================================================================
