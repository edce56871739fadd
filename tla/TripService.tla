----------------------------- MODULE TripService -----------------------------
(***************************************************************************)
(* internal/trip: the trip service and its store, at the granularity at    *)
(* which concurrent requests interleave.  A request reads the trip (Get),  *)
(* decides, and writes it back (Save) in a second step guarded by the      *)
(* version it read.  Any number of other requests, from other processes    *)
(* too, run between the two.                                               *)
(*                                                                         *)
(* The store is PostgresRepo with the transactional outbox, the one a      *)
(* deployment runs on.                                                     *)
(***************************************************************************)
EXTENDS TripStates, Naturals, Sequences

CONSTANTS
  Trips,      \* trip ids
  Drivers,
  Calls,      \* requests that can be in flight at the same time
  Stars,      \* ratings a rider can give
  NoDriver, NoRating, NoCall

ASSUME NoneAssumption ==
  /\ NoDriver \notin Drivers
  /\ NoRating \notin Stars

VARIABLES
  trips,      \* table trips
  events,     \* table trip_events, per trip in insertion order
  outbox,     \* table outbox, per trip in insertion order
  rated,      \* trip.rated payloads published, per trip
  calls       \* requests between two of their steps

vars == <<trips, events, outbox, rated, calls>>

-------------------------------------------------------------------------------
DriverOrNone == Drivers \cup {NoDriver}

Trip == [ status  : Status \cup {ABSENT},
          driver  : DriverOrNone,
          version : 0 .. 6,
          rating  : Stars \cup {NoRating} ]

Event == [ from : Status, to : Status ]

Topics == { "trip.requested", "trip.assigned", "trip.started",
            "trip.completed", "trip.cancelled", "trip.status_changed" }

\* `version' is the version the Save produced: it tells two messages apart.
Message == [ topic : Topics, from : Status, to : Status,
             driver : DriverOrNone, fee : BOOLEAN, version : 1 .. 6 ]

\* What a handler holds between its steps: the row it read, and what it will
\* write.  `fee' is cancel_fee > 0; `stars' only matters to Rate.
Request == [ step : {"save", "setRating", "publishRated"},
             trip : Trips, read : Trip, to : Status, driver : DriverOrNone,
             fee : BOOLEAN, stars : Stars \cup {NoRating} ]

AbsentTrip ==
  [ status |-> ABSENT, driver |-> NoDriver, version |-> 0, rating |-> NoRating ]

Init ==
  /\ trips  = [t \in Trips |-> AbsentTrip]
  /\ events = [t \in Trips |-> << >>]
  /\ outbox = [t \in Trips |-> << >>]
  /\ rated  = [t \in Trips |-> << >>]
  /\ calls  = [c \in Calls |-> NoCall]

-------------------------------------------------------------------------------
(* First half of a handler: Get, the checks, the decision.  A check that   *)
(* fails returns an error and changes nothing, so it is a guard here.      *)

Exists(t) == trips[t].status # ABSENT

\* apply: the transition table is consulted on the row that was read.
Prepare(c, t, row, to, d, fee) ==
  /\ calls[c] = NoCall
  /\ CanTransition(row.status, to)
  /\ calls' = [calls EXCEPT ![c] =
       [ step |-> "save", trip |-> t, read |-> row, to |-> to,
         driver |-> d, fee |-> fee, stars |-> NoRating ]]

\* Create inserts the row, then applies SEARCHING to its own copy: no Get.
Create(c, t) ==
  LET row == [AbsentTrip EXCEPT !.status = CREATED]
  IN  /\ ~Exists(t)
      /\ trips' = [trips EXCEPT ![t] = row]
      /\ Prepare(c, t, row, SEARCHING, NoDriver, FALSE)
      /\ UNCHANGED <<events, outbox, rated>>

Assign(c, t, d) ==
  /\ trips[t].status = SEARCHING
  /\ Prepare(c, t, trips[t], ASSIGNED, d, FALSE)
  /\ UNCHANGED <<trips, events, outbox, rated>>

\* MarkArrived, Start and Complete: only the driver of the trip (getForDriver).
DriverMove(c, t, to) ==
  /\ trips[t].driver # NoDriver
  /\ Prepare(c, t, trips[t], to, trips[t].driver, FALSE)
  /\ UNCHANGED <<trips, events, outbox, rated>>

MarkArrived(c, t) == DriverMove(c, t, ARRIVED)
Start(c, t)       == DriverMove(c, t, IN_PROGRESS)
Complete(c, t)    == DriverMove(c, t, COMPLETED)

MarkPaid(c, t) ==
  /\ Prepare(c, t, trips[t], PAID, trips[t].driver, FALSE)
  /\ UNCHANGED <<trips, events, outbox, rated>>

\* Mutant: cancelFee without "t.AssignedAt == nil".
CancelFeeAlways(c, t, by, late) ==
  /\ ~IsTerminal(trips[t].status)
  /\ Prepare(c, t, trips[t], CANCELLED, trips[t].driver, by = "RIDER" /\ late)
  /\ UNCHANGED <<trips, events, outbox, rated>>

\* cancelFee: only a rider pays, only once a driver was assigned, and only
\* when the free window has run out (the clock decides).
Cancel(c, t, by, late) ==
  /\ ~IsTerminal(trips[t].status)
  /\ Prepare(c, t, trips[t], CANCELLED, trips[t].driver,
             by = "RIDER" /\ trips[t].driver # NoDriver /\ late)
  /\ UNCHANGED <<trips, events, outbox, rated>>

Expire(c, t) ==
  /\ trips[t].status = SEARCHING
  /\ Prepare(c, t, trips[t], EXPIRED, trips[t].driver, FALSE)
  /\ UNCHANGED <<trips, events, outbox, rated>>

Rate(c, t, stars) ==
  /\ calls[c] = NoCall
  /\ trips[t].status \in {COMPLETED, PAID}
  /\ trips[t].driver # NoDriver
  /\ calls' = [calls EXCEPT ![c] =
       [ step |-> "setRating", trip |-> t, read |-> trips[t],
         to |-> trips[t].status, driver |-> trips[t].driver,
         fee |-> FALSE, stars |-> stars ]]
  /\ UNCHANGED <<trips, events, outbox, rated>>

-------------------------------------------------------------------------------
(* Second half: the store.                                                 *)

NoTopic == "none"

\* The business message a move carries; every move also sends status_changed.
TopicOf(to) ==
  CASE to = SEARCHING   -> "trip.requested"
    [] to = ASSIGNED    -> "trip.assigned"
    [] to = IN_PROGRESS -> "trip.started"
    [] to = COMPLETED   -> "trip.completed"
    [] to = CANCELLED   -> "trip.cancelled"
    [] OTHER            -> NoTopic

MessageOf(r, topic) ==
  [ topic |-> topic, from |-> r.read.status, to |-> r.to, driver |-> r.driver,
    fee |-> r.fee, version |-> r.read.version + 1 ]

Messages(r) ==
  IF TopicOf(r.to) = NoTopic
  THEN << MessageOf(r, "trip.status_changed") >>
  ELSE << MessageOf(r, TopicOf(r.to)), MessageOf(r, "trip.status_changed") >>

\* Mutant: the index only covers trips the driver has reached.
IndexForgetsAssigned(t, d, s) ==
  (d # NoDriver /\ s \in ActiveIndex \ {ASSIGNED}) =>
    \A u \in Trips \ {t} :
      ~(trips[u].driver = d /\ trips[u].status \in ActiveIndex \ {ASSIGNED})

\* trips_one_active_per_driver: would this row collide with another one?
IndexAllows(t, d, s) ==
  (d # NoDriver /\ s \in ActiveIndex) =>
    \A u \in Trips \ {t} : ~(trips[u].driver = d /\ trips[u].status \in ActiveIndex)

\* One transaction: the row guarded by the version that was read, its event,
\* its messages.  The rating column is not written.
Commit(c, r, t) ==
  /\ trips'  = [trips EXCEPT ![t] =
                  [ status |-> r.to, driver |-> r.driver,
                    version |-> @.version + 1, rating |-> @.rating ]]
  /\ events' = [events EXCEPT ![t] =
                  Append(@, [from |-> r.read.status, to |-> r.to])]
  /\ outbox' = [outbox EXCEPT ![t] = @ \o Messages(r)]
  /\ calls'  = [calls EXCEPT ![c] = NoCall]
  /\ UNCHANGED rated

\* Mutant: UPDATE without "AND version = $14".
SaveLastWriterWins(c) ==
  LET r == calls[c]
  IN  /\ r # NoCall
      /\ r.step = "save"
      /\ IndexAllows(r.trip, r.driver, r.to)
      /\ Commit(c, r, r.trip)

Save(c) ==
  LET r == calls[c]
      t == r.trip
  IN  /\ r # NoCall
      /\ r.step = "save"
      /\ trips[t].version = r.read.version
      /\ IndexAllows(t, r.driver, r.to)
      /\ Commit(c, r, t)

\* Mutant: UPDATE without "AND rating IS NULL".
SetRatingAgain(c) ==
  LET r == calls[c]
  IN  /\ r # NoCall
      /\ r.step = "setRating"
      /\ trips' = [trips EXCEPT ![r.trip].rating = r.stars]
      /\ calls' = [calls EXCEPT ![c].step = "publishRated"]
      /\ UNCHANGED <<events, outbox, rated>>

SetRating(c) ==
  LET r == calls[c]
      t == r.trip
  IN  /\ r # NoCall
      /\ r.step = "setRating"
      /\ trips[t].rating = NoRating
      /\ trips' = [trips EXCEPT ![t].rating = r.stars]
      /\ calls' = [calls EXCEPT ![c].step = "publishRated"]
      /\ UNCHANGED <<events, outbox, rated>>

PublishRated(c) ==
  LET r == calls[c]
  IN  /\ r # NoCall
      /\ r.step = "publishRated"
      /\ rated' = [rated EXCEPT ![r.trip] = Append(@, r.stars)]
      /\ calls' = [calls EXCEPT ![c] = NoCall]
      /\ UNCHANGED <<trips, events, outbox>>

\* The request ends without its next step: version conflict, unique violation,
\* trip_already_rated, database or bus error, client gone, process killed.
Fail(c) ==
  /\ calls[c] # NoCall
  /\ calls' = [calls EXCEPT ![c] = NoCall]
  /\ UNCHANGED <<trips, events, outbox, rated>>

-------------------------------------------------------------------------------
Begin(c, t) ==
  \/ Create(c, t)
  \/ \E d \in Drivers : Assign(c, t, d)
  \/ MarkArrived(c, t)
  \/ Start(c, t)
  \/ Complete(c, t)
  \/ MarkPaid(c, t)
  \/ \E by \in {"RIDER", "DRIVER"}, late \in BOOLEAN : Cancel(c, t, by, late)
  \/ Expire(c, t)
  \/ \E stars \in Stars : Rate(c, t, stars)

Finish(c) ==
  \/ Save(c)
  \/ SetRating(c)
  \/ PublishRated(c)
  \/ Fail(c)

Next == \E c \in Calls : Finish(c) \/ \E t \in Trips : Begin(c, t)

Spec == Init /\ [][Next]_vars

-------------------------------------------------------------------------------
(* Properties.                                                             *)

\* The shape of the tables and of the requests in flight.
TypeOK ==
  /\ trips  \in [Trips -> Trip]
  /\ events \in [Trips -> Seq(Event)]
  /\ outbox \in [Trips -> Seq(Message)]
  /\ rated  \in [Trips -> Seq(Stars)]
  /\ calls  \in [Calls -> Request \cup {NoCall}]

\* trip_events replays to the trip: one event per version, each a legal edge
\* that starts where the previous one ended, the last one naming the current
\* status -- whatever requests raced on the row.
LogIsHistory ==
  \A t \in Trips :
    LET log == events[t]
    IN  /\ Len(log) = trips[t].version
        /\ \A i \in 1 .. Len(log) :
             /\ CanTransition(log[i].from, log[i].to)
             /\ log[i].from = IF i = 1 THEN CREATED ELSE log[i - 1].to
        /\ IF log = << >> THEN trips[t].status \in {ABSENT, CREATED}
                          ELSE trips[t].status = log[Len(log)].to

\* A driver is on at most one ASSIGNED, ARRIVED or IN_PROGRESS trip (query #2
\* of the operations guide), however the requests that write driver_id race.
OneActivePerDriver ==
  \A t, u \in Trips :
    ( /\ trips[t].status \in ActiveIndex /\ trips[u].status \in ActiveIndex
      /\ trips[t].driver = trips[u].driver /\ trips[t].driver # NoDriver ) => t = u

\* Each business message of a trip leaves at most once, and a trip is never
\* announced both completed and cancelled: the consumers move money on either.
Outcomes == {"trip.completed", "trip.cancelled"}
OutcomeAnnouncedOnce ==
  \A t \in Trips : \A i, j \in 1 .. Len(outbox[t]) :
    LET a == outbox[t][i].topic
        b == outbox[t][j].topic
    IN  (a = b \/ {a, b} \subseteq Outcomes) /\ a # "trip.status_changed" => i = j

\* Every message tells of an edge the log has at that version, and names the
\* driver and the fee that agree with the trip as it stands: a handler that
\* decided on a stale row never gets to announce it.
MessagesAreTrue ==
  \A t \in Trips : \A i \in 1 .. Len(outbox[t]) :
    LET m == outbox[t][i]
    IN  /\ m.version <= Len(events[t])
        /\ events[t][m.version] = [from |-> m.from, to |-> m.to]
        /\ m.driver # NoDriver => m.driver = trips[t].driver
        /\ m.fee => m.driver # NoDriver /\ trips[t].status = CANCELLED
        /\ m.to \in Unfinished => m.driver # NoDriver

\* A trip is rated once: at most one trip.rated leaves, and it carries the
\* rating the trip keeps (driver statistics add it up).
RatedOnce ==
  \A t \in Trips : \A i \in 1 .. Len(rated[t]) :
    i = 1 /\ rated[t][i] = trips[t].rating

\* The service, with its races and failures, implements TripLifecycle.
Lifecycle == INSTANCE TripLifecycle WITH
  status <- [t \in Trips |-> trips[t].status],
  driver <- [t \in Trips |-> trips[t].driver]

ImplementsLifecycle == Lifecycle!Spec
==============================================================================
