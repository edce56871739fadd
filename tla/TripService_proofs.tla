-------------------------- MODULE TripService_proofs --------------------------
(***************************************************************************)
(* Proofs about TripService, for any number of trips, drivers and requests *)
(* in flight.                                                              *)
(*                                                                         *)
(* The argument rests on one fact: a request whose snapshot carries the    *)
(* current version holds the current row (SnapshotsFresh), so whatever the *)
(* handler decided on the snapshot still holds when Save commits.          *)
(***************************************************************************)
EXTENDS TripService, TLAPS

(***************************************************************************)
(* The strengthening.                                                      *)
(***************************************************************************)

\* The graph of statuses has no cycle and every status but CANCELLED is
\* reached by a fixed number of moves.
AtDepth(s, n) ==
  /\ s \in {"ABSENT", "CREATED"}     => n = 0
  /\ s = "SEARCHING"                 => n = 1
  /\ s \in {"ASSIGNED", "EXPIRED"}   => n = 2
  /\ s = "ARRIVED"                   => n = 3
  /\ s = "IN_PROGRESS"               => n = 4
  /\ s = "COMPLETED"                 => n = 5
  /\ s = "PAID"                      => n = 6
  /\ s = "CANCELLED"                 => n \in 1 .. 4

RowsSound ==
  \A t \in Trips :
    /\ AtDepth(trips[t].status, trips[t].version)
    /\ trips[t].status \in {ABSENT, CREATED, SEARCHING} => trips[t].driver = NoDriver
    /\ trips[t].status \in Unfinished \cup {PAID} => trips[t].driver # NoDriver
    /\ trips[t].status = ABSENT => trips[t].rating = NoRating

SnapshotsFresh ==
  \A c \in Calls : calls[c] # NoCall =>
    LET r   == calls[c]
        row == trips[r.trip]
    IN  /\ row.status # ABSENT
        /\ r.read.version <= row.version
        /\ r.read.version = row.version =>
             r.read.status = row.status /\ r.read.driver = row.driver

DecisionSound(r) ==
  /\ r.step # "save" => r.stars \in Stars
  /\ r.step = "save" =>
       /\ CanTransition(r.read.status, r.to)
       /\ r.to = ASSIGNED => r.driver \in Drivers
       /\ r.to # ASSIGNED => r.driver = r.read.driver
       /\ r.fee => r.to = CANCELLED /\ r.driver # NoDriver

DecisionsSound ==
  \A c \in Calls : calls[c] # NoCall => DecisionSound(calls[c])

\* What has been handed to the outbox: business messages carry the topic of
\* their move, one per version, none from a version that is still to come.
MessagesSound ==
  \A t \in Trips : \A i \in 1 .. Len(outbox[t]) :
    LET m == outbox[t][i]
    IN  /\ m.topic \in {"trip.status_changed", TopicOf(m.to)}
        /\ m.to # CANCELLED => AtDepth(m.to, m.version)
        /\ m.to = CANCELLED =>
             trips[t].status = CANCELLED /\ m.version = trips[t].version
        /\ m.version <= trips[t].version
        /\ \A j \in 1 .. Len(outbox[t]) :
             (/\ m.topic # "trip.status_changed"
              /\ outbox[t][j].topic # "trip.status_changed"
              /\ m.version = outbox[t][j].version) => i = j

\* A rating is announced by the one request that stored it.
RatingsSound ==
  /\ \A t \in Trips :
       /\ Len(rated[t]) <= 1
       /\ Len(rated[t]) = 1 =>
            trips[t].rating # NoRating /\ rated[t][1] = trips[t].rating
  /\ \A c \in Calls :
       calls[c] # NoCall /\ calls[c].step = "publishRated" =>
         /\ Len(rated[calls[c].trip]) = 0
         /\ trips[calls[c].trip].rating = calls[c].stars
         /\ \A d \in Calls \ {c} :
              calls[d] # NoCall /\ calls[d].step = "publishRated" =>
                calls[d].trip # calls[c].trip

\* The part of the invariant the rows and the requests need by themselves.
Core == TypeOK /\ RowsSound /\ SnapshotsFresh /\ DecisionsSound

IInv == /\ Core
        /\ LogIsHistory
        /\ OneActivePerDriver
        /\ MessagesSound
        /\ MessagesAreTrue
        /\ RatingsSound

-------------------------------------------------------------------------------
(***************************************************************************)
(* The steps.  Every handler but Create only reads before it parks: they   *)
(* all open a request that holds the current row and a sound decision.     *)
(***************************************************************************)

Opened(c, t, r) ==
  /\ calls[c] = NoCall
  /\ r \in Request
  /\ r.trip = t
  /\ r.read = trips[t]
  /\ trips[t].status # ABSENT
  /\ r.step \in {"save", "setRating"}
  /\ DecisionSound(r)
  /\ calls' = [calls EXCEPT ![c] = r]
  /\ UNCHANGED <<trips, events, outbox, rated>>

\* Only legal edges can be taken, and none leaves an absent trip.
LEMMA EdgesAreStatuses ==
  ASSUME NEW from, NEW to, CanTransition(from, to)
  PROVE  from \in Status /\ to \in Status /\ from # ABSENT
BY DEF CanTransition, transitions, Status, ABSENT

\* Prepare, called with the current row, opens a request.
LEMMA PrepareOpens ==
  ASSUME TypeOK, NEW c \in Calls, NEW t \in Trips, NEW to, NEW d \in DriverOrNone,
         NEW fee \in BOOLEAN,
         Prepare(c, t, trips[t], to, d, fee),
         UNCHANGED <<trips, events, outbox, rated>>,
         to = ASSIGNED => d \in Drivers,
         to # ASSIGNED => d = trips[t].driver,
         fee = TRUE => to = CANCELLED /\ d # NoDriver
  PROVE  \E r : Opened(c, t, r)
<1> DEFINE r == [ step |-> "save", trip |-> t, read |-> trips[t], to |-> to,
                  driver |-> d, fee |-> fee, stars |-> NoRating ]
<1>1. /\ calls[c] = NoCall
      /\ CanTransition(trips[t].status, to)
      /\ calls' = [calls EXCEPT ![c] = r]
  BY DEF Prepare
<1>2. to \in Status /\ trips[t].status # ABSENT
  BY <1>1, EdgesAreStatuses
<1>3. trips[t] \in Trip
  BY DEF TypeOK
<1>4. r \in Request
  BY <1>2, <1>3 DEF Request
<1>5. DecisionSound(r)
  BY <1>1 DEF DecisionSound
<1>6. Opened(c, t, r)
  BY <1>1, <1>2, <1>4, <1>5 DEF Opened
<1> QED BY <1>6

\* Every handler that starts with Get.
Reads(c, t) ==
  \/ \E d \in Drivers : Assign(c, t, d)
  \/ MarkArrived(c, t)
  \/ Start(c, t)
  \/ Complete(c, t)
  \/ MarkPaid(c, t)
  \/ \E by \in {"RIDER", "DRIVER"}, late \in BOOLEAN : Cancel(c, t, by, late)
  \/ Expire(c, t)
  \/ \E stars \in Stars : Rate(c, t, stars)

\* Each of the methods that read a row opens a request that holds it.
LEMMA ReadersOpen ==
  ASSUME TypeOK, NEW c \in Calls, NEW t \in Trips, Reads(c, t)
  PROVE  \E r : Opened(c, t, r)
<1>0. trips[t].driver \in DriverOrNone /\ trips[t] \in Trip
  BY DEF TypeOK, Trip
<1>1. ASSUME NEW d \in Drivers, Assign(c, t, d) PROVE \E r : Opened(c, t, r)
  <2>1. d \in DriverOrNone
    BY DEF DriverOrNone
  <2> QED BY <1>1, <2>1, PrepareOpens DEF Assign, ASSIGNED
<1>2. ASSUME NEW to \in {ARRIVED, IN_PROGRESS, COMPLETED}, DriverMove(c, t, to)
      PROVE  \E r : Opened(c, t, r)
  BY <1>0, <1>2, PrepareOpens
     DEF DriverMove, ARRIVED, IN_PROGRESS, COMPLETED, ASSIGNED
<1>3. CASE MarkPaid(c, t)
  <2>1. PAID # ASSIGNED
    BY DEF PAID, ASSIGNED
  <2> QED BY <1>0, <1>3, <2>1, PrepareOpens, Zenon DEF MarkPaid
<1>4. ASSUME NEW by, NEW late \in BOOLEAN, Cancel(c, t, by, late)
      PROVE  \E r : Opened(c, t, r)
  <2>1. CANCELLED # ASSIGNED
    BY DEF CANCELLED, ASSIGNED
  <2>2. PICK fee \in BOOLEAN :
          /\ fee = TRUE => trips[t].driver # NoDriver
          /\ Prepare(c, t, trips[t], CANCELLED, trips[t].driver, fee)
    BY <1>4 DEF Cancel
  <2>3. UNCHANGED <<trips, events, outbox, rated>>
    BY <1>4 DEF Cancel
  <2>4. Prepare(c, t, trips[t], CANCELLED, trips[t].driver, fee)
    BY <2>2
  <2>5. fee = TRUE => CANCELLED = CANCELLED /\ trips[t].driver # NoDriver
    BY <2>2
  <2>6. CANCELLED = ASSIGNED => trips[t].driver \in Drivers
    BY <2>1
  <2>7. CANCELLED # ASSIGNED => trips[t].driver = trips[t].driver
    OBVIOUS
  <2>8. trips[t].driver \in DriverOrNone /\ fee \in BOOLEAN
    BY <1>0
  <2> HIDE <2>1, <2>2, <1>4
  <2> QED BY <2>3, <2>4, <2>5, <2>6, <2>7, <2>8, PrepareOpens, ZenonT(30)
<1>5. CASE Expire(c, t)
  <2>1. EXPIRED # ASSIGNED
    BY DEF EXPIRED, ASSIGNED
  <2> QED BY <1>0, <1>5, <2>1, PrepareOpens, Zenon DEF Expire
<1>6. ASSUME NEW stars \in Stars, Rate(c, t, stars) PROVE \E r : Opened(c, t, r)
  <2> DEFINE r == [ step |-> "setRating", trip |-> t, read |-> trips[t],
                    to |-> trips[t].status, driver |-> trips[t].driver,
                    fee |-> FALSE, stars |-> stars ]
  <2>1. /\ calls[c] = NoCall
        /\ trips[t].status \in Status
        /\ trips[t].status # ABSENT
        /\ calls' = [calls EXCEPT ![c] = r]
        /\ UNCHANGED <<trips, events, outbox, rated>>
    BY <1>6 DEF Rate, COMPLETED, PAID, Status, ABSENT
  <2>2. r \in Request
    BY <1>0, <2>1 DEF Request
  <2>3. Opened(c, t, r)
    BY <2>1, <2>2 DEF Opened, DecisionSound
  <2> QED BY <2>3
<1> QED
  BY <1>1, <1>2, <1>3, <1>4, <1>5, <1>6 DEF Reads, MarkArrived, Start, Complete

\* What a step of the specification is, once the reading handlers are one case.
LEMMA StepCases ==
  ASSUME TypeOK, [Next]_vars
  PROVE  \/ UNCHANGED vars
         \/ \E c \in Calls :
              \/ \E t \in Trips : Create(c, t) \/ \E r : Opened(c, t, r)
              \/ Save(c) \/ SetRating(c) \/ PublishRated(c) \/ Fail(c)
<1>1. ASSUME NEW c \in Calls, NEW t \in Trips, Begin(c, t)
      PROVE  Create(c, t) \/ \E r : Opened(c, t, r)
  <2>1. Create(c, t) \/ Reads(c, t)
    BY <1>1 DEF Begin, Reads
  <2> QED BY <2>1, ReadersOpen
<1>2. ASSUME Next
      PROVE  \E c \in Calls :
               \/ \E t \in Trips : Create(c, t) \/ \E r : Opened(c, t, r)
               \/ Save(c) \/ SetRating(c) \/ PublishRated(c) \/ Fail(c)
  <2>1. PICK c \in Calls : Finish(c) \/ \E t \in Trips : Begin(c, t)
    BY <1>2 DEF Next
  <2>2. CASE Finish(c)
    BY <2>2 DEF Finish
  <2>3. CASE \E t \in Trips : Begin(c, t)
    BY <2>3, <1>1
  <2> QED BY <2>1, <2>2, <2>3
<1> QED BY <1>2

\* What Save does to the trip it writes, given what it decided on.  Everything
\* the other lemmas need of a commit is here.
LEMMA SaveCommits ==
  ASSUME Core, NEW c \in Calls, Save(c)
  PROVE  LET r == calls[c]
             t == r.trip
         IN  /\ r \in Request
             /\ t \in Trips
             /\ r.read.status = trips[t].status
             /\ r.read.driver = trips[t].driver
             /\ r.read.version = trips[t].version
             /\ CanTransition(trips[t].status, r.to)
             /\ r.to = ASSIGNED => r.driver \in Drivers
             /\ r.to # ASSIGNED => r.driver = trips[t].driver
             /\ r.fee => r.to = CANCELLED /\ r.driver # NoDriver
             /\ trips[t].version + 1 \in 1 .. 6
             /\ AtDepth(r.to, trips[t].version + 1)
<1> DEFINE r == calls[c]
           t == r.trip
<1>1. r \in Request /\ r # NoCall /\ r.step = "save" /\ trips[t].version = r.read.version
  BY DEF Save, Core, TypeOK
<1>2. t \in Trips
  BY <1>1 DEF Request
<1>3. r.read.status = trips[t].status /\ r.read.driver = trips[t].driver
  BY <1>1, <1>2 DEF Core, SnapshotsFresh
<1>4. /\ CanTransition(trips[t].status, r.to)
      /\ r.to = ASSIGNED => r.driver \in Drivers
      /\ r.to # ASSIGNED => r.driver = trips[t].driver
      /\ r.fee => r.to = CANCELLED /\ r.driver # NoDriver
  BY <1>1, <1>3 DEF Core, DecisionsSound, DecisionSound
<1>5. AtDepth(trips[t].status, trips[t].version) /\ trips[t].version \in 0 .. 6
  BY <1>2 DEF Core, RowsSound, TypeOK, Trip
<1>6. trips[t].version + 1 \in 1 .. 6 /\ AtDepth(r.to, trips[t].version + 1)
  BY <1>4, <1>5 DEF AtDepth, CanTransition, transitions
<1> QED BY <1>1, <1>2, <1>3, <1>4, <1>6

\* The messages of one Save, with their types.
LEMMA MessagesTyped ==
  ASSUME Core, NEW c \in Calls, Save(c)
  PROVE  Messages(calls[c]) \in Seq(Message)
<1> DEFINE r == calls[c]
<1>1. /\ r \in Request
      /\ r.read.status \in Status /\ r.to \in Status
      /\ r.read.version + 1 \in 1 .. 6
  BY SaveCommits, EdgesAreStatuses
<1>2. r.driver \in DriverOrNone /\ r.fee \in BOOLEAN
  BY <1>1 DEF Request
<1>3. TopicOf(r.to) \in Topics \cup {NoTopic}
  BY <1>1 DEF TopicOf, Topics, NoTopic, Status, SEARCHING, ASSIGNED, IN_PROGRESS,
              COMPLETED, CANCELLED
<1>4. \A topic \in Topics : MessageOf(r, topic) \in Message
  BY <1>1, <1>2 DEF MessageOf, Message
<1>5. "trip.status_changed" \in Topics
  BY DEF Topics
<1>6. Messages(r) \in Seq(Message)
  <2>1. MessageOf(r, "trip.status_changed") \in Message
    BY <1>4, <1>5
  <2>2. TopicOf(r.to) # NoTopic => MessageOf(r, TopicOf(r.to)) \in Message
    BY <1>3, <1>4
  <2> HIDE DEF r
  <2> QED BY <2>1, <2>2 DEF Messages
<1> QED BY <1>6

-------------------------------------------------------------------------------
(***************************************************************************)
(* Core is inductive.                                                      *)
(***************************************************************************)

\* The tables are empty at first.
LEMMA TypeInit == Init => TypeOK
<1> SUFFICES ASSUME Init PROVE TypeOK
  OBVIOUS
<1>1. AbsentTrip \in Trip
  BY DEF AbsentTrip, Trip, DriverOrNone
<1> QED BY <1>1 DEF Init, TypeOK

\* Every step keeps the types.
LEMMA TypeStep ==
  ASSUME Core, [Next]_vars
  PROVE  TypeOK'
<1> USE DEF Core
<1>1. CASE UNCHANGED vars
  BY <1>1 DEF TypeOK, vars
<1>2. ASSUME NEW c \in Calls, NEW t \in Trips, Create(c, t) PROVE TypeOK'
  <2> DEFINE row == [AbsentTrip EXCEPT !.status = CREATED]
             r == [ step |-> "save", trip |-> t, read |-> row, to |-> SEARCHING,
                    driver |-> NoDriver, fee |-> FALSE, stars |-> NoRating ]
  <2>1. row \in Trip
    BY DEF AbsentTrip, Trip, DriverOrNone, Status, CREATED
  <2>2. r \in Request
    BY <2>1 DEF Request, Status, SEARCHING, DriverOrNone
  <2>3. /\ trips' = [trips EXCEPT ![t] = row]
        /\ calls' = [calls EXCEPT ![c] = r]
        /\ UNCHANGED <<events, outbox, rated>>
    BY <1>2 DEF Create, Prepare
  <2> HIDE DEF row, r
  <2> QED BY <2>1, <2>2, <2>3 DEF TypeOK
<1>3. ASSUME NEW c \in Calls, NEW t \in Trips, NEW r, Opened(c, t, r) PROVE TypeOK'
  BY <1>3 DEF Opened, TypeOK
<1>4. ASSUME NEW c \in Calls, Save(c) PROVE TypeOK'
  <2> DEFINE r == calls[c]
             t == r.trip
             row == [ status |-> r.to, driver |-> r.driver,
                      version |-> trips[t].version + 1, rating |-> trips[t].rating ]
             e == [from |-> r.read.status, to |-> r.to]
  <2>1. /\ r \in Request /\ t \in Trips
        /\ trips[t].version + 1 \in 1 .. 6
        /\ r.read.status \in Status /\ r.to \in Status
    BY <1>4, SaveCommits, EdgesAreStatuses
  <2>2. trips[t] \in Trip /\ r.driver \in DriverOrNone
    BY <2>1 DEF TypeOK, Request
  <2>3. row \in Trip
    BY <2>1, <2>2 DEF Trip
  <2>4. e \in Event
    BY <2>1 DEF Event
  <2>5. Messages(r) \in Seq(Message)
    BY <1>4, MessagesTyped
  <2>6. /\ trips'  = [trips EXCEPT ![t] = row]
        /\ events' = [events EXCEPT ![t] = Append(@, e)]
        /\ outbox' = [outbox EXCEPT ![t] = @ \o Messages(r)]
        /\ calls'  = [calls EXCEPT ![c] = NoCall]
        /\ UNCHANGED rated
    BY <1>4 DEF Save, Commit
  <2> HIDE DEF r, t, row, e
  <2>7. trips' \in [Trips -> Trip]
    BY <2>1, <2>3, <2>6 DEF TypeOK
  <2>10. calls' \in [Calls -> Request \cup {NoCall}]
    BY <2>6 DEF TypeOK
  <2>8. events' \in [Trips -> Seq(Event)]
    BY <2>1, <2>4, <2>6 DEF TypeOK
  <2>9. outbox' \in [Trips -> Seq(Message)]
    BY <2>1, <2>5, <2>6 DEF TypeOK
  <2> QED BY <2>6, <2>7, <2>8, <2>9, <2>10 DEF TypeOK
<1>5. ASSUME NEW c \in Calls, SetRating(c) PROVE TypeOK'
  <2> DEFINE r == calls[c]
  <2>1. r \in Request /\ r.trip \in Trips /\ r.stars \in Stars \cup {NoRating}
    BY <1>5 DEF SetRating, TypeOK, Request
  <2>2. /\ trips' = [trips EXCEPT ![r.trip] = [@ EXCEPT !.rating = r.stars]]
        /\ calls' = [calls EXCEPT ![c] = [@ EXCEPT !.step = "publishRated"]]
        /\ UNCHANGED <<events, outbox, rated>>
    BY <1>5 DEF SetRating
  <2>3. [trips[r.trip] EXCEPT !.rating = r.stars] \in Trip
    BY <2>1 DEF TypeOK, Trip
  <2>4. [r EXCEPT !.step = "publishRated"] \in Request
    BY <2>1 DEF Request
  <2>5. trips' \in [Trips -> Trip]
    BY <2>2, <2>3 DEF TypeOK
  <2>6. calls' \in [Calls -> Request \cup {NoCall}]
    BY <2>2, <2>4 DEF TypeOK
  <2> QED BY <2>2, <2>5, <2>6 DEF TypeOK
<1>7. ASSUME NEW c \in Calls, Fail(c) PROVE TypeOK'
  BY <1>7 DEF Fail, TypeOK
<1>6. ASSUME NEW c \in Calls, PublishRated(c) PROVE TypeOK'
  <2> DEFINE r == calls[c]
  <2>1. /\ r \in Request /\ r # NoCall /\ r.step # "save"
        /\ rated' = [rated EXCEPT ![r.trip] = Append(@, r.stars)]
        /\ calls' = [calls EXCEPT ![c] = NoCall]
        /\ UNCHANGED <<trips, events, outbox>>
    BY <1>6 DEF PublishRated, TypeOK
  <2>2. r.trip \in Trips /\ r.stars \in Stars
    BY <2>1 DEF Request, DecisionsSound, DecisionSound
  <2> HIDE DEF r
  <2> QED BY <2>1, <2>2 DEF TypeOK
<1> QED BY <1>1, <1>2, <1>3, <1>4, <1>5, <1>6, <1>7, StepCases

\* CanTransition, read by the status it leads to.
LEMMA EdgesByTarget ==
  ASSUME NEW from, NEW to, CanTransition(from, to)
  PROVE  /\ to \in {SEARCHING, CANCELLED, ASSIGNED, EXPIRED, ARRIVED,
                    IN_PROGRESS, COMPLETED, PAID}
         /\ to = SEARCHING => from = CREATED
         /\ to \in {ASSIGNED, EXPIRED} => from = SEARCHING
         /\ to \in {ARRIVED, IN_PROGRESS, COMPLETED, PAID} => from \in Unfinished
         /\ to \in {ARRIVED, IN_PROGRESS} => from \in ActiveIndex
         /\ to = COMPLETED => from = IN_PROGRESS
         /\ from \notin {CANCELLED, PAID, EXPIRED}
BY DEF CanTransition, transitions, Unfinished, ActiveIndex, SEARCHING, CANCELLED,
       ASSIGNED, EXPIRED, ARRIVED, IN_PROGRESS, COMPLETED, PAID, CREATED

\* Every step keeps the rows at the version of their depth.
LEMMA RowsStep ==
  ASSUME Core, [Next]_vars
  PROVE  RowsSound'
<1> USE DEF Core
<1>1. ASSUME UNCHANGED trips PROVE RowsSound'
  BY <1>1 DEF RowsSound
<1>2. ASSUME NEW c \in Calls, NEW t \in Trips, Create(c, t) PROVE RowsSound'
  <2>1. trips' = [trips EXCEPT ![t] = [AbsentTrip EXCEPT !.status = CREATED]]
    BY <1>2 DEF Create
  <2>2. trips'[t] = [ status |-> "CREATED", driver |-> NoDriver, version |-> 0,
                      rating |-> NoRating ]
    BY <2>1 DEF AbsentTrip, TypeOK, CREATED
  <2>3. \A u \in Trips : u # t => trips'[u] = trips[u]
    BY <2>1 DEF TypeOK
  <2> QED BY <2>2, <2>3 DEF RowsSound, AtDepth, Unfinished, ActiveIndex, PAID, ABSENT
<1>3. ASSUME NEW c \in Calls, Save(c) PROVE RowsSound'
  <2> DEFINE r == calls[c]
             t == r.trip
  <2>1. /\ t \in Trips /\ r \in Request
        /\ CanTransition(trips[t].status, r.to)
        /\ r.to = ASSIGNED => r.driver \in Drivers
        /\ r.to # ASSIGNED => r.driver = trips[t].driver
        /\ AtDepth(r.to, trips[t].version + 1)
    BY <1>3, SaveCommits
  <2>2. /\ trips'[t].status = r.to /\ trips'[t].driver = r.driver
        /\ trips'[t].version = trips[t].version + 1
        /\ trips'[t].rating = trips[t].rating
        /\ \A u \in Trips : u # t => trips'[u] = trips[u]
    BY <1>3, <2>1 DEF Save, Commit, TypeOK, Trip
  <2> HIDE DEF r, t
  <2>3. /\ r.to \in {ABSENT, CREATED, SEARCHING} => r.driver = NoDriver
        /\ r.to \in Unfinished \cup {PAID} => r.driver # NoDriver
        /\ r.to # ABSENT
    BY <2>1, NoneAssumption, EdgesByTarget
       DEF RowsSound, ABSENT, CREATED, SEARCHING, CANCELLED, ASSIGNED, EXPIRED,
           ARRIVED, IN_PROGRESS, COMPLETED, PAID, Unfinished, ActiveIndex
  <2> QED BY <2>1, <2>2, <2>3 DEF RowsSound
<1>4. ASSUME NEW c \in Calls, SetRating(c) PROVE RowsSound'
  <2> DEFINE r == calls[c]
             t == r.trip
  <2>1. t \in Trips /\ r # NoCall
    BY <1>4 DEF SetRating, TypeOK, Request
  <2>2. /\ trips'[t].status = trips[t].status /\ trips'[t].driver = trips[t].driver
        /\ trips'[t].version = trips[t].version
        /\ \A u \in Trips : u # t => trips'[u] = trips[u]
    BY <1>4, <2>1 DEF SetRating, TypeOK, Trip
  <2>3. trips[t].status # ABSENT
    BY <2>1 DEF SnapshotsFresh
  <2> HIDE DEF r, t
  <2> QED BY <2>1, <2>2, <2>3 DEF RowsSound
<1> QED BY <1>1, <1>2, <1>3, <1>4, StepCases DEF Opened, PublishRated, Fail, vars

\* A Create step, spelled out: a fresh row and the request that follows it.
LEMMA CreateOpens ==
  ASSUME Core, NEW c \in Calls, NEW t \in Trips, Create(c, t)
  PROVE  /\ trips[t].status = ABSENT
         /\ trips' = [trips EXCEPT ![t] = [AbsentTrip EXCEPT !.status = CREATED]]
         /\ trips'[t].status = CREATED /\ trips'[t].driver = NoDriver
         /\ trips'[t].version = 0 /\ trips'[t].rating = NoRating
         /\ \A u \in Trips : u # t => trips'[u] = trips[u]
         /\ \A d \in Calls : d # c => calls'[d] = calls[d]
         /\ calls'[c].trip = t /\ calls'[c].read = trips'[t]
         /\ calls'[c].step = "save"
         /\ DecisionSound(calls'[c])
         /\ UNCHANGED <<events, outbox, rated>>
<1> DEFINE row == [AbsentTrip EXCEPT !.status = CREATED]
           r == [ step |-> "save", trip |-> t, read |-> row, to |-> SEARCHING,
                  driver |-> NoDriver, fee |-> FALSE, stars |-> NoRating ]
<1>1. /\ trips[t].status = ABSENT
      /\ trips' = [trips EXCEPT ![t] = row]
      /\ calls' = [calls EXCEPT ![c] = r]
      /\ CanTransition(CREATED, SEARCHING)
      /\ UNCHANGED <<events, outbox, rated>>
  BY DEF Create, Prepare, Exists, CanTransition, transitions, CREATED, SEARCHING
<1>2. row = [ status |-> CREATED, driver |-> NoDriver, version |-> 0,
              rating |-> NoRating ]
  BY DEF AbsentTrip
<1>3. DecisionSound(r)
  BY <1>1, <1>2 DEF DecisionSound, SEARCHING, ASSIGNED
<1>4. trips'[t] = row /\ calls'[c] = r
  BY <1>1 DEF Core, TypeOK
<1>5. r.trip = t /\ r.read = row /\ r.step = "save"
  OBVIOUS
<1>6. /\ \A u \in Trips : u # t => trips'[u] = trips[u]
      /\ \A d \in Calls : d # c => calls'[d] = calls[d]
  BY <1>1 DEF Core, TypeOK
<1>7. /\ trips'[t].status = CREATED /\ trips'[t].driver = NoDriver
      /\ trips'[t].version = 0 /\ trips'[t].rating = NoRating
  BY <1>2, <1>4
<1> HIDE DEF r
<1> QED BY <1>1, <1>3, <1>4, <1>5, <1>6, <1>7

\* What a request has decided stays a legal decision.
LEMMA DecisionsStep ==
  ASSUME Core, [Next]_vars
  PROVE  DecisionsSound'
<1> USE DEF Core
<1>1. CASE UNCHANGED vars
  BY <1>1 DEF DecisionsSound, DecisionSound, vars
<1>2. ASSUME NEW c \in Calls, NEW t \in Trips, Create(c, t) PROVE DecisionsSound'
  BY <1>2, CreateOpens DEF DecisionsSound, DecisionSound
<1>3. ASSUME NEW c \in Calls, NEW t \in Trips, NEW r, Opened(c, t, r)
      PROVE  DecisionsSound'
  BY <1>3 DEF Opened, DecisionsSound, DecisionSound, TypeOK
<1>4. ASSUME NEW c \in Calls, Save(c) \/ PublishRated(c) \/ Fail(c)
      PROVE  DecisionsSound'
  <2>1. calls' = [calls EXCEPT ![c] = NoCall]
    BY <1>4 DEF Save, Commit, PublishRated, Fail
  <2> QED BY <2>1 DEF DecisionsSound, DecisionSound, TypeOK
<1>5. ASSUME NEW c \in Calls, SetRating(c) PROVE DecisionsSound'
  <2>1. /\ calls[c] # NoCall /\ calls[c].step = "setRating" /\ calls[c] \in Request
        /\ calls' = [calls EXCEPT ![c] = [@ EXCEPT !.step = "publishRated"]]
    BY <1>5 DEF SetRating, TypeOK
  <2>2. calls'[c].step = "publishRated" /\ calls'[c].stars = calls[c].stars
    BY <2>1 DEF TypeOK, Request
  <2>3. \A d \in Calls : d # c => calls'[d] = calls[d]
    BY <2>1 DEF TypeOK
  <2>4. calls[c].stars \in Stars
    BY <2>1 DEF DecisionsSound, DecisionSound
  <2>5. DecisionSound(calls'[c])
    BY <2>2, <2>4 DEF DecisionSound
  <2> QED BY <2>3, <2>5 DEF DecisionsSound, DecisionSound
<1> QED BY <1>1, <1>2, <1>3, <1>4, <1>5, StepCases

\* Versions are numbers.
LEMMA VersionIsNat ==
  ASSUME TypeOK, NEW t \in Trips
  PROVE  trips[t].version \in Nat
<1>1. trips[t] \in Trip
  BY DEF TypeOK
<1>2. trips[t].version \in 0 .. 6
  BY <1>1 DEF Trip
<1> QED BY <1>2

\* A request whose version still matches holds the row as it is.
LEMMA SnapshotsStep ==
  ASSUME Core, [Next]_vars
  PROVE  SnapshotsFresh'
<1> USE DEF Core
<1>1. CASE UNCHANGED vars
  BY <1>1 DEF SnapshotsFresh, vars
<1>2. ASSUME NEW c \in Calls, NEW t \in Trips, Create(c, t) PROVE SnapshotsFresh'
  <2>1. \A d \in Calls : d # c /\ calls[d] # NoCall => calls[d].trip \in Trips /\ calls[d].trip # t
    BY <1>2, CreateOpens DEF SnapshotsFresh, TypeOK, Request
  <2>2. /\ trips'[t].status = CREATED /\ trips'[t].version = 0
        /\ calls'[c].trip = t /\ calls'[c].read = trips'[t]
    BY <1>2, CreateOpens
  <2>3. CREATED # ABSENT
    BY DEF CREATED, ABSENT
  <2>4. /\ \A u \in Trips : u # t => trips'[u] = trips[u]
        /\ \A d \in Calls : d # c => calls'[d] = calls[d]
    BY <1>2, CreateOpens
  <2> SUFFICES ASSUME NEW d \in Calls, calls'[d] # NoCall
               PROVE  LET r == calls'[d]
                          row == trips'[r.trip]
                      IN  /\ row.status # ABSENT
                          /\ r.read.version <= row.version
                          /\ r.read.version = row.version =>
                               r.read.status = row.status /\ r.read.driver = row.driver
    BY DEF SnapshotsFresh
  <2>5. CASE d = c
    BY <2>2, <2>3, <2>5
  <2>6. CASE d # c
    BY <2>1, <2>4, <2>6 DEF SnapshotsFresh
  <2> QED BY <2>5, <2>6
<1>3. ASSUME NEW c \in Calls, NEW t \in Trips, NEW r, Opened(c, t, r)
      PROVE  SnapshotsFresh'
  <2>1. /\ r.trip = t /\ r.read = trips[t] /\ trips[t].status # ABSENT
        /\ calls' = [calls EXCEPT ![c] = r] /\ trips' = trips
    BY <1>3 DEF Opened
  <2>2. trips[t].version \in Nat
    BY VersionIsNat
  <2> QED BY <2>1, <2>2 DEF SnapshotsFresh, TypeOK
<1>4. ASSUME NEW c \in Calls, Save(c) PROVE SnapshotsFresh'
  <2> DEFINE s == calls[c]
             t == s.trip
  <2>1. t \in Trips /\ CanTransition(trips[t].status, s.to)
    BY <1>4, SaveCommits
  <2> DEFINE row == [ status |-> s.to, driver |-> s.driver,
                      version |-> trips[t].version + 1, rating |-> trips[t].rating ]
  <2>0. trips' = [trips EXCEPT ![t] = row] /\ calls' = [calls EXCEPT ![c] = NoCall]
    BY <1>4 DEF Save, Commit
  <2>2. /\ trips'[t].status = s.to
        /\ trips'[t].version = trips[t].version + 1
        /\ \A u \in Trips : u # t => trips'[u] = trips[u]
        /\ calls' = [calls EXCEPT ![c] = NoCall]
    BY <2>0, <2>1 DEF TypeOK
  <2>3. s.to # ABSENT /\ trips[t].version \in Nat
    BY <2>1, EdgesByTarget, VersionIsNat
       DEF ABSENT, SEARCHING, CANCELLED, ASSIGNED, EXPIRED, ARRIVED, IN_PROGRESS,
           COMPLETED, PAID
  <2> HIDE DEF s, t
  <2>4. \A d \in Calls : calls'[d] # NoCall =>
          calls'[d] = calls[d] /\ calls[d] \in Request
    BY <2>2 DEF TypeOK
  <2>5. \A d \in Calls : calls[d] \in Request =>
          calls[d].read.version \in Nat /\ calls[d].trip \in Trips
    BY DEF Request, Trip
  <2> QED BY <2>1, <2>2, <2>3, <2>4, <2>5 DEF SnapshotsFresh
<1>5. ASSUME NEW c \in Calls, SetRating(c) PROVE SnapshotsFresh'
  <2> DEFINE s == calls[c]
             t == s.trip
  <2>1. t \in Trips /\ s \in Request /\ s # NoCall
    BY <1>5 DEF SetRating, TypeOK, Request
  <2>2. /\ trips'[t].status = trips[t].status /\ trips'[t].driver = trips[t].driver
        /\ trips'[t].version = trips[t].version
        /\ \A u \in Trips : u # t => trips'[u] = trips[u]
    BY <1>5, <2>1 DEF SetRating, TypeOK, Trip
  <2>3. /\ calls'[c].trip = s.trip /\ calls'[c].read = s.read
        /\ \A d \in Calls : d # c => calls'[d] = calls[d]
    BY <1>5, <2>1 DEF SetRating, TypeOK, Request
  <2>4. \A d \in Calls : calls[d] # NoCall => calls[d].trip \in Trips
    BY DEF TypeOK, Request
  <2> HIDE DEF t, s
  <2>5. \A d \in Calls : calls'[d] # NoCall =>
          /\ calls[d] # NoCall
          /\ calls'[d].trip = calls[d].trip /\ calls'[d].read = calls[d].read
    BY <2>1, <2>3 DEF s
  <2>6. \A u \in Trips : /\ trips'[u].status = trips[u].status
                         /\ trips'[u].driver = trips[u].driver
                         /\ trips'[u].version = trips[u].version
    BY <2>2
  <2> QED BY <2>4, <2>5, <2>6 DEF SnapshotsFresh
<1>6. ASSUME NEW c \in Calls, PublishRated(c) \/ Fail(c) PROVE SnapshotsFresh'
  BY <1>6 DEF PublishRated, Fail, SnapshotsFresh, TypeOK
<1> QED BY <1>1, <1>2, <1>3, <1>4, <1>5, <1>6, StepCases

\* At first there are neither rows nor requests.
LEMMA CoreInit == Init => Core
<1> SUFFICES ASSUME Init PROVE Core
  OBVIOUS
<1>1. TypeOK
  BY TypeInit
<1>2. RowsSound
  BY DEF Init, RowsSound, AbsentTrip, AtDepth, ABSENT, CREATED, SEARCHING,
         Unfinished, ActiveIndex, PAID
<1>3. SnapshotsFresh /\ DecisionsSound
  BY DEF Init, SnapshotsFresh, DecisionsSound
<1> QED BY <1>1, <1>2, <1>3 DEF Core

\* The four parts together are inductive.
LEMMA CoreStep == Core /\ [Next]_vars => Core'
BY TypeStep, RowsStep, SnapshotsStep, DecisionsStep DEF Core

\* So they always hold.
LEMMA CoreInvariant == Spec => []Core
BY CoreInit, CoreStep, PTL DEF Spec

\* The tables and the requests in flight always have their types; with it,
\* no trip ever goes through more than six status changes.
THEOREM TypeCorrect == Spec => []TypeOK
BY CoreInvariant, PTL DEF Core

-------------------------------------------------------------------------------
(***************************************************************************)
(* The event log.                                                          *)
(***************************************************************************)

\* A Save, as the three changes the invariants talk about.
LEMMA SaveEffect ==
  ASSUME Core, NEW c \in Calls, Save(c)
  PROVE  LET r == calls[c]
             t == r.trip
         IN  /\ trips'[t].status = r.to /\ trips'[t].driver = r.driver
             /\ trips'[t].version = trips[t].version + 1
             /\ trips'[t].rating = trips[t].rating
             /\ \A u \in Trips : u # t => trips'[u] = trips[u]
             /\ events'[t] = Append(events[t],
                               [from |-> trips[t].status, to |-> r.to])
             /\ \A u \in Trips : u # t => events'[u] = events[u]
             /\ outbox'[t] = outbox[t] \o Messages(r)
             /\ \A u \in Trips : u # t => outbox'[u] = outbox[u]
             /\ rated' = rated
             /\ calls'[c] = NoCall
             /\ \A d \in Calls : d # c => calls'[d] = calls[d]
<1> DEFINE r == calls[c]
           t == r.trip
           row == [ status |-> r.to, driver |-> r.driver,
                    version |-> trips[t].version + 1, rating |-> trips[t].rating ]
<1>1. t \in Trips /\ r.read.status = trips[t].status
  BY SaveCommits
<1>2. /\ trips'  = [trips EXCEPT ![t] = row]
      /\ events' = [events EXCEPT ![t] =
                      Append(@, [from |-> r.read.status, to |-> r.to])]
      /\ outbox' = [outbox EXCEPT ![t] = @ \o Messages(r)]
      /\ calls'  = [calls EXCEPT ![c] = NoCall]
      /\ rated' = rated
  BY DEF Save, Commit
<1>3. TypeOK
  BY DEF Core
<1>4. trips'[t] = row /\ \A u \in Trips : u # t => trips'[u] = trips[u]
  BY <1>1, <1>2, <1>3 DEF TypeOK
<1>5. /\ events'[t] = Append(events[t], [from |-> trips[t].status, to |-> r.to])
      /\ \A u \in Trips : u # t => events'[u] = events[u]
  BY <1>1, <1>2, <1>3 DEF TypeOK
<1>6. /\ outbox'[t] = outbox[t] \o Messages(r)
      /\ \A u \in Trips : u # t => outbox'[u] = outbox[u]
  BY <1>1, <1>2, <1>3 DEF TypeOK
<1>7. calls'[c] = NoCall /\ \A d \in Calls : d # c => calls'[d] = calls[d]
  BY <1>2, <1>3 DEF TypeOK
<1>8. /\ trips'[t].status = r.to /\ trips'[t].driver = r.driver
      /\ trips'[t].version = trips[t].version + 1
      /\ trips'[t].rating = trips[t].rating
  BY <1>4
<1> QED BY <1>2, <1>4, <1>5, <1>6, <1>7, <1>8, Zenon

\* The log of one trip replays to its row.
LogReplays(t) ==
  LET log == events[t]
  IN  /\ Len(log) = trips[t].version
      /\ \A i \in 1 .. Len(log) :
           /\ CanTransition(log[i].from, log[i].to)
           /\ log[i].from = IF i = 1 THEN CREATED ELSE log[i - 1].to
      /\ IF log = << >> THEN trips[t].status \in {ABSENT, CREATED}
                        ELSE trips[t].status = log[Len(log)].to

\* An empty log is the history of no trip.
LEMMA LogInit == Init => LogIsHistory
BY DEF Init, LogIsHistory, AbsentTrip, ABSENT

\* A Save appends an edge from the status the log ends with.
LEMMA LogStep ==
  ASSUME Core, LogIsHistory, [Next]_vars
  PROVE  LogIsHistory'
<1>0. \A t \in Trips : LogReplays(t)
  BY DEF LogIsHistory, LogReplays
<1>1. ASSUME NEW t \in Trips, events'[t] = events[t],
             trips'[t].status = trips[t].status, trips'[t].version = trips[t].version
      PROVE  LogReplays(t)'
  BY <1>0, <1>1 DEF LogReplays
<1>2. ASSUME NEW c \in Calls, NEW t \in Trips, Create(c, t),
             NEW u \in Trips
      PROVE  LogReplays(u)'
  <2>1. CASE u = t
    <3>1. /\ trips[t].status = ABSENT
          /\ trips'[t].status = CREATED /\ trips'[t].version = 0
          /\ events' = events
      BY <1>2, CreateOpens
    <3>2. trips[t].version = 0
      BY <3>1 DEF Core, RowsSound, AtDepth, ABSENT
    <3>3. Len(events[t]) = 0 /\ events[t] \in Seq(Event)
      BY <1>0, <3>2 DEF LogReplays, Core, TypeOK
    <3> QED BY <2>1, <3>1, <3>3 DEF LogReplays
  <2>2. CASE u # t
    BY <1>1, <1>2, <2>2, CreateOpens
  <2> QED BY <2>1, <2>2
<1>3. ASSUME NEW c \in Calls, Save(c), NEW u \in Trips
      PROVE  LogReplays(u)'
  <2> DEFINE r == calls[c]
             t == r.trip
             e == [from |-> trips[t].status, to |-> r.to]
  <2>1. /\ t \in Trips /\ CanTransition(trips[t].status, r.to)
    BY <1>3, SaveCommits
  <2>2. /\ trips'[t].status = r.to /\ trips'[t].version = trips[t].version + 1
        /\ events'[t] = Append(events[t], e)
        /\ \A v \in Trips : v # t => trips'[v] = trips[v] /\ events'[v] = events[v]
    BY <1>3, SaveEffect
  <2>3. CASE u = t
    <3>1. events[t] \in Seq(Event) /\ LogReplays(t) /\ trips[t].status # ABSENT
      BY <1>0, <2>1, EdgesAreStatuses DEF Core, TypeOK
    <3>2. e.from = trips[t].status /\ e.to = r.to
      OBVIOUS
    <3> HIDE DEF r, t, e
    <3>3. /\ Len(events'[t]) = Len(events[t]) + 1
          /\ events'[t][Len(events[t]) + 1] = e
          /\ \A i \in 1 .. Len(events[t]) : events'[t][i] = events[t][i]
          /\ Len(events[t]) \in Nat /\ events'[t] # << >>
      BY <2>2, <3>1
    <3>4. Len(events'[t]) = trips'[t].version
      BY <2>2, <3>1, <3>3 DEF LogReplays
    <3>5. trips'[t].status = events'[t][Len(events'[t])].to
      BY <2>2, <3>2, <3>3
    <3>6. trips[t].status = IF Len(events[t]) = 0 THEN CREATED
                            ELSE events[t][Len(events[t])].to
      BY <3>1 DEF LogReplays
    <3>7. ASSUME NEW i \in 1 .. Len(events'[t])
          PROVE  /\ CanTransition(events'[t][i].from, events'[t][i].to)
                 /\ events'[t][i].from = IF i = 1 THEN CREATED ELSE events'[t][i - 1].to
      <4>1. CASE i = Len(events[t]) + 1
        BY <2>1, <3>2, <3>3, <3>6, <4>1
      <4>2. CASE i # Len(events[t]) + 1
        <5>1. i \in 1 .. Len(events[t]) /\ (i # 1 => i - 1 \in 1 .. Len(events[t]))
          BY <3>3, <3>7, <4>2
        <5> QED BY <3>1, <3>3, <5>1 DEF LogReplays
      <4> QED BY <4>1, <4>2
    <3> QED BY <2>3, <3>3, <3>4, <3>5, <3>7 DEF LogReplays
  <2>4. CASE u # t
    BY <1>1, <2>2, <2>4
  <2> QED BY <2>3, <2>4
<1>4. ASSUME NEW c \in Calls, SetRating(c), NEW u \in Trips
      PROVE  LogReplays(u)'
  <2>1. /\ calls[c].trip \in Trips /\ events' = events
        /\ trips' = [trips EXCEPT ![calls[c].trip] = [@ EXCEPT !.rating = calls[c].stars]]
    BY <1>4 DEF SetRating, Core, TypeOK, Request
  <2>2. trips'[u].status = trips[u].status /\ trips'[u].version = trips[u].version
    BY <2>1 DEF Core, TypeOK, Trip
  <2> QED BY <1>1, <2>1, <2>2
<1>5. ASSUME UNCHANGED <<trips, events>>, NEW u \in Trips
      PROVE  LogReplays(u)'
  BY <1>1, <1>5
<1>6. \A u \in Trips : LogReplays(u)'
  BY <1>2, <1>3, <1>4, <1>5, StepCases DEF Core, Opened, PublishRated, Fail, vars
<1> QED BY <1>6 DEF LogIsHistory, LogReplays

\* trip_events replays to the trip: one event per version, each a legal edge
\* that starts where the previous one ended, the last one naming the status
\* -- for any number of requests racing on the row (Save's version check).
THEOREM LogCorrect == Spec => []LogIsHistory
<1>1. Init => Core /\ LogIsHistory
  BY CoreInit, LogInit
<1>2. Core /\ LogIsHistory /\ [Next]_vars => (Core /\ LogIsHistory)'
  BY CoreStep, LogStep
<1> QED BY <1>1, <1>2, PTL DEF Spec

-------------------------------------------------------------------------------
(***************************************************************************)
(* One active trip per driver.                                             *)
(***************************************************************************)

\* What every step but Save leaves alone.
LEMMA OnlySaveMoves ==
  ASSUME Core, [Next]_vars, ~(\E c \in Calls : Save(c))
  PROVE  /\ UNCHANGED outbox
         /\ \A t \in Trips :
              \/ /\ trips[t].status = ABSENT
                 /\ trips'[t].status = CREATED /\ trips'[t].driver = NoDriver
                 /\ trips'[t].version = 0
                 /\ trips'[t].rating = NoRating
              \/ /\ trips'[t].status = trips[t].status
                 /\ trips'[t].driver = trips[t].driver
                 /\ trips'[t].version = trips[t].version
<1>1. ASSUME NEW c \in Calls, NEW t \in Trips, Create(c, t)
      PROVE  /\ UNCHANGED outbox
             /\ \A u \in Trips :
                  IF u = t THEN /\ trips[t].status = ABSENT
                                /\ trips'[t].status = CREATED
                                /\ trips'[t].driver = NoDriver
                                /\ trips'[t].version = 0
                                /\ trips'[t].rating = NoRating
                           ELSE trips'[u] = trips[u]
  BY <1>1, CreateOpens
<1>2. ASSUME NEW c \in Calls, SetRating(c)
      PROVE  /\ UNCHANGED outbox
             /\ \A u \in Trips : /\ trips'[u].status = trips[u].status
                                 /\ trips'[u].driver = trips[u].driver
                                 /\ trips'[u].version = trips[u].version
  <2>1. /\ calls[c].trip \in Trips /\ outbox' = outbox
        /\ trips' = [trips EXCEPT ![calls[c].trip] = [@ EXCEPT !.rating = calls[c].stars]]
    BY <1>2 DEF SetRating, Core, TypeOK, Request
  <2> QED BY <2>1 DEF Core, TypeOK, Trip
<1>3. ASSUME NEW c \in Calls, NEW t \in Trips, NEW r, Opened(c, t, r)
      PROVE  UNCHANGED <<trips, outbox>>
  BY <1>3 DEF Opened
<1>4. ASSUME NEW c \in Calls, PublishRated(c) \/ Fail(c)
      PROVE  UNCHANGED <<trips, outbox>>
  BY <1>4 DEF PublishRated, Fail
<1>5. CASE UNCHANGED vars
  BY <1>5 DEF vars
<1> QED BY <1>1, <1>2, <1>3, <1>4, <1>5, StepCases DEF Core

\* At first no driver has a trip.
LEMMA OneActiveInit == Init => OneActivePerDriver
BY DEF Init, OneActivePerDriver, AbsentTrip, ABSENT, ActiveIndex

\* Only a Save makes a trip live, and the unique index admits it.
LEMMA OneActiveStep ==
  ASSUME Core, OneActivePerDriver, [Next]_vars
  PROVE  OneActivePerDriver'
<1>1. ASSUME NEW c \in Calls, Save(c) PROVE OneActivePerDriver'
  <2> DEFINE r == calls[c]
             t == r.trip
  <2>1. /\ t \in Trips
        /\ trips'[t].status = r.to /\ trips'[t].driver = r.driver
        /\ \A u \in Trips : u # t => trips'[u] = trips[u]
    BY <1>1, SaveCommits, SaveEffect
  <2>2. IndexAllows(t, r.driver, r.to)
    BY <1>1 DEF Save
  <2> HIDE DEF r, t
  <2> QED BY <2>1, <2>2 DEF OneActivePerDriver, IndexAllows
<1>2. CASE ~(\E c \in Calls : Save(c))
  <2>1. CREATED \notin ActiveIndex
    BY DEF CREATED, ActiveIndex
  <2> QED BY <1>2, <2>1, OnlySaveMoves DEF OneActivePerDriver
<1> QED BY <1>1, <1>2

\* No driver is ever on two ASSIGNED, ARRIVED or IN_PROGRESS trips: the partial
\* unique index decides at every commit, whatever was checked before.
THEOREM OneActiveCorrect == Spec => []OneActivePerDriver
<1>1. Init => Core /\ OneActivePerDriver
  BY CoreInit, OneActiveInit
<1>2. Core /\ OneActivePerDriver /\ [Next]_vars => (Core /\ OneActivePerDriver)'
  BY CoreStep, OneActiveStep
<1> QED BY <1>1, <1>2, PTL DEF Spec

-------------------------------------------------------------------------------
(***************************************************************************)
(* The messages.                                                           *)
(***************************************************************************)

\* The topic of a move tells the status it led to.
LEMMA TopicsTell ==
  ASSUME NEW a, NEW b, TopicOf(a) = TopicOf(b), TopicOf(a) # NoTopic
  PROVE  a = b
BY DEF TopicOf, NoTopic, SEARCHING, ASSIGNED, IN_PROGRESS, COMPLETED, CANCELLED

\* The topics of the two outcomes belong to these outcomes only.
LEMMA OutcomeTopics ==
  ASSUME NEW a, TopicOf(a) # NoTopic
  PROVE  /\ TopicOf(a) = "trip.completed" => a = COMPLETED
         /\ TopicOf(a) = "trip.cancelled" => a = CANCELLED
         /\ TopicOf(a) # "trip.status_changed"
BY DEF TopicOf, NoTopic, SEARCHING, ASSIGNED, IN_PROGRESS, COMPLETED, CANCELLED

\* The messages of one Save, one by one.
LEMMA NewMessages ==
  ASSUME Core, NEW c \in Calls, Save(c)
  PROVE  LET r == calls[c]
             t == r.trip
             n == Len(outbox[t])
         IN  /\ n \in Nat
             /\ \A i \in 1 .. n : outbox'[t][i] = outbox[t][i]
             /\ Len(outbox'[t]) \in {n + 1, n + 2}
             /\ \A i \in 1 .. Len(outbox'[t]) : i > n =>
                  /\ outbox'[t][i].topic \in {"trip.status_changed", TopicOf(r.to)}
                  /\ outbox'[t][i].from = trips[t].status
                  /\ outbox'[t][i].to = r.to
                  /\ outbox'[t][i].driver = r.driver
                  /\ outbox'[t][i].fee = r.fee
                  /\ outbox'[t][i].version = trips[t].version + 1
                  /\ outbox'[t][i].topic # "trip.status_changed" => i = n + 1
<1> DEFINE r == calls[c]
           t == r.trip
           n == Len(outbox[t])
           msgs == Messages(r)
           Told(m, topic) == /\ m.topic = topic
                             /\ m.from = trips[t].status /\ m.to = r.to
                             /\ m.driver = r.driver /\ m.fee = r.fee
                             /\ m.version = trips[t].version + 1
<1>1. /\ t \in Trips
      /\ r.read.status = trips[t].status /\ r.read.version = trips[t].version
  BY SaveCommits
<1>2. outbox[t] \in Seq(Message)
  BY <1>1 DEF Core, TypeOK
<1>3. outbox'[t] = outbox[t] \o msgs
  BY SaveEffect
<1>4. \A topic : Told(MessageOf(r, topic), topic)
  BY <1>1 DEF MessageOf
<1>5. \/ /\ msgs = << MessageOf(r, "trip.status_changed") >>
      \/ /\ msgs = << MessageOf(r, TopicOf(r.to)), MessageOf(r, "trip.status_changed") >>
  BY DEF Messages
<1> HIDE DEF msgs, Told, r, t
<1>6. CASE msgs = << MessageOf(r, "trip.status_changed") >>
  <2>1. /\ Len(outbox'[t]) = n + 1 /\ n \in Nat
        /\ outbox'[t][n + 1] = MessageOf(r, "trip.status_changed")
        /\ \A i \in 1 .. n : outbox'[t][i] = outbox[t][i]
    BY <1>2, <1>3, <1>6
  <2>2. \A i \in 1 .. Len(outbox'[t]) : i > n => i = n + 1
    BY <2>1
  <2>3. Told(outbox'[t][n + 1], "trip.status_changed")
    BY <2>1, <1>4
  <2> QED BY <2>1, <2>2, <2>3 DEF Told, r, t
<1>7. CASE msgs = << MessageOf(r, TopicOf(r.to)), MessageOf(r, "trip.status_changed") >>
  <2>1. /\ Len(outbox'[t]) = n + 2 /\ n \in Nat
        /\ outbox'[t][n + 1] = MessageOf(r, TopicOf(r.to))
        /\ outbox'[t][n + 2] = MessageOf(r, "trip.status_changed")
        /\ \A i \in 1 .. n : outbox'[t][i] = outbox[t][i]
    BY <1>2, <1>3, <1>7
  <2>2. \A i \in 1 .. Len(outbox'[t]) : i > n => i = n + 1 \/ i = n + 2
    BY <2>1
  <2>3. /\ Told(outbox'[t][n + 1], TopicOf(r.to))
        /\ Told(outbox'[t][n + 2], "trip.status_changed")
    BY <2>1, <1>4
  <2> QED BY <2>1, <2>2, <2>3 DEF Told, r, t
<1> QED BY <1>5, <1>6, <1>7

\* At first no message has been handed over.
LEMMA MessagesInit == Init => MessagesSound /\ MessagesAreTrue
BY DEF Init, MessagesSound, MessagesAreTrue

\* A message handed over earlier stays sound: versions only grow, and a
\* cancelled trip takes no further move.
LEMMA MessagesSoundStep ==
  ASSUME Core, MessagesSound, [Next]_vars
  PROVE  MessagesSound'
<1>1. ASSUME NEW c \in Calls, Save(c) PROVE MessagesSound'
  <2> DEFINE r == calls[c]
             t == r.trip
             n == Len(outbox[t])
             v == trips[t].version
  <2>1. /\ t \in Trips
        /\ CanTransition(trips[t].status, r.to)
        /\ AtDepth(r.to, v + 1)
        /\ v \in Nat
    BY <1>1, SaveCommits, VersionIsNat DEF Core
  <2>2. /\ trips'[t].status = r.to /\ trips'[t].version = v + 1
        /\ \A u \in Trips : u # t => trips'[u] = trips[u] /\ outbox'[u] = outbox[u]
    BY <1>1, SaveEffect
  <2>3. /\ n \in Nat
        /\ \A i \in 1 .. n : outbox'[t][i] = outbox[t][i]
        /\ Len(outbox'[t]) \in {n + 1, n + 2}
        /\ \A i \in 1 .. Len(outbox'[t]) : i > n =>
             /\ outbox'[t][i].topic \in {"trip.status_changed", TopicOf(r.to)}
             /\ outbox'[t][i].to = r.to
             /\ outbox'[t][i].version = v + 1
             /\ outbox'[t][i].topic # "trip.status_changed" => i = n + 1
    BY <1>1, NewMessages
  <2>4. trips[t].status # CANCELLED
    BY <2>1, EdgesByTarget
  <2>5. \A i \in 1 .. n :
          /\ outbox[t][i].to # CANCELLED
          /\ outbox[t][i].version \in Nat /\ outbox[t][i].version <= v
    <3>1. outbox[t] \in Seq(Message)
      BY <2>1 DEF Core, TypeOK
    <3>2. \A i \in 1 .. n : outbox[t][i] \in Message
      BY <3>1
    <3>3. \A i \in 1 .. n : outbox[t][i].version \in 1 .. 6
      BY <3>2 DEF Message
    <3>4. \A i \in 1 .. n :
            /\ outbox[t][i].to = CANCELLED => trips[t].status = CANCELLED
            /\ outbox[t][i].version <= v
      BY <2>1 DEF MessagesSound
    <3>5. \A k \in 1 .. 6 : k \in Nat
      OBVIOUS
    <3> HIDE DEF r, t, n, v
    <3> QED BY <2>4, <3>3, <3>4, <3>5 DEF t
  <2> HIDE DEF r, t, n, v
  <2>6. ASSUME NEW i \in 1 .. Len(outbox'[t])
        PROVE  LET m == outbox'[t][i]
               IN  /\ m.topic \in {"trip.status_changed", TopicOf(m.to)}
                   /\ m.to # CANCELLED => AtDepth(m.to, m.version)
                   /\ m.to = CANCELLED =>
                        trips'[t].status = CANCELLED /\ m.version = trips'[t].version
                   /\ m.version <= trips'[t].version
    <3>1. CASE i <= n
      <4>1. i \in 1 .. n
        BY <2>3, <3>1
      <4> QED BY <2>1, <2>2, <2>3, <2>5, <4>1 DEF MessagesSound, n
    <3>2. CASE i > n
      BY <2>1, <2>2, <2>3, <3>2
    <3> QED BY <2>3, <3>1, <3>2
  <2>7. ASSUME NEW i \in 1 .. Len(outbox'[t]), NEW j \in 1 .. Len(outbox'[t]),
               outbox'[t][i].topic # "trip.status_changed",
               outbox'[t][j].topic # "trip.status_changed",
               outbox'[t][i].version = outbox'[t][j].version
        PROVE  i = j
    <3>1. CASE i <= n /\ j <= n
      <4>1. i \in 1 .. n /\ j \in 1 .. n
        BY <2>3, <3>1
      <4>2. \A k, l \in 1 .. Len(outbox[t]) :
              (/\ outbox[t][k].topic # "trip.status_changed"
               /\ outbox[t][l].topic # "trip.status_changed"
               /\ outbox[t][k].version = outbox[t][l].version) => k = l
        BY <2>1 DEF MessagesSound
      <4>3. outbox'[t][i] = outbox[t][i] /\ outbox'[t][j] = outbox[t][j]
        BY <2>3, <4>1
      <4> QED BY <2>7, <4>1, <4>2, <4>3 DEF n
    <3>2. CASE i > n /\ j > n
      BY <2>3, <2>7, <3>2
    <3>3. CASE (i <= n /\ j > n) \/ (i > n /\ j <= n)
      <4>1. \A k \in 1 .. Len(outbox'[t]) : k <= n => outbox'[t][k].version <= v
        BY <2>3, <2>5
      <4>2. \A k \in 1 .. Len(outbox'[t]) : k > n => outbox'[t][k].version = v + 1
        BY <2>3
      <4> QED BY <2>1, <2>7, <3>3, <4>1, <4>2
    <3> QED BY <2>3, <3>1, <3>2, <3>3
  <2>8. ASSUME NEW u \in Trips, u # t
        PROVE  trips'[u] = trips[u] /\ outbox'[u] = outbox[u]
    BY <2>2, <2>8
  <2> QED BY <2>6, <2>7, <2>8 DEF MessagesSound
<1>2. CASE ~(\E c \in Calls : Save(c))
  <2>1. \A t \in Trips : trips[t].status = ABSENT => Len(outbox[t]) = 0
    <3>1. SUFFICES ASSUME NEW t \in Trips, trips[t].status = ABSENT,
                          Len(outbox[t]) # 0
                   PROVE  FALSE
      OBVIOUS
    <3>2. outbox[t] \in Seq(Message) /\ 1 \in 1 .. Len(outbox[t])
      BY <3>1 DEF Core, TypeOK
    <3>3. outbox[t][1] \in Message
      BY <3>2
    <3>4. outbox[t][1].version \in 1 .. 6
      BY <3>3 DEF Message
    <3>5. trips[t].version = 0
      BY <3>1 DEF Core, RowsSound, AtDepth, ABSENT
    <3> QED BY <3>2, <3>4, <3>5 DEF MessagesSound
  <2>2. outbox' = outbox
    BY <1>2, OnlySaveMoves
  <2>3. \A t \in Trips : Len(outbox[t]) # 0 =>
          trips'[t].status = trips[t].status /\ trips'[t].version = trips[t].version
    BY <1>2, <2>1, OnlySaveMoves
  <2>4. \A t \in Trips : \A i \in 1 .. Len(outbox[t]) : Len(outbox[t]) # 0
    OBVIOUS
  <2> QED BY <2>2, <2>3, <2>4 DEF MessagesSound
<1> QED BY <1>1, <1>2

\* A message says what the log says of its version, now and later.
LEMMA MessagesTrueStep ==
  ASSUME Core, LogIsHistory, MessagesSound, MessagesAreTrue, [Next]_vars
  PROVE  MessagesAreTrue'
<1> DEFINE True(t, i) ==
      LET m == outbox[t][i]
      IN  /\ m.version <= Len(events[t])
          /\ events[t][m.version] = [from |-> m.from, to |-> m.to]
          /\ m.driver # NoDriver => m.driver = trips[t].driver
          /\ m.fee => m.driver # NoDriver /\ trips[t].status = CANCELLED
          /\ m.to \in Unfinished => m.driver # NoDriver
<1>0. \A t \in Trips : \A i \in 1 .. Len(outbox[t]) :
        /\ outbox[t][i].version \in 1 .. 6
        /\ True(t, i)
  <2>1. ASSUME NEW t \in Trips, NEW i \in 1 .. Len(outbox[t])
        PROVE  outbox[t][i].version \in 1 .. 6
    <3>1. outbox[t][i] \in Message
      BY DEF Core, TypeOK
    <3> QED BY <3>1 DEF Message
  <2> QED BY <2>1 DEF MessagesAreTrue
<1>1. ASSUME NEW c \in Calls, Save(c),
             NEW u \in Trips, NEW i \in 1 .. Len(outbox'[u])
      PROVE  True(u, i)'
  <2> DEFINE r == calls[c]
             t == r.trip
             n == Len(outbox[t])
             v == trips[t].version
             e == [from |-> trips[t].status, to |-> r.to]
  <2>1. /\ t \in Trips
        /\ CanTransition(trips[t].status, r.to)
        /\ r.to = ASSIGNED => r.driver \in Drivers
        /\ r.to # ASSIGNED => r.driver = trips[t].driver
        /\ r.fee => r.to = CANCELLED /\ r.driver # NoDriver
        /\ v \in Nat
    BY <1>1, SaveCommits, VersionIsNat DEF Core
  <2>2. /\ trips'[t].status = r.to /\ trips'[t].driver = r.driver
        /\ \A w \in Trips : w # t =>
             /\ trips'[w] = trips[w] /\ outbox'[w] = outbox[w]
             /\ events'[w] = events[w]
        /\ events'[t] = Append(events[t], e)
    BY <1>1, SaveEffect
  <2>3. CASE u # t
    BY <1>0, <2>2, <2>3
  <2>4. CASE u = t
    <3>1. events[t] \in Seq(Event) /\ Len(events[t]) = v
      BY <2>1 DEF Core, TypeOK, LogIsHistory
    <3>2. /\ Len(events'[t]) = v + 1
          /\ events'[t][v + 1] = e
          /\ \A k \in 1 .. v : events'[t][k] = events[t][k]
      <4> HIDE DEF e
      <4> QED BY <2>1, <2>2, <3>1
    <3>3. /\ n \in Nat
          /\ \A k \in 1 .. n : outbox'[t][k] = outbox[t][k]
          /\ Len(outbox'[t]) \in {n + 1, n + 2}
          /\ \A k \in 1 .. Len(outbox'[t]) : k > n =>
               /\ outbox'[t][k].from = trips[t].status
               /\ outbox'[t][k].to = r.to
               /\ outbox'[t][k].driver = r.driver
               /\ outbox'[t][k].fee = r.fee
               /\ outbox'[t][k].version = v + 1
      BY <1>1, NewMessages
    <3>4. CASE i <= n
      <4>1. i \in 1 .. n
        BY <2>4, <3>3, <3>4
      <4>2. outbox[t][i].version \in 1 .. v
        <5>1. outbox[t][i].version \in 1 .. 6 /\ outbox[t][i].version <= Len(events[t])
          BY <1>0, <2>1, <4>1
        <5> QED BY <2>1, <3>1, <5>1
      <4>3. outbox[t][i].driver # NoDriver => r.driver = trips[t].driver
        <5>1. r.to = ASSIGNED => trips[t].driver = NoDriver
          BY <2>1, EdgesByTarget DEF Core, RowsSound
        <5> QED BY <1>0, <2>1, <4>1, <5>1
      <4>4. ~outbox[t][i].fee
        BY <1>0, <2>1, <4>1, EdgesByTarget
      <4>5. outbox'[t][i] = outbox[t][i]
        BY <3>3, <4>1
      <4>6. events'[t][outbox[t][i].version] = events[t][outbox[t][i].version]
        BY <3>2, <4>2
      <4>7. outbox[t][i].version <= Len(events'[t])
        BY <2>1, <3>2, <4>2
      <4>8. True(t, i)
        BY <1>0, <2>1, <4>1
      <4> HIDE DEF r, t, n, v, e
      <4> QED BY <2>2, <2>4, <4>3, <4>4, <4>5, <4>6, <4>7, <4>8
    <3>5. CASE i > n
      <4>1. r.to \in Unfinished => r.driver # NoDriver
        BY <2>1, EdgesByTarget, NoneAssumption
           DEF Core, RowsSound, Unfinished, ActiveIndex, ASSIGNED, ARRIVED, IN_PROGRESS,
               COMPLETED
      <4>2. e.from = trips[t].status /\ e.to = r.to
        OBVIOUS
      <4> HIDE DEF r, t, n, v
      <4> QED BY <2>1, <2>2, <2>4, <3>2, <3>3, <3>5, <4>1
    <3> QED BY <2>4, <3>3, <3>4, <3>5
  <2> QED BY <2>3, <2>4
<1>2. ASSUME ~(\E c \in Calls : Save(c)), UNCHANGED events,
             NEW u \in Trips, NEW i \in 1 .. Len(outbox'[u])
      PROVE  True(u, i)'
  <2>1. outbox' = outbox
    BY <1>2, OnlySaveMoves
  <2>2. trips[u].status # ABSENT
    <3>1. SUFFICES ASSUME trips[u].status = ABSENT PROVE FALSE
      OBVIOUS
    <3>2. Len(events[u]) = 0
      BY <3>1 DEF Core, RowsSound, AtDepth, ABSENT, LogIsHistory
    <3>3. outbox[u][i].version \in 1 .. 6 /\ outbox[u][i].version <= Len(events[u])
      BY <1>0, <2>1
    <3> QED BY <3>2, <3>3
  <2>3. trips'[u].status = trips[u].status /\ trips'[u].driver = trips[u].driver
    BY <1>2, <2>2, OnlySaveMoves
  <2> QED BY <1>0, <1>2, <2>1, <2>3
<1>3. (\E c \in Calls : Save(c)) \/ UNCHANGED events
  BY StepCases, CreateOpens DEF Core, Opened, SetRating, PublishRated, Fail, vars
<1>4. \A u \in Trips : \A i \in 1 .. Len(outbox'[u]) : True(u, i)'
  BY <1>1, <1>2, <1>3
<1> QED BY <1>4 DEF MessagesAreTrue

\* A topic is used once, and a trip has one outcome: two messages of the same
\* topic come from the same depth of the graph, and a cancelled trip stopped
\* before the depth of COMPLETED.
LEMMA OutcomeFollows ==
  ASSUME Core, MessagesSound
  PROVE  OutcomeAnnouncedOnce
<1> SUFFICES ASSUME NEW t \in Trips, NEW i \in 1 .. Len(outbox[t]),
                    NEW j \in 1 .. Len(outbox[t]),
                    \/ outbox[t][i].topic = outbox[t][j].topic
                    \/ {outbox[t][i].topic, outbox[t][j].topic} \subseteq Outcomes,
                    outbox[t][i].topic # "trip.status_changed"
             PROVE  i = j
  BY DEF OutcomeAnnouncedOnce
<1> DEFINE a == outbox[t][i]
           b == outbox[t][j]
<1>1. a \in Message /\ b \in Message
  BY DEF Core, TypeOK
<1>2. /\ a.topic \in {"trip.status_changed", TopicOf(a.to)}
      /\ b.topic \in {"trip.status_changed", TopicOf(b.to)}
      /\ a.to # CANCELLED => AtDepth(a.to, a.version)
      /\ b.to # CANCELLED => AtDepth(b.to, b.version)
      /\ a.to = CANCELLED => trips[t].status = CANCELLED /\ a.version = trips[t].version
      /\ b.to = CANCELLED => trips[t].status = CANCELLED /\ b.version = trips[t].version
      /\ a.version <= trips[t].version /\ b.version <= trips[t].version
      /\ (/\ a.topic # "trip.status_changed" /\ b.topic # "trip.status_changed"
          /\ a.version = b.version) => i = j
  BY DEF MessagesSound
<1>3. a.topic # "trip.status_changed" /\ b.topic # "trip.status_changed"
  BY DEF Outcomes
<1>4. a.topic = TopicOf(a.to) /\ b.topic = TopicOf(b.to)
  BY <1>2, <1>3
<1>5. TopicOf(a.to) # NoTopic /\ TopicOf(b.to) # NoTopic
  BY <1>1, <1>4 DEF Message, Topics, NoTopic
<1>6. AtDepth(trips[t].status, trips[t].version) /\ trips[t].version \in Nat
  BY VersionIsNat DEF Core, RowsSound
<1>7. CASE a.topic = b.topic
  <2>1. a.to = b.to
    BY <1>4, <1>5, <1>7, TopicsTell
  <2>2. a.to \in Status
    BY <1>1 DEF Message
  <2> HIDE DEF a, b
  <2>3. a.to # CANCELLED => a.version = b.version
    BY <1>2, <2>1, <2>2 DEF AtDepth, Status, CANCELLED
  <2>4. a.to = CANCELLED => a.version = b.version
    BY <1>2, <2>1
  <2> QED BY <1>2, <1>3, <2>3, <2>4
<1>8. CASE a.topic # b.topic
  <2>1. \/ a.topic = "trip.completed" /\ b.topic = "trip.cancelled"
        \/ a.topic = "trip.cancelled" /\ b.topic = "trip.completed"
    BY <1>8 DEF Outcomes
  <2>2. \/ a.to = COMPLETED /\ b.to = CANCELLED
        \/ a.to = CANCELLED /\ b.to = COMPLETED
    BY <1>4, <1>5, <2>1, OutcomeTopics
  <2>3. \/ a.to = COMPLETED /\ AtDepth(COMPLETED, a.version)
        \/ b.to = COMPLETED /\ AtDepth(COMPLETED, b.version)
    BY <1>2, <2>2 DEF COMPLETED, CANCELLED
  <2>4. trips[t].version \in 1 .. 4
    BY <1>2, <1>6, <2>2 DEF AtDepth, CANCELLED
  <2>5. a.version = 5 \/ b.version = 5
    BY <2>3 DEF AtDepth, COMPLETED
  <2> HIDE DEF a, b
  <2> QED BY <1>2, <2>4, <2>5
<1> QED BY <1>7, <1>8

\* What the outbox holds, and the log it tells of.
LEMMA MessagesInvariant ==
  Spec => [](Core /\ LogIsHistory /\ MessagesSound /\ MessagesAreTrue)
<1> DEFINE Inv == Core /\ LogIsHistory /\ MessagesSound /\ MessagesAreTrue
<1>1. Init => Inv
  BY CoreInit, LogInit, MessagesInit
<1>2. Inv /\ [Next]_vars => Inv'
  BY CoreStep, LogStep, MessagesSoundStep, MessagesTrueStep
<1> QED BY <1>1, <1>2, PTL DEF Spec

\* Each business message of a trip leaves at most once, never both
\* trip.completed and trip.cancelled, whichever requests race.
THEOREM MessagesCorrect == Spec => []OutcomeAnnouncedOnce
<1>1. Core /\ LogIsHistory /\ MessagesSound /\ MessagesAreTrue => OutcomeAnnouncedOnce
  BY OutcomeFollows
<1> QED BY <1>1, MessagesInvariant, PTL

\* Every message tells of an edge the log has, with the driver and the fee of the
\* trip as it stands.
THEOREM MessagesTrue == Spec => []MessagesAreTrue
<1> QED BY MessagesInvariant, PTL

-------------------------------------------------------------------------------
(***************************************************************************)
(* The refinement.                                                         *)
(***************************************************************************)

\* A trip that is not there is absent in the abstraction.
LEMMA LifecycleInit == Init => Lifecycle!Init
BY DEF Init, Lifecycle!Init, AbsentTrip, ABSENT, Lifecycle!ABSENT

\* A Save is an edge of the life cycle; whatever else happens is not seen.
LEMMA LifecycleStep ==
  ASSUME Core, [Next]_vars
  PROVE  [Lifecycle!Next]_(Lifecycle!vars)
<1> DEFINE status == [t \in Trips |-> trips[t].status]
           driver == [t \in Trips |-> trips[t].driver]
<1>1. ASSUME NEW c \in Calls, Save(c) PROVE Lifecycle!Next
  <2>0. PICK t \in Trips, to \in Status, d \in DriverOrNone :
          t = calls[c].trip /\ to = calls[c].to /\ d = calls[c].driver
    <3>1. /\ calls[c] \in Request /\ calls[c].trip \in Trips
          /\ CanTransition(trips[calls[c].trip].status, calls[c].to)
      BY <1>1, SaveCommits
    <3>2. calls[c].driver \in DriverOrNone
      BY <3>1 DEF Request
    <3>3. calls[c].to \in Status
      BY <3>1, EdgesAreStatuses
    <3> QED BY <3>1, <3>2, <3>3
  <2>1. /\ CanTransition(trips[t].status, to)
        /\ to = ASSIGNED => d \in Drivers
        /\ to # ASSIGNED => d = trips[t].driver
    BY <1>1, <2>0, SaveCommits
  <2>2. /\ trips'[t].status = to /\ trips'[t].driver = d
        /\ \A u \in Trips : u # t => trips'[u] = trips[u]
    BY <1>1, <2>0, SaveEffect
  <2>3. status' = [status EXCEPT ![t] = to] /\ driver' = [driver EXCEPT ![t] = d]
    BY <2>2
  <2>4. CASE to = ASSIGNED
    <3>1. trips[t].status = SEARCHING /\ d \in Drivers
      BY <2>1, <2>4, EdgesByTarget
    <3>2. IndexAllows(t, d, ASSIGNED)
      BY <1>1, <2>0, <2>4 DEF Save
    <3>3. ASSUME NEW u \in Trips, trips[u].driver = d
          PROVE  trips[u].status \notin ActiveIndex
      BY <3>1, <3>2, <3>3, NoneAssumption
         DEF IndexAllows, ActiveIndex, ASSIGNED, SEARCHING
    <3>4. Lifecycle!Free(d)
      BY <3>3 DEF Lifecycle!Free, Lifecycle!ActiveIndex, ActiveIndex
    <3>5. Lifecycle!Match(t, d)
      BY <2>3, <2>4, <3>1, <3>4
         DEF Lifecycle!Match, SEARCHING, Lifecycle!SEARCHING, ASSIGNED, Lifecycle!ASSIGNED
    <3> QED BY <3>1, <3>5 DEF Lifecycle!Next
  <2>5. CASE to # ASSIGNED
    <3>1. driver' = driver
      BY <2>1, <2>3, <2>5
    <3>2. Lifecycle!CanTransition(status[t], to) /\ to # Lifecycle!ASSIGNED
      BY <2>1, <2>5
         DEF CanTransition, transitions, Lifecycle!CanTransition, Lifecycle!transitions,
             ASSIGNED, Lifecycle!ASSIGNED
    <3>3. Lifecycle!Move(t, to)
      BY <2>3, <3>1, <3>2 DEF Lifecycle!Move
    <3>4. to \in Lifecycle!Status
      BY DEF Lifecycle!Status, Status
    <3> QED BY <3>3, <3>4 DEF Lifecycle!Next
  <2> QED BY <2>4, <2>5
<1>2. ASSUME NEW c \in Calls, NEW t \in Trips, Create(c, t) PROVE Lifecycle!Next
  <2>1. /\ trips[t].status = ABSENT
        /\ trips'[t].status = CREATED /\ trips'[t].driver = NoDriver
        /\ \A u \in Trips : u # t => trips'[u] = trips[u]
    BY <1>2, CreateOpens
  <2>2. trips[t].driver = NoDriver
    BY <2>1 DEF Core, RowsSound
  <2>3. status' = [status EXCEPT ![t] = CREATED] /\ driver' = driver
    BY <2>1, <2>2
  <2>4. Lifecycle!Request(t)
    BY <2>1, <2>3
       DEF Lifecycle!Request, ABSENT, Lifecycle!ABSENT, CREATED, Lifecycle!CREATED
  <2> QED BY <2>4 DEF Lifecycle!Next
<1>3. ASSUME NEW c \in Calls, SetRating(c) PROVE UNCHANGED Lifecycle!vars
  <2>1. /\ calls[c].trip \in Trips
        /\ trips' = [trips EXCEPT ![calls[c].trip] = [@ EXCEPT !.rating = calls[c].stars]]
    BY <1>3 DEF SetRating, Core, TypeOK, Request
  <2>2. \A u \in Trips : trips'[u].status = trips[u].status /\ trips'[u].driver = trips[u].driver
    BY <2>1 DEF Core, TypeOK, Trip
  <2> QED BY <2>2 DEF Lifecycle!vars
<1>4. ASSUME UNCHANGED trips PROVE UNCHANGED Lifecycle!vars
  BY <1>4 DEF Lifecycle!vars
<1> QED
  BY <1>1, <1>2, <1>3, <1>4, StepCases DEF Core, Opened, PublishRated, Fail, vars

\* The trip service, with every interleaving of its requests, implements the
\* lifecycle: one legal edge at a time, a driver given once, on matching, to a
\* driver with no live trip, and never changed.
THEOREM LifecycleImplemented == Spec => ImplementsLifecycle
<1>1. Init => Lifecycle!Init
  BY LifecycleInit
<1>2. Core /\ [Next]_vars => [Lifecycle!Next]_(Lifecycle!vars)
  BY LifecycleStep
<1> QED
  BY <1>1, <1>2, CoreInvariant, PTL DEF Spec, ImplementsLifecycle, Lifecycle!Spec

-------------------------------------------------------------------------------
(***************************************************************************)
(* Ratings.                                                                *)
(***************************************************************************)

\* At first nothing is rated.
LEMMA RatingsInit == Init => RatingsSound
BY DEF Init, RatingsSound

\* A step that neither rates nor announces keeps the ratings sound.
LEMMA RatingsKept ==
  ASSUME Core, RatingsSound, rated' = rated,
         \A t \in Trips : trips[t].status # ABSENT => trips'[t].rating = trips[t].rating,
         \A t \in Trips : trips[t].status = ABSENT => trips[t].rating = NoRating,
         \A d \in Calls : calls'[d] # NoCall /\ calls'[d].step = "publishRated" =>
           calls'[d] = calls[d]
  PROVE  RatingsSound'
<1>1. \A d \in Calls : calls[d] # NoCall =>
        calls[d].trip \in Trips /\ trips[calls[d].trip].status # ABSENT
  BY DEF Core, TypeOK, Request, SnapshotsFresh
<1>2. \A t \in Trips : Len(rated[t]) = 1 => trips[t].status # ABSENT
  BY DEF RatingsSound
<1> QED BY <1>1, <1>2 DEF RatingsSound

\* At most one request reaches PublishRated for a trip.
LEMMA RatingsStep ==
  ASSUME Core, RatingsSound, [Next]_vars
  PROVE  RatingsSound'
<1>0. \A t \in Trips : trips[t].status = ABSENT => trips[t].rating = NoRating
  BY DEF Core, RowsSound
<1>1. CASE UNCHANGED vars
  BY <1>1 DEF RatingsSound, vars
<1>2. ASSUME NEW c \in Calls, NEW t \in Trips, Create(c, t) PROVE RatingsSound'
  <2>1. /\ rated' = rated /\ trips[t].status = ABSENT
        /\ \A u \in Trips : u # t => trips'[u] = trips[u]
        /\ \A d \in Calls : d # c => calls'[d] = calls[d]
        /\ calls'[c].step = "save"
    BY <1>2, CreateOpens
  <2> QED BY <1>0, <2>1, RatingsKept
<1>3. ASSUME NEW c \in Calls, NEW t \in Trips, NEW r, Opened(c, t, r)
      PROVE  RatingsSound'
  <2>1. /\ rated' = rated /\ trips' = trips
        /\ calls' = [calls EXCEPT ![c] = r] /\ r.step # "publishRated"
    BY <1>3 DEF Opened
  <2>2. \A d \in Calls : calls'[d].step = "publishRated" => calls'[d] = calls[d]
    BY <2>1 DEF Core, TypeOK
  <2> QED BY <1>0, <2>1, <2>2, RatingsKept
<1>4. ASSUME NEW c \in Calls, Save(c) PROVE RatingsSound'
  <2>1. /\ rated' = rated
        /\ trips'[calls[c].trip].rating = trips[calls[c].trip].rating
        /\ \A u \in Trips : u # calls[c].trip => trips'[u] = trips[u]
        /\ calls'[c] = NoCall
        /\ \A d \in Calls : d # c => calls'[d] = calls[d]
    BY <1>4, SaveEffect
  <2> QED BY <1>0, <2>1, RatingsKept
<1>5. ASSUME NEW c \in Calls, SetRating(c) PROVE RatingsSound'
  <2> DEFINE r == calls[c]
             t == r.trip
  <2>1. /\ r \in Request /\ r # NoCall /\ r.step = "setRating" /\ t \in Trips
        /\ trips[t].rating = NoRating /\ rated' = rated
        /\ trips' = [trips EXCEPT ![t] = [@ EXCEPT !.rating = r.stars]]
        /\ calls' = [calls EXCEPT ![c] = [@ EXCEPT !.step = "publishRated"]]
    BY <1>5 DEF SetRating, Core, TypeOK, Request
  <2>2. r.stars \in Stars
    BY <2>1 DEF Core, DecisionsSound, DecisionSound
  <2>3. /\ trips'[t].rating = r.stars
        /\ \A u \in Trips : u # t => trips'[u] = trips[u]
    BY <2>1 DEF Core, TypeOK, Trip
  <2>4. /\ calls'[c].step = "publishRated" /\ calls'[c].trip = t
        /\ calls'[c].stars = r.stars
        /\ \A d \in Calls : d # c => calls'[d] = calls[d]
    BY <2>1 DEF Core, TypeOK, Request
  \* The column was empty: nothing was announced, nobody is about to.
  <2>5. Len(rated[t]) = 0
    <3>1. Len(rated[t]) \in Nat /\ Len(rated[t]) <= 1
      BY <2>1 DEF RatingsSound, Core, TypeOK
    <3>2. Len(rated[t]) # 1
      BY <2>1 DEF RatingsSound
    <3> DEFINE n == Len(rated[t])
    <3>3. n \in Nat /\ n <= 1 /\ n # 1
      BY <3>1, <3>2
    <3> HIDE DEF n
    <3>4. n = 0
      BY <3>3
    <3> QED BY <3>4 DEF n
  <2>6. \A d \in Calls : (calls[d] # NoCall /\ calls[d].step = "publishRated") =>
          calls[d].trip # t
    <3>1. SUFFICES ASSUME NEW d \in Calls, calls[d] # NoCall,
                          calls[d].step = "publishRated", calls[d].trip = t
                   PROVE  FALSE
      OBVIOUS
    <3>2. trips[t].rating = calls[d].stars
      BY <3>1 DEF RatingsSound
    <3>3. calls[d].stars \in Stars
      BY <3>1 DEF Core, DecisionsSound, DecisionSound
    <3> QED BY <2>1, <3>2, <3>3, NoneAssumption
  <2>7. NoRating \notin Stars
    BY NoneAssumption
  <2> HIDE DEF r, t
  <2>8. \A u \in Trips :
          /\ Len(rated'[u]) <= 1
          /\ Len(rated'[u]) = 1 =>
               trips'[u].rating # NoRating /\ rated'[u][1] = trips'[u].rating
    BY <2>1, <2>3, <2>5 DEF RatingsSound
  <2>9. ASSUME NEW d \in Calls, calls'[d] # NoCall, calls'[d].step = "publishRated"
        PROVE  /\ Len(rated'[calls'[d].trip]) = 0
               /\ trips'[calls'[d].trip].rating = calls'[d].stars
               /\ \A e \in Calls \ {d} :
                    calls'[e] # NoCall /\ calls'[e].step = "publishRated" =>
                      calls'[e].trip # calls'[d].trip
    <3>1. CASE d = c
      BY <2>1, <2>3, <2>4, <2>5, <2>6, <3>1
    <3>2. CASE d # c
      <4>1. calls'[d] = calls[d] /\ calls[d].trip # t
        BY <2>4, <2>6, <2>9, <3>2
      <4>2. calls[d].trip \in Trips
        BY <2>9, <4>1 DEF Core, TypeOK, Request
      <4>3. /\ Len(rated[calls[d].trip]) = 0
            /\ trips[calls[d].trip].rating = calls[d].stars
            /\ \A e \in Calls \ {d} :
                 calls[e] # NoCall /\ calls[e].step = "publishRated" =>
                   calls[e].trip # calls[d].trip
        BY <2>9, <4>1 DEF RatingsSound
      <4> QED BY <2>1, <2>3, <2>4, <4>1, <4>2, <4>3
    <3> QED BY <3>1, <3>2
  <2> QED BY <2>8, <2>9 DEF RatingsSound
<1>6. ASSUME NEW c \in Calls, PublishRated(c) PROVE RatingsSound'
  <2> DEFINE r == calls[c]
             t == r.trip
  <2>1. /\ r \in Request /\ r # NoCall /\ r.step = "publishRated" /\ t \in Trips
        /\ rated' = [rated EXCEPT ![t] = Append(@, r.stars)]
        /\ calls' = [calls EXCEPT ![c] = NoCall]
        /\ trips' = trips
    BY <1>6 DEF PublishRated, Core, TypeOK, Request
  <2>2. /\ Len(rated[t]) = 0 /\ trips[t].rating = r.stars
        /\ \A d \in Calls \ {c} :
             calls[d] # NoCall /\ calls[d].step = "publishRated" => calls[d].trip # t
    BY <2>1 DEF RatingsSound
  <2>3. r.stars \in Stars /\ NoRating \notin Stars
    BY <2>1, NoneAssumption DEF Core, DecisionsSound, DecisionSound
  <2> HIDE DEF r, t
  <2>4. rated[t] \in Seq(Stars)
    BY <2>1 DEF Core, TypeOK
  <2>5. /\ Len(rated'[t]) = 1 /\ rated'[t][1] = r.stars
        /\ \A u \in Trips : u # t => rated'[u] = rated[u]
    BY <2>1, <2>2, <2>3, <2>4 DEF Core, TypeOK
  <2>6. \A d \in Calls : calls'[d] # NoCall => d # c /\ calls'[d] = calls[d]
    BY <2>1 DEF Core, TypeOK
  <2>7. \A d \in Calls : calls[d] # NoCall => calls[d].trip \in Trips
    BY DEF Core, TypeOK, Request
  <2>8. \A u \in Trips :
          /\ Len(rated'[u]) <= 1
          /\ Len(rated'[u]) = 1 =>
               trips'[u].rating # NoRating /\ rated'[u][1] = trips'[u].rating
    BY <2>1, <2>2, <2>3, <2>5 DEF RatingsSound
  <2>9. ASSUME NEW d \in Calls, calls'[d] # NoCall, calls'[d].step = "publishRated"
        PROVE  /\ Len(rated'[calls'[d].trip]) = 0
               /\ trips'[calls'[d].trip].rating = calls'[d].stars
               /\ \A e \in Calls \ {d} :
                    calls'[e] # NoCall /\ calls'[e].step = "publishRated" =>
                      calls'[e].trip # calls'[d].trip
    BY <2>1, <2>2, <2>5, <2>6, <2>7, <2>9 DEF RatingsSound
  <2> QED BY <2>8, <2>9 DEF RatingsSound
<1>7. ASSUME NEW c \in Calls, Fail(c) PROVE RatingsSound'
  <2>1. /\ calls' = [calls EXCEPT ![c] = NoCall] /\ rated' = rated /\ trips' = trips
    BY <1>7 DEF Fail
  <2>2. \A d \in Calls : calls'[d] # NoCall => calls'[d] = calls[d]
    BY <2>1 DEF Core, TypeOK
  <2> QED BY <1>0, <2>1, <2>2, RatingsKept
<1> QED BY <1>1, <1>2, <1>3, <1>4, <1>5, <1>6, <1>7, StepCases DEF Core

\* A trip is rated once, and the one trip.rated that leaves carries the rating
\* the trip keeps: of any number of concurrent Rate requests, one wins
\* (SetRating's "rating IS NULL").
THEOREM RatingCorrect == Spec => []RatedOnce
<1>1. Init => Core /\ RatingsSound
  BY CoreInit, RatingsInit
<1>2. Core /\ RatingsSound /\ [Next]_vars => (Core /\ RatingsSound)'
  BY CoreStep, RatingsStep
<1>3. Core /\ RatingsSound => RatedOnce
  <2>1. ASSUME Core, RatingsSound, NEW t \in Trips, NEW i \in 1 .. Len(rated[t])
        PROVE  i = 1 /\ rated[t][i] = trips[t].rating
    <3>1. Len(rated[t]) <= 1 /\ Len(rated[t]) \in Nat
      BY <2>1 DEF RatingsSound, Core, TypeOK
    <3> DEFINE n == Len(rated[t])
    <3>2. i = 1 /\ n = 1
      <4>1. n \in Nat /\ n <= 1 /\ i \in 1 .. n
        BY <3>1
      <4> HIDE DEF n
      <4> QED BY <4>1
    <3>3. Len(rated[t]) = 1 => rated[t][1] = trips[t].rating
      BY <2>1 DEF RatingsSound
    <3> QED BY <3>2, <3>3
  <2> QED BY <2>1 DEF RatedOnce
<1> QED BY <1>1, <1>2, <1>3, PTL DEF Spec
==============================================================================
