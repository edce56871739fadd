-------------------------------- MODULE Presence --------------------------------
(***************************************************************************)
(* Where a driver is (internal/location, internal/mqttauth): the app sends *)
(* its position over MQTT every tick, pings are taken in at the same time  *)
(* and in any order, filtered and written to an index, in the memory of    *)
(* the process or in Redis, and dispatchers ask the index who is near.     *)
(*                                                                         *)
(* One driver, the places of a line, and ages instead of times: an age is  *)
(* how many ticks ago the clock of the device stood at the time in the     *)
(* message.  Whatever disturbs the driver uses up a budget.                *)
(***************************************************************************)
EXTENDS Integers, FiniteSets, FiniteSetsExt

CONSTANTS
  Places,       \* 0 .. n
  Speed,        \* MaxPlausibleSpeedMps
  Radius,       \* of a search
  StaleAfter,
  HashTTL,      \* 4 * StaleAfter, the life of the hash in Redis
  MaxLag,       \* a ping is taken in while it is at most this old
  Oldest,       \* ages are counted up to here
  MaxEvents

VARIABLES
  index,     \* "memory" or "redis"
  here,      \* where the driver is
  status,    \* the driver's, in Postgres
  online,    \* the MQTT connection
  due,       \* the app's next ping
  mail,      \* pings on their way: [place, age]
  work,      \* pings that are taken in: [place, age, step, status]
  wills,     \* Last Wills on their way
  spot,      \* the member of the ZSET: a place, or NoPlace
  hash,      \* the snapshot, or NoHash
  hashLife,  \* ticks the hash has left
  search,    \* of the dispatcher: [step, age]
  found,     \* what the last search said
  events

presenceVars == <<index, here, status, online, due, mail, work, wills, spot, hash,
                  hashLife, search, found, events>>

NoPlace == -1
NoHash == [status |-> "none"]

PresenceInit ==
  /\ index \in {"memory", "redis"}
  /\ here = 0 /\ status = "IDLE" /\ online = TRUE /\ due = TRUE
  /\ mail = {} /\ work = {} /\ wills = 0
  /\ spot = NoPlace /\ hash = NoHash /\ hashLife = 0
  /\ search = [step |-> "none", age |-> 0] /\ found = FALSE
  /\ events = 0

Event == events < MaxEvents /\ events' = events + 1
NoEvent == UNCHANGED events

Distance(p, q) == IF p > q THEN p - q ELSE q - p

-------------------------------------------------------------------------------
(* Who may connect and publish: two drivers and a rider.                   *)

Topic(kind, id, what) == [kind |-> kind, id |-> id, what |-> what]

\* Rules by username: what a device of the driver or the rider may do.
driverRules(id) ==
  {[action |-> "publish", topic |-> Topic("drv", id, w)] : w \in {"loc", "status"}} \cup
  {[action |-> "subscribe", topic |-> Topic("drv", id, w)] : w \in {"offer", "trip"}}

riderRules(id) ==
  {[action |-> "subscribe", topic |-> Topic("rdr", id, w)] : w \in {"trip", "driver_loc"}}

\* Which rules apply is told by the client id.
Authorize(device, action, topic) ==
  \E rule \in IF device.kind = "rdr" THEN riderRules(device.id) ELSE driverRules(device.id) :
    rule.action = action /\ rule.topic = topic

\* Authenticate has bound the client id and the username to the token.
Devices == {[kind |-> "drv", id |-> "d"], [kind |-> "drv", id |-> "e"], [kind |-> "rdr", id |-> "r"]}
Locations == {Topic("drv", "d", "loc"), Topic("drv", "e", "loc")}

\* authenticateDriver refuses a suspended driver, and the service when it fails.
Connect ==
  /\ ~online /\ status # "SUSPENDED"
  /\ online' = TRUE
  /\ UNCHANGED <<index, here, status, due, mail, work, wills, spot, hash, hashLife,
                 search, found, events>>

\* The broker then tells the Last Will.
Disconnect ==
  /\ online /\ wills = 0
  /\ online' = FALSE /\ wills' = 1
  /\ Event
  /\ UNCHANGED <<index, here, status, due, mail, work, spot, hash, hashLife, search,
                 found>>

-------------------------------------------------------------------------------
(* The driver.                                                             *)

\* At most as fast as is plausible.
Move(p) ==
  /\ p # here /\ Distance(p, here) <= Speed /\ ~due
  /\ here' = p
  /\ Event
  /\ UNCHANGED <<index, status, online, due, mail, work, wills, spot, hash, hashLife,
                 search, found>>

SetStatus(s) ==
  /\ s # status
  /\ status' = s
  /\ Event
  /\ UNCHANGED <<index, here, online, due, mail, work, wills, spot, hash, hashLife,
                 search, found>>

\* A device sends where it is; the driver is told by the topic (driverIDFrom).
\* The other devices are anywhere; a bad fix or a clock that is ahead is an event.
\* What is said on another driver's topic does not concern this one.
SendPing(device, topic, p, age) ==
  /\ Authorize(device, "publish", topic)
  /\ IF device.id = "d"
     THEN /\ online /\ due /\ due' = FALSE
          /\ IF p = here /\ age = 0 THEN NoEvent ELSE Event
     ELSE UNCHANGED due /\ NoEvent
  /\ topic.id = "d"
  /\ mail' = mail \cup {[place |-> p, age |-> age]}
  /\ UNCHANGED <<index, here, status, online, work, wills, spot, hash, hashLife,
                 search, found>>

-------------------------------------------------------------------------------
(* Ingest.                                                                 *)

\* Not mocked, not too inexact; those pings are dropped and change nothing here.
Jump(m) ==
  LET dt == hash.age - m.age
  IN  hash # NoHash /\ dt > 0 /\ Distance(hash.place, m.place) > Speed * dt

\* QoS 1: the broker may deliver a ping again.
Received(m) ==
  \/ mail' = mail \ {m} /\ NoEvent
  \/ UNCHANGED mail /\ Event

\* Mutant: a refused jump still counts as a sign of life.
IngestAlive(m) ==
  /\ m \in mail /\ Received(m)
  /\ work' = IF Jump(m) THEN work
             ELSE work \cup {[place |-> m.place, age |-> m.age, step |-> "checked"]}
  /\ hash' = IF Jump(m) THEN [hash EXCEPT !.age = m.age] ELSE hash
  /\ UNCHANGED <<index, here, status, online, due, wills, spot, hashLife, search,
                 found>>

\* An implausible jump is refused and leaves the index alone; an error of Get is
\* taken for no snapshot.
Ingest(m) ==
  /\ m \in mail /\ Received(m)
  /\ work' = IF Jump(m) THEN work
             ELSE work \cup {[place |-> m.place, age |-> m.age, step |-> "checked"]}
  /\ UNCHANGED <<index, here, status, online, due, wills, spot, hash, hashLife,
                 search, found>>

IngestUnchecked(m) ==
  /\ m \in mail /\ index = "redis" /\ Event
  /\ mail' = mail \ {m}
  /\ work' = work \cup {[place |-> m.place, age |-> m.age, step |-> "checked"]}
  /\ UNCHANGED <<index, here, status, online, due, wills, spot, hash, hashLife,
                 search, found>>

\* drivers.Get; its error ends the ping.
GetDriver(w) ==
  /\ w \in work /\ w.step = "checked"
  /\ \/ /\ NoEvent
        /\ work' = (work \ {w}) \cup
             {[place |-> w.place, age |-> w.age, step |-> "looked", status |-> status]}
     \/ Event /\ work' = work \ {w}
  /\ UNCHANGED <<index, here, status, online, due, mail, wills, spot, hash, hashLife,
                 search, found>>

Upsert(w) ==
  /\ spot' = w.place
  /\ hash' = [place |-> w.place, age |-> w.age, status |-> w.status]
  /\ hashLife' = HashTTL

Remove == spot' = NoPlace /\ hash' = NoHash /\ hashLife' = 0

\* A driver who is off or suspended is taken out of the index, any other written.
WriteIndex(w) ==
  /\ w \in work /\ w.step = "looked"
  /\ \/ NoEvent /\ IF w.status \in {"OFFLINE", "SUSPENDED"} THEN Remove ELSE Upsert(w)
     \/ index = "redis" /\ Event /\ UNCHANGED <<spot, hash, hashLife>>
  /\ work' = work \ {w}
  /\ UNCHANGED <<index, here, status, online, due, mail, wills, search, found>>

onStatus ==
  /\ wills > 0 /\ wills' = wills - 1
  /\ Remove
  /\ UNCHANGED <<index, here, status, online, due, mail, work, search, found, events>>

-------------------------------------------------------------------------------
(* Nearby.                                                                 *)

\* Filter: fresh, and free.
Match == hash # NoHash /\ hash.status = "IDLE" /\ hash.age <= StaleAfter
Within(p) == p # NoPlace /\ Distance(p, here) <= Radius

\* In memory the cells, places and snapshots are read under one lock.
NearbyInMemory ==
  /\ index = "memory" /\ search.step = "none"
  /\ found' = (Within(spot) /\ Match)
  /\ UNCHANGED <<index, here, status, online, due, mail, work, wills, spot, hash,
                 hashLife, search, events>>

GeoSearch ==
  /\ index = "redis" /\ search.step = "none"
  /\ search' = [step |-> IF Within(spot) THEN "read" ELSE "none", age |-> 0]
  /\ found' = IF Within(spot) THEN found ELSE FALSE
  /\ UNCHANGED <<index, here, status, online, due, mail, work, wills, spot, hash,
                 hashLife, events>>

HGetAll ==
  /\ search.step = "read"
  /\ found' = Match
  /\ search' = [search EXCEPT !.step = IF hash = NoHash THEN "clean" ELSE "none"]
  /\ UNCHANGED <<index, here, status, online, due, mail, work, wills, spot, hash,
                 hashLife, events>>

\* A member without a hash is taken out, whoever has written it since.
RemoveOrphan ==
  /\ search.step = "clean"
  /\ spot' = NoPlace
  /\ search' = [search EXCEPT !.step = "none"]
  /\ UNCHANGED <<index, here, status, online, due, mail, work, wills, hash, hashLife,
                 found, events>>

-------------------------------------------------------------------------------
Older(m) == [m EXCEPT !.age = @ + 1]

\* The app pings once a tick; no ping and no search takes longer than MaxLag and
\* a tick.
Tick ==
  /\ online => ~due
  /\ \A m \in mail \cup work : m.age < MaxLag
  /\ search.step = "none" \/ search.age = 0
  /\ due' = TRUE
  /\ mail' = {Older(m) : m \in mail}
  /\ work' = {Older(w) : w \in work}
  /\ search' = IF search.step = "none" THEN search ELSE [search EXCEPT !.age = 1]
  /\ IF index = "redis" /\ hashLife = 1
     THEN hash' = NoHash
     ELSE hash' = IF hash = NoHash THEN hash ELSE [hash EXCEPT !.age = Min({@ + 1, Oldest})]
  /\ hashLife' = IF index = "redis" /\ hashLife > 0 THEN hashLife - 1 ELSE hashLife
  /\ UNCHANGED <<index, here, status, online, wills, spot, found, events>>

PresenceNext ==
  \/ Connect \/ Disconnect
  \/ \E p \in Places : Move(p)
  \/ \E s \in {"IDLE", "ASSIGNED", "OFFLINE", "SUSPENDED"} : SetStatus(s)
  \/ \E device \in Devices, topic \in Locations, p \in Places, age \in {-1, 0} :
       SendPing(device, topic, p, age)
  \/ \E m \in mail : Ingest(m) \/ IngestUnchecked(m)
  \/ \E w \in work : GetDriver(w) \/ WriteIndex(w)
  \/ onStatus
  \/ NearbyInMemory \/ GeoSearch \/ HGetAll \/ RemoveOrphan
  \/ Tick

\* The app pings, what has arrived is taken in, searches end, and time goes on.
AppPings == \E topic \in Locations : SendPing([kind |-> "drv", id |-> "d"], topic, here, 0)
Consumed ==
  \/ \E m \in mail : Ingest(m)
  \/ \E w \in work : GetDriver(w) \/ WriteIndex(w)
  \/ onStatus
Searched == NearbyInMemory \/ GeoSearch \/ HGetAll \/ RemoveOrphan

PresenceFairness ==
  /\ WF_presenceVars(AppPings) /\ WF_presenceVars(Consumed)
  /\ WF_presenceVars(Searched) /\ WF_presenceVars(Tick)

PresenceSpec == PresenceInit /\ [][PresenceNext]_presenceVars /\ PresenceFairness

-------------------------------------------------------------------------------
PresenceTypeOK ==
  /\ here \in Places /\ spot \in Places \cup {NoPlace}
  /\ hash # NoHash => hash.place \in Places /\ hash.age \in -1 .. Oldest
  /\ hashLife \in 0 .. HashTTL /\ events \in 0 .. MaxEvents

\* A driver who stays free and connected is found again and again near where they
\* are: no bad fix, clock, error, Last Will or search that comes late keeps them
\* out of the index for good (location: Ingest, Nearby, onStatus).
PingingIsFound == <>[](status = "IDLE" /\ online) => []<>found
===============================================================================
