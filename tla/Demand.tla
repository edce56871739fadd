--------------------------------- MODULE Demand ---------------------------------
(***************************************************************************)
(* The demand that surge is computed from (internal/pricing: DemandSurge): *)
(* a consumer of trip.requested reads the clock and records the request in *)
(* its cell under a mutex; quotes count.  Consumers run at the same time,  *)
(* so requests may be recorded in another order than their times.  The map *)
(* is in the memory of a process, and all processes share the durable      *)
(* consumer surge-demand: each request is recorded by one of them, and a   *)
(* quote counts what the process that makes it has recorded.               *)
(***************************************************************************)
EXTENDS Naturals, Sequences, SequencesExt, FiniteSets, FiniteSetsExt, Order

CONSTANTS
  Processes,     \* those that consume: every pod of the API and every worker; one that
                 \* starts again is another, which has recorded nothing
  Cells, LastMinute, MaxRequests,
  Kept,          \* the window of 5 minutes for which requests are kept
  SweepAfter,    \* the sweep is due so long after the last
  Late           \* ticks between reading the clock and recording, at most

VARIABLES
  minute,
  pending,       \* requests whose time has been read
  demand,        \* process -> cell -> the times that are kept
  lastSwept,     \* process -> when it has swept
  recorded       \* all requests that have been recorded, numbered

demandVars == <<minute, pending, demand, lastSwept, recorded>>

DemandInit ==
  /\ minute = Kept + 1
  /\ pending = {}
  /\ demand = [p \in Processes |-> [c \in Cells |-> << >>]]
  /\ lastSwept = [p \in Processes |-> 0]
  /\ recorded = {}

-------------------------------------------------------------------------------
\* onTripRequestedSurge, in the process the event was delivered to.
Requested(p, c) ==
  LET n == Cardinality(pending \cup recorded) + 1
  IN  /\ n <= MaxRequests
      /\ pending' = pending \cup {[number |-> n, by |-> p, cell |-> c, at |-> minute]}
      /\ UNCHANGED <<minute, demand, lastSwept, recorded>>

\* The times after the cut, in the order they have.
Since(ts, t, window) ==
  LET young == {i \in DOMAIN ts : ts[i] > t - window}
      place == Arranged(young, {p \in young \X young : p[1] < p[2]})
  IN  [k \in DOMAIN place |-> ts[place[k]]]

\* Mutant: a cell is cold when its first request is old.
SweepCellsFirst(d, t) ==
  [c \in Cells |-> IF d[c] # << >> /\ d[c][1] > t - Kept THEN d[c] ELSE << >>]

\* A cell is cold when its last request is old.
SweepCells(d, t) ==
  [c \in Cells |-> IF d[c] # << >> /\ Last(d[c]) > t - Kept THEN d[c] ELSE << >>]

\* RecordRequest: the cell without what is old by now and with the new request;
\* once in a while all cells are looked at.
RecordRequest(r) ==
  /\ r \in pending
  /\ LET d == [demand[r.by] EXCEPT ![r.cell] = Append(Since(@, r.at, Kept), r.at)]
         due == r.at >= lastSwept[r.by] + SweepAfter
     IN  /\ demand' = [demand EXCEPT ![r.by] = IF due THEN SweepCells(d, r.at) ELSE d]
         /\ lastSwept' = [lastSwept EXCEPT ![r.by] = IF due THEN r.at ELSE @]
  /\ pending' = pending \ {r}
  /\ recorded' = recorded \cup {r}
  /\ UNCHANGED minute

Minute ==
  /\ minute < LastMinute
  /\ \A r \in pending : minute < r.at + Late
  /\ minute' = minute + 1
  /\ UNCHANGED <<pending, demand, lastSwept, recorded>>

DemandNext ==
  \/ \E p \in Processes, c \in Cells : Requested(p, c)
  \/ \E r \in pending : RecordRequest(r)
  \/ Minute

-------------------------------------------------------------------------------
\* What a quote of a process counts, over the window that is configured.
Count(p, c, window) == Len(Since(demand[p][c], minute, window))

\* The highest step that is reached, whatever their order, and at most the cap;
\* no driver, or no answer of the index, counts as one.
Steps == {<<12, 1200>>, <<20, 1400>>, <<30, 1700>>, <<40, 2000>>}
SurgePermille(n, supply, cap) ==
  LET reached == {s \in Steps : n * 10 >= s[1] * Max({supply, 1})}
  IN  Min({cap, Max({1000} \cup {s[2] : s \in reached})})

Truly(p, c, from) == Cardinality({r \in recorded : r.by = p /\ r.cell = c /\ r.at > from})

\* However requests are recorded late, out of order or between two sweeps: over
\* every window up to the one that is kept, a quote counts all requests of its
\* cell that its own process was given, but for those that leave the window while
\* a consumer is late; and the multiplier follows that count (pricing/surge.go:
\* RecordRequest, sweep).  What other processes were given it does not count.
DemandIsCounted ==
  \A p \in Processes, c \in Cells, window \in 1 .. Kept :
    LET n == Count(p, c, window)
        own == Truly(p, c, minute - window)
    IN  /\ n \in Truly(p, c, minute - window + Late) .. own
        /\ \A supply \in 0 .. 2 :
             SurgePermille(n, supply, 2000) \in
               SurgePermille(n, supply + 1, 2000) .. SurgePermille(own, supply, 2000)
===============================================================================
