------------------------------- MODULE Candidates -------------------------------
(***************************************************************************)
(* Whom a round of the search asks (Engine.DispatchRound, candidates):     *)
(* the drivers nearby from near to far, those who may not take a trip left *)
(* out, how long each would need from OSRM or from what OSRM said a moment *)
(* ago about the same pair of cells, and the best of them by score.        *)
(* Several rounds run at once and share the memory of OSRMETA.             *)
(***************************************************************************)
EXTENDS Integers, FiniteSets, FiniteSetsExt, SequencesExt, Order

CONSTANTS
  Workers,        \* rounds under way
  Cabs,           \* drivers nearby: numbers, in the order of their ids
  Reluctant,      \* one of these drivers has let offers pass
  Missed,         \* so many, out of as many
  WeightAcceptance,
  MaxCandidates, BatchSize,
  CacheTTL,
  LastBeat        \* the run ends here

VARIABLES
  beat,           \* the time
  missed,         \* driver -> the offers he let pass
  cache,          \* cell -> [sec, asked, at], or NoETA
  rounds          \* worker -> [step, begun, eligible, etas], or NoRound

candidateVars == <<beat, missed, cache, rounds>>

NoETA == [sec |-> -1, asked |-> 0, at |-> 0]
NoRound == [step |-> "rest"]

CandidatesInit ==
  /\ beat = 1
  /\ \E h \in Reluctant : missed = [d \in Cabs |-> IF d = h THEN Missed ELSE 0]
  /\ cache = [c \in {(d + 1) \div 2 : d \in Cabs} |-> NoETA]
  /\ rounds = [w \in Workers |-> NoRound]

\* Two drivers stand in a cell, the cells one behind the other.
CellOf(d) == (d + 1) \div 2
DistanceM(d) == CellOf(d)

\* What OSRM answers at a moment: the traffic changes, farther may be faster.
Duration(cell, time) == 12 * ((2 * cell) + ((3 * cell * time) % 5))

\* SimpleETA: a straight line and one speed.
Straight(d, time) == [sec |-> 36 * DistanceM(d), asked |-> time, cell |-> CellOf(d)]

-------------------------------------------------------------------------------
(* From near to far until enough of them may take the trip: whose profile  *)
(* or balance cannot be read, and whom CanAcceptTrip refuses, is not .fit. *)

Limit == IF MaxCandidates <= 0 THEN Cardinality(Cabs) ELSE Max({MaxCandidates, BatchSize})

NearToFar(s) == \A i, j \in DOMAIN s : i < j => DistanceM(s[i]) <= DistanceM(s[j])

Eligible(s) == SubSeq(s, 1, Min({Limit, Len(s)}))

\* What the memory has: younger than CacheTTL and about the same cells.
Known(d) ==
  LET e == cache[CellOf(d)]
  IN  IF e # NoETA /\ beat - e.at < CacheTTL
      THEN [sec |-> e.sec, asked |-> e.asked, cell |-> CellOf(d)]
      ELSE NoETA

Misses(etas) == {i \in DOMAIN etas : etas[i] = NoETA}

\* The same, from the first place to the last.
Missing(etas) == Arranged(Misses(etas), {p \in Misses(etas) \X Misses(etas) : p[1] < p[2]})

BeginRound(w, fit) ==
  /\ rounds[w] = NoRound
  /\ \E near \in SetToSeqs(fit) :
       /\ NearToFar(near)
       /\ LET etas == [i \in DOMAIN Eligible(near) |-> Known(near[i])]
          IN  rounds' = [rounds EXCEPT ![w] =
                [step |-> IF Misses(etas) = {} THEN "rank" ELSE "ask",
                 begun |-> beat, eligible |-> Eligible(near), etas |-> etas]]
  /\ UNCHANGED <<beat, missed, cache>>

-------------------------------------------------------------------------------
(* One request for all that is missing; the answers come without a name,   *)
(* in the order of the sources.                                            *)

\* Where OSRM finds no way the duration is null, which a float64 decodes as 0: a
\* travel time like any other.  Only a row without any duration is -1.
NoWay == 0

\* From the cell lost there is no way, or its row is empty.
Answers(eligible, miss, lost, empty) ==
  [k \in DOMAIN miss |->
     [sec |-> IF CellOf(eligible[miss[k]]) # lost
              THEN Duration(CellOf(eligible[miss[k]]), beat)
              ELSE IF empty THEN -1 ELSE NoWay,
      asked |-> beat, cell |-> CellOf(eligible[miss[k]])]]

\* Mutant: the answers are laid out from the first place on.
LaidOutInOrder(etas, miss, answers) ==
  [i \in DOMAIN etas |-> IF i \in DOMAIN answers THEN answers[i] ELSE etas[i]]

\* out[i] = durs[k], where i is the k-th that was missing.
LaidOut(etas, miss, answers) ==
  [i \in DOMAIN etas |->
     IF \E k \in DOMAIN miss : miss[k] = i
     THEN answers[CHOOSE k \in DOMAIN miss : miss[k] = i] ELSE etas[i]]

Table(w, lost, empty) ==
  LET r == rounds[w]
      miss == Missing(r.etas)
      answers == Answers(r.eligible, miss, lost, empty)
  IN  /\ r.step = "ask"
      /\ rounds' = [rounds EXCEPT ![w].step = "rank",
                                  ![w].etas = LaidOut(r.etas, miss, answers)]
      /\ cache' = [c \in DOMAIN cache |->
           IF \E k \in DOMAIN miss : answers[k].sec >= 0 /\ answers[k].cell = c
           THEN [sec |-> IF c = lost THEN NoWay ELSE Duration(c, beat),
                 asked |-> beat, at |-> r.begun]
           ELSE cache[c]]
      /\ UNCHANGED <<beat, missed>>

\* OSRM does not answer, or not in the right shape: nothing of it is remembered.
FallBack(w) ==
  LET r == rounds[w]
      miss == Missing(r.etas)
  IN  /\ r.step = "ask"
      /\ rounds' = [rounds EXCEPT ![w].step = "rank",
           ![w].etas = LaidOut(r.etas, miss,
                               [k \in DOMAIN miss |-> Straight(r.eligible[miss[k]], beat)])]
      /\ UNCHANGED <<beat, missed, cache>>

-------------------------------------------------------------------------------
(* score, rank, and offers for the first BatchSize.                        *)

\* The places in .eligible of those with a travel time.
Reachable(r) == {i \in DOMAIN r.eligible : r.etas[i].sec >= 0}

\* 1 - AcceptanceRate with ten imaginary offers, eight of them taken.  Rating,
\* cancellations, heading and idle time add to a score in the same way.
Penalty(d) == (WeightAcceptance * (missed[d] + 2)) \div (missed[d] + 10)

Score(r, i) == r.etas[i].sec + Penalty(r.eligible[i])

Before(r, i, j) ==
  \/ Score(r, i) < Score(r, j)
  \/ Score(r, i) = Score(r, j) /\ r.eligible[i] < r.eligible[j]

Ranked(r) ==
  Arranged(Reachable(r), {p \in Reachable(r) \X Reachable(r) : Before(r, p[1], p[2])})

Offered(r) ==
  LET best == SubSeq(Ranked(r), 1, Min({BatchSize, Len(Ranked(r))}))
  IN  [k \in DOMAIN best |-> r.eligible[best[k]]]

SendOffers(w) ==
  /\ rounds[w].step = "rank"
  /\ rounds' = [rounds EXCEPT ![w] = NoRound]
  /\ UNCHANGED <<beat, missed, cache>>

Beat ==
  /\ beat < LastBeat
  /\ beat' = beat + 1
  /\ UNCHANGED <<missed, cache, rounds>>

\* To rank reads nothing that others write: it is over before they go on.
Ranking == \E w \in Workers : rounds[w].step = "rank"

CandidatesNext ==
  \/ /\ ~Ranking
     /\ \/ \E w \in Workers :
             \/ \E fit \in SUBSET Cabs \ {{}} : BeginRound(w, fit)
             \/ \E lost \in {0} \cup DOMAIN cache, empty \in BOOLEAN : Table(w, lost, empty)
             \/ FallBack(w)
        \/ Beat
  \/ \E w \in Workers : SendOffers(w)

CandidatesSpec == CandidatesInit /\ [][CandidatesNext]_candidateVars

-------------------------------------------------------------------------------
\* What a driver is ranked by was said about the cell he stands in, less than
\* CacheTTL before the round began or later: the way's duration, 0 for no way, or
\* the straight line's; then nobody with a better score than one who is asked is
\* left out (eta_osrm.go: ETASeconds; engine.go: candidates, DispatchRound).
BestAreAsked ==
  \A w \in Workers : rounds[w].step = "rank" =>
    LET r == rounds[w]
        asked == ToSet(Offered(r))
        known == {r.eligible[i] : i \in Reachable(r)}
        Sec(d) == r.etas[CHOOSE i \in DOMAIN r.eligible : r.eligible[i] = d].sec
    IN  /\ \A i \in Reachable(r) :
             /\ r.etas[i].cell = CellOf(r.eligible[i])
             /\ r.begun - r.etas[i].asked < CacheTTL
             /\ r.etas[i].sec \in {Duration(CellOf(r.eligible[i]), r.etas[i].asked),
                                   Straight(r.eligible[i], beat).sec, NoWay}
        /\ Cardinality(asked) = Min({BatchSize, Cardinality(known)})
        /\ \A d \in asked, e \in known \ asked :
             Sec(d) + Penalty(d) <= Sec(e) + Penalty(e)

\* "OSRM answers null where there is no way: that candidate is dropped"
\* (eta_osrm_test.go:175): none of those goes before a driver who has a way.
NoWayIsLast ==
  \A w \in Workers : rounds[w].step = "rank" =>
    LET r == rounds[w]
        asked == {i \in Reachable(r) : r.eligible[i] \in ToSet(Offered(r))}
    IN  \A i \in asked, j \in Reachable(r) \ asked :
          r.etas[i].sec = NoWay => r.etas[j].sec = NoWay
===============================================================================
