---------------------------- MODULE Matching_proofs ----------------------------
(***************************************************************************)
(* Theorems about Matching, for any drivers, goroutines and requests, any  *)
(* number of rounds and of claims that run out, and about DriverStatus.    *)
(*                                                                         *)
(* The claim alone does not make the winner: it can lapse.  What does is   *)
(* that the trip leaves SEARCHING once, with the Save of one Assign, and   *)
(* that only the request which did that writes ACCEPTED.                   *)
(***************************************************************************)
EXTENDS Matching, TLAPS

\* A request works on an offer, unless it withdraws the offers of a cancelled trip;
\* only one that has assigned the trip is going to write ACCEPTED.
CallsSound ==
  \A c \in Calls : calls[c] # NoCall =>
    /\ calls[c].step # "withdraw" => calls[c].offer \in Offer
    /\ calls[c].to = "ACCEPTED" => calls[c].step = "mark"

\* Who decides has the claim, as long as none ran out.
DeciderHasClaim ==
  lapses = 0 => \A c \in Calls : Deciding(c) => claim = calls[c].offer.driver

\* The offers that are ACCEPTED or about to be.
Accepting(c) == calls[c] # NoCall /\ calls[c].to = "ACCEPTED"
Winners == {o \in Offer : \/ offers[o] = "ACCEPTED"
                          \/ \E c \in Calls : Accepting(c) /\ calls[c].offer = o}

\* There is at most one, it is the trip's driver's, and there is none while the trip
\* is searched for.
OneWinner ==
  /\ \A o, p \in Winners : o = p
  /\ \A o \in Winners : trip.driver = o.driver
  /\ Searching => Winners = {}

IInv == TypeOK /\ CallsSound /\ DeciderHasClaim /\ OneWinner

-------------------------------------------------------------------------------
\* A search begins without offers and requests.
LEMMA InitIInv == ASSUME Init PROVE IInv
<1>1. TypeOK
  <2>1. 0 \in Rounds /\ 0 \in 0 .. MaxLapses
    BY MatchingAssumption DEF Rounds
  <2>2. loops \in [Loops -> Loop]
    BY <2>1 DEF Init, Loop
  <2> QED
    BY <2>1, <2>2 DEF Init, TypeOK
<1>2. Winners = {}
  BY DEF Init, Winners, Accepting, NONE
<1> QED
  BY <1>1, <1>2 DEF Init, IInv, CallsSound, DeciderHasClaim, Deciding, OneWinner

\* Whatever a request may go on to do is a request again.
LEMMA CallTypes ==
  ASSUME NEW r \in Call, NEW step \in {"claim", "reserve", "assign", "mark", "withdraw"},
         NEW to \in OfferStatus, NEW o \in Offer \cup {NoOffer}, NEW left \in SUBSET Offer
  PROVE  /\ [r EXCEPT !.step = step] \in Call
         /\ [r EXCEPT !.step = step, !.to = to] \in Call
         /\ [r EXCEPT !.seen = o] \in Call
         /\ NewCall(step, o, to, left) \in Call
BY DEF Call, NewCall

\* The dispatch loop keeps the shape of the stores.
LEMMA LoopTypes ==
  ASSUME TypeOK, NEW l \in Loops, Deliver(l) \/ Dispatch(l) \/ Panic(l) \/ Die(l)
  PROVE  TypeOK'
<1> DEFINE Steps == {"idle", "look", "save", "wait", "expire", "done", "dead"}
<1>1. /\ loops \in [Loops -> Loop] /\ loops[l].step \in Steps /\ loops[l].round \in Rounds
  BY DEF TypeOK, Loop
<1>2. ASSUME NEW s \in Steps, Goto(l, s) PROVE loops' \in [Loops -> Loop]
  BY <1>1, <1>2 DEF Goto, Loop
<1>3. CASE Deliver(l) \/ Look(l) \/ Panic(l) \/ Die(l)
  BY <1>2, <1>3 DEF TypeOK, Deliver, Look, Panic, Die
<1>4. CASE SaveOffers(l)
  <2>1. loops' \in [Loops -> Loop]
    BY <1>2, <1>4 DEF SaveOffers
  <2>2. offers' \in [Offer -> OfferStatus \cup {NONE}]
    BY <1>4 DEF SaveOffers, TypeOK, OfferStatus
  <2> QED
    BY <1>4, <2>1, <2>2 DEF SaveOffers, TypeOK
<1>5. CASE Wake(l)
  <2>1. CASE /\ loops[l].round + 1 < MaxRounds
             /\ loops' = [loops EXCEPT ![l] = [step |-> "look", round |-> @.round + 1]]
    <3>1. loops[l].round + 1 \in Rounds
      BY <1>1, <2>1, MatchingAssumption DEF Rounds
    <3>2. loops' \in [Loops -> Loop]
      BY <1>1, <2>1, <3>1 DEF Loop
    <3> QED
      BY <1>5, <3>2 DEF Wake, TypeOK
  <2>2. CASE Goto(l, "done") \/ Goto(l, "expire")
    BY <1>2, <1>5, <2>2 DEF Wake, TypeOK
  <2> QED
    BY <1>5, <2>1, <2>2 DEF Wake
<1>6. CASE Expire(l)
  <2>1. trip' \in [status : {SEARCHING, ASSIGNED, CANCELLED, EXPIRED},
                   driver : Drivers \cup {NoDriver}]
    BY <1>6 DEF Expire, TypeOK
  <2> QED
    BY <1>2, <1>6, <2>1 DEF Expire, TypeOK
<1> QED
  BY <1>3, <1>4, <1>5, <1>6 DEF Dispatch

\* So do the requests.
LEMMA RequestTypes ==
  ASSUME TypeOK, CallsSound, NEW c \in Calls,
         \/ \E o \in Offer : Accept(c, o)
         \/ WithdrawOffers(c) \/ Proceed(c) \/ Fail(c)
  PROVE  TypeOK'
<1> DEFINE r == calls[c]
<1>1. /\ calls \in [Calls -> Call \cup {NoCall}]
      /\ offers \in [Offer -> OfferStatus \cup {NONE}]
      /\ r # NoCall => r \in Call
      /\ Pending \in SUBSET Offer
  BY DEF TypeOK, Pending
<1>2. /\ r \in Call => /\ r.to \in OfferStatus /\ r.left \in SUBSET Offer
                       /\ r.offer \in Offer \cup {NoOffer} /\ r.seen \in Offer \cup {NoOffer}
      /\ r # NoCall /\ r.step # "withdraw" => r.offer \in Offer
  BY DEF Call, CallsSound
<1>3. {"PENDING", "ACCEPTED", "REJECTED", "EXPIRED", "LOST"} \subseteq OfferStatus
  BY DEF OfferStatus
<1>4. ASSUME NEW q \in Call \cup {NoCall}, Put(c, q) PROVE calls' \in [Calls -> Call \cup {NoCall}]
  BY <1>1, <1>4 DEF Put
<1>5. CASE \E o \in Offer : Accept(c, o)
  <2> PICK o \in Offer : Accept(c, o)
    BY <1>5
  <2>1. NewCall("claim", o, "PENDING", {}) \in Call /\ NewCall("mark", o, "EXPIRED", {}) \in Call
    BY <1>3 DEF NewCall, Call
  <2>2. calls' \in [Calls -> Call \cup {NoCall}]
    BY <1>4, <2>1 DEF Accept
  <2> QED
    BY <2>2 DEF Accept, TypeOK
<1>6. CASE ClaimTrip(c)
  <2>1. r \in Call /\ r.offer.driver \in Drivers
    BY <1>1, <1>2, <1>6 DEF ClaimTrip, Offer
  <2>2. calls' \in [Calls -> Call \cup {NoCall}]
    BY <1>3, <1>4, <1>6, <2>1, CallTypes DEF ClaimTrip
  <2>3. claim' \in Drivers \cup {NoDriver}
    BY <1>6, <2>1 DEF ClaimTrip, TypeOK
  <2> QED
    BY <1>6, <2>2, <2>3 DEF ClaimTrip, TypeOK
<1>7. CASE Reserve(c)
  <2>1. calls' \in [Calls -> Call \cup {NoCall}]
    BY <1>1, <1>3, <1>4, <1>7, CallTypes DEF Reserve
  <2> QED
    BY <1>7, <2>1 DEF Reserve, TypeOK
<1>8. CASE Assign(c)
  <2>1. r \in Call /\ r.offer.driver \in Drivers
    BY <1>1, <1>2, <1>8 DEF Assign, Offer
  <2>2. calls' \in [Calls -> Call \cup {NoCall}]
    BY <1>3, <1>4, <1>8, <2>1, CallTypes DEF Assign
  <2> QED
    BY <1>8, <2>1, <2>2 DEF Assign, TypeOK
<1>9. CASE Mark(c)
  <2>1. r \in Call /\ r.offer \in Offer
    BY <1>1, <1>2, <1>9 DEF Mark
  <2>2. offers' \in [Offer -> OfferStatus \cup {NONE}]
    BY <1>1, <1>2, <1>9, <2>1 DEF Mark
  <2>3. NewCall("withdraw", r.offer, "LOST", Pending \ {r.offer}) \in Call
    BY <1>1, <1>3, <2>1 DEF NewCall, Call
  <2>4. calls' \in [Calls -> Call \cup {NoCall}]
    BY <1>4, <1>9, <2>3 DEF Mark
  <2> QED
    BY <1>9, <2>2, <2>4 DEF Mark, TypeOK
<1>10. CASE \E o \in Offer : ExpireRead(c, o)
  <2> PICK o \in Offer : ExpireRead(c, o)
    BY <1>10
  <2> DEFINE seen == IF offers[o] = "PENDING" THEN o ELSE NoOffer
  <2>1. r \in Call /\ r.left \ {o} \in SUBSET Offer /\ seen \in Offer \cup {NoOffer}
    BY <1>1, <1>2 DEF ExpireRead
  <2>2. Put(c, [r EXCEPT !.left = r.left \ {o}, !.seen = seen])
    BY DEF ExpireRead
  <2> HIDE DEF seen, r
  <2>3. [r EXCEPT !.left = r.left \ {o}, !.seen = seen] \in Call
    BY <2>1 DEF Call
  <2>4. calls' \in [Calls -> Call \cup {NoCall}]
    BY <1>4, <2>2, <2>3
  <2> QED
    BY <2>4 DEF ExpireRead, TypeOK
<1>11. CASE ExpireWrite(c)
  <2>1. r \in Call /\ r.seen \in Offer \cup {NoOffer} /\ r.to \in OfferStatus
    BY <1>1, <1>2, <1>11 DEF ExpireWrite
  <2>2. calls' \in [Calls -> Call \cup {NoCall}]
    BY <1>4, <1>11, <2>1, CallTypes DEF ExpireWrite
  <2>3. offers' \in [Offer -> OfferStatus \cup {NONE}]
    BY <1>1, <1>11, <2>1 DEF ExpireWrite
  <2> QED
    BY <1>11, <2>2, <2>3 DEF ExpireWrite, TypeOK
<1>12. CASE Withdrawn(c) \/ Fail(c)
  <2>1. calls' \in [Calls -> Call \cup {NoCall}]
    BY <1>4, <1>12 DEF Withdrawn, Fail
  <2> QED
    BY <1>12, <2>1 DEF Withdrawn, Fail, TypeOK
<1>13. CASE WithdrawOffers(c)
  <2>1. NewCall("withdraw", NoOffer, "EXPIRED", Pending) \in Call
    BY <1>1, <1>3 DEF NewCall, Call
  <2>2. calls' \in [Calls -> Call \cup {NoCall}]
    BY <1>4, <1>13, <2>1 DEF WithdrawOffers
  <2> QED
    BY <1>13, <2>2 DEF WithdrawOffers, TypeOK
<1> QED
  BY <1>5, <1>6, <1>7, <1>8, <1>9, <1>10, <1>11, <1>12, <1>13 DEF Proceed

\* The remaining steps write one value of the right kind.
LEMMA TypeStep == ASSUME TypeOK, CallsSound, [Next]_vars PROVE TypeOK'
<1>1. CASE \E o \in Offer : Reject(o)
  BY <1>1 DEF Reject, TypeOK, OfferStatus
<1>2. CASE ClaimLapses
  <2>1. lapses + 1 \in 0 .. MaxLapses
    BY <1>2, MatchingAssumption DEF ClaimLapses, TypeOK
  <2> QED
    BY <1>2, <2>1 DEF ClaimLapses, TypeOK
<1>3. CASE Cancel
  BY <1>3 DEF Cancel, TypeOK
<1>4. CASE UNCHANGED vars
  BY <1>4 DEF vars, TypeOK
<1> QED
  BY <1>1, <1>2, <1>3, <1>4, LoopTypes, RequestTypes DEF Next

-------------------------------------------------------------------------------
\* A step that leaves claim and requests alone, makes no winner and does not start
\* the search again.
LEMMA QuietStep ==
  ASSUME IInv, TypeOK', UNCHANGED <<claim, lapses, calls>>,
         trip'.driver = trip.driver, Searching' => Searching,
         \A o \in Offer : offers'[o] = "ACCEPTED" => offers[o] = "ACCEPTED"
  PROVE  IInv'
<1>1. CallsSound' /\ DeciderHasClaim'
  BY DEF IInv, CallsSound, DeciderHasClaim, Deciding
<1>2. Winners' \subseteq Winners
  BY DEF Winners, Accepting
<1> QED
  BY <1>1, <1>2 DEF IInv, OneWinner

\* A request goes on to r, which is about to decide only if it was, with the same
\* offer, and which is not going to write ACCEPTED.
LEMMA RequestStep ==
  ASSUME IInv, TypeOK', NEW c \in Calls, NEW r,
         calls' = [calls EXCEPT ![c] = r],
         UNCHANGED <<trip, claim, lapses>>,
         r # NoCall => /\ r.step # "withdraw" => r.offer \in Offer
                       /\ r.to # "ACCEPTED",
         r # NoCall /\ r.step \in {"reserve", "assign"} =>
           Deciding(c) /\ r.offer = calls[c].offer,
         \A o \in Offer : offers'[o] = "ACCEPTED" => o \in Winners
  PROVE  IInv'
<1>1. /\ calls \in [Calls -> Call \cup {NoCall}]
      /\ calls'[c] = r /\ \A b \in Calls : b # c => calls'[b] = calls[b]
  BY DEF IInv, TypeOK
<1>2. CallsSound'
  BY <1>1 DEF IInv, CallsSound
<1>3. DeciderHasClaim'
  BY <1>1 DEF IInv, DeciderHasClaim, Deciding
<1>4. Winners' \subseteq Winners
  <2> SUFFICES ASSUME NEW o \in Winners' PROVE o \in Winners
    OBVIOUS
  <2>1. o \in Offer /\ (offers'[o] = "ACCEPTED" \/ \E b \in Calls : Accepting(b)' /\ calls'[b].offer = o)
    BY DEF Winners
  <2>2. CASE offers'[o] = "ACCEPTED"
    BY <2>1, <2>2
  <2>3. ASSUME NEW b \in Calls, Accepting(b)', calls'[b].offer = o PROVE o \in Winners
    BY <1>1, <2>1, <2>3 DEF Accepting, Winners
  <2> QED
    BY <2>1, <2>2, <2>3
<1> QED
  BY <1>2, <1>3, <1>4 DEF IInv, OneWinner, Searching

\* Every request but those that win the claim or assign the trip.
LEMMA OtherRequests ==
  ASSUME IInv, TypeOK', NEW c \in Calls,
         \/ \E o \in Offer : Accept(c, o) \/ ExpireRead(c, o)
         \/ WithdrawOffers(c) \/ ExpireWrite(c) \/ Withdrawn(c) \/ Fail(c)
         \/ Reserve(c) \/ Mark(c)
  PROVE  IInv'
<1> DEFINE r == calls[c]
<1>1. /\ r # NoCall => /\ r \in Call
                       /\ r.step # "withdraw" => r.offer \in Offer
                       /\ r.to = "ACCEPTED" => r.step = "mark"
      /\ offers \in [Offer -> OfferStatus \cup {NONE}]
      /\ \A o \in Offer : offers[o] = "ACCEPTED" => o \in Winners
  BY DEF IInv, TypeOK, CallsSound, Winners
<1>2. CASE \E o \in Offer : Accept(c, o)
  <2> PICK o \in Offer : Accept(c, o)
    BY <1>2
  <2> PICK q \in {NewCall("claim", o, "PENDING", {}), NewCall("mark", o, "EXPIRED", {})} : Put(c, q)
    BY DEF Accept
  <2>1. q.offer = o /\ q.to # "ACCEPTED" /\ q.step \notin {"reserve", "assign"}
    BY DEF NewCall
  <2> QED
    BY <1>1, <2>1, RequestStep DEF Accept, Put
<1>3. CASE \E o \in Offer : ExpireRead(c, o)
  <2> PICK o \in Offer : ExpireRead(c, o)
    BY <1>3
  <2> DEFINE seen == IF offers[o] = "PENDING" THEN o ELSE NoOffer
             q == [r EXCEPT !.left = r.left \ {o}, !.seen = seen]
  <2>1. r # NoCall /\ r.step = "withdraw" /\ Put(c, q)
    BY DEF ExpireRead
  <2>2. q.step = "withdraw" /\ q.to # "ACCEPTED"
    BY <1>1, <2>1 DEF Call
  <2> HIDE DEF q
  <2> QED
    BY <1>1, <2>1, <2>2, RequestStep DEF ExpireRead, Put
<1>4. CASE WithdrawOffers(c)
  <2> DEFINE q == NewCall("withdraw", NoOffer, "EXPIRED", Pending)
  <2>1. q.step = "withdraw" /\ q.to # "ACCEPTED" /\ Put(c, q)
    BY <1>4 DEF NewCall, WithdrawOffers
  <2> HIDE DEF q
  <2> QED
    BY <1>1, <1>4, <2>1, RequestStep DEF WithdrawOffers, Put
<1>5. CASE ExpireWrite(c)
  <2> DEFINE q == [r EXCEPT !.seen = NoOffer]
  <2>1. r # NoCall /\ r.step = "withdraw" /\ Put(c, q)
    BY <1>5 DEF ExpireWrite
  <2>2. q.step = "withdraw" /\ q.to # "ACCEPTED" /\ r.to # "ACCEPTED"
    BY <1>1, <2>1 DEF Call
  <2>3. \A o \in Offer : offers'[o] = "ACCEPTED" => offers[o] = "ACCEPTED"
    BY <1>1, <1>5, <2>2 DEF ExpireWrite
  <2> HIDE DEF q
  <2> QED
    BY <1>1, <1>5, <2>1, <2>2, <2>3, RequestStep DEF ExpireWrite, Put
<1>6. CASE Withdrawn(c) \/ Fail(c)
  <2>1. UNCHANGED <<trip, claim, lapses, offers>> /\ Put(c, NoCall)
    BY <1>6 DEF Withdrawn, Fail
  <2> QED
    BY <1>1, <2>1, RequestStep DEF Put
<1>7. CASE Reserve(c)
  <2> PICK q \in {[r EXCEPT !.step = "assign"], [r EXCEPT !.step = "mark", !.to = "REJECTED"]} :
        Put(c, q)
    BY <1>7 DEF Reserve
  <2>1. r # NoCall /\ r.step = "reserve"
    BY <1>7 DEF Reserve
  <2>2. q.offer = r.offer /\ q.to # "ACCEPTED"
    BY <1>1, <2>1 DEF Call
  <2> QED
    BY <1>1, <1>7, <2>1, <2>2, RequestStep DEF Reserve, Put, Deciding
<1>8. CASE Mark(c)
  <2>1. /\ r # NoCall /\ r.step = "mark" /\ r \in Call /\ r.offer \in Offer
        /\ UNCHANGED <<trip, claim, lapses>>
    BY <1>1, <1>8 DEF Mark
  <2>2. \A o \in Offer : offers'[o] = "ACCEPTED" => o \in Winners
    BY <1>1, <1>8, <2>1 DEF Mark, Winners, Accepting
  <2> DEFINE q == NewCall("withdraw", r.offer, "LOST", Pending \ {r.offer})
  <2>3. q.step = "withdraw" /\ q.to # "ACCEPTED"
    BY DEF NewCall
  <2>4. Put(c, NoCall) \/ Put(c, q)
    BY <1>8 DEF Mark
  <2> HIDE DEF q
  <2> QED
    BY <2>1, <2>2, <2>3, <2>4, RequestStep DEF Put
<1> QED
  BY <1>2, <1>3, <1>4, <1>5, <1>6, <1>7, <1>8

\* The script gives the claim to nobody else, so all who decide are this driver.
LEMMA ClaimStep ==
  ASSUME IInv, TypeOK', NEW c \in Calls, ClaimTrip(c)
  PROVE  IInv'
<1> DEFINE r == calls[c]
           d == r.offer.driver
<1>1. /\ r # NoCall /\ r \in Call /\ r.step = "claim" /\ r.offer \in Offer /\ r.to # "ACCEPTED"
      /\ d \in Drivers /\ NoDriver \notin Drivers
      /\ \A o \in Offer : offers[o] = "ACCEPTED" => o \in Winners
  BY MatchingAssumption DEF IInv, TypeOK, CallsSound, ClaimTrip, Offer, Winners
<1>2. CASE claim \notin {NoDriver, d}
  <2> DEFINE q == [r EXCEPT !.step = "mark", !.to = "LOST"]
  <2>1. Put(c, q) /\ UNCHANGED <<trip, offers, claim, lapses>>
    BY <1>2 DEF ClaimTrip
  <2>2. q.offer = r.offer /\ q.to # "ACCEPTED" /\ q.step = "mark"
    BY <1>1 DEF Call
  <2> HIDE DEF q
  <2> QED
    BY <1>1, <2>1, <2>2, RequestStep DEF Put
<1>3. CASE claim \in {NoDriver, d}
  <2> DEFINE q == [r EXCEPT !.step = "reserve"]
  <2>1. Put(c, q) /\ claim' = d /\ UNCHANGED <<trip, offers, lapses>>
    BY <1>3 DEF ClaimTrip
  <2>2. q.offer = r.offer /\ q.to = r.to /\ q.step = "reserve"
    BY <1>1 DEF Call
  <2> HIDE DEF q
  <2>3. calls'[c] = q /\ \A b \in Calls : b # c => calls'[b] = calls[b]
    BY <2>1 DEF IInv, TypeOK, Put
  <2>4. lapses = 0 => \A b \in Calls : Deciding(b) => claim = d /\ calls[b].offer.driver = d
    <3> SUFFICES ASSUME lapses = 0, NEW b \in Calls, Deciding(b)
                 PROVE  claim = d /\ calls[b].offer.driver = d
      OBVIOUS
    <3>1. calls[b].offer.driver \in Drivers
      BY DEF IInv, CallsSound, Deciding, Offer
    <3>2. claim = calls[b].offer.driver
      BY DEF IInv, DeciderHasClaim
    <3> QED
      BY <1>1, <1>3, <3>1, <3>2
  <2>5. CallsSound'
    BY <1>1, <2>2, <2>3 DEF IInv, CallsSound
  <2>6. DeciderHasClaim'
    BY <2>1, <2>2, <2>3, <2>4 DEF DeciderHasClaim, Deciding
  <2>7. Winners' = Winners
    BY <1>1, <2>1, <2>2, <2>3 DEF Winners, Accepting
  <2> QED
    BY <2>1, <2>5, <2>6, <2>7 DEF IInv, OneWinner, Searching
<1> QED
  BY <1>2, <1>3

\* The trip was SEARCHING, so nobody has won it yet: the request that assigns it is
\* the one winner.
LEMMA AssignStep ==
  ASSUME IInv, TypeOK', NEW c \in Calls, Assign(c)
  PROVE  IInv'
<1> DEFINE r == calls[c]
           q == [r EXCEPT !.step = "mark", !.to = "ACCEPTED"]
<1>1. /\ r # NoCall /\ r \in Call /\ r.step = "assign" /\ r.offer \in Offer
      /\ Winners = {} /\ Put(c, q) /\ UNCHANGED <<offers, claim, lapses>>
      /\ trip' = [status |-> ASSIGNED, driver |-> r.offer.driver]
  BY DEF IInv, TypeOK, CallsSound, OneWinner, Assign
<1>2. q.offer = r.offer /\ q.to = "ACCEPTED" /\ q.step = "mark"
  BY <1>1 DEF Call
<1> HIDE DEF q
<1>3. calls'[c] = q /\ \A b \in Calls : b # c => calls'[b] = calls[b]
  BY <1>1 DEF IInv, TypeOK, Put
<1>4. CallsSound' /\ DeciderHasClaim'
  BY <1>1, <1>2, <1>3 DEF IInv, CallsSound, DeciderHasClaim, Deciding
<1>5. Winners' \subseteq {r.offer}
  BY <1>1, <1>2, <1>3 DEF Winners, Accepting
<1>6. ~ Searching'
  BY <1>1 DEF Searching, SEARCHING, ASSIGNED
<1> QED
  BY <1>1, <1>4, <1>5, <1>6 DEF IInv, OneWinner

\* The invariant is inductive.
LEMMA NextIInv == ASSUME IInv, [Next]_vars PROVE IInv'
<1>0. TypeOK /\ CallsSound /\ TypeOK'
  BY TypeStep DEF IInv
<1>1. CASE \E l \in Loops : Deliver(l) \/ Dispatch(l) \/ Panic(l) \/ Die(l)
  <2> PICK l \in Loops : Deliver(l) \/ Dispatch(l) \/ Panic(l) \/ Die(l)
    BY <1>1
  <2>1. CASE SaveOffers(l)
    <3>1. \A o \in Offer : offers'[o] = "ACCEPTED" => offers[o] = "ACCEPTED"
      BY <2>1 DEF SaveOffers
    <3> QED
      BY <1>0, <2>1, <3>1, QuietStep DEF SaveOffers, Searching
  <2>2. CASE Expire(l)
    BY <1>0, <2>2, QuietStep DEF Expire, Searching, TypeOK, SEARCHING, EXPIRED
  <2>3. CASE Deliver(l) \/ Look(l) \/ Wake(l) \/ Panic(l) \/ Die(l)
    <3>1. UNCHANGED <<trip, offers, claim, lapses, calls>>
      BY <2>3 DEF Deliver, Look, Wake, Panic, Die
    <3> QED
      BY <1>0, <3>1, QuietStep DEF Searching
  <2> QED
    BY <2>1, <2>2, <2>3 DEF Dispatch
<1>2. CASE \E o \in Offer : Reject(o)
  <2>1. /\ UNCHANGED <<trip, claim, lapses, calls>>
        /\ \A o \in Offer : offers'[o] = "ACCEPTED" => offers[o] = "ACCEPTED"
    BY <1>0, <1>2 DEF Reject, TypeOK
  <2> QED
    BY <1>0, <2>1, QuietStep DEF Searching
<1>3. CASE ClaimLapses
  <2>1. lapses' # 0
    BY <1>0, <1>3 DEF ClaimLapses, TypeOK
  <2>2. UNCHANGED <<trip, offers, calls>>
    BY <1>3 DEF ClaimLapses
  <2>3. Winners' = Winners
    BY <2>2 DEF Winners, Accepting
  <2> QED
    BY <1>0, <2>1, <2>2, <2>3 DEF IInv, CallsSound, DeciderHasClaim, OneWinner, Searching
<1>4. CASE Cancel
  BY <1>0, <1>4, QuietStep DEF Cancel, Searching, TypeOK, SEARCHING, CANCELLED
<1>5. CASE UNCHANGED vars
  BY <1>0, <1>5, QuietStep DEF vars, Searching
<1> QED
  BY <1>0, <1>1, <1>2, <1>3, <1>4, <1>5, OtherRequests, ClaimStep, AssignStep
     DEF Next, Proceed

\* All theorems below follow from this one.
LEMMA Invariant == Spec => []IInv
<1>1. Init => IInv
  BY InitIInv
<1>2. IInv /\ [Next]_vars => IInv'
  BY NextIInv
<1> QED
  BY <1>1, <1>2, PTL DEF Spec

-------------------------------------------------------------------------------
\* The stores, the goroutines and the requests keep their shape.
THEOREM MatchingTypes == Spec => []TypeOK
<1>1. IInv => TypeOK
  BY DEF IInv
<1> QED
  BY <1>1, Invariant, PTL

\* What SET NX promises: while the claim has not run out, however many drivers accept
\* at the same time, those who go on to reserve and to assign are one driver.
THEOREM OneDecider == Spec => []ClaimIsExclusive
<1>1. IInv => ClaimIsExclusive
  BY DEF IInv, DeciderHasClaim, ClaimIsExclusive
<1> QED
  BY <1>1, Invariant, PTL

\* Even when claims run out, loops overlap and withdrawals overwrite what they did not
\* read: the trip's driver is the one whose offer says ACCEPTED, and no other does.
THEOREM OneAccepted == Spec => []AcceptedIsTripDriver
<1>1. IInv => AcceptedIsTripDriver
  BY DEF IInv, OneWinner, Winners, AcceptedIsTripDriver
<1> QED
  BY <1>1, Invariant, PTL

-------------------------------------------------------------------------------
(* What becomes of the drivers who were matched: DriverStatus, with its    *)
(* own trips.                                                              *)

CONSTANTS Trips, MaxDeliver, MaxFaults

VARIABLES trips, drivers, papers, online, accepts, inbox, faults

D == INSTANCE DriverStatus

\* The trips have their shape.
TripRows == trips \in [Trips -> [status : Status, driver : Drivers \cup {NoDriver}]]

\* Past the reservation a trip that is under way was so before, with the same driver,
\* or it is one that the index let in.
LEMMA MovesKeepOne ==
  ASSUME NEW t \in Trips, NEW to \in Status \ {ASSIGNED},
         TripRows, D!OneTripPerDriver, D!Move(t, to)
  PROVE  TripRows' /\ D!OneTripPerDriver'
<1>1. /\ CanTransition(trips[t].status, to)
      /\ trips' = [trips EXCEPT ![t].status = to]
  BY DEF D!Move, D!CanTransition, D!transitions, CanTransition, transitions
<1>2. to \in ActiveIndex => trips[t].status \in ActiveIndex
  BY <1>1 DEF CanTransition, transitions, ActiveIndex, ASSIGNED
<1>3. TripRows'
  BY <1>1 DEF TripRows
<1>4. \A u \in Trips : /\ trips'[u].driver = trips[u].driver
                       /\ trips'[u].status \in ActiveIndex => trips[u].status \in ActiveIndex
  BY <1>1, <1>2 DEF TripRows
<1> QED
  BY <1>3, <1>4 DEF D!OneTripPerDriver, D!ActiveIndex, ActiveIndex

\* A driver is never on two trips, whatever late syncs, undos and requests to go online
\* make of drivers.status, for any trips, drivers, deliveries and faults.
THEOREM OneTripEach == D!Spec => []D!OneTripPerDriver
<1>1. D!Init => TripRows /\ D!OneTripPerDriver
  BY DEF D!Init, TripRows, D!OneTripPerDriver, D!ActiveIndex, D!SEARCHING, Status
<1>2. TripRows /\ D!OneTripPerDriver /\ [D!Next]_(D!vars) => TripRows' /\ D!OneTripPerDriver'
  <2> SUFFICES ASSUME TripRows, D!OneTripPerDriver, [D!Next]_(D!vars)
               PROVE  TripRows' /\ D!OneTripPerDriver'
    OBVIOUS
  <2>1. CASE UNCHANGED trips
    BY <2>1 DEF TripRows, D!OneTripPerDriver
  <2>2. ASSUME NEW t \in Trips, NEW d \in Drivers, D!Assign(t, d)
        PROVE  TripRows' /\ D!OneTripPerDriver'
    <3>1. /\ D!IndexAllows(t, d)
          /\ trips' = [trips EXCEPT ![t] = [status |-> "ASSIGNED", driver |-> d]]
      BY <2>2 DEF D!Assign, D!ASSIGNED
    <3>2. TripRows'
      BY <3>1 DEF TripRows, Status
    <3>3. \A u \in Trips \ {t} : trips'[u] = trips[u]
      BY <3>1 DEF TripRows
    <3>4. trips'[t].driver = d
      BY <3>1 DEF TripRows
    <3>5. \A u \in Trips \ {t} : trips[u].status \in D!ActiveIndex => trips[u].driver # d
      BY <3>1 DEF D!IndexAllows
    <3> QED
      BY <3>2, <3>3, <3>4, <3>5 DEF D!OneTripPerDriver, D!ActiveIndex
  <2>3. ASSUME NEW t \in Trips,
               \/ D!MarkArrived(t) \/ D!Expire(t) \/ D!Start(t) \/ D!Complete(t) \/ D!Cancel(t)
        PROVE  TripRows' /\ D!OneTripPerDriver'
    <3>1. PICK to \in Status \ {ASSIGNED} : D!Move(t, to)
      BY <2>3 DEF D!MarkArrived, D!Expire, D!Start, D!Complete, D!Cancel, Status, ASSIGNED,
                  D!ARRIVED, D!EXPIRED, D!IN_PROGRESS, D!COMPLETED, D!CANCELLED
    <3> QED
      BY <3>1, MovesKeepOne
  <2>4. ASSUME NEW t \in Trips, D!Settle(t)
        PROVE  TripRows' /\ D!OneTripPerDriver'
    <3>1. CASE UNCHANGED trips
      BY <2>1, <3>1
    <3>2. CASE trips' = [trips EXCEPT ![t].status = "PAID"]
      <4>1. \A u \in Trips : /\ trips'[u].driver = trips[u].driver
                             /\ trips'[u].status \in ActiveIndex => trips[u].status \in ActiveIndex
        BY <3>2 DEF TripRows, ActiveIndex
      <4>2. TripRows'
        BY <3>2 DEF TripRows, Status
      <4> QED
        BY <4>1, <4>2 DEF D!OneTripPerDriver, D!ActiveIndex, ActiveIndex
    <3> QED
      BY <2>4, <3>1, <3>2 DEF D!Settle, D!PAID
  <2>5. ASSUME NEW t \in Trips, NEW d \in Drivers,
               D!Reserve(t, d) \/ D!AssignFails(t, d) \/ D!Undo(t, d) \/ D!AcceptDies(t, d)
        PROVE  UNCHANGED trips
    BY <2>5 DEF D!Reserve, D!AssignFails, D!Undo, D!AcceptDies
  <2>6. ASSUME NEW t \in Trips, NEW topic \in D!Topics,
               \/ D!ReadTrip(t, topic) \/ D!WriteStatus(t, topic)
               \/ D!TripUnreadable(t, topic) \/ D!HandlerFails(<<t, topic>>)
        PROVE  UNCHANGED trips
    BY <2>6 DEF D!ReadTrip, D!WriteStatus, D!TripUnreadable, D!HandlerFails
  <2>7. ASSUME NEW d \in Drivers,
               \/ D!PressOnline(d) \/ D!Resume(d) \/ D!RequestFails(d)
               \/ D!GoOffline(d) \/ D!ExpirePapers(d) \/ D!EditProfile(d)
        PROVE  UNCHANGED trips
    BY <2>7 DEF D!PressOnline, D!Resume, D!RequestFails, D!GoOffline, D!ExpirePapers,
                D!EditProfile
  <2>8. CASE UNCHANGED D!vars
    BY <2>1, <2>8 DEF D!vars
  <2> QED
    BY <2>1, <2>2, <2>3, <2>4, <2>5, <2>6, <2>7, <2>8
    DEF D!Next, D!FinishAccept, D!Consume
<1> QED
  BY <1>1, <1>2, PTL DEF D!Spec
===============================================================================
