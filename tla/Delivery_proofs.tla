---------------------------- MODULE Delivery_proofs ----------------------------
(***************************************************************************)
(* Theorems about Delivery and the bus of the process, for any events,     *)
(* pods, phones, handler calls and bounds.                                 *)
(*                                                                         *)
(* What makes both ends of the delivery safe is the order in which they    *)
(* work: a relay marks what it has published, and a handler that returns   *)
(* nil has tried everybody.  A crash in between repeats, it never skips.   *)
(***************************************************************************)
EXTENDS EventBus, FiniteSetTheorems, TLAPS

\* What a relay is going to mark published is in the stream.
DoneIsOnStream ==
  \A p \in Pods : \A e \in relay[p].done : CopiesOf(e) # {}

\* An attempt is counted for a failure.
AttemptsAreFaults ==
  \A e \in Events : row[e].attempts <= faults

\* Copy c says an offer that has lapsed; or everyone who is to hear of it and was not
\* told, nor is in `left', could not be reached all along or is not told by the consumer
\* that is followed.
AllTold(c, left) ==
  \/ stream[c] \in lapsed
  \/ /\ sub = "push" => \A t \in Topics(stream[c]) : t \in left \/ <<stream[c], t>> \in told
     /\ sub = "notify" =>
          \A f \in steady : OwnerOf(f) \in Notified(stream[c]) =>
            f \in left \/ <<stream[c], f>> \in told \cup refused

\* A handler call without a transient failure has told those it has no longer to tell.
CallsTell ==
  \A p \in Pods : work[p].copy # 0 /\ ~work[p].retry => AllTold(work[p].copy, work[p].left)

AckedTold == \A c \in Copies : inbox[c].st = "acked" => AllTold(c, {})

Entry == [st : {"ready", "out", "acked"}, n : 0..MaxDeliver]

IInv ==
  /\ TypeOK /\ inbox \in Seq(Entry) /\ Len(inbox) = Len(stream)
  /\ PublishedIsOnStream /\ DoneIsOnStream /\ AttemptsAreFaults
  /\ CallsTell /\ AckedTold

-------------------------------------------------------------------------------
\* Whom a consumer tells.
LEMMA TargetsType == ASSUME TypeOK, NEW e PROVE Targets(e) \subseteq Phones \cup {"rider", "driver"}
BY DEF Targets, Topics, PhonesOf, TypeOK

\* Before the first commit there is nothing to tell.
LEMMA InitIInv == ASSUME Init PROVE IInv
<1>1. stream = <<>> /\ inbox = <<>> /\ Copies = {}
  BY DEF Init, Copies
<1>2. TypeOK
  <2>1. 0 \in 0 .. MaxFaults /\ Len(stream) = 0
    BY <1>1, DeliveryAssumption
  <2> QED
    BY <1>1, <2>1 DEF Init, TypeOK, NoBatch, NoWork
<1>3. \A p \in Pods : work[p].copy = 0 /\ relay[p].done = {}
  BY DEF Init, NoWork, NoBatch
<1>4. \A e \in Events : row[e].st = "none" /\ row[e].attempts = 0 /\ faults = 0
  BY DEF Init
<1> QED
  BY <1>1, <1>2, <1>3, <1>4
     DEF IInv, PublishedIsOnStream, DoneIsOnStream, AttemptsAreFaults, CallsTell, AckedTold

\* A stream that grows keeps its copies at their places.
LEMMA Grows ==
  ASSUME IInv, NEW e \in Events, Append1(e)
  PROVE  /\ stream' \in Seq(Events) /\ inbox' \in Seq(Entry)
         /\ Len(stream') = Len(stream) + 1 /\ Len(inbox') = Len(stream')
         /\ Copies \subseteq Copies' /\ \A c \in Copies : stream'[c] = stream[c] /\ inbox'[c] = inbox[c]
         /\ \A c \in Copies' \ Copies : inbox'[c] = Unseen
         /\ \A x \in Events : CopiesOf(x) \subseteq CopiesOf(x)'
         /\ CopiesOf(e)' # {}
<1>1. /\ stream \in Seq(Events) /\ inbox \in Seq(Entry) /\ Len(inbox) = Len(stream)
      /\ stream' = Append(stream, e) /\ inbox' = Append(inbox, Unseen)
  BY DEF IInv, TypeOK, Append1
<1>2. Unseen \in Entry
  BY DeliveryAssumption DEF Unseen, Entry
<1>3. /\ stream' \in Seq(Events) /\ inbox' \in Seq(Entry)
      /\ Len(stream') = Len(stream) + 1 /\ Len(inbox') = Len(stream')
  BY <1>1, <1>2
<1>4. Copies = 1 .. Len(stream) /\ Copies' = 1 .. (Len(stream) + 1)
  BY <1>1, <1>3 DEF Copies
<1>5. /\ \A c \in Copies : stream'[c] = stream[c] /\ inbox'[c] = inbox[c]
      /\ \A c \in Copies' \ Copies : inbox'[c] = Unseen
      /\ stream'[Len(stream) + 1] = e
  BY <1>1, <1>4
<1>6. Len(stream) + 1 \in Copies'
  BY <1>1, <1>4
<1> QED
  BY <1>3, <1>4, <1>5, <1>6 DEF CopiesOf

\* The relay's side: what the consumers have done stays as it is.
LEMMA RelayStep ==
  ASSUME IInv, UNCHANGED <<says, sub, work, phoneVars>>,
         \/ UNCHANGED <<stream, inbox>>
         \/ \E e \in Events : Append1(e),
         row' \in [Events -> [st : {"none", "pending", "published", "direct"}, attempts : 0..MaxFaults]],
         relay' \in [Pods -> [todo : SUBSET Events, done : SUBSET Events]],
         faults' \in 0..MaxFaults, AttemptsAreFaults',
         \A e \in Events : row'[e].st = "published" => CopiesOf(e)' # {},
         \A p \in Pods : \A e \in relay'[p].done : CopiesOf(e)' # {}
  PROVE  IInv'
<1>1. /\ stream' \in Seq(Events) /\ inbox' \in Seq(Entry)
      /\ Len(stream') \in Nat /\ Len(stream) \in Nat /\ Len(stream) <= Len(stream')
      /\ Len(inbox') = Len(stream')
      /\ Copies \subseteq Copies' /\ \A c \in Copies : stream'[c] = stream[c] /\ inbox'[c] = inbox[c]
      /\ \A c \in Copies' \ Copies : inbox'[c].st = "ready"
  <2>1. CASE UNCHANGED <<stream, inbox>>
    BY <2>1 DEF IInv, TypeOK, Copies
  <2>2. CASE \E e \in Events : Append1(e)
    BY <2>2, Grows DEF IInv, TypeOK, Unseen
  <2> QED
    BY <2>1, <2>2
<1>2. inbox' \in [Copies' -> Entry]
  BY <1>1 DEF Copies
<1>3. \A p \in Pods : work[p].copy \in 0..Len(stream)
  BY DEF IInv, TypeOK
<1>4. TypeOK'
  <2>1. work' \in [Pods -> [copy : 0..Len(stream'),
                           left : SUBSET (Phones \cup {"rider", "driver"}), retry : BOOLEAN]]
    <3>1. 0..Len(stream) \subseteq 0..Len(stream')
      BY <1>1
    <3> QED
      BY <3>1 DEF IInv, TypeOK
  <2>2. /\ sub' \in Subs /\ tokens' \subseteq Phones /\ steady' \subseteq tokens'
        /\ lapsed' \subseteq Events /\ says' \in [Events -> Kinds]
    BY DEF IInv, TypeOK, phoneVars
  <2> QED
    BY <1>1, <1>2, <2>1, <2>2 DEF TypeOK, Entry
<1>5. Copies = 1 .. Len(stream)
  BY DEF Copies, IInv, TypeOK
<1>6. CallsTell'
  BY <1>1, <1>3, <1>5 DEF IInv, CallsTell, AllTold, Topics, Notified, phoneVars
<1>7. AckedTold'
  BY <1>1 DEF IInv, AckedTold, AllTold, Topics, Notified, phoneVars
<1> QED
  BY <1>1, <1>4, <1>6, <1>7 DEF IInv, PublishedIsOnStream, DoneIsOnStream

\* A transaction commits an event.
LEMMA EnqueueStep == ASSUME IInv, NEW e \in Events, EnqueueTx(e) PROVE IInv'
<1> DEFINE Row == [st : {"none", "pending", "published", "direct"}, attempts : 0..MaxFaults]
<1>1. /\ row \in [Events -> Row]
      /\ relay \in [Pods -> [todo : SUBSET Events, done : SUBSET Events]]
      /\ faults \in 0..MaxFaults
      /\ \A x \in Events : row[x].attempts <= faults
      /\ \A x \in Events : row[x].st = "published" => CopiesOf(x) # {}
      /\ \A q \in Pods : \A x \in relay[q].done : CopiesOf(x) # {}
  BY DEF IInv, TypeOK, PublishedIsOnStream, DoneIsOnStream, AttemptsAreFaults
<1>2. /\ relay' = relay /\ faults' = faults /\ UNCHANGED <<says, stream, inbox, sub, work, phoneVars>>
      /\ row' = [row EXCEPT ![e].st = "pending"]
  BY DEF EnqueueTx
<1>3. /\ row' \in [Events -> Row]
      /\ \A x \in Events : /\ row'[x].attempts = row[x].attempts
                           /\ row'[x].st = "published" => row[x].st = "published"
  BY <1>1, <1>2
<1>4. \A x \in Events : CopiesOf(x)' = CopiesOf(x)
  BY <1>2 DEF CopiesOf, Copies
<1>5. AttemptsAreFaults'
  BY <1>1, <1>2, <1>3 DEF AttemptsAreFaults
<1>6. \A x \in Events : row'[x].st = "published" => CopiesOf(x)' # {}
  BY <1>1, <1>3, <1>4
<1>7. \A q \in Pods : \A x \in relay'[q].done : CopiesOf(x)' # {}
  BY <1>1, <1>2, <1>4
<1> HIDE DEF Row
<1> QED
  BY <1>1, <1>2, <1>3, <1>5, <1>6, <1>7, RelayStep DEF Row

\* The relays.
LEMMA OutboxSteps ==
  ASSUME IInv, NEW p \in Pods,
         \/ FetchUnpublished(p) \/ MarkPublished(p)
         \/ \E e \in Events : Publish(p, e) \/ PublishFails(p, e)
  PROVE  IInv'
<1> DEFINE Row == [st : {"none", "pending", "published", "direct"}, attempts : 0..MaxFaults]
           Batch == [todo : SUBSET Events, done : SUBSET Events]
<1>1. /\ row \in [Events -> Row] /\ relay \in [Pods -> Batch] /\ faults \in 0..MaxFaults
      /\ MaxFaults \in Nat
      /\ \A e \in Events : row[e].st = "published" => CopiesOf(e) # {}
      /\ \A q \in Pods : \A e \in relay[q].done : CopiesOf(e) # {}
      /\ \A e \in Events : row[e].attempts \in Nat /\ row[e].attempts <= faults
  BY DeliveryAssumption DEF IInv, TypeOK, PublishedIsOnStream, DoneIsOnStream, AttemptsAreFaults
<1>2. CASE FetchUnpublished(p)
  <2>1. relay' \in [Pods -> Batch] /\ \A q \in Pods : relay'[q].done = relay[q].done
    BY <1>1, <1>2 DEF FetchUnpublished, Unpublished
  <2>2. \A e \in Events : CopiesOf(e)' = CopiesOf(e)
    BY <1>2 DEF FetchUnpublished, CopiesOf, Copies
  <2> QED
    BY <1>1, <1>2, <2>1, <2>2, RelayStep DEF FetchUnpublished, AttemptsAreFaults
<1>3. CASE MarkPublished(p)
  <2>1. relay' \in [Pods -> Batch] /\ \A q \in Pods : relay'[q].done \subseteq relay[q].done
    BY <1>1, <1>3 DEF MarkPublished, NoBatch
  <2>2. \A e \in Events : CopiesOf(e)' = CopiesOf(e)
    BY <1>3 DEF MarkPublished, CopiesOf, Copies
  <2>3. /\ row' \in [Events -> Row]
        /\ \A e \in Events : /\ row'[e].attempts = row[e].attempts
                             /\ row'[e].st = "published" => CopiesOf(e) # {}
    BY <1>1, <1>3 DEF MarkPublished
  <2>4. faults' \in 0..MaxFaults /\ faults <= faults'
    BY <1>1, <1>3 DEF MarkPublished, MayFail, Failed
  <2>5. AttemptsAreFaults'
    BY <1>1, <2>3, <2>4 DEF AttemptsAreFaults
  <2> QED
    BY <1>1, <1>3, <2>1, <2>2, <2>3, <2>4, <2>5, RelayStep DEF MarkPublished
<1>5. ASSUME NEW e \in Events, Publish(p, e) PROVE IInv'
  <2>1. /\ Append1(e) /\ CopiesOf(e)' # {}
        /\ \A x \in Events : CopiesOf(x) # {} => CopiesOf(x)' # {}
    BY <1>5, Grows DEF Publish
  <2>2. relay' \in [Pods -> Batch] /\ \A q \in Pods : relay'[q].done \subseteq relay[q].done \cup {e}
    BY <1>1, <1>5 DEF Publish
  <2>3. \A q \in Pods : \A x \in relay'[q].done : CopiesOf(x)' # {}
    BY <1>1, <2>1, <2>2
  <2> QED
    BY <1>1, <1>5, <2>1, <2>2, <2>3, RelayStep DEF Publish, AttemptsAreFaults
<1>6. ASSUME NEW e \in Events, PublishFails(p, e) PROVE IInv'
  <2>1. /\ Append1(e) \/ UNCHANGED <<stream, inbox>>
        /\ \A x \in Events : CopiesOf(x) # {} => CopiesOf(x)' # {}
    <3>1. CASE Append1(e)
      BY <3>1, Grows
    <3>2. CASE UNCHANGED <<stream, inbox>>
      BY <3>2 DEF CopiesOf, Copies
    <3> QED
      BY <1>6, <3>1, <3>2 DEF PublishFails
  <2>2. relay' \in [Pods -> Batch] /\ \A q \in Pods : relay'[q].done = relay[q].done
    BY <1>1, <1>6 DEF PublishFails
  <2>3. faults' = faults + 1 /\ faults' \in 0..MaxFaults
    BY <1>1, <1>6 DEF PublishFails, MayFail, Failed
  <2>4. /\ row' \in [Events -> Row]
        /\ \A x \in Events : row'[x].attempts <= faults' /\ row'[x].st = row[x].st
    BY <1>1, <1>6, <2>3 DEF PublishFails
  <2>5. \A q \in Pods : \A x \in relay'[q].done : CopiesOf(x)' # {}
    BY <1>1, <2>1, <2>2
  <2> QED
    BY <1>1, <1>6, <2>1, <2>2, <2>3, <2>4, <2>5, RelayStep DEF PublishFails, AttemptsAreFaults
<1> QED
  BY <1>2, <1>3, <1>5, <1>6

-------------------------------------------------------------------------------
\* The consumers' side: rows, relays and stream stay as they are.
LEMMA ConsumerStep ==
  ASSUME IInv, UNCHANGED <<outboxVars, stream, sub>>,
         inbox' \in Seq(Entry), Len(inbox') = Len(inbox),
         work' \in [Pods -> [copy : 0..Len(stream),
                             left : SUBSET (Phones \cup {"rider", "driver"}), retry : BOOLEAN]],
         tokens' \subseteq Phones, steady' \subseteq tokens', lapsed' \subseteq Events,
         faults' \in 0..MaxFaults, faults <= faults',
         CallsTell', AckedTold'
  PROVE  IInv'
<1>1. inbox' \in [Copies' -> Entry]
  BY DEF IInv, TypeOK, Copies
<1>2. TypeOK'
  BY <1>1 DEF IInv, TypeOK, Entry, outboxVars
<1>3. AttemptsAreFaults'
  <2>1. /\ \A e \in Events : row[e].attempts \in 0..MaxFaults /\ row'[e] = row[e]
        /\ faults \in 0..MaxFaults /\ MaxFaults \in Nat
    BY DeliveryAssumption DEF IInv, TypeOK, outboxVars
  <2> QED
    BY <2>1 DEF IInv, AttemptsAreFaults
<1>4. \A e : CopiesOf(e)' = CopiesOf(e)
  BY DEF CopiesOf, Copies
<1> QED
  BY <1>2, <1>3, <1>4 DEF IInv, PublishedIsOnStream, DoneIsOnStream, outboxVars

\* Who was told stays told, and whoever could be reached all along could be before.
LEMMA StillTold ==
  ASSUME NEW c, NEW left, AllTold(c, left), UNCHANGED <<says, stream, sub>>,
         told \subseteq told', refused \subseteq refused', steady' \subseteq steady,
         lapsed \subseteq lapsed'
  PROVE  AllTold(c, left)'
BY DEF AllTold, Topics, Notified, OwnerOf

\* No step of the consumers or of the devices loses what was told; a call that goes on
\* has told those it has no longer to tell; a copy is acknowledged by such a call.
LEMMA TellingStep ==
  ASSUME IInv, UNCHANGED <<outboxVars, stream, sub>>,
         told \subseteq told', refused \subseteq refused',
         tokens' \subseteq Phones, steady' \subseteq tokens', steady' \subseteq steady,
         lapsed \subseteq lapsed', lapsed' \subseteq Events,
         faults' \in 0..MaxFaults, faults <= faults',
         inbox' \in Seq(Entry), Len(inbox') = Len(inbox),
         \A c \in Copies : inbox'[c].st = "acked" => inbox[c].st = "acked" \/ AllTold(c, {}),
         work' \in [Pods -> [copy : 0..Len(stream),
                             left : SUBSET (Phones \cup {"rider", "driver"}), retry : BOOLEAN]],
         \A p \in Pods : work'[p] = work[p] \/ work'[p].copy = 0 \/ work'[p].retry
                         \/ AllTold(work[p].copy, work[p].left)'
  PROVE  IInv'
<1>1. AckedTold'
  <2> SUFFICES ASSUME NEW c \in Copies', inbox'[c].st = "acked" PROVE AllTold(c, {})'
    BY DEF AckedTold
  <2>1. c \in Copies
    BY DEF Copies
  <2>2. AllTold(c, {})
    BY <2>1 DEF IInv, AckedTold
  <2> QED
    BY <2>2, StillTold DEF outboxVars
<1>2. CallsTell'
  <2> SUFFICES ASSUME NEW p \in Pods, work'[p].copy # 0, ~work'[p].retry
               PROVE  AllTold(work[p].copy, work[p].left)'
    BY DEF CallsTell
  <2>1. CASE work'[p] = work[p]
    <3>1. AllTold(work[p].copy, work[p].left)
      BY <2>1 DEF IInv, CallsTell
    <3> PICK c, left : c = work[p].copy /\ left = work[p].left
      OBVIOUS
    <3>2. AllTold(c, left)'
      BY <3>1, StillTold DEF outboxVars
    <3> QED
      BY <2>1, <3>2 DEF AllTold
  <2> QED
    BY <2>1
<1> QED
  BY <1>1, <1>2, ConsumerStep

\* The types the steps below start from.
LEMMA ConsumerTypes ==
  ASSUME IInv
  PROVE  /\ work \in [Pods -> [copy : 0..Len(stream),
                               left : SUBSET (Phones \cup {"rider", "driver"}), retry : BOOLEAN]]
         /\ inbox \in Seq(Entry) /\ Len(inbox) = Len(stream) /\ Len(stream) \in Nat
         /\ Copies = 1 .. Len(stream)
         /\ NoWork \in [copy : 0..Len(stream),
                        left : SUBSET (Phones \cup {"rider", "driver"}), retry : BOOLEAN]
         /\ tokens \subseteq Phones /\ steady \subseteq tokens /\ lapsed \subseteq Events
         /\ faults \in 0..MaxFaults /\ MaxFaults \in Nat
         /\ MayFail => faults + 1 \in 0..MaxFaults
         /\ faults <= faults + 1 /\ faults <= faults
<1>1. Len(stream) \in Nat /\ MaxFaults \in Nat /\ faults \in 0..MaxFaults
  BY DeliveryAssumption DEF IInv, TypeOK
<1>2. NoWork \in [copy : 0..Len(stream),
                  left : SUBSET (Phones \cup {"rider", "driver"}), retry : BOOLEAN]
  BY <1>1 DEF NoWork
<1>3. MayFail => faults + 1 \in 0..MaxFaults
  BY <1>1 DEF MayFail
<1> QED
  BY <1>1, <1>2, <1>3 DEF IInv, TypeOK, Copies

\* A call begins with everyone who can be reached now.
LEMMA DeliverStep ==
  ASSUME IInv, NEW p \in Pods, NEW c \in Copies, Deliver(p, c)
  PROVE  IInv'
<1> DEFINE w == [copy |-> c, left |-> Targets(stream[c]), retry |-> FALSE]
           v == [copy |-> c, left |-> {}, retry |-> TRUE]
           Call == [copy : 0..Len(stream), left : SUBSET (Phones \cup {"rider", "driver"}),
                    retry : BOOLEAN]
<1>1. /\ UNCHANGED <<outboxVars, stream, sub, phoneVars>>
      /\ \/ work' = [work EXCEPT ![p] = w] /\ faults' = faults
         \/ work' = [work EXCEPT ![p] = v] /\ faults' = faults + 1 /\ MayFail
  BY DEF Deliver, Failed
<1>2. /\ inbox' \in Seq(Entry) /\ Len(inbox') = Len(inbox)
      /\ \A d \in Copies : inbox'[d].st = "acked" => inbox[d].st = "acked"
  <2>0. inbox[c] \in Entry
    BY ConsumerTypes
  <2>1. inbox[c] \in Entry /\ inbox[c].n + 1 \in 0..MaxDeliver
    BY <2>0, DeliveryAssumption DEF Deliver, Entry
  <2>2. [st |-> "out", n |-> inbox[c].n + 1] \in Entry
    BY <2>1 DEF Entry
  <2> QED
    BY <2>2, ConsumerTypes DEF Deliver
<1>3. w \in Call /\ v \in Call /\ v.retry
  BY TargetsType, ConsumerTypes DEF IInv
<1>4. AllTold(c, Targets(stream[c]))
  BY ConsumerTypes DEF AllTold, Targets, PhonesOf
<1>5. PICK left : left = Targets(stream[c]) /\ AllTold(c, left)'
  <2> PICK left : left = Targets(stream[c])
    OBVIOUS
  <2>1. AllTold(c, left)'
    BY <1>1, <1>4, StillTold DEF phoneVars, outboxVars
  <2> QED
    BY <2>1
<1>6. CASE work' = [work EXCEPT ![p] = w]
  <2>1. work' \in [Pods -> Call]
    BY <1>3, <1>6, ConsumerTypes
  <2>2. work'[p] = w /\ \A q \in Pods : q # p => work'[q] = work[q]
    BY <1>6, ConsumerTypes
  <2>3. work'[p].copy = c /\ work'[p].left = left
    BY <1>5, <2>2
  <2>5. AllTold(work[p].copy, work[p].left)'
    BY <1>5, <2>3 DEF AllTold
  <2>4. \A q \in Pods : work'[q] = work[q] \/ AllTold(work[q].copy, work[q].left)'
    BY <2>2, <2>5
  <2> QED
    BY <1>1, <1>2, <2>1, <2>4, ConsumerTypes, TellingStep DEF phoneVars
<1>7. CASE work' = [work EXCEPT ![p] = v]
  <2>1. work' \in [Pods -> Call] /\ \A q \in Pods : work'[q] = work[q] \/ work'[q].retry
    BY <1>3, <1>7, ConsumerTypes
  <2> QED
    BY <1>1, <1>2, <2>1, ConsumerTypes, TellingStep DEF phoneVars
<1> QED
  BY <1>1, <1>6, <1>7

\* One send: the target was told, or refused, or cannot be reached, or the call retries.
LEMMA SendingStep ==
  ASSUME IInv, NEW p \in Pods, NEW t, NEW failed \in BOOLEAN,
         t \in work[p].left,
         work' = [work EXCEPT ![p] = AfterSend(work[p], t, failed)],
         UNCHANGED <<outboxVars, stream, sub, inbox, lapsed>>,
         told \subseteq told', refused \subseteq refused',
         tokens' \subseteq Phones, steady' \subseteq tokens', steady' \subseteq steady,
         faults' \in 0..MaxFaults, faults <= faults',
         \/ failed
         \/ <<stream[work[p].copy], t>> \in told'
         \/ sub = "notify" /\ (<<stream[work[p].copy], t>> \in refused' \/ t \notin steady')
  PROVE  IInv'
<1> DEFINE w == work[p]
           v == AfterSend(w, t, failed)
<1>1. /\ w \in [copy : 0..Len(stream), left : SUBSET (Phones \cup {"rider", "driver"}),
                retry : BOOLEAN]
      /\ v.copy = w.copy /\ v.left = w.left \ {t} /\ v.retry = (w.retry \/ failed)
      /\ v \in [copy : 0..Len(stream), left : SUBSET (Phones \cup {"rider", "driver"}),
                retry : BOOLEAN]
  BY ConsumerTypes DEF AfterSend
<1>2. /\ work'[p] = v /\ \A q \in Pods : q # p => work'[q] = work[q]
      /\ work' \in [Pods -> [copy : 0..Len(stream),
                             left : SUBSET (Phones \cup {"rider", "driver"}), retry : BOOLEAN]]
  BY <1>1, ConsumerTypes
<1>3. ASSUME ~v.retry, w.copy # 0 PROVE AllTold(work[p].copy, work[p].left)'
  <2>1. ~failed /\ ~w.retry
    BY <1>1, <1>3
  <2>2. AllTold(w.copy, w.left)
    BY <1>3, <2>1 DEF IInv, CallsTell
  <2> PICK c, left : c = w.copy /\ left = w.left
    OBVIOUS
  <2>3. AllTold(c, left)'
    BY <2>2, StillTold DEF outboxVars
  <2>4. AllTold(c, left \ {t})'
    BY <2>1, <2>3 DEF AllTold
  <2> QED
    BY <1>1, <1>2, <2>4 DEF AllTold
<1>4. \A q \in Pods : work'[q] = work[q] \/ work'[q].retry \/ work'[q].copy = 0
                      \/ AllTold(work[q].copy, work[q].left)'
  BY <1>1, <1>2, <1>3
<1> QED
  BY <1>2, <1>4, ConsumerTypes, TellingStep

\* Push and Send.
LEMMA PushStep ==
  ASSUME IInv, NEW p \in Pods, NEW t \in {"rider", "driver"}, Push(p, t)
  PROVE  IInv'
<1>1. /\ t \in work[p].left
      /\ UNCHANGED <<outboxVars, stream, sub, inbox, tokens, refused, steady, lapsed>>
  BY DEF Push
<1>2. CASE /\ told' = told \cup {<<stream[work[p].copy], t>>}
           /\ work' = [work EXCEPT ![p] = AfterSend(work[p], t, FALSE)] /\ UNCHANGED faults
  BY <1>1, <1>2, ConsumerTypes, SendingStep
<1>3. CASE /\ MayFail /\ Failed /\ UNCHANGED told
           /\ work' = [work EXCEPT ![p] = AfterSend(work[p], t, TRUE)]
  BY <1>1, <1>3, ConsumerTypes, SendingStep DEF Failed
<1> QED
  BY <1>2, <1>3 DEF Push

\* Telling one phone takes it off the list, or keeps it for the retry.
LEMMA SendStep ==
  ASSUME IInv, NEW p \in Pods, NEW f \in Phones, NEW o \in Outcome, Send(p, f, o)
  PROVE  IInv'
<1> DEFINE e == stream[work[p].copy]
<1>1. /\ f \in work[p].left /\ sub = "notify" /\ o \in {"ok", "gone", "retry", "error"}
      /\ UNCHANGED <<outboxVars, stream, sub, inbox, lapsed>>
      /\ work' = [work EXCEPT ![p] = AfterSend(work[p], f, o = "retry")]
      /\ told' = IF o = "ok" THEN told \cup {<<e, f>>} ELSE told
      /\ refused' = IF o = "error" THEN refused \cup {<<e, f>>} ELSE refused
      /\ tokens' = IF o = "gone" THEN tokens \ {f} ELSE tokens
      /\ steady' = steady \cap tokens'
  BY DEF Send, Outcome
<1>2. faults' \in 0..MaxFaults /\ faults <= faults'
  BY ConsumerTypes DEF Send
<1>3. /\ told \subseteq told' /\ refused \subseteq refused' /\ tokens' \subseteq Phones
      /\ steady' \subseteq tokens' /\ steady' \subseteq steady
  BY <1>1, ConsumerTypes
<1>4. o = "retry" \/ <<e, f>> \in told' \/ <<e, f>> \in refused' \/ f \notin steady'
  BY <1>1
<1>5. PICK failed \in BOOLEAN : failed = (o = "retry")
  OBVIOUS
<1> HIDE DEF e
<1> QED
  BY <1>1, <1>2, <1>3, <1>4, <1>5, SendingStep DEF e

\* The server changes where it stands with one copy.
LEMMA InboxStep ==
  ASSUME IInv, NEW c \in Copies, NEW st \in {"ready", "acked"},
         inbox' = [inbox EXCEPT ![c].st = st]
  PROVE  /\ inbox' \in Seq(Entry) /\ Len(inbox') = Len(inbox)
         /\ inbox'[c].st = st /\ \A d \in Copies : d # c => inbox'[d] = inbox[d]
<1>1. inbox[c] \in Entry
  BY ConsumerTypes
<1>2. [inbox[c] EXCEPT !.st = st] \in Entry /\ [inbox[c] EXCEPT !.st = st].st = st
  BY <1>1 DEF Entry
<1> QED
  BY <1>2, ConsumerTypes

\* A call ends, or its pod does, or its time is over: only a call that told all of its
\* copy acknowledges it.
LEMMA EndStep ==
  ASSUME IInv,
         \/ \E p \in Pods : Ack(p) \/ Nak(p) \/ Crash(p)
         \/ \E c \in Copies : AckWait(c)
  PROVE  IInv'
<1> DEFINE Work == [copy : 0..Len(stream), left : SUBSET (Phones \cup {"rider", "driver"}),
                    retry : BOOLEAN]
<1>1. ASSUME NEW p \in Pods, Ack(p) PROVE IInv'
  <2> DEFINE c == work[p].copy
  <2>1. /\ c \in Copies /\ work' = [work EXCEPT ![p] = NoWork] /\ NoWork.copy = 0
        /\ UNCHANGED <<outboxVars, stream, sub, phoneVars>>
    BY <1>1, ConsumerTypes DEF Ack, Returned, NoWork
  <2>2. AllTold(c, {})
    BY <1>1 DEF IInv, CallsTell, Ack, Returned
  <2>3. faults' \in 0..MaxFaults /\ faults <= faults'
    BY <1>1, ConsumerTypes DEF Ack, Failed
  <2> HIDE DEF c
  <2>4. inbox' = [inbox EXCEPT ![c].st = "acked"] \/ inbox' = inbox
    BY <1>1 DEF Ack, c
  <2>5. /\ inbox' \in Seq(Entry) /\ Len(inbox') = Len(inbox)
        /\ \A d \in Copies : inbox'[d].st = "acked" => inbox[d].st = "acked" \/ AllTold(d, {})
    <3>1. CASE inbox' = [inbox EXCEPT ![c].st = "acked"]
      BY <2>1, <2>2, <3>1, InboxStep
    <3>2. CASE inbox' = inbox
      BY <3>2, ConsumerTypes
    <3> QED
      BY <2>4, <3>1, <3>2
  <2> QED
    BY <2>1, <2>3, <2>5, ConsumerTypes, TellingStep DEF phoneVars
<1>2. ASSUME NEW p \in Pods, Nak(p) PROVE IInv'
  <2>1. /\ work[p].copy \in Copies /\ work' = [work EXCEPT ![p] = NoWork] /\ NoWork.copy = 0
        /\ inbox' = [inbox EXCEPT ![work[p].copy].st = "ready"]
        /\ UNCHANGED <<outboxVars, stream, sub, phoneVars, faults>>
    BY <1>2, ConsumerTypes DEF Nak, Returned, NoWork
  <2>2. /\ inbox' \in Seq(Entry) /\ Len(inbox') = Len(inbox)
        /\ \A d \in Copies : inbox'[d].st = "acked" => inbox[d].st = "acked"
    BY <2>1, InboxStep
  <2> QED
    BY <2>1, <2>2, ConsumerTypes, TellingStep DEF phoneVars
<1>3. ASSUME NEW c \in Copies, AckWait(c) PROVE IInv'
  <2>1. /\ inbox' = [inbox EXCEPT ![c].st = "ready"]
        /\ UNCHANGED <<outboxVars, stream, sub, work, phoneVars, faults>>
    BY <1>3 DEF AckWait
  <2>2. /\ inbox' \in Seq(Entry) /\ Len(inbox') = Len(inbox)
        /\ \A d \in Copies : inbox'[d].st = "acked" => inbox[d].st = "acked"
    BY <2>1, InboxStep
  <2> QED
    BY <2>1, <2>2, ConsumerTypes, TellingStep DEF phoneVars
<1>4. ASSUME NEW p \in Pods, Crash(p) PROVE IInv'
  <2>1. /\ relay' = [relay EXCEPT ![p] = NoBatch] /\ work' = [work EXCEPT ![p] = NoWork]
        /\ NoBatch.done = {} /\ NoWork.copy = 0 /\ MayFail /\ faults' = faults + 1
        /\ UNCHANGED <<says, row, stream, sub, inbox, phoneVars>>
    BY <1>4 DEF Crash, Failed, NoBatch, NoWork
  <2>2. /\ relay' \in [Pods -> [todo : SUBSET Events, done : SUBSET Events]]
        /\ \A q \in Pods : relay'[q].done \subseteq relay[q].done
    BY <2>1 DEF IInv, TypeOK, NoBatch
  <2>3. work' \in [Pods -> Work] /\ \A q \in Pods : work'[q] = work[q] \/ work'[q].copy = 0
    BY <2>1, ConsumerTypes
  <2>4. Copies' = Copies /\ \A e : CopiesOf(e)' = CopiesOf(e)
    BY <2>1 DEF CopiesOf, Copies
  <2>5. TypeOK'
    BY <2>1, <2>2, <2>3, <2>4, ConsumerTypes DEF IInv, TypeOK, phoneVars
  <2>6. CallsTell' /\ AckedTold'
    BY <2>1, <2>3, <2>4 DEF IInv, CallsTell, AckedTold, AllTold, Topics, Notified, phoneVars
  <2>7. AttemptsAreFaults'
    <3>1. \A e \in Events : row[e].attempts \in 0..MaxFaults
      BY DEF IInv, TypeOK
    <3> QED
      BY <2>1, <3>1, ConsumerTypes DEF IInv, AttemptsAreFaults
  <2> QED
    BY <2>1, <2>2, <2>4, <2>5, <2>6, <2>7 DEF IInv, PublishedIsOnStream, DoneIsOnStream
<1> QED
  BY <1>1, <1>2, <1>3, <1>4

\* Logins and logouts: a phone that was away once is not steady any more.
LEMMA DeviceStep ==
  ASSUME IInv,
         \/ \E f \in Phones : RegisterDevice(f) \/ ForgetDevice(f)
         \/ \E a \in {"rider", "driver"} : ForgetAccount(a)
  PROVE  IInv'
<1>1. /\ UNCHANGED <<outboxVars, stream, sub, inbox, work, told, refused, lapsed>>
      /\ MayFail /\ faults' = faults + 1
      /\ tokens' \subseteq Phones /\ steady' \subseteq tokens' /\ steady' \subseteq steady
  BY ConsumerTypes DEF RegisterDevice, ForgetDevice, ForgetAccount, Failed
<1> QED
  BY <1>1, ConsumerTypes, TellingStep

\* The engine publishes an offer itself, whether or not the message is stored.
LEMMA OfferStep == ASSUME IInv, NEW e \in Events, PublishOffer(e) PROVE IInv'
<1> DEFINE Row == [st : {"none", "pending", "published", "direct"}, attempts : 0..MaxFaults]
<1>1. /\ row \in [Events -> Row]
      /\ relay \in [Pods -> [todo : SUBSET Events, done : SUBSET Events]]
      /\ \A x \in Events : row[x].attempts \in Nat /\ row[x].attempts <= faults
      /\ \A x \in Events : row[x].st = "published" => CopiesOf(x) # {}
      /\ \A q \in Pods : \A x \in relay[q].done : x \in Events /\ CopiesOf(x) # {}
  BY DeliveryAssumption DEF IInv, TypeOK, PublishedIsOnStream, DoneIsOnStream, AttemptsAreFaults
<1>2. /\ row' = [row EXCEPT ![e].st = "direct"]
      /\ UNCHANGED <<says, relay, sub, work, phoneVars>>
      /\ Append1(e) \/ UNCHANGED <<stream, inbox>>
  BY DEF PublishOffer
<1>3. faults' \in 0..MaxFaults /\ faults <= faults' /\ faults \in Nat /\ faults' \in Nat
  BY ConsumerTypes DEF PublishOffer, Failed
<1>4. \A x \in Events : CopiesOf(x) # {} => CopiesOf(x)' # {}
  <2>1. CASE Append1(e)
    BY <2>1, Grows
  <2>2. CASE UNCHANGED <<stream, inbox>>
    BY <2>2 DEF CopiesOf, Copies
  <2> QED
    BY <1>2, <2>1, <2>2
<1>5. /\ row' \in [Events -> Row]
      /\ \A x \in Events : /\ row'[x].attempts = row[x].attempts
                           /\ row'[x].st = "published" => row[x].st = "published"
  BY <1>1, <1>2
<1>6. AttemptsAreFaults'
  BY <1>1, <1>3, <1>5 DEF AttemptsAreFaults
<1>7. \A x \in Events : row'[x].st = "published" => CopiesOf(x)' # {}
  BY <1>1, <1>4, <1>5
<1>8. \A q \in Pods : \A x \in relay'[q].done : CopiesOf(x)' # {}
  BY <1>1, <1>2, <1>4
<1> HIDE DEF Row
<1> QED
  BY <1>1, <1>2, <1>3, <1>5, <1>6, <1>7, <1>8, RelayStep DEF Row

\* A lapsed offer concerns nobody any more.
LEMMA LapseStep == ASSUME IInv, NEW e \in Events, Lapse(e) PROVE IInv'
BY ConsumerTypes, TellingStep DEF Lapse

\* The invariant is inductive.
LEMMA NextIInv == ASSUME IInv, [Next]_vars PROVE IInv'
<1>1. ASSUME NEW p \in Pods, Step(p) PROVE IInv'
  <2>1. CASE \/ FetchUnpublished(p) \/ MarkPublished(p)
             \/ \E e \in Events : Publish(p, e) \/ PublishFails(p, e)
    BY <2>1, OutboxSteps
  <2>2. CASE \E c \in Copies : Deliver(p, c)
    BY <2>2, DeliverStep
  <2>3. CASE Ack(p) \/ Nak(p)
    BY <2>3, EndStep
  <2>4. CASE \E t \in {"rider", "driver"} : Push(p, t)
    BY <2>4, PushStep
  <2>5. CASE \E f \in Phones, o \in Outcome : Send(p, f, o)
    BY <2>5, SendStep
  <2> QED
    BY <1>1, <2>1, <2>2, <2>3, <2>4, <2>5 DEF Step
<1>2. ASSUME NEW e \in Events, EnqueueTx(e) PROVE IInv'
  BY <1>2, EnqueueStep
<1>3. CASE UNCHANGED vars
  BY <1>3, ConsumerTypes, TellingStep DEF vars, outboxVars
<1> QED
  BY <1>1, <1>2, <1>3, OfferStep, LapseStep, EndStep, DeviceStep DEF Next

\* The same for every run of the process, whichever bus it was given.
LEMMA Invariant == BusSpec => []IInv
<1>1. BusInit => IInv
  BY InitIInv DEF BusInit
<1>2. IInv /\ [BusNext]_busVars => IInv'
  BY NextIInv DEF BusNext, busVars, vars
<1> QED
  BY <1>1, <1>2, PTL DEF BusSpec

\* The state keeps its types: a pod holds only copies of the stream, a row counts only
\* failures, no phone is steady that is not registered (internal/outbox, notification).
THEOREM DeliveryTypes == BusSpec => []TypeOK
<1>1. IInv => TypeOK
  BY DEF IInv
<1> QED
  BY <1>1, Invariant, PTL

\* A row is only marked published, and so never looked at again, when a message with
\* the event is in the stream: however many relays, failures and crashes
\* (outbox.go:261-287).
THEOREM NothingMarkedUnsent == BusSpec => []PublishedIsOnStream
<1>1. IInv => PublishedIsOnStream
  BY DEF IInv
<1> QED
  BY <1>1, Invariant, PTL

\* A message that was acknowledged has nobody left to tell (notifier.go:41-70,
\* realtime.go:123-149).
THEOREM AckTellsAll == BusSpec => []AckedIsTold
<1>1. IInv => AckedIsTold
  BY DEF IInv, AckedTold, AllTold, AckedIsTold
<1> QED
  BY <1>1, Invariant, PTL

-------------------------------------------------------------------------------
(* The in-process bus *)

\* The goroutines that were started and have not ended, what the counter says of
\* them, and who waits for a follow-up that runs in its publisher.
InFlight == {c \in L!Calls : call[c] \in {"admitted", "running"}}

Own(c) == <<c[1], "own">>

Nested ==
  \A c \in L!Calls : c[2] = "follow-up" /\ call[c] = "inline"
                       => call[Own(c)] \in {"running", "inline"}

Counted ==
  /\ call \in [L!Calls -> {"none", "admitted", "inline", "running", "done"}]
  /\ IsFiniteSet(InFlight) /\ wg = Cardinality(InFlight)
  /\ down => closed /\ InFlight = {}

\* A call that starts is counted, ...
LEMMA CountsUp ==
  ASSUME Counted, NEW c \in L!Calls, call[c] = "none", ~down', UNCHANGED closed,
         call' = [call EXCEPT ![c] = "admitted"], wg' = wg + 1
  PROVE  Counted'
<1>1. InFlight' = InFlight \cup {c} /\ c \notin InFlight
  BY DEF Counted, InFlight
<1>2. IsFiniteSet(InFlight') /\ Cardinality(InFlight') = Cardinality(InFlight) + 1
  BY <1>1, FS_AddElement DEF Counted
<1> QED
  BY <1>2 DEF Counted

\* ... one that ends is counted off, ...
LEMMA CountsDown ==
  ASSUME Counted, NEW c \in L!Calls, call[c] = "running", UNCHANGED <<closed, down>>,
         call' = [call EXCEPT ![c] = "done"], wg' = wg - 1
  PROVE  Counted'
<1>1. InFlight' = InFlight \ {c} /\ c \in InFlight
  BY DEF Counted, InFlight
<1>2. IsFiniteSet(InFlight') /\ Cardinality(InFlight') = Cardinality(InFlight) - 1
  BY <1>1, FS_RemoveElement DEF Counted
<1> QED
  BY <1>1, <1>2 DEF Counted

\* ... and nothing else changes who is in flight.
LEMMA CountsSame ==
  ASSUME Counted, InFlight' = InFlight, wg' = wg, down' => closed' /\ InFlight = {},
         call' \in [L!Calls -> {"none", "admitted", "inline", "running", "done"}]
  PROVE  Counted'
BY DEF Counted

\* The WaitGroup of the bus in memory stays exact in every step.
LEMMA LocalStep == ASSUME Counted, L!Next PROVE Counted'
<1> DEFINE Progress == {"none", "admitted", "inline", "running", "done"}
<1>1. ASSUME NEW c \in L!Calls, L!Admit(c) PROVE Counted'
  <2>1. CASE closed
    <3>1. /\ InFlight' = InFlight /\ call' \in [L!Calls -> Progress]
          /\ UNCHANGED <<wg, closed, down>>
      BY <1>1, <2>1 DEF L!Admit, Counted, InFlight
    <3> QED
      BY <3>1, CountsSame DEF Counted
  <2>2. CASE ~closed
    BY <1>1, <2>2, CountsUp DEF L!Admit, Counted
  <2> QED
    BY <2>1, <2>2
<1>2. ASSUME NEW c \in L!Calls, L!Spawn(c) \/ L!RunInline(c) PROVE Counted'
  <2>1. /\ InFlight' = InFlight /\ call' \in [L!Calls -> Progress]
        /\ UNCHANGED <<wg, closed, down>>
    BY <1>2 DEF L!Spawn, L!RunInline, Counted, InFlight
  <2> QED
    BY <2>1, CountsSame DEF Counted
<1>3. ASSUME NEW c \in L!Calls, L!Finish(c) PROVE Counted'
  BY <1>3, CountsDown DEF L!Finish
<1>4. CASE L!Close
  <2>1. InFlight' = InFlight /\ wg' = wg /\ call' = call
    BY <1>4 DEF L!Close, InFlight
  <2> QED
    BY <1>4, <2>1, CountsSame DEF L!Close, Counted
<1>5. CASE L!WaitDone
  <2>1. InFlight' = InFlight /\ wg' = wg /\ call' = call
    BY <1>5 DEF L!WaitDone, InFlight
  <2>2. InFlight = {}
    BY <1>5, FS_EmptySet DEF L!WaitDone, Counted
  <2> QED
    BY <1>5, <2>1, <2>2, CountsSame DEF L!WaitDone, Counted
<1> QED
  BY <1>1, <1>2, <1>3, <1>4, <1>5 DEF L!Next

\* A handler does not return before the follow-up that it runs itself has.
LEMMA NestedStep ==
  ASSUME Counted, Nested, L!Next PROVE Nested'
<1>1. \A c \in L!Calls : c[2] = "follow-up" =>
        /\ c = L!Follow(Own(c)) /\ Own(c) \in L!Calls /\ Own(c) # c
        /\ Own(c)[2] = "own" /\ Own(c)[1] \in Children
  BY EventBusAssumption DEF L!Calls, L!Follow, Own
<1> USE DEF Counted
<1>2. ASSUME NEW c \in L!Calls, L!Admit(c) PROVE Nested'
  <2>1. /\ call[c] = "none" /\ call'[c] \in {"admitted", "inline"}
        /\ c[2] = "own" \/ call[Own(c)] \in {"running", "inline"}
        /\ \A d \in L!Calls : d # c => call'[d] = call[d]
    BY <1>2 DEF L!Admit, L!Published, Own
  <2>2. ASSUME NEW d \in L!Calls, d[2] = "follow-up", call'[d] = "inline"
        PROVE  call'[Own(d)] \in {"running", "inline"}
    <3>1. call[Own(d)] \in {"running", "inline"}
      BY <1>1, <2>1, <2>2 DEF Nested
    <3> QED
      BY <1>1, <2>1, <2>2, <3>1
  <2> QED
    BY <2>2 DEF Nested, Own, L!Calls
<1>3. ASSUME NEW c \in L!Calls, L!Spawn(c) PROVE Nested'
  <2>1. /\ call[c] = "admitted" /\ call'[c] = "running"
        /\ \A d \in L!Calls : d # c => call'[d] = call[d]
    BY <1>3 DEF L!Spawn
  <2> QED
    BY <1>1, <2>1 DEF Nested, Own, L!Calls
<1>4. ASSUME NEW c \in L!Calls, L!Finish(c) \/ L!RunInline(c) PROVE Nested'
  <2>1. /\ call'[c] = "done" /\ L!MayReturn(c)
        /\ \A d \in L!Calls : d # c => call'[d] = call[d]
    BY <1>4 DEF L!Finish, L!RunInline
  <2>2. ASSUME NEW d \in L!Calls, d[2] = "follow-up", call'[d] = "inline"
        PROVE  call'[Own(d)] \in {"running", "inline"}
    <3>1. call[d] = "inline" /\ d # c
      BY <2>1, <2>2
    <3>2. Own(d) # c
      BY <1>1, <2>1, <2>2, <3>1 DEF L!MayReturn
    <3> QED
      BY <1>1, <2>1, <2>2, <3>1, <3>2 DEF Nested
  <2> QED
    BY <2>2 DEF Nested, Own, L!Calls
<1>5. CASE L!Close \/ L!WaitDone
  BY <1>5 DEF L!Close, L!WaitDone, Nested, Own, L!Calls
<1> QED
  BY <1>2, <1>3, <1>4, <1>5 DEF L!Next

\* Once Close has returned no goroutine of the bus is or will be running, and what still
\* runs, a publisher from outside runs: for any number of calls and however their
\* publishing crosses the closing (bus.go:104-136, 164-174).  It is the first half of
\* StopCompletes; that stopping ends is for the model checker.
THEOREM StopDrains == BusSpec => []L!Drained
<1>1. BusInit => Counted /\ Nested
  <2> SUFFICES ASSUME BusInit PROVE Counted /\ Nested
    OBVIOUS
  <2>1. InFlight = {} /\ wg = 0 /\ ~down
    BY DEF BusInit, L!Init, InFlight
  <2> QED
    BY <2>1, FS_EmptySet DEF BusInit, L!Init, Counted, Nested
<1>2. Counted /\ Nested /\ [BusNext]_busVars => Counted' /\ Nested'
  <2> SUFFICES ASSUME Counted, Nested, [BusNext]_busVars PROVE Counted' /\ Nested'
    OBVIOUS
  <2>1. CASE UNCHANGED <<call, wg, closed, down>>
    BY <2>1 DEF Counted, InFlight, Nested, Own, L!Calls
  <2> QED
    BY <2>1, LocalStep, NestedStep DEF BusNext, busVars
<1>3. Counted /\ Nested => L!Drained
  <2> SUFFICES ASSUME Counted, Nested, down, NEW c \in L!Calls
               PROVE  /\ call[c] \notin {"admitted", "running"}
                      /\ c[2] = "follow-up" /\ call[c] = "inline" => call[Own(c)] = "inline"
    BY DEF L!Drained, Own
  <2>1. \A d \in L!Calls : call[d] \notin {"admitted", "running"}
    BY DEF Counted, InFlight
  <2>2. c[2] = "follow-up" => Own(c) \in L!Calls
    <3>1. c[2] = "follow-up" => c[1] \in Children
      BY DEF L!Calls
    <3> QED
      BY <3>1, EventBusAssumption DEF L!Calls, Own
  <2> QED
    BY <2>1, <2>2 DEF Nested
<1> QED
  BY <1>1, <1>2, <1>3, PTL DEF BusSpec
===============================================================================
