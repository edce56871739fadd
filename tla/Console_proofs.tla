----------------------------- MODULE Console_proofs -----------------------------
(***************************************************************************)
(* Theorems about what the console works on: refunds (Refunds), settings,  *)
(* the roster and the lists (BackOffice), for any refunds, clerks, pods,   *)
(* requests, papers and rows.  In all of them a handler acts on what it    *)
(* has read earlier; each invariant says how much of it still holds.       *)
(***************************************************************************)
EXTENDS Refunds, BackOffice, FiniteSetTheorems, WellFoundedInduction, TLAPS

(* Refunds: what a handler may do next follows from what it knows of its   *)
(* row, and the row still agrees with that knowledge.                      *)

\* Only what is approved is posted.
RowsSound ==
  \A r \in Refs : r \in posted => refunds[r].status = "APPROVED"

\* An approved refund is small or bears two names.
NamesSound ==
  \A r \in Refs :
    refunds[r].status = "APPROVED" =>
      refunds[r].amount <= SelfApproveMax \/ refunds[r].decider # refunds[r].by

\* Every request that is being served works on a refund, for a clerk.
Busy ==
  \A c \in Calls : ~ At(c, "idle") => calls[c].ref \in Refs /\ calls[c].actor \in Clerks

\* The lock: one request inserts at a time, and its row does not exist yet.
Inserting ==
  /\ \A c, d \in Calls : At(c, "insert") /\ At(d, "insert") => c = d
  /\ \A c \in Calls : At(c, "insert") => /\ refunds[calls[c].ref].status = "NONE"
                                         /\ calls[c].amount \in Amounts

\* Whoever is about to approve is not the one who asked.
Deciding ==
  \A c \in Calls :
    /\ At(c, "approve") => /\ Row(c).status # "NONE"
                           /\ Row(c).by # calls[c].actor
    /\ At(c, "reject") => Row(c).status # "NONE"

\* What a handler believes approved is approved; what it announces is posted.
Believing ==
  \A c \in Calls :
    /\ At(c, "record") => calls[c].status # "NONE"
    /\ At(c, "record") /\ calls[c].status = "APPROVED" => Row(c).status = "APPROVED"
    /\ At(c, "look") \/ At(c, "post") => Row(c).status = "APPROVED"
    /\ At(c, "notify") => calls[c].ref \in posted

IInv ==
  /\ TypeOK /\ RowsSound /\ notified \subseteq posted /\ NamesSound
  /\ Busy /\ Inserting /\ Deciding /\ Believing

-------------------------------------------------------------------------------
\* The initial state satisfies the invariant.
LEMMA InitIInv == ASSUME Init PROVE IInv
<1> USE DEF Init, Idle, NoRefund, At, Row
<1>1. TypeOK
  BY RefundsAssumption DEF TypeOK, Refund, RefundStatus, Call
<1> QED
  BY <1>1 DEF IInv, RowsSound, NamesSound, Busy, Inserting, Deciding, Believing

\* A handler that starts changes nothing but its own entry.
LEMMA RequestStep ==
  ASSUME IInv, NEW c \in Calls, NEW r \in Refs, NEW a \in Clerks, NEW m \in Amounts,
         Request(c, r, a, m)
  PROVE  IInv'
<1>1. /\ Start(c, "insert", r, a, m)
      /\ UNCHANGED <<refunds, audit, posted, notified, faults>>
      /\ refunds[r].status = "NONE"
      /\ \A d \in Calls : calls[d].step # "insert"
  BY DEF Request, TripLocked, At
<1>2. TypeOK
  BY DEF IInv
<1>3. TypeOK'
  BY <1>1, <1>2 DEF TypeOK, Call, RefundStatus, Start
<1>4. \A d \in Calls \ {c} : calls'[d] = calls[d]
  BY <1>1, <1>2 DEF TypeOK, Start
<1>5. /\ calls'[c].step = "insert" /\ calls'[c].ref = r /\ calls'[c].actor = a
      /\ calls'[c].amount = m
  BY <1>1, <1>2 DEF TypeOK, Start
<1>6. RowsSound' /\ NamesSound' /\ (notified \subseteq posted)'
  BY <1>1 DEF IInv, RowsSound, NamesSound
<1>7. Busy'
  BY <1>4, <1>5 DEF IInv, Busy, At
<1>8. Inserting'
  BY <1>1, <1>4, <1>5 DEF IInv, Inserting, At
<1>9. Deciding'
  BY <1>1, <1>4, <1>5 DEF IInv, Deciding, At, Row
<1>10. Believing'
  BY <1>1, <1>4, <1>5 DEF IInv, Believing, At, Row
<1> QED
  BY <1>3, <1>6, <1>7, <1>8, <1>9, <1>10 DEF IInv

\* So does one that decides, or posts after the fact; it remembers what it has read.
LEMMA ApproveStep ==
  ASSUME IInv, NEW c \in Calls, NEW r \in Refs, NEW a \in Clerks,
         Approve(c, r, a) \/ Reject(c, r, a)
  PROVE  IInv'
<1> PICK step \in {"look", "approve", "reject"} :
         /\ Start(c, step, r, a, 0)
         /\ UNCHANGED <<refunds, audit, posted, notified, faults>>
         /\ refunds[r].status # "NONE"
         /\ step = "approve" => a # refunds[r].by
         /\ step = "look" => refunds[r].status = "APPROVED"
  BY DEF Approve, Reject
<1>2. TypeOK
  BY DEF IInv
<1>3. TypeOK'
  BY <1>2 DEF TypeOK, Call, RefundStatus, Start
<1>4. \A d \in Calls \ {c} : calls'[d] = calls[d]
  BY <1>2 DEF TypeOK, Start
<1>5. calls'[c].step = step /\ calls'[c].ref = r /\ calls'[c].actor = a
  BY <1>2 DEF TypeOK, Start
<1>6. RowsSound' /\ NamesSound' /\ (notified \subseteq posted)'
  BY DEF IInv, RowsSound, NamesSound
<1>7. Busy'
  BY <1>4, <1>5 DEF IInv, Busy, At
<1>8. Inserting'
  BY <1>4, <1>5 DEF IInv, Inserting, At
<1>9. Deciding'
  BY <1>4, <1>5 DEF IInv, Deciding, At, Row
<1>10. Believing'
  BY <1>4, <1>5 DEF IInv, Believing, At, Row
<1> QED
  BY <1>3, <1>6, <1>7, <1>8, <1>9, <1>10 DEF IInv

\* A handler that goes on to the audit log remembers its verdict.
LEMMA RecordsCall ==
  ASSUME calls \in [Calls -> Call], NEW c \in Calls,
         NEW status \in {"PENDING", "APPROVED", "REJECTED"}, ToRecord(c, status)
  PROVE  calls' \in [Calls -> Call]
<1>1. [calls[c] EXCEPT !.step = "record", !.status = status] \in Call
  BY DEF Call, RefundStatus
<1>2. calls' = [calls EXCEPT ![c] = [calls[c] EXCEPT !.step = "record", !.status = status]]
  BY DEF ToRecord
<1> QED
  BY <1>1, <1>2

\* The new row is nobody else's, because of the lock.
LEMMA InsertStep ==
  ASSUME IInv, NEW c \in Calls, Insert(c)
  PROVE  IInv'
<1> DEFINE r == calls[c].ref
<1> PICK entry \in Refund :
         /\ refunds' = [refunds EXCEPT ![r] = entry]
         /\ ToRecord(c, entry.status)
         /\ entry.status \in {"PENDING", "APPROVED"}
         /\ entry.status = "APPROVED" => entry.amount <= SelfApproveMax
         /\ UNCHANGED <<audit, posted, notified, faults>>
  <2> DEFINE self   == SelfApproved(calls[c].amount)
             status == IF self THEN "APPROVED" ELSE "PENDING"
             new    == [status |-> status, amount |-> calls[c].amount, by |-> calls[c].actor,
                        self |-> self, decider |-> IF self THEN calls[c].actor ELSE None]
  <2>1. calls[c].amount \in Amounts /\ calls[c].actor \in Clerks
    BY DEF IInv, Inserting, Busy, Insert, At
  <2>2. self \in BOOLEAN /\ (self => calls[c].amount <= SelfApproveMax)
    BY DEF SelfApproved
  <2>3. new \in Refund
    BY <2>1, <2>2 DEF Refund, RefundStatus
  <2>4. /\ new.status \in {"PENDING", "APPROVED"} /\ new.status = status
        /\ new.amount = calls[c].amount
    OBVIOUS
  <2>5. new.status = "APPROVED" => new.amount <= SelfApproveMax
    BY <2>2, <2>4
  <2>6. /\ refunds' = [refunds EXCEPT ![r] = new]
        /\ ToRecord(c, status)
        /\ UNCHANGED <<audit, posted, notified, faults>>
    BY DEF Insert
  <2> QED
    BY <2>3, <2>4, <2>5, <2>6
<1>1. r \in Refs /\ refunds[r].status = "NONE" /\ At(c, "insert") /\ calls[c].actor \in Clerks
  BY DEF IInv, Inserting, Busy, Insert, At
<1>2. TypeOK
  BY DEF IInv
<1>3. TypeOK'
  <2>1. refunds' \in [Refs -> Refund]
    BY <1>2 DEF TypeOK
  <2>2. calls' \in [Calls -> Call]
    BY <1>2, RecordsCall DEF TypeOK
  <2> QED
    BY <1>2, <2>1, <2>2 DEF TypeOK
<1>4. \A d \in Calls \ {c} : calls'[d] = calls[d]
  BY <1>2 DEF TypeOK, ToRecord
<1>5. /\ calls'[c].step = "record" /\ calls'[c].ref = r /\ calls'[c].status = entry.status
      /\ calls'[c].actor = calls[c].actor
  BY <1>2 DEF TypeOK, Call, ToRecord
<1>6. refunds'[r] = entry /\ \A q \in Refs \ {r} : refunds'[q] = refunds[q]
  BY <1>1, <1>2 DEF TypeOK
<1>7. RowsSound' /\ NamesSound' /\ (notified \subseteq posted)'
  BY <1>1, <1>6 DEF IInv, RowsSound, NamesSound
<1>8. Busy'
  BY <1>1, <1>4, <1>5 DEF IInv, Busy, At
<1>9. Inserting'
  <2>1. \A d \in Calls : ~ (calls'[d].step = "insert")
    BY <1>1, <1>4, <1>5 DEF IInv, Inserting, At
  <2> QED
    BY <2>1 DEF Inserting, At
<1>10. \A d \in Calls \ {c} : ~ At(d, "idle") /\ ~ At(d, "insert") => calls[d].ref \in Refs
  BY DEF IInv, Busy
<1>11. Deciding'
  BY <1>1, <1>4, <1>5, <1>6, <1>10 DEF IInv, Deciding, At, Row
<1>12. Believing'
  BY <1>1, <1>4, <1>5, <1>6, <1>10 DEF IInv, Believing, At, Row
<1> QED
  BY <1>3, <1>7, <1>8, <1>9, <1>11, <1>12 DEF IInv

\* A verdict falls on a PENDING row, which nobody believes approved.
LEMMA DecideStep ==
  ASSUME IInv, NEW c \in Calls, Decide(c)
  PROVE  IInv'
<1> DEFINE r == calls[c].ref
<1>0. PICK verdict \in {"APPROVED", "REJECTED"} :
         /\ refunds' = [refunds EXCEPT ![r].status = verdict, ![r].decider = calls[c].actor]
         /\ ToRecord(c, verdict)
         /\ verdict = "APPROVED" => At(c, "approve")
         /\ UNCHANGED <<audit, posted, notified, faults>>
  BY DEF Decide, Verdict, At
<1>1. r \in Refs /\ refunds[r].status = "PENDING" /\ calls[c].actor \in Clerks
  BY DEF IInv, Busy, Decide, At, Row
<1>2. TypeOK
  BY DEF IInv
<1>3. TypeOK'
  <2>1. refunds' \in [Refs -> Refund]
    BY <1>0, <1>1, <1>2 DEF TypeOK, Refund, RefundStatus
  <2>2. calls' \in [Calls -> Call]
    BY <1>0, <1>2, RecordsCall DEF TypeOK
  <2> QED
    BY <1>0, <1>2, <2>1, <2>2 DEF TypeOK
<1>4. \A d \in Calls \ {c} : calls'[d] = calls[d]
  BY <1>0, <1>2 DEF TypeOK, ToRecord
<1>5. /\ calls'[c].step = "record" /\ calls'[c].ref = r /\ calls'[c].status = verdict
      /\ calls'[c].actor = calls[c].actor
  BY <1>0, <1>2 DEF TypeOK, Call, ToRecord
<1>6. /\ refunds'[r].status = verdict /\ refunds'[r].by = refunds[r].by
      /\ refunds'[r].decider = calls[c].actor /\ refunds'[r].amount = refunds[r].amount
      /\ \A q \in Refs \ {r} : refunds'[q] = refunds[q]
  BY <1>0, <1>1, <1>2 DEF TypeOK, Refund
<1>7. RowsSound' /\ (notified \subseteq posted)'
  BY <1>0, <1>1, <1>6 DEF IInv, RowsSound
<1>8. NamesSound'
  <2>1. At(c, "approve") => refunds[r].by # calls[c].actor
    BY DEF IInv, Deciding, Row
  <2> QED
    BY <1>0, <1>6, <2>1 DEF IInv, NamesSound
<1>9. Busy'
  BY <1>1, <1>4, <1>5 DEF IInv, Busy, At
<1>10. \A d \in Calls : ~ At(d, "idle") => calls[d].ref \in Refs
  BY DEF IInv, Busy
<1>11. \A q \in Refs : /\ refunds'[q].by = refunds[q].by
                       /\ refunds[q].status = "NONE" <=> refunds'[q].status = "NONE"
                       /\ refunds[q].status = "APPROVED" => refunds'[q].status = "APPROVED"
  BY <1>1, <1>6
<1>12. Inserting'
  <2>1. \A d \in Calls : calls'[d].step = "insert" =>
            d # c /\ calls'[d] = calls[d] /\ At(d, "insert") /\ calls[d].ref \in Refs
    BY <1>4, <1>5, <1>10 DEF At
  <2>2. \A d, e \in Calls : calls'[d].step = "insert" /\ calls'[e].step = "insert" => d = e
    BY <2>1 DEF IInv, Inserting
  <2>3. \A d \in Calls : calls'[d].step = "insert" =>
            refunds'[calls'[d].ref].status = "NONE" /\ calls'[d].amount \in Amounts
    BY <1>11, <2>1 DEF IInv, Inserting
  <2> QED
    BY <2>2, <2>3 DEF Inserting, At
<1>13. Deciding'
  <2> SUFFICES ASSUME NEW d \in Calls
               PROVE  (/\ At(d, "approve") => /\ Row(d).status # "NONE"
                                              /\ Row(d).by # calls[d].actor
                       /\ At(d, "reject") => Row(d).status # "NONE")'
    BY DEF Deciding
  <2>1. CASE d = c
    BY <1>5, <2>1 DEF At
  <2>2. CASE d # c /\ calls[d].ref \in Refs
    BY <1>4, <1>11, <2>2 DEF IInv, Deciding, At, Row
  <2>3. CASE d # c /\ At(d, "idle")
    BY <1>4, <2>3 DEF At
  <2> QED
    BY <1>10, <2>1, <2>2, <2>3
<1>14. Believing'
  <2> SUFFICES ASSUME NEW d \in Calls
               PROVE  (/\ At(d, "record") => calls[d].status # "NONE"
                       /\ At(d, "record") /\ calls[d].status = "APPROVED"
                            => Row(d).status = "APPROVED"
                       /\ At(d, "look") \/ At(d, "post") => Row(d).status = "APPROVED"
                       /\ At(d, "notify") => calls[d].ref \in posted)'
    BY DEF Believing
  <2>1. CASE d = c
    BY <1>0, <1>5, <1>6, <2>1 DEF At, Row
  <2>2. posted' = posted
    BY <1>0
  <2>3. CASE d # c /\ calls[d].ref \in Refs
    BY <1>4, <1>11, <2>2, <2>3 DEF IInv, Believing, At, Row
  <2>4. CASE d # c /\ At(d, "idle")
    BY <1>4, <2>4 DEF At
  <2> QED
    BY <1>10, <2>1, <2>3, <2>4
<1> QED
  BY <1>3, <1>7, <1>8, <1>9, <1>12, <1>13, <1>14 DEF IInv

\* A step that leaves the table alone and only adds to audit log and ledger what its
\* handler knows: which is all that Record, Look, Post, Notify and ends of requests do.
LEMMA QuietStep ==
  ASSUME IInv, NEW c \in Calls, NEW call \in Call,
         calls' = [calls EXCEPT ![c] = call],
         call.step = "idle" \/ (/\ call.step \in {"look", "post", "notify"}
                               /\ call.ref = calls[c].ref /\ call.ref \in Refs
                               /\ call.actor = calls[c].actor /\ call.actor \in Clerks),
         call.step \in {"look", "post"} => Row(c).status = "APPROVED",
         call.step = "notify" => call.ref \in posted',
         UNCHANGED refunds,
         audit' \subseteq Refs \X (RefundStatus \ {"NONE"}),
         posted \subseteq posted', posted' \subseteq Refs,
         \A r \in posted' : r \in posted \/ refunds[r].status = "APPROVED",
         notified' \subseteq posted', faults' \in 0 .. MaxFaults
  PROVE  IInv'
<1>1. TypeOK
  BY DEF IInv
<1>2. TypeOK'
  BY <1>1 DEF TypeOK
<1>3. calls'[c] = call /\ \A d \in Calls \ {c} : calls'[d] = calls[d]
  BY <1>1 DEF TypeOK
<1>4. RowsSound' /\ NamesSound' /\ (notified \subseteq posted)'
  BY DEF IInv, RowsSound, NamesSound
<1>5. Busy'
  BY <1>3 DEF IInv, Busy, At
<1>6. Inserting'
  BY <1>3 DEF IInv, Inserting, At
<1>7. Deciding'
  BY <1>3 DEF IInv, Deciding, At, Row
<1>8. Believing'
  BY <1>3 DEF IInv, Believing, At, Row
<1> QED
  BY <1>2, <1>4, <1>5, <1>6, <1>7, <1>8 DEF IInv

\* The audit log gets an entry; who holds an approved refund goes on.
LEMMA RecordStep ==
  ASSUME IInv, NEW c \in Calls, Record(c)
  PROVE  IInv'
<1>1. /\ TypeOK /\ notified \subseteq posted
      /\ calls[c] \in Call /\ calls[c].ref \in Refs /\ calls[c].actor \in Clerks
  BY DEF IInv, TypeOK, Busy, At, Record
<1>2. calls[c].status # "NONE" /\ (calls[c].status = "APPROVED" => Row(c).status = "APPROVED")
  BY DEF IInv, Believing, Record
<1>3. audit' \subseteq Refs \X (RefundStatus \ {"NONE"})
  BY <1>1, <1>2 DEF TypeOK, Call, Record
<1>4. Idle \in Call /\ Idle.step = "idle"
  BY RefundsAssumption DEF Idle, Call, RefundStatus
<1>5. PICK call \in {Idle, [calls[c] EXCEPT !.step = "look"]} :
         /\ calls' = [calls EXCEPT ![c] = call]
         /\ call # Idle => Row(c).status = "APPROVED"
  BY <1>1, <1>2 DEF TypeOK, Record, Go, End
<1>6. CASE call = Idle
  BY <1>1, <1>3, <1>4, <1>5, <1>6, QuietStep DEF IInv, TypeOK, RowsSound, Record
<1>7. CASE call # Idle
  <2>1. /\ call \in Call /\ call.step = "look" /\ call.ref = calls[c].ref
        /\ call.actor = calls[c].actor
    BY <1>1, <1>5, <1>7 DEF Call
  <2> QED
    BY <1>1, <1>3, <1>5, <1>7, <2>1, QuietStep DEF IInv, TypeOK, RowsSound, Record
<1> QED
  BY <1>6, <1>7

\* Looking only remembers whether the ledger has the refund.
LEMMA LookStep ==
  ASSUME IInv, NEW c \in Calls, Look(c)
  PROVE  IInv'
<1>1. /\ TypeOK /\ notified \subseteq posted
      /\ calls[c] \in Call /\ calls[c].ref \in Refs /\ calls[c].actor \in Clerks
  BY DEF IInv, TypeOK, Busy, At, Look
<1>2. (calls[c].ref \in posted) \in BOOLEAN
  OBVIOUS
<1> PICK told \in BOOLEAN : told = (calls[c].ref \in posted)
  BY <1>2
<1> DEFINE call == [calls[c] EXCEPT !.step = "post", !.already = told]
<1>3. /\ call \in Call /\ call.step = "post" /\ call.ref = calls[c].ref
      /\ call.actor = calls[c].actor
  BY <1>1 DEF Call
<1>4. Row(c).status = "APPROVED"
  BY DEF IInv, Believing, Look
<1>5. calls' = [calls EXCEPT ![c] = call]
  BY <1>1 DEF TypeOK, Look
<1> HIDE DEF call
<1> QED
  BY <1>1, <1>3, <1>4, <1>5, QuietStep DEF IInv, TypeOK, RowsSound, Look

\* Posting needs what the handler believes.
LEMMA PostStep ==
  ASSUME IInv, NEW c \in Calls, Post(c)
  PROVE  IInv'
<1>1. /\ TypeOK /\ notified \subseteq posted
      /\ calls[c] \in Call /\ calls[c].ref \in Refs /\ calls[c].actor \in Clerks
  BY DEF IInv, TypeOK, Busy, At, Post
<1>2. Row(c).status = "APPROVED"
  BY DEF IInv, Believing, Post
<1>3. Idle \in Call /\ Idle.step = "idle"
  BY RefundsAssumption DEF Idle, Call, RefundStatus
<1>4. PICK call \in {Idle, [calls[c] EXCEPT !.step = "notify"]} :
         calls' = [calls EXCEPT ![c] = call]
  BY <1>1 DEF TypeOK, Post, Go, End
<1>5. /\ posted \subseteq posted' /\ posted' \subseteq Refs /\ calls[c].ref \in posted'
      /\ \A r \in posted' : r \in posted \/ refunds[r].status = "APPROVED"
  BY <1>1, <1>2 DEF TypeOK, Post, Row
<1>6. CASE call = Idle
  BY <1>1, <1>3, <1>4, <1>5, <1>6, QuietStep DEF TypeOK, Post
<1>7. CASE call # Idle
  <2>1. /\ call \in Call /\ call.step = "notify" /\ call.ref = calls[c].ref
        /\ call.actor = calls[c].actor
    BY <1>1, <1>4, <1>7 DEF Call
  <2> QED
    BY <1>1, <1>4, <1>5, <2>1, QuietStep DEF TypeOK, Post
<1> QED
  BY <1>6, <1>7

\* Handlers that end write at most the notification.
LEMMA EndStep ==
  ASSUME IInv, NEW c \in Calls, Notify(c) \/ DecideLost(c) \/ Fail(c)
  PROVE  IInv'
<1>1. TypeOK /\ notified \subseteq posted
  BY DEF IInv
<1>2. Idle \in Call /\ Idle.step = "idle"
  BY RefundsAssumption DEF Idle, Call, RefundStatus
<1>3. At(c, "notify") => calls[c].ref \in posted
  BY DEF IInv, Believing
<1>4. /\ calls' = [calls EXCEPT ![c] = Idle] /\ notified' \subseteq posted
      /\ UNCHANGED <<refunds, audit, posted>>
      /\ faults' \in 0 .. MaxFaults
  BY <1>1, <1>3, RefundsAssumption DEF TypeOK, Notify, DecideLost, Fail, End
<1> QED
  BY <1>1, <1>2, <1>4, QuietStep DEF TypeOK

\* The invariant is inductive.
LEMMA NextIInv == ASSUME IInv, [Next]_vars PROVE IInv'
<1>1. CASE \E c \in Calls, r \in Refs, a \in Clerks : Approve(c, r, a) \/ Reject(c, r, a)
  BY <1>1, ApproveStep
<1>2. CASE \E c \in Calls, r \in Refs, a \in Clerks, m \in Amounts : Request(c, r, a, m)
  BY <1>2, RequestStep
<1>3. CASE \E c \in Calls : Proceed(c)
  BY <1>3, InsertStep, DecideStep, RecordStep, LookStep, PostStep, EndStep
     DEF Proceed
<1>4. CASE \E c \in Calls : Fail(c)
  BY <1>4, EndStep
<1>5. CASE UNCHANGED vars
  BY <1>5 DEF vars, IInv, TypeOK, RowsSound, NamesSound, Busy, Inserting, Deciding, Believing,
     At, Row
<1> QED
  BY <1>1, <1>2, <1>3, <1>4, <1>5 DEF Next

\* All theorems below follow from this one.
LEMMA Invariant == Spec => []IInv
<1>1. Init => IInv
  BY InitIInv
<1>2. IInv /\ [Next]_vars => IInv'
  BY NextIInv
<1> QED
  BY <1>1, <1>2, PTL DEF Spec

-------------------------------------------------------------------------------
\* The tables keep their shape.
THEOREM RefundTypes == Spec => []TypeOK
<1>1. IInv => TypeOK
  BY DEF IInv
<1> QED
  BY <1>1, Invariant, PTL

\* Whatever clerks do at the same time and wherever handlers stop: money moves, and
\* the rider is told, only for what is and stays approved.
THEOREM PostedAreApproved == Spec => []PostedIsApproved
<1>1. IInv => PostedIsApproved
  BY DEF IInv, TypeOK, RowsSound, PostedIsApproved
<1> QED
  BY <1>1, Invariant, PTL

\* No path through Request, Approve and their repetitions posts a refund above the
\* limit for the clerk who asked for it alone.
THEOREM TwoNames == Spec => []TwoPeople
<1>1. ASSUME IInv PROVE TwoPeople
  <2>1. \A r \in Refs : refunds[r].amount \in Nat
    <3>1. refunds \in [Refs -> Refund]
      BY <1>1 DEF IInv, TypeOK
    <3>2. \A r \in Refs : refunds[r].amount \in Amounts \cup {0}
      BY <3>1 DEF Refund
    <3>3. Amounts \cup {0} \subseteq Nat
      BY RefundsAssumption
    <3> QED
      BY <3>2, <3>3
  <2>2. \A r \in posted : r \in Refs /\ refunds[r].status = "APPROVED"
    BY <1>1 DEF IInv, TypeOK, RowsSound
  <2>3. \A r \in posted : refunds[r].amount <= SelfApproveMax
                          \/ refunds[r].decider # refunds[r].by
    BY <1>1, <2>2 DEF IInv, NamesSound
  <2>4. SelfApproveMax \in Nat
    BY RefundsAssumption
  <2>5. \A r \in posted : refunds[r].amount > SelfApproveMax
                            => ~ (refunds[r].amount <= SelfApproveMax)
    BY <2>1, <2>2, <2>4
  <2> QED
    BY <2>3, <2>5 DEF TwoPeople
<1> QED
  BY <1>1, Invariant, PTL

-------------------------------------------------------------------------------
(* What a sum over rows of the table is.  The rows' amounts are added by a  *)
(* fold; its equations follow by induction on the size of the set.          *)

Total(t, S) == MapThenSumSet(LAMBDA r : t[r].amount, S)

\* The element the fold takes first.
First(S) == CHOOSE r \in S : TRUE

\* g adds up the amounts of every subset of S, one element after the other.
Adds(g, t, S) ==
  g = [s \in SUBSET S |-> IF s = {} THEN 0 ELSE t[First(s)].amount + g[s \ {First(s)}]]

HasAmounts(t, S) == IsFiniteSet(S) /\ \A r \in S : t[r].amount \in Nat

\* Every nonempty set of natural numbers has a least one.
LEMMA Least ==
  ASSUME NEW T, T \subseteq Nat, T # {}
  PROVE  \E x \in T : \A y \in T : ~ (y < x)
<1> DEFINE W == {z \in Nat \X Nat : z[1] < z[2]}
<1>1. IsWellFoundedOn(W, Nat)
  BY NatLessThanWellFounded DEF OpToRel
<1> HIDE DEF W
<1>2. PICK x \in T : \A y \in T : ~ (<<y, x>> \in W)
  BY <1>1, WFMin
<1>3. \A y \in T : y < x => <<y, x>> \in W
  BY DEF W
<1> QED
  BY <1>2, <1>3

\* Induction, with the property as the set of numbers that have it.
LEMMA SetInduction ==
  ASSUME NEW T, 0 \in T, \A n \in Nat : n \in T => n + 1 \in T
  PROVE  Nat \subseteq T
<1> DEFINE B == {n \in Nat : n \notin T}
<1> SUFFICES ASSUME B # {} PROVE FALSE
  OBVIOUS
<1>1. B \subseteq Nat
  OBVIOUS
<1> PICK x \in B : \A y \in B : ~ (y < x)
  BY <1>1, Least
<1>2. x \in Nat /\ x # 0
  OBVIOUS
<1>3. x - 1 \in Nat /\ x - 1 < x /\ x = (x - 1) + 1
  BY <1>2
<1>4. x - 1 \in T
  BY <1>3
<1> QED
  BY <1>3, <1>4

\* The fold takes an element that is there.
LEMMA FirstIn == ASSUME NEW S, S # {} PROVE First(S) \in S
BY DEF First

\* A part of a finite set without one of its elements.
LEMMA OneLess ==
  ASSUME NEW S, IsFiniteSet(S), NEW s \in SUBSET S, NEW x \in s
  PROVE  /\ IsFiniteSet(s) /\ s \ {x} \in SUBSET S
         /\ Cardinality(s) \in Nat /\ Cardinality(s \ {x}) \in Nat
         /\ Cardinality(s) = Cardinality(s \ {x}) + 1
<1>1. IsFiniteSet(s)
  BY FS_Subset
<1>2. /\ IsFiniteSet(s \ {x})
      /\ Cardinality(s \ {x}) = Cardinality(s) - 1
  BY <1>1, FS_RemoveElement
<1>3. Cardinality(s) \in Nat /\ Cardinality(s \ {x}) \in Nat
  BY <1>1, <1>2, FS_CardinalityType
<1> QED
  BY <1>1, <1>2, <1>3

\* The recursion has a solution: it is built up to sets of n elements, for every n.
LEMMA AddsExists ==
  ASSUME NEW t, NEW S, HasAmounts(t, S)
  PROVE  \E g \in [SUBSET S -> Nat] : Adds(g, t, S)
<1> USE DEF HasAmounts
<1> DEFINE Worth(g, s) == IF s = {} THEN 0 ELSE t[First(s)].amount + g[s \ {First(s)}]
           UpTo(g, n) == \A s \in SUBSET S : Cardinality(s) <= n => g[s] = Worth(g, s)
           T == {n \in Nat : \E g \in [SUBSET S -> Nat] : UpTo(g, n)}
<1>1. 0 \in T
  <2> DEFINE z == [s \in SUBSET S |-> 0]
  <2>1. \A s \in SUBSET S : Cardinality(s) <= 0 => s = {}
    <3> TAKE s \in SUBSET S
    <3>1. IsFiniteSet(s)
      BY FS_Subset
    <3>2. Cardinality(s) \in Nat
      BY <3>1, FS_CardinalityType
    <3> QED
      BY <3>1, <3>2, FS_EmptySet
  <2>2. UpTo(z, 0)
    BY <2>1
  <2>3. z \in [SUBSET S -> Nat]
    OBVIOUS
  <2> QED
    BY <2>2, <2>3
<1>2. ASSUME NEW n \in Nat, n \in T PROVE n + 1 \in T
  <2> PICK g \in [SUBSET S -> Nat] : UpTo(g, n)
    BY <1>2
  <2> DEFINE h == [s \in SUBSET S |-> Worth(g, s)]
  <2>1. \A s \in SUBSET S : s # {} =>
          /\ First(s) \in s /\ s \ {First(s)} \in SUBSET S
          /\ Cardinality(s) \in Nat /\ Cardinality(s \ {First(s)}) \in Nat
          /\ Cardinality(s) = Cardinality(s \ {First(s)}) + 1
    BY FirstIn, OneLess
  <2>2. h \in [SUBSET S -> Nat]
    <3> SUFFICES ASSUME NEW s \in SUBSET S PROVE Worth(g, s) \in Nat
      OBVIOUS
    <3>1. CASE s = {}
      BY <3>1
    <3>2. CASE s # {}
      <4>1. g[s \ {First(s)}] \in Nat /\ First(s) \in S
        BY <2>1, <3>2
      <4> QED
        BY <3>2, <4>1
    <3> QED
      BY <3>1, <3>2
  <2>3. UpTo(h, n + 1)
    <3> SUFFICES ASSUME NEW s \in SUBSET S, Cardinality(s) <= n + 1
                 PROVE  Worth(g, s) = Worth(h, s)
      OBVIOUS
    <3>1. CASE s = {}
      BY <3>1
    <3>2. CASE s # {}
      <4> DEFINE r == s \ {First(s)}
      <4>1. r \in SUBSET S /\ Cardinality(r) <= n
        BY <2>1, <3>2
      <4>2. g[r] = Worth(g, r)
        BY <4>1
      <4>3. h[r] = Worth(g, r)
        BY <4>1
      <4> QED
        BY <3>2, <4>2, <4>3
    <3> QED
      BY <3>1, <3>2
  <2> HIDE DEF h
  <2>4. n + 1 \in Nat
    OBVIOUS
  <2> QED
    BY <2>2, <2>3, <2>4
<1> HIDE DEF T
<1>3. Cardinality(S) \in T
  <2>1. Nat \subseteq T
    BY <1>1, <1>2, SetInduction
  <2> QED
    BY <2>1, FS_CardinalityType
<1> PICK g \in [SUBSET S -> Nat] : UpTo(g, Cardinality(S))
  BY <1>3 DEF T
<1>4. \A s \in SUBSET S : Cardinality(s) <= Cardinality(S)
  BY FS_Subset
<1>5. g = [s \in SUBSET S |-> Worth(g, s)]
  BY <1>4
<1> QED
  BY <1>5 DEF Adds

\* ... and only one, also if it is built for a larger set or another table with
\* the same amounts.
LEMMA AddsUnique ==
  ASSUME NEW t, NEW u, NEW S, NEW U \in SUBSET S, HasAmounts(t, S),
         \A r \in U : u[r].amount = t[r].amount,
         NEW g, Adds(g, t, S), NEW h, Adds(h, u, U)
  PROVE  \A s \in SUBSET U : g[s] = h[s]
<1> USE DEF HasAmounts
<1> DEFINE T == {n \in Nat : \A s \in SUBSET U : Cardinality(s) = n => g[s] = h[s]}
<1>0. IsFiniteSet(U)
  BY FS_Subset
<1>1. 0 \in T
  <2> SUFFICES ASSUME NEW s \in SUBSET U, Cardinality(s) = 0 PROVE g[s] = h[s]
    OBVIOUS
  <2>1. IsFiniteSet(s)
    BY <1>0, FS_Subset
  <2>2. s = {} /\ s \in SUBSET S
    BY <2>1, FS_EmptySet
  <2>3. g[s] = 0
    BY <2>2 DEF Adds
  <2>4. h[s] = 0
    BY <2>2 DEF Adds
  <2> QED
    BY <2>3, <2>4
<1>2. ASSUME NEW n \in Nat, n \in T PROVE n + 1 \in T
  <2> SUFFICES ASSUME NEW s \in SUBSET U, Cardinality(s) = n + 1 PROVE g[s] = h[s]
    OBVIOUS
  <2>0. Cardinality({}) = 0
    BY FS_EmptySet
  <2>1. s # {}
    BY <2>0
  <2> DEFINE x == First(s)
  <2>2. x \in s /\ x \in U /\ s \in SUBSET S
    BY <2>1, FirstIn
  <2> HIDE DEF x
  <2>7. /\ s \ {x} \in SUBSET U /\ Cardinality(s \ {x}) \in Nat
        /\ Cardinality(s) = Cardinality(s \ {x}) + 1
    BY <1>0, <2>2, OneLess
  <2>3. s \ {x} \in SUBSET U /\ Cardinality(s \ {x}) = n
    BY <2>7
  <2>4. g[s \ {x}] = h[s \ {x}]
    BY <1>2, <2>3
  <2>5. g[s] = t[x].amount + g[s \ {x}]
    BY <2>1, <2>2 DEF Adds, x
  <2>6. h[s] = u[x].amount + h[s \ {x}]
    BY <2>1 DEF Adds, x
  <2> QED
    BY <2>2, <2>4, <2>5, <2>6
<1> HIDE DEF T
<1>3. Nat \subseteq T
  BY <1>1, <1>2, SetInduction
<1> SUFFICES ASSUME NEW s \in SUBSET U PROVE g[s] = h[s]
  OBVIOUS
<1>4. IsFiniteSet(s)
  BY <1>0, FS_Subset
<1>5. Cardinality(s) \in T
  BY <1>3, <1>4, FS_CardinalityType
<1> QED
  BY <1>5 DEF T

\* So the sum is what that function has for the whole set.
LEMMA TotalAdds ==
  ASSUME NEW t, NEW S, HasAmounts(t, S)
  PROVE  \E g \in [SUBSET S -> Nat] : Adds(g, t, S) /\ Total(t, S) = g[S]
<1> DEFINE g == CHOOSE h : Adds(h, t, S)
<1>1. PICK f \in [SUBSET S -> Nat] : Adds(f, t, S)
  BY AddsExists
<1>2. Adds(g, t, S)
  BY <1>1
<1>3. Total(t, S) = g[S]
  BY DEF Total, MapThenSumSet, MapThenFoldSet, Adds, First
<1> HIDE DEF g
<1>4. f[S] = g[S]
  BY <1>1, <1>2, AddsUnique
<1> QED
  BY <1>1, <1>3, <1>4

\* The sum depends on the amounts alone.
LEMMA TotalSame ==
  ASSUME NEW t, NEW u, NEW S, HasAmounts(t, S), \A r \in S : u[r].amount = t[r].amount
  PROVE  Total(u, S) = Total(t, S)
<1>1. PICK g \in [SUBSET S -> Nat] : Adds(g, t, S) /\ Total(t, S) = g[S]
  BY TotalAdds
<1>2. HasAmounts(u, S)
  BY DEF HasAmounts
<1>3. PICK h \in [SUBSET S -> Nat] : Adds(h, u, S) /\ Total(u, S) = h[S]
  BY <1>2, TotalAdds
<1>4. g[S] = h[S]
  BY <1>1, <1>3, AddsUnique
<1> QED
  BY <1>1, <1>3, <1>4

\* Its type, and its equation for the element the fold takes first.
LEMMA TotalFirst ==
  ASSUME NEW t, NEW S, HasAmounts(t, S)
  PROVE  /\ Total(t, S) \in Nat
         /\ S = {} => Total(t, S) = 0
         /\ S # {} => Total(t, S) = t[First(S)].amount + Total(t, S \ {First(S)})
<1>1. PICK g \in [SUBSET S -> Nat] : Adds(g, t, S) /\ Total(t, S) = g[S]
  BY TotalAdds
<1>2. Total(t, S) \in Nat
  BY <1>1
<1>3. S = {} => Total(t, S) = 0
  BY <1>1 DEF Adds
<1>4. ASSUME S # {} PROVE Total(t, S) = t[First(S)].amount + Total(t, S \ {First(S)})
  <2> DEFINE x == First(S)
             U == S \ {x}
  <2>1. x \in S /\ U \in SUBSET S
    BY <1>4, FirstIn
  <2>2. HasAmounts(t, U)
    BY <2>1, FS_Subset DEF HasAmounts
  <2>3. PICK h \in [SUBSET U -> Nat] : Adds(h, t, U) /\ Total(t, U) = h[U]
    BY <2>2, TotalAdds
  <2>4. g[U] = h[U]
    BY <1>1, <2>1, <2>3, AddsUnique
  <2>5. g[S] = t[x].amount + g[U]
    BY <1>1, <1>4 DEF Adds
  <2> QED
    BY <1>1, <2>3, <2>4, <2>5
<1> QED
  BY <1>2, <1>3, <1>4

\* The order does not matter: any element may be the one that is added.
LEMMA TotalOne ==
  ASSUME NEW t, NEW S, HasAmounts(t, S), NEW x \in S
  PROVE  /\ Total(t, S \ {x}) \in Nat
         /\ Total(t, S) = t[x].amount + Total(t, S \ {x})
<1> DEFINE Splits(s) == \A y \in s : Total(t, s) = t[y].amount + Total(t, s \ {y})
           T == {n \in Nat : \A s \in SUBSET S : Cardinality(s) = n => Splits(s)}
<1>0. \A s \in SUBSET S : HasAmounts(t, s)
  BY FS_Subset DEF HasAmounts
<1>1. 0 \in T
  <2> SUFFICES ASSUME NEW s \in SUBSET S, Cardinality(s) = 0 PROVE s = {}
    OBVIOUS
  <2> QED
    BY <1>0, FS_EmptySet DEF HasAmounts
<1>2. ASSUME NEW n \in Nat, n \in T PROVE n + 1 \in T
  <2> SUFFICES ASSUME NEW s \in SUBSET S, Cardinality(s) = n + 1, NEW y \in s
               PROVE  Total(t, s) = t[y].amount + Total(t, s \ {y})
    OBVIOUS
  <2> DEFINE p == First(s)
  <2>1. p \in s
    BY FirstIn
  <2>2. Total(t, s) = t[p].amount + Total(t, s \ {p})
    BY <1>0, TotalFirst
  <2> HIDE DEF p
  <2>3. CASE p = y
    BY <2>2, <2>3
  <2>4. CASE p # y
    <3>1. IsFiniteSet(S)
      BY DEF HasAmounts
    <3>2. /\ s \ {p} \in SUBSET S /\ Cardinality(s \ {p}) = n /\ y \in s \ {p}
          /\ s \ {y} \in SUBSET S /\ Cardinality(s \ {y}) = n /\ p \in s \ {y}
      BY <2>1, <2>4, <3>1, OneLess
    <3>3. Total(t, s \ {p}) = t[y].amount + Total(t, (s \ {p}) \ {y})
      BY <1>2, <3>2
    <3>4. Total(t, s \ {y}) = t[p].amount + Total(t, (s \ {y}) \ {p})
      BY <1>2, <3>2
    <3>5. (s \ {p}) \ {y} = (s \ {y}) \ {p}
      OBVIOUS
    <3>6. /\ t[p].amount \in Nat /\ t[y].amount \in Nat
          /\ Total(t, (s \ {y}) \ {p}) \in Nat
      <4>1. (s \ {y}) \ {p} \in SUBSET S
        OBVIOUS
      <4> QED
        BY <1>0, <2>1, <4>1, TotalFirst DEF HasAmounts
    <3> DEFINE w == Total(t, (s \ {y}) \ {p})
    <3>7. /\ Total(t, s \ {p}) = t[y].amount + w
          /\ Total(t, s \ {y}) = t[p].amount + w
          /\ w \in Nat
      BY <3>3, <3>4, <3>5, <3>6
    <3> HIDE DEF w
    <3> QED
      BY <2>2, <3>6, <3>7
  <2> QED
    BY <2>3, <2>4
<1> HIDE DEF T
<1>3. Nat \subseteq T
  BY <1>1, <1>2, SetInduction
<1>4. Cardinality(S) \in T
  BY <1>3, FS_CardinalityType DEF HasAmounts
<1>5. Splits(S)
  BY <1>4 DEF T
<1>6. S \ {x} \in SUBSET S
  OBVIOUS
<1> QED
  BY <1>0, <1>5, <1>6, TotalFirst

-------------------------------------------------------------------------------
\* The refunds that count against the fare.
Standing == {r \in Refs : refunds[r].status \notin {"NONE", "REJECTED"}}

\* What counts stays within the fare, also once the handler that holds the lock has
\* inserted its row.
Budget ==
  /\ IsFiniteSet(Standing)
  /\ Used <= Paid
  /\ \A c \in Calls : At(c, "insert") => Used + calls[c].amount <= Paid

\* What Store.Create compares with the fare is the sum over the standing refunds.
LEMMA UsedIsTotal == Used = Total(refunds, Standing) /\ Used' = Total(refunds', Standing')
<1>1. Used = Total(refunds, Standing)
  BY DEF Used, Total, Standing
<1>2. Used' = Total(refunds', Standing')
  BY SMT DEF Used, Total, Standing, MapThenSumSet, MapThenFoldSet
<1> QED
  BY <1>1, <1>2

\* Their amounts can be added.
LEMMA StandingHasAmounts ==
  ASSUME TypeOK, IsFiniteSet(Standing)
  PROVE  HasAmounts(refunds, Standing) /\ Used \in Nat
<1>1. \A r \in Refs : refunds[r].amount \in Amounts \cup {0}
  BY DEF TypeOK, Refund
<1>2. \A x \in Amounts \cup {0} : x \in Nat
  BY RefundsAssumption
<1>3. \A r \in Standing : refunds[r].amount \in Nat
  BY <1>1, <1>2 DEF Standing
<1>4. HasAmounts(refunds, Standing)
  BY <1>3 DEF HasAmounts
<1> QED
  BY <1>4, TotalFirst, UsedIsTotal

\* Nothing counts before the first request.
LEMMA InitBudget == ASSUME Init PROVE Budget
<1>1. Standing = {}
  BY DEF Init, Standing, NoRefund
<1>2. IsFiniteSet(Standing)
  BY <1>1, FS_EmptySet
<1>3. TypeOK
  BY InitIInv DEF IInv
<1>4. HasAmounts(refunds, Standing)
  BY <1>2, <1>3, StandingHasAmounts
<1>5. Used = 0
  BY <1>1, <1>4, TotalFirst, UsedIsTotal
<1> QED
  BY <1>2, <1>5, RefundsAssumption DEF Budget, Init, Idle, At

\* A step that leaves the table alone and lets nobody new insert.
LEMMA SameTable ==
  ASSUME IInv, Budget, UNCHANGED refunds,
         \A c \in Calls : At(c, "insert")' => At(c, "insert") /\ UNCHANGED calls[c]
  PROVE  Budget'
<1>1. Standing' = Standing
  BY DEF Standing
<1>2. Used' = Used
  BY <1>1, UsedIsTotal
<1> QED
  BY <1>1, <1>2 DEF Budget

\* The lock is free, so the request that takes it is the only one to insert.
LEMMA RequestBudget ==
  ASSUME IInv, Budget, NEW c \in Calls, NEW r \in Refs, NEW a \in Clerks, NEW m \in Amounts,
         Request(c, r, a, m)
  PROVE  Budget'
<1>1. /\ UNCHANGED refunds /\ Used + m <= Paid
      /\ calls' = [calls EXCEPT ![c] = [step |-> "insert", ref |-> r, actor |-> a, amount |-> m,
                                        status |-> "NONE", already |-> FALSE]]
      /\ \A d \in Calls : ~ At(d, "insert")
  BY DEF Request, Start, TripLocked
<1>2. Standing' = Standing
  BY <1>1 DEF Standing
<1>3. Used' = Used
  BY <1>1, <1>2, UsedIsTotal
<1>4. \A d \in Calls : At(d, "insert")' => calls'[d].amount = m
  BY <1>1 DEF IInv, TypeOK, At
<1> QED
  BY <1>1, <1>2, <1>3, <1>4 DEF Budget

\* The row that is inserted was counted when the lock was taken.
LEMMA InsertBudget ==
  ASSUME IInv, Budget, NEW c \in Calls, Insert(c)
  PROVE  Budget'
<1> DEFINE r == calls[c].ref
           m == calls[c].amount
<1>1. /\ TypeOK /\ TypeOK' /\ r \in Refs /\ m \in Amounts /\ m \in Nat
      /\ refunds[r].status = "NONE" /\ Used + m <= Paid
      /\ \A d \in Calls : At(d, "insert") => d = c
  <2>1. TypeOK'
    BY InsertStep DEF IInv
  <2> QED
    BY <2>1, RefundsAssumption DEF IInv, Budget, Inserting, Busy, Insert, At
<1>2. PICK entry \in Refund : /\ refunds' = [refunds EXCEPT ![r] = entry]
                            /\ entry.amount = m /\ entry.status \in {"PENDING", "APPROVED"}
  <2>1. /\ refunds' \in [Refs -> Refund]
        /\ refunds'[r].amount = m /\ refunds'[r].status \in {"PENDING", "APPROVED"}
        /\ refunds' = [refunds EXCEPT ![r] = refunds'[r]]
    BY <1>1 DEF Insert, TypeOK
  <2> QED
    BY <1>1, <2>1
<1> HIDE DEF r, m
<1>3. Standing' = Standing \cup {r} /\ r \notin Standing
  BY <1>1, <1>2 DEF Standing, TypeOK
<1>4. IsFiniteSet(Standing') /\ HasAmounts(refunds, Standing) /\ Used \in Nat
  BY <1>1, <1>3, StandingHasAmounts, FS_AddElement DEF Budget
<1>5. HasAmounts(refunds', Standing')
  <2>1. \A x \in Standing : refunds'[x].amount = refunds[x].amount
    BY <1>1, <1>2, <1>3 DEF TypeOK, Standing
  <2>2. refunds'[r].amount = m
    BY <1>1, <1>2 DEF TypeOK
  <2> QED
    BY <1>1, <1>3, <1>4, <2>1, <2>2 DEF HasAmounts
<1>6. Total(refunds', Standing') = m + Total(refunds', Standing)
  <2>1. r \in Standing' /\ Standing' \ {r} = Standing
    BY <1>3
  <2>2. refunds'[r].amount = m
    BY <1>1, <1>2 DEF TypeOK
  <2> QED
    BY <1>5, <2>1, <2>2, TotalOne
<1>7. Total(refunds', Standing) = Total(refunds, Standing)
  BY <1>1, <1>2, <1>3, <1>4, TotalSame DEF TypeOK, Standing
<1>8. Used' = m + Used
  BY <1>6, <1>7, UsedIsTotal
<1>9. \A d \in Calls : ~ At(d, "insert")'
  BY <1>1 DEF Insert, ToRecord, At, TypeOK
<1> QED
  BY <1>1, <1>4, <1>8, <1>9, RefundsAssumption DEF Budget

\* A decision on what is pending keeps it or gives it back.
LEMMA DecideBudget ==
  ASSUME IInv, Budget, NEW c \in Calls, Decide(c)
  PROVE  Budget'
<1> DEFINE r == calls[c].ref
<1>1. /\ TypeOK /\ r \in Refs /\ refunds[r].status = "PENDING"
      /\ refunds' \in [Refs -> Refund]
  <2>1. TypeOK'
    BY DecideStep DEF IInv
  <2> QED
    BY <2>1 DEF IInv, TypeOK, Busy, Decide, At, Row
<1>2. /\ \A x \in Refs : refunds'[x].amount = refunds[x].amount
      /\ \A x \in Refs \ {r} : refunds'[x] = refunds[x]
      /\ refunds'[r].status \in {"APPROVED", "REJECTED"}
  BY <1>1 DEF Decide, TypeOK, Verdict, Refund
<1> HIDE DEF r
<1>3. r \in Standing /\ Standing' \in {Standing, Standing \ {r}}
  BY <1>1, <1>2 DEF Standing
<1>4. HasAmounts(refunds, Standing) /\ Used \in Nat
  BY <1>1, StandingHasAmounts DEF Budget
<1>5. refunds[r].amount \in Nat /\ HasAmounts(refunds, Standing') /\ IsFiniteSet(Standing')
  BY <1>3, <1>4, FS_RemoveElement DEF HasAmounts
<1>6. Total(refunds', Standing') = Total(refunds, Standing')
  BY <1>2, <1>5, TotalSame DEF Standing
<1>7. Total(refunds, Standing') \in Nat /\ Total(refunds, Standing') <= Total(refunds, Standing)
  <2>1. CASE Standing' = Standing
    BY <1>4, <2>1, UsedIsTotal
  <2>2. CASE Standing' = Standing \ {r}
    BY <1>3, <1>4, <1>5, <2>2, TotalOne
  <2> QED
    BY <1>3, <2>1, <2>2
<1>8. Used' \in Nat /\ Used' <= Used
  BY <1>6, <1>7, UsedIsTotal
<1>9. \A d \in Calls : At(d, "insert")' => At(d, "insert") /\ calls'[d].amount = calls[d].amount
                                          /\ calls[d].amount \in Nat
  <2>1. \A d \in Calls : At(d, "insert") => calls[d].amount \in Nat
    BY RefundsAssumption DEF IInv, Inserting
  <2>2. \A d \in Calls : At(d, "insert")' => At(d, "insert") /\ calls'[d].amount = calls[d].amount
    BY <1>1 DEF Decide, ToRecord, At, TypeOK
  <2> QED
    BY <2>1, <2>2
<1> QED
  BY <1>4, <1>5, <1>8, <1>9, RefundsAssumption DEF Budget

\* All other steps leave the table alone and insert nothing.
LEMMA NextBudget ==
  ASSUME IInv, Budget, [Next]_vars
  PROVE  Budget'
<1>0. TypeOK
  BY DEF IInv
<1>1. CASE \E c \in Calls, r \in Refs, a \in Clerks : Approve(c, r, a) \/ Reject(c, r, a)
  BY <1>0, <1>1, SameTable DEF Approve, Reject, Start, At, TypeOK
<1>2. CASE \E c \in Calls, r \in Refs, a \in Clerks, m \in Amounts : Request(c, r, a, m)
  BY <1>2, RequestBudget
<1>3. CASE \E c \in Calls : Insert(c)
  BY <1>3, InsertBudget
<1>4. CASE \E c \in Calls : Decide(c)
  BY <1>4, DecideBudget
<1>5. CASE \E c \in Calls : DecideLost(c) \/ Record(c) \/ Look(c) \/ Post(c) \/ Notify(c)
                              \/ Fail(c)
  <2> PICK c \in Calls : DecideLost(c) \/ Record(c) \/ Look(c) \/ Post(c) \/ Notify(c) \/ Fail(c)
    BY <1>5
  <2>1. CASE Record(c) \/ Look(c) \/ Post(c)
    <3>1. calls[c] \in Call
      BY <1>0 DEF TypeOK
    <3>2. UNCHANGED refunds /\ calls' = [calls EXCEPT ![c] = calls'[c]]
                            /\ calls'[c].step # "insert"
      BY <1>0, <2>1, <3>1 DEF TypeOK, Call, Record, Look, Post, Go, End, Idle
    <3> QED
      BY <1>0, <3>2, SameTable DEF At, TypeOK
  <2>2. CASE DecideLost(c) \/ Notify(c) \/ Fail(c)
    <3>1. UNCHANGED refunds /\ calls' = [calls EXCEPT ![c] = Idle] /\ Idle.step # "insert"
      BY <2>2 DEF DecideLost, Notify, Fail, End, Idle
    <3> QED
      BY <1>0, <3>1, SameTable DEF At, TypeOK
  <2> QED
    BY <2>1, <2>2
<1>6. CASE UNCHANGED vars
  BY <1>6, SameTable DEF vars, At
<1> QED
  BY <1>1, <1>2, <1>3, <1>4, <1>5, <1>6 DEF Next, Proceed

\* Two clerks who ask at the same time line up at the trip, and what one of them was
\* granted counts when the other is looked at: never is more given back than was paid.
THEOREM FareIsTheLimit == Spec => []NeverMoreThanPaid
<1>1. Init => Budget
  BY InitBudget
<1>2. IInv /\ Budget /\ [Next]_vars => Budget'
  BY NextBudget
<1>3. Budget => NeverMoreThanPaid
  BY DEF Budget, NeverMoreThanPaid
<1> QED
  BY <1>1, <1>2, <1>3, Invariant, PTL DEF Spec

-------------------------------------------------------------------------------
(* Settings: what is read from the table is a version of the history, also *)
(* when it is stored in a pod long after.                                  *)

\* What has been read from the table: what some version is or was.
Explained(s) == IsVersion(s.version, s.value)

\* The history and what was put in by hand explain the row, every snapshot on its
\* way and every snapshot in use.
SettingsSound ==
  /\ SettingTypeOK /\ Chained
  /\ \A l \in loads : Explained(l.read)
  /\ \A a \in Admins : puts[a].step = "read" => Explained(puts[a].read)
  /\ \A p \in Pods : Explained(pods[p])

Stored == [version : Nat, value : Value]
Entry == [version : Nat, old : Value, new : Value]

\* A field that is sent replaces what is there, so the result is a value again.
LEMMA MergeIsValue ==
  ASSUME NEW f \in Fragments, NEW v \in Value
  PROVE  Merge(f, v) \in Value
<1>1. DOMAIN v = {"low", "high"} /\ v["low"] \in 0 .. 2 /\ v["high"] \in 0 .. 2
  BY DEF Value
<1>2. \A k \in DOMAIN f : f[k] \in 0 .. 2
  BY DEF Fragments, FormOffers
<1>3. PICK m \in [{"low", "high"} -> 0 .. 2] : m = Merge(f, v)
  BY <1>1, <1>2 DEF Merge
<1>4. m = [low |-> m["low"], high |-> m["high"]]
  BY <1>3
<1> QED
  BY <1>3, <1>4 DEF Value

\* What the code keeps as a default is a value, and so is what the hand writes.
LEMMA FixedValues ==
  /\ Default \in Value /\ Broken \in Value /\ Narrow \in Value
  /\ [version |-> 0, value |-> Default] \in Stored
  /\ \A s \in Stored : Decode(s) \in Stored
<1>1. Default \in Value /\ Broken \in Value /\ Narrow \in Value
  BY DEF Default, Broken, Narrow, Value
<1> QED
  BY <1>1 DEF Decode, Stored

\* A snapshot that is taken over is the version that was read, or the default.
LEMMA DecodeExplains ==
  ASSUME NEW s \in Stored, Explained(s)
  PROVE  Explained(Decode(s)) /\ Decode(s) \in Stored
BY FixedValues DEF Explained, IsVersion, Decode, Stored

\* The row is a version too.
LEMMA RowExplained ==
  ASSUME SettingsSound
  PROVE  Explained(row) /\ row \in Stored
BY DEF SettingsSound, SettingTypeOK, Chained, Explained, Stored

\* Before the first change there is no history and everybody serves the default.
LEMMA InitSettings == ASSUME SettingInit PROVE SettingsSound
<1>1. /\ group \in AllKeys /\ row \in Stored /\ history \in Seq(Entry) /\ history = <<>>
      /\ pods \in [Pods -> Stored] /\ loads = {} /\ puts \in [Admins -> PutState]
      /\ changed \in Nat /\ byHand = {} /\ settingFaults \in 0 .. SettingFaults
  BY FixedValues, SettingsAssumption DEF SettingInit, AllKeys, PutState
<1>2. SettingTypeOK
  BY <1>1 DEF SettingTypeOK, Stored, Entry
<1> QED
  BY <1>1, <1>2 DEF SettingInit, SettingsSound, Chained, Explained, IsVersion

\* Steps that leave table and history alone: what they read or take over decides.
LEMMA TableUntouched ==
  ASSUME SettingsSound, SettingTypeOK', UNCHANGED <<row, history, byHand>>,
         \A l \in loads' \ loads : Explained(l.read),
         \A a \in Admins : puts'[a].step = "read" =>
           Explained(puts'[a].read),
         \A p \in Pods : Explained(pods'[p])
  PROVE  SettingsSound'
<1>1. \A n, v : IsVersion(n, v) => IsVersion(n, v)'
  BY DEF IsVersion
<1>2. Chained'
  BY <1>1 DEF SettingsSound, Chained
<1> QED
  BY <1>1, <1>2 DEF SettingsSound, Explained

\* A reload reads the row, or takes over what it has read.
LEMMA LoadStep ==
  ASSUME SettingsSound,
         \/ \E p \in Pods : Current(p) \/ HandleChanged(p)
         \/ \E l \in loads : Reload(l)
  PROVE  SettingsSound'
<1> USE DEF Stored
<1>0. SettingTypeOK /\ (\A p \in Pods : pods[p] \in Stored)
  BY DEF SettingsSound, SettingTypeOK
<1>1. ASSUME NEW p \in Pods, Current(p) \/ HandleChanged(p)
      PROVE  SettingsSound'
  <2>1. /\ loads' = loads \cup {[pod |-> p, read |-> row]}
        /\ UNCHANGED <<group, row, history, pods, puts, byHand, settingFaults>>
        /\ changed' \in Nat
    BY <1>0, <1>1 DEF Current, HandleChanged, StartLoad, GetAll, NoFault, SettingTypeOK
  <2>2. SettingTypeOK'
    BY <1>0, <2>1 DEF SettingTypeOK
  <2> QED
    BY <2>1, <2>2, RowExplained, TableUntouched DEF SettingsSound
<1>2. ASSUME NEW l \in loads, Reload(l)
      PROVE  SettingsSound'
  <2>1. l.read \in Stored /\ l.pod \in Pods /\ Explained(l.read)
    BY <1>0 DEF SettingTypeOK, SettingsSound
  <2>2. PICK s \in Stored : s = Decode(l.read) /\ Explained(s)
    BY <2>1, DecodeExplains
  <2>3. /\ loads' = loads \ {l} /\ pods' = [pods EXCEPT ![l.pod] = s]
        /\ UNCHANGED <<group, row, history, puts, changed, byHand, settingFaults>>
    BY <1>2, <2>2 DEF Reload
  <2>4. SettingTypeOK'
    BY <1>0, <2>1, <2>3 DEF SettingTypeOK
  <2> QED
    BY <1>0, <2>1, <2>2, <2>3, <2>4, TableUntouched DEF SettingsSound, SettingTypeOK
<1> QED
  BY <1>1, <1>2

\* A PUT on its way to the table and back.
LEMMA PutStepQuiet ==
  ASSUME SettingsSound, NEW a \in Admins,
         \/ PutFirst(a) \/ PutFails(a) \/ ReloadOwn(a) \/ Announce(a) \/ AnnounceNothing(a)
         \/ \E f \in Fragments : View(a, f)
         \/ \E p \in Pods : Probe(a, p)
  PROVE  SettingsSound'
<1> USE DEF Stored
<1>0. /\ SettingTypeOK /\ puts[a] \in PutState /\ row \in Stored
      /\ \A p \in Pods : pods[p] \in Stored
  BY DEF SettingsSound, SettingTypeOK
<1>a. [step |-> "answered"] \in PutState
  BY DEF PutState

\* A new state of the request that reads nothing.
<1>b. ASSUME NEW w \in PutState, w.step # "read", puts' = [puts EXCEPT ![a] = w],
             UNCHANGED <<group, row, history, pods, loads, changed, byHand>>,
             settingFaults' \in 0 .. SettingFaults
      PROVE  SettingsSound'
  <2>1. SettingTypeOK'
    BY <1>0, <1>b DEF SettingTypeOK
  <2> QED
    BY <1>0, <1>b, <2>1, TableUntouched DEF SettingsSound, SettingTypeOK
<1>1. ASSUME NEW f \in Fragments, View(a, f) PROVE SettingsSound'
  <2>1. PICK w \in PutState : w = [step |-> "viewed", fragment |-> f, expect |-> row.version]
    BY <1>0 DEF PutState
  <2> QED
    BY <1>0, <1>1, <1>b, <2>1 DEF View, SettingTypeOK
<1>2. ASSUME NEW p \in Pods, Probe(a, p) PROVE SettingsSound'
  <2>1. puts[a].fragment \in Fragments /\ puts[a].expect \in Nat
    BY <1>0, <1>2 DEF Probe, PutState
  <2>2. PICK v \in Value : v = Merge(puts[a].fragment, pods[p].value)
    BY <1>0, <2>1, MergeIsValue
  <2>3. PICK w \in PutState : w = [step |-> "checked", pod |-> p,
           fragment |-> puts[a].fragment, value |-> v, expect |-> puts[a].expect]
    BY <2>1, <2>2 DEF PutState
  <2>4. \/ puts' = [puts EXCEPT ![a] = w]
        \/ puts' = [puts EXCEPT ![a] = [step |-> "answered"]]
    BY <1>2, <2>2, <2>3 DEF Probe, Answer
  <2> QED
    BY <1>0, <1>2, <1>a, <1>b, <2>3, <2>4 DEF Probe, SettingTypeOK
<1>3. CASE PutFirst(a)
  <2>1. /\ puts[a].pod \in Pods /\ puts[a].value \in Value /\ puts[a].expect \in Nat
        /\ puts[a].fragment \in Fragments
    BY <1>0, <1>3 DEF PutFirst, PutState
  <2>2. PICK w \in PutState : w = [puts[a] EXCEPT !.step = "inserting"]
    BY <1>0, <1>3, <2>1 DEF PutFirst, PutState
  <2>3. \/ puts' = [puts EXCEPT ![a] = w]
        \/ puts' = [puts EXCEPT ![a] = [step |-> "answered"]]
    BY <1>0, <1>3, <2>2 DEF PutFirst, Answer, SettingTypeOK
  <2>4. w.step # "read"
    BY <1>0, <1>3, <2>2 DEF PutFirst, PutState
  <2> QED
    BY <1>0, <1>3, <1>a, <1>b, <2>3, <2>4 DEF PutFirst, SettingTypeOK
<1>4. CASE PutFails(a) \/ AnnounceNothing(a)
  <2>1. settingFaults' \in 0 .. SettingFaults
    BY <1>0, <1>4, SettingsAssumption DEF PutFails, AnnounceNothing, MayFail, SettingTypeOK
  <2> QED
    BY <1>4, <1>a, <1>b, <2>1 DEF PutFails, AnnounceNothing, Answer
<1>5. CASE ReloadOwn(a)
  <2>1. puts[a].pod \in Pods
    BY <1>0, <1>5 DEF ReloadOwn, PutState
  <2>2. PICK w \in PutState : w = [step |-> "read", pod |-> puts[a].pod, read |-> row]
    BY <1>0, <2>1 DEF PutState
  <2>3. puts' = [puts EXCEPT ![a] = w]
    BY <1>5, <2>2 DEF ReloadOwn
  <2>4. SettingTypeOK'
    BY <1>0, <1>5, <2>3 DEF SettingTypeOK, ReloadOwn
  <2>5. w.read = row
    BY <2>2
  <2>6. \A b \in Admins : puts'[b].step = "read" => Explained(puts'[b].read)
    BY <1>0, <2>3, <2>5, RowExplained DEF SettingsSound, SettingTypeOK
  <2> QED
    BY <1>0, <1>5, <2>4, <2>6, TableUntouched DEF SettingsSound, ReloadOwn
<1>6. CASE Announce(a)
  <2>1. puts[a].pod \in Pods /\ puts[a].read \in Stored /\ Explained(puts[a].read)
    BY <1>0, <1>6 DEF Announce, PutState, SettingsSound
  <2>2. PICK s \in Stored : s = Decode(puts[a].read) /\ Explained(s)
    BY <2>1, DecodeExplains
  <2>3. pods' = [pods EXCEPT ![puts[a].pod] = s]
    BY <1>6, <2>2 DEF Announce
  <2>4. settingFaults' \in 0 .. SettingFaults /\ changed' \in Nat
    BY <1>0, <1>6, SettingsAssumption DEF Announce, MayFail, NoFault, SettingTypeOK
  <2>5. /\ puts' = [puts EXCEPT ![a] = [step |-> "answered"]]
        /\ UNCHANGED <<group, row, history, loads, byHand>>
    BY <1>6 DEF Announce, Answer
  <2>6. SettingTypeOK'
    BY <1>0, <1>a, <2>1, <2>3, <2>4, <2>5 DEF SettingTypeOK
  <2>7. \A b \in Admins : puts'[b].step = "read" => Explained(puts'[b].read)
    BY <1>0, <2>5 DEF SettingsSound, SettingTypeOK
  <2>8. \A p \in Pods : Explained(pods'[p])
    BY <1>0, <2>1, <2>2, <2>3 DEF SettingsSound, SettingTypeOK
  <2> QED
    BY <2>5, <2>6, <2>7, <2>8, TableUntouched
<1> QED
  BY <1>1, <1>2, <1>3, <1>4, <1>5, <1>6

\* An entry more explains what the history explained before.
LEMMA StillExplained ==
  ASSUME history \in Seq(Entry), NEW e \in Entry, history' = Append(history, e), byHand' = byHand
  PROVE  /\ Len(history') = Len(history) + 1 /\ history' \in Seq(Entry)
         /\ \A i \in DOMAIN history : history'[i] = history[i]
         /\ history'[Len(history) + 1] = e
         /\ DOMAIN history = 1 .. Len(history) /\ DOMAIN history' = 1 .. Len(history) + 1
         /\ \A n, v : IsVersion(n, v) => IsVersion(n, v)'
<1>1. /\ Len(history') = Len(history) + 1 /\ Len(history) \in Nat /\ history' \in Seq(Entry)
      /\ \A i \in DOMAIN history : history'[i] = history[i]
      /\ history'[Len(history) + 1] = e
      /\ DOMAIN history = 1 .. Len(history) /\ DOMAIN history' = 1 .. Len(history) + 1
  OBVIOUS
<1>2. \A n, v : IsVersion(n, v) => IsVersion(n, v)'
  BY <1>1 DEF IsVersion
<1> QED
  BY <1>1, <1>2

\* Whoever writes has the row locked, or is refused: the entry continues the history.
LEMMA WriteStep ==
  ASSUME SettingsSound, NEW a \in Admins, puts[a].step \in {"checked", "inserting"}, Write(a),
         UNCHANGED <<group, pods, loads, changed, byHand, settingFaults>>
  PROVE  SettingsSound'
<1>0. SettingTypeOK /\ puts[a] \in PutState /\ Chained
  BY DEF SettingsSound, SettingTypeOK
<1>1. /\ puts[a].pod \in Pods /\ puts[a].value \in Value
      /\ row.version \in Nat /\ row.value \in Value
  BY <1>0 DEF PutState, SettingTypeOK
<1>2. PICK e \in Entry : e = [version |-> row.version + 1, old |-> row.value,
                              new |-> puts[a].value]
  <2> DEFINE n == row.version + 1
             old == row.value
             new == puts[a].value
  <2>1. n \in Nat /\ old \in Value /\ new \in Value
    BY <1>1
  <2> HIDE DEF n, old, new
  <2>2. [version |-> n, old |-> old, new |-> new] \in Entry
    BY <2>1 DEF Entry
  <2> QED
    BY <2>2 DEF n, old, new
<1>3. PICK w \in PutState : w = [step |-> "written", pod |-> puts[a].pod]
  BY <1>1 DEF PutState
<1>4. /\ history' = Append(history, e) /\ puts' = [puts EXCEPT ![a] = w]
      /\ row'.version = row.version + 1 /\ row'.value = puts[a].value
      /\ row' \in Stored
  BY <1>1, <1>2, <1>3 DEF Write, Stored
<1>5. /\ e.version = row.version + 1 /\ e.old = row.value /\ e.new = puts[a].value
      /\ w.step # "read"
  BY <1>2, <1>3
<1>6. history \in Seq(Entry)
  BY <1>0 DEF SettingTypeOK, Entry
<1>7. /\ Len(history') = Len(history) + 1 /\ history' \in Seq(Entry)
      /\ \A i \in DOMAIN history : history'[i] = history[i]
      /\ history'[Len(history) + 1] = e
      /\ DOMAIN history = 1 .. Len(history) /\ DOMAIN history' = 1 .. Len(history) + 1
      /\ \A n, v : IsVersion(n, v) => IsVersion(n, v)'
  BY <1>4, <1>6, StillExplained
<1>8. SettingTypeOK'
  BY <1>0, <1>4, <1>7 DEF SettingTypeOK, Stored, Entry
<1>9. Chained'
  <2>1. PICK v : /\ v = row.value /\ IsVersion(row.version, v)
                 /\ row.version = Len(history) /\ Len(history) \in Nat
    BY <1>0, <1>6 DEF Chained
  <2>2. PICK n : n = Len(history) /\ IsVersion(n, v)'
    BY <1>7, <2>1
  <2>3. ASSUME NEW i \in DOMAIN history'
        PROVE  (history[i].version = i /\ IsVersion(i - 1, history[i].old))'
    <3>1. CASE i \in DOMAIN history
      <4>1. history[i].version = i /\ IsVersion(i - 1, history[i].old)
        BY <1>0, <3>1 DEF Chained
      <4>2. PICK o : o = history[i].old /\ IsVersion(i - 1, o)'
        BY <1>7, <4>1
      <4>3. history'[i].version = i /\ history'[i].old = o
        BY <1>7, <3>1, <4>1, <4>2
      <4> QED
        BY <4>2, <4>3
    <3>2. CASE i = Len(history) + 1
      <4>1. i - 1 = n /\ history'[i].old = v /\ history'[i].version = i
        BY <1>5, <1>7, <2>1, <2>2, <3>2
      <4> QED
        BY <2>2, <4>1
    <3> QED
      BY <1>7, <2>1, <3>1, <3>2
  <2>4. IsVersion(row.version, row.value)'
    BY <1>4, <1>5, <1>7, <2>1 DEF IsVersion
  <2>5. row'.version = Len(history')
    BY <1>4, <1>7, <2>1
  <2> QED
    BY <2>3, <2>4, <2>5 DEF Chained
<1>10. (\A l \in loads : Explained(l.read))'
  BY <1>7 DEF SettingsSound, Explained
<1>11. \A b \in Admins : puts'[b] = IF b = a THEN w ELSE puts[b]
  BY <1>0, <1>4 DEF SettingTypeOK
<1>12. (\A b \in Admins : puts[b].step = "read" => Explained(puts[b].read))'
  BY <1>5, <1>7, <1>11 DEF SettingsSound, Explained
<1>13. (\A p \in Pods : Explained(pods[p]))'
  BY <1>7 DEF SettingsSound, Explained
<1> QED
  BY <1>8, <1>9, <1>10, <1>12, <1>13 DEF SettingsSound

\* The hand leaves the version and puts a value under it.
LEMMA EditStep ==
  ASSUME SettingsSound, EditByHand
  PROVE  SettingsSound'
<1>0. SettingTypeOK /\ Chained /\ row \in Stored
  BY DEF SettingsSound, SettingTypeOK, Stored
<1>1. PICK v \in Value :
        /\ row' = [row EXCEPT !.value = v]
        /\ byHand' = byHand \cup {[version |-> row.version, value |-> v]}
        /\ UNCHANGED <<group, history, pods, loads, puts, changed, settingFaults>>
  BY FixedValues DEF EditByHand
<1>2. /\ row' \in Stored /\ row'.version = row.version /\ row'.value = v
      /\ [version |-> row.version, value |-> v] \in Stored
  BY <1>0, <1>1 DEF Stored
<1>3. SettingTypeOK'
  BY <1>0, <1>1, <1>2 DEF SettingTypeOK, Stored
<1>4. \A n, u : IsVersion(n, u) => IsVersion(n, u)'
  BY <1>1 DEF IsVersion
<1>5. IsVersion(row.version, row.value)'
  BY <1>1, <1>2 DEF IsVersion
<1>6. Chained'
  BY <1>0, <1>1, <1>2, <1>4, <1>5 DEF Chained
<1> QED
  BY <1>1, <1>3, <1>4, <1>6 DEF SettingsSound, Explained

\* Every step of the settings keeps them explained.
LEMMA SettingsStep ==
  ASSUME SettingsSound, [SettingNext]_settingVars
  PROVE  SettingsSound'
<1>1. CASE \E p \in Pods : Current(p) \/ HandleChanged(p)
  BY <1>1, LoadStep
<1>2. CASE \E l \in loads : Reload(l)
  BY <1>2, LoadStep
<1>3. ASSUME NEW a \in Admins, PutStep(a) PROVE SettingsSound'
  <2>1. CASE Put(a) \/ InsertFirst(a)
    <3>1. CASE Write(a)
      BY <2>1, <3>1, WriteStep DEF Put, InsertFirst
    <3>2. CASE ~ Write(a)
      <4>1. /\ puts' = [puts EXCEPT ![a] = [step |-> "answered"]]
            /\ UNCHANGED <<group, row, history, pods, loads, changed, byHand, settingFaults>>
        BY <2>1, <3>2 DEF Put, InsertFirst, Answer
      <4>2. SettingTypeOK'
        BY <4>1 DEF SettingsSound, SettingTypeOK, PutState
      <4>3. \A b \in Admins : puts'[b].step = "read" => Explained(puts'[b].read)
        BY <4>1 DEF SettingsSound, SettingTypeOK
      <4> QED
        BY <4>1, <4>2, <4>3, TableUntouched DEF SettingsSound
    <3> QED
      BY <3>1, <3>2
  <2> QED
    BY <1>3, <2>1, PutStepQuiet DEF PutStep
<1>4. CASE EditByHand
  BY <1>4, EditStep
<1>5. CASE UNCHANGED settingVars
  <2>1. SettingTypeOK'
    BY <1>5 DEF SettingsSound, SettingTypeOK, settingVars
  <2> QED
    BY <1>5, <2>1, TableUntouched DEF settingVars, SettingsSound
<1> QED
  BY <1>1, <1>2, <1>3, <1>4, <1>5 DEF SettingNext

\* Whatever is said of settings holds of the console's behaviours.
LEMMA SettingsInvariant == OfficeSpec => []SettingsSound
<1>1. OfficeInit => SettingsSound
  BY InitSettings DEF OfficeInit
<1>2. SettingsSound /\ [OfficeNext]_officeVars => SettingsSound'
  BY SettingsStep DEF OfficeNext, officeVars, settingVars
<1> QED
  BY <1>1, <1>2, PTL DEF OfficeSpec

\* Whoever races for the first or a later version and whichever reload comes last:
\* the history of a group has neither gap nor fork, and with what was put into the
\* table by hand, which has no entry, it accounts for every value a pod computes
\* with, however far the pod lags behind.
THEOREM HistoryIsComplete == OfficeSpec => []HistoryExplains
<1>1. SettingsSound => HistoryExplains
  BY DEF SettingsSound, HistoryExplains, Explained
<1> QED
  BY <1>1, SettingsInvariant, PTL

-------------------------------------------------------------------------------
(* The roster: the papers, and what a request has looked at.               *)

\* The least of a set of numbers is one of them.
LEMMA MinIsLeast ==
  ASSUME NEW T, T \subseteq Nat, T # {}
  PROVE  R!Min(T) \in T /\ \A y \in T : R!Min(T) <= y
<1>1. PICK x \in T : \A y \in T : ~ (y < x)
  BY Least
<1>2. x \in Nat /\ \A y \in T : y \in Nat
  OBVIOUS
<1>3. \A y \in T : x <= y
  BY <1>1, <1>2
<1> QED
  BY <1>3 DEF R!Min

\* Counting from another day shifts it.
LEMMA MinShifted ==
  ASSUME NEW T, T \subseteq Nat, T # {}, NEW today \in Nat
  PROVE  R!Min({x - today : x \in T}) = R!Min(T) - today
<1> DEFINE m == R!Min(T)
           S == {x - today : x \in T}
<1>1. m \in T /\ (\A y \in T : m <= y)
  BY MinIsLeast
<1> HIDE DEF m
<1>2. m - today \in S /\ \A z \in S : m - today <= z
  BY <1>1
<1>3. \A z \in S : (\A y \in S : z <= y) => z = m - today
  BY <1>1, <1>2
<1>4. R!Min(S) = m - today
  BY <1>2, <1>3 DEF R!Min
<1> QED
  BY <1>4 DEF m

\* The two counts, the first alert and the reason agree, for any dates and any day.
LEMMA PapersAgree ==
  ASSUME NEW until \in [Papers -> R!Date], NEW today \in R!Days
  PROVE  /\ R!CountedExpired(until, today) <=> R!FirstLevel(until, today) = "expired"
         /\ R!CountedExpiring(until, today) <=> R!FirstLevel(until, today) = "urgent"
         /\ R!CountedExpired(until, today) <=> R!Expired(until, today)
<1> DEFINE Dated == {q \in Papers : until[q] # 0}
           Ends == {until[q] : q \in Dated}
           Near == R!Alerted(until, today)
           Soonest == {until[q] : q \in Near}
           m == R!Min(Ends)
<1>1. /\ today \in Nat \ {0} /\ \A q \in Papers : until[q] \in Nat
      /\ UrgentDays \in Nat /\ SoonDays \in Nat /\ WindowDays \in Nat
      /\ UrgentDays <= SoonDays /\ SoonDays <= WindowDays
  BY OfficeAssumption DEF R!Date, R!Days
<1>2. /\ Near \subseteq Dated
      /\ \A q \in Dated : q \in Near <=> until[q] - today <= WindowDays
  BY DEF R!Alerted, R!DaysLeft
<1>3. /\ R!CountedExpired(until, today) <=> (Dated # {} /\ m < today)
      /\ R!CountedExpiring(until, today) <=> (Dated # {} /\ m \in today .. today + UrgentDays)
  BY DEF R!CountedExpired, R!CountedExpiring
<1>4. Ends \subseteq Nat /\ Soonest \subseteq Nat
  BY <1>1, <1>2
<1>5. Dated # {} => m \in Ends /\ \A y \in Ends : m <= y
  <2>1. Dated # {} => Ends # {}
    OBVIOUS
  <2> HIDE DEF Ends
  <2> QED
    BY <1>4, <2>1, MinIsLeast
<1>6. CASE Near = {}
  <2>1. R!FirstLevel(until, today) = "none" /\ ~ R!Expired(until, today)
    BY <1>6 DEF R!FirstLevel, R!Expired, R!Alerts
  <2>2. Dated # {} => m \in Nat /\ m - today > WindowDays
    BY <1>1, <1>2, <1>4, <1>5, <1>6
  <2>3. ~ R!CountedExpired(until, today) /\ ~ R!CountedExpiring(until, today)
    BY <1>1, <1>3, <2>2
  <2> QED
    BY <2>1, <2>3
<1>7. CASE Near # {}
  <2>1. m \in Nat /\ m \in Soonest /\ (\A y \in Soonest : m <= y) /\ Dated # {}
        /\ m - today <= WindowDays
    <3>1. Dated # {} /\ m \in Ends /\ m \in Nat /\ \A y \in Ends : m <= y
      BY <1>2, <1>4, <1>5, <1>7
    <3>2. PICK q \in Near : TRUE
      BY <1>7
    <3>3. PICK u \in Dated : until[u] = m
      BY <3>1
    <3> HIDE DEF m, Near
    <3>4. q \in Dated /\ until[q] - today <= WindowDays /\ until[q] \in Nat /\ m <= until[q]
      BY <1>1, <1>2, <3>1, <3>2
    <3>5. m - today <= WindowDays
      BY <1>1, <3>1, <3>4
    <3>6. u \in Near
      BY <1>2, <3>3, <3>5
    <3> QED
      BY <1>2, <3>1, <3>3, <3>5, <3>6
  <2>2. R!Min(Soonest) = m
    <3>1. R!Min(Soonest) \in Soonest /\ \A y \in Soonest : R!Min(Soonest) <= y
      BY <1>4, <2>1, MinIsLeast
    <3> QED
      BY <1>4, <2>1, <3>1
  <2>3. R!Min({x - today : x \in Soonest}) = m - today
    BY <1>1, <1>4, <2>1, <2>2, MinShifted
  <2>4. {R!DaysLeft(until, q, today) : q \in Near} = {x - today : x \in Soonest}
    BY DEF R!DaysLeft
  <2>5. R!FirstLevel(until, today) = R!AlertLevel(m - today)
    BY <1>7, <2>3, <2>4 DEF R!FirstLevel
  <2> HIDE DEF Near, Soonest, Ends, m, Dated
  <2>6. /\ R!AlertLevel(m - today) = "expired" <=> m - today < 0
        /\ R!AlertLevel(m - today) = "urgent" <=> (m - today >= 0 /\ m - today <= UrgentDays)
    BY <1>1, <2>1 DEF R!AlertLevel
  <2>7. R!Expired(until, today) <=> \E q \in Near : until[q] - today < 0
    <3>1. \A q \in Near : R!AlertLevel(until[q] - today) = "expired" <=> until[q] - today < 0
      BY <1>1, <1>2 DEF R!AlertLevel, Near, Dated
    <3>2. R!Expired(until, today) <=> \E q \in Near : R!AlertLevel(until[q] - today) = "expired"
      <4>1. \A q \in Near : [paper |-> q, level |-> R!AlertLevel(until[q] - today)].level
                                = R!AlertLevel(until[q] - today)
        OBVIOUS
      <4>2. R!Alerts(until, today) =
              {[paper |-> q, level |-> R!AlertLevel(until[q] - today)] : q \in Near}
        BY DEF R!Alerts, R!DaysLeft, Near
      <4> QED
        BY <4>1, <4>2 DEF R!Expired
    <3> QED
      BY <3>1, <3>2
  <2>8. (\E q \in Near : until[q] - today < 0) <=> m - today < 0
    <3>1. \A q \in Near : until[q] \in Nat /\ m <= until[q]
      BY <1>1, <1>2, <2>1 DEF Soonest, Dated
    <3>2. \E q \in Near : until[q] = m
      BY <2>1 DEF Soonest
    <3> QED
      BY <1>1, <2>1, <3>1, <3>2
  <2> QED
    BY <1>1, <1>3, <2>1, <2>5, <2>6, <2>7, <2>8
<1> QED
  BY <1>6, <1>7

\* A request that may change the status has looked at a profile that exists; as long
\* as the version is what it was, what it has seen is what is there.
RosterSound ==
  /\ R!RosterTypeOK
  /\ \A q \in Requests : work[q].step \notin {"new", "left"} => profile \in R!Profile
  /\ \A q \in Requests : work[q].step = "allowed" => work[q].version <= profile.version
  /\ \A q \in Requests :
       ( /\ work[q].step = "allowed" /\ work[q].job \in {"online", "reserve"}
         /\ work[q].version = profile.version )
       => profile.kyc = "APPROVED" /\ ~ R!Expired(profile.until, work[q].day)

\* An account that has no profile, or an approved driver.
LEMMA InitRoster == ASSUME R!RosterInit PROVE RosterSound
<1>1. profile \in R!Profile \cup {NoProfile}
  <2>1. [Papers -> {LastDay}] \subseteq [Papers -> R!Date] /\ 0 \in Nat
    BY OfficeAssumption DEF R!Date
  <2> QED
    BY <2>1 DEF R!RosterInit, R!Profile
<1>2. /\ day \in R!Days /\ owed \in BOOLEAN /\ session \in BOOLEAN
      /\ work \in [Requests -> R!WorkState]
  <2>1. day \in R!Days
    BY OfficeAssumption DEF R!RosterInit, R!Days
  <2>2. [step |-> "new"] \in R!WorkState
    BY DEF R!WorkState
  <2> QED
    BY <2>1, <2>2 DEF R!RosterInit
<1>3. \A q \in Requests : work[q].step = "new"
  BY DEF R!RosterInit
<1> QED
  BY <1>1, <1>2, <1>3 DEF RosterSound, R!RosterTypeOK

\* What another request does either leaves the row, or moves its version, or leaves
\* review and dates.
LEMMA RosterKeeps ==
  ASSUME RosterSound, R!RosterTypeOK',
         \/ UNCHANGED profile
         \/ /\ profile \in R!Profile /\ profile' \in R!Profile
            /\ profile.version <= profile'.version
            /\ profile'.version = profile.version =>
                 profile'.kyc = profile.kyc /\ profile'.until = profile.until,
         \A q \in Requests :
           \/ UNCHANGED work[q]
           \/ work'[q].step \in {"new", "left"}
           \/ /\ profile \in R!Profile
              /\ work'[q].step = "allowed" =>
                   /\ UNCHANGED profile /\ work'[q].version = profile.version
                   /\ work'[q].job \in {"online", "reserve"} =>
                        profile.kyc = "APPROVED" /\ ~ R!Expired(profile.until, work'[q].day)
  PROVE  RosterSound'
<1>0. \A q \in Requests : work[q] \in R!WorkState
  BY DEF RosterSound, R!RosterTypeOK
<1>1. (\A q \in Requests : work[q].step \notin {"new", "left"} => profile \in R!Profile)'
  BY DEF RosterSound
<1>2. ASSUME NEW q \in Requests, work'[q].step = "allowed"
      PROVE  /\ work'[q].version <= profile'.version
             /\ ( /\ work'[q].job \in {"online", "reserve"}
                  /\ work'[q].version = profile'.version )
                => profile'.kyc = "APPROVED" /\ ~ R!Expired(profile'.until, work'[q].day)
  <2>1. CASE UNCHANGED work[q]
    <3>1. work'[q] = work[q] /\ work[q].step = "allowed"
      BY <1>2, <2>1
    <3>2. /\ work[q].version <= profile.version
          /\ ( /\ work[q].job \in {"online", "reserve"}
               /\ work[q].version = profile.version )
             => profile.kyc = "APPROVED" /\ ~ R!Expired(profile.until, work[q].day)
      BY <3>1 DEF RosterSound
    <3>3. CASE UNCHANGED profile
      BY <3>1, <3>2, <3>3
    <3>4. CASE ~ UNCHANGED profile
      <4>1. work[q].version \in Nat /\ profile.version \in Nat /\ profile'.version \in Nat
        BY <1>0, <3>1, <3>4 DEF R!WorkState, R!Profile
      <4> QED
        BY <3>1, <3>2, <3>4, <4>1
    <3> QED
      BY <3>3, <3>4
  <2>2. CASE ~ UNCHANGED work[q]
    <3>1. /\ profile \in R!Profile /\ UNCHANGED profile /\ work'[q].version = profile.version
          /\ work'[q].job \in {"online", "reserve"} =>
               profile.kyc = "APPROVED" /\ ~ R!Expired(profile.until, work'[q].day)
      BY <1>2, <2>2
    <3>2. profile.version \in Nat
      BY <3>1 DEF R!Profile
    <3> QED
      BY <3>1, <3>2
  <2> QED
    BY <2>1, <2>2
<1>3. \A q \in Requests : (R!Expired(profile.until, work[q].day))' <=> R!Expired(profile'.until, work'[q].day)
  BY DEF R!Expired, R!Alerts, R!Alerted, R!DaysLeft, R!AlertLevel
<1> QED
  BY <1>1, <1>2, <1>3 DEF RosterSound

\* The request looks at the row as it is now.
LEMMA BeginStep ==
  ASSUME RosterSound, NEW q \in Requests, R!Registered,
         NEW job \in {"approve", "reject", "renew", "online", "offline", "reserve"},
         R!Begin(q, job)
  PROVE  RosterSound'
<1>0. /\ R!RosterTypeOK /\ profile \in R!Profile
      /\ profile.kyc \in {"PENDING", "APPROVED", "REJECTED"} /\ profile.until \in [Papers -> R!Date]
      /\ profile.debt \in BOOLEAN /\ profile.status \in {"OFFLINE", "IDLE", "ASSIGNED"}
      /\ profile.version \in Nat /\ day \in R!Days
  BY DEF RosterSound, R!RosterTypeOK, R!Registered, R!Profile
<1>1. PICK w : work' = [work EXCEPT ![q] = w] /\
         w = CASE job \in {"approve", "reject", "renew"} ->
                    [step |-> "read", job |-> job, kyc |-> profile.kyc,
                     until |-> profile.until, debt |-> profile.debt]
               [] \/ job = "online" /\ R!MayGoOnline(profile)
                  \/ job = "offline" /\ profile.status = "IDLE"
                  \/ job = "reserve" /\ R!Blocked(profile, owed, day) = "nothing" ->
                    [step |-> "allowed", job |-> job, status |-> profile.status,
                     version |-> profile.version, day |-> day]
               [] OTHER -> [step |-> "left"]
  BY DEF R!Begin
<1>2. /\ w \in R!WorkState
      /\ w.step = "allowed" =>
           /\ w.version = profile.version
           /\ w.job \in {"online", "reserve"} =>
                profile.kyc = "APPROVED" /\ ~ R!Expired(profile.until, w.day)
  <2>1. CASE job \in {"approve", "reject", "renew"}
    <3>1. w = [step |-> "read", job |-> job, kyc |-> profile.kyc,
               until |-> profile.until, debt |-> profile.debt]
      BY <1>1, <2>1
    <3> QED
      BY <1>0, <2>1, <3>1 DEF R!WorkState
  <2>2. CASE \/ job = "online" /\ R!MayGoOnline(profile)
             \/ job = "offline" /\ profile.status = "IDLE"
             \/ job = "reserve" /\ R!Blocked(profile, owed, day) = "nothing"
    <3>1. w = [step |-> "allowed", job |-> job, status |-> profile.status,
               version |-> profile.version, day |-> day]
      BY <1>1, <2>2
    <3>2. R!Blocked(profile, owed, day) = "nothing" =>
            /\ profile.kyc = "APPROVED" /\ ~ R!Expired(profile.until, day)
            /\ profile.status \notin {"OFFLINE", "ASSIGNED"}
      BY DEF R!Blocked
    <3>3. R!MayGoOnline(profile) =>
            /\ profile.kyc = "APPROVED" /\ ~ R!Expired(profile.until, day)
            /\ profile.status = "OFFLINE"
      BY DEF R!MayGoOnline
    <3>4. profile.status \in {"OFFLINE", "IDLE"} /\ job \in {"online", "offline", "reserve"}
      BY <1>0, <2>2, <3>2, <3>3
    <3>5. w \in R!WorkState
      BY <1>0, <3>1, <3>4 DEF R!WorkState
    <3>6. w.version = profile.version /\ w.job = job /\ w.day = day
      BY <3>1
    <3> QED
      BY <2>2, <3>2, <3>3, <3>5, <3>6
  <2>3. CASE /\ job \notin {"approve", "reject", "renew"}
             /\ ~ \/ job = "online" /\ R!MayGoOnline(profile)
                  \/ job = "offline" /\ profile.status = "IDLE"
                  \/ job = "reserve" /\ R!Blocked(profile, owed, day) = "nothing"
    <3>1. w = [step |-> "left"]
      BY <1>1, <2>3
    <3> QED
      BY <3>1 DEF R!WorkState
  <2> QED
    BY <2>1, <2>2, <2>3
<1>3. R!RosterTypeOK'
  BY <1>0, <1>1, <1>2 DEF R!Begin, R!RosterTypeOK
<1>4. \A p \in Requests : work'[p] = IF p = q THEN w ELSE work[p]
  BY <1>0, <1>1 DEF R!RosterTypeOK
<1>5. UNCHANGED profile
  BY DEF R!Begin
<1> QED
  BY <1>0, <1>2, <1>3, <1>4, <1>5, RosterKeeps

\* Before there was a profile nobody can have looked at it.
LEMMA OnboardStep ==
  ASSUME RosterSound, NEW q \in Requests, NEW until \in [Papers -> R!Date], R!Onboard(q, until)
  PROVE  RosterSound'
<1>0. R!RosterTypeOK /\ profile \notin R!Profile
  BY ProfileAssumption DEF RosterSound, R!Onboard, R!Registered
<1>1. [step |-> "left"] \in R!WorkState
  BY DEF R!WorkState
<1>2. PICK new \in R!Profile : profile' = new
  BY DEF R!Onboard, R!Profile
<1>3. R!RosterTypeOK'
  BY <1>0, <1>1, <1>2 DEF R!Onboard, R!Leave, R!RosterTypeOK
<1>4. \A p \in Requests : work[p].step \in {"new", "left"}
  BY <1>0 DEF RosterSound
<1>5. \A p \in Requests : work'[p].step \in {"new", "left"}
  BY <1>0, <1>4 DEF R!Onboard, R!Leave, R!RosterTypeOK
<1> QED
  BY <1>3, <1>5 DEF RosterSound

\* An operator writes review and dates under a new version.
LEMMA UpdateStep ==
  ASSUME RosterSound, NEW q \in Requests,
         \/ R!ReviewKYC(q)
         \/ \E p \in Papers, until \in R!Date : R!UpdateDocumentDates(q, p, until)
  PROVE  RosterSound'
<1>0. /\ R!RosterTypeOK /\ work[q] \in R!WorkState /\ work[q].step = "read"
      /\ profile \in R!Profile /\ profile.version \in Nat
      /\ profile.status \in {"OFFLINE", "IDLE", "ASSIGNED"}
  BY DEF RosterSound, R!RosterTypeOK, R!ReviewKYC, R!UpdateDocumentDates, R!Reading, R!Profile
<1>1. /\ work[q].job \in {"approve", "reject", "renew"} /\ work[q].debt \in BOOLEAN
      /\ work[q].kyc \in {"PENDING", "APPROVED", "REJECTED"}
      /\ work[q].until \in [Papers -> R!Date]
  BY <1>0 DEF R!WorkState
<1>2. PICK kyc \in {"PENDING", "APPROVED", "REJECTED"}, until \in [Papers -> R!Date] :
         profile' = [profile EXCEPT !.kyc = kyc, !.until = until, !.debt = work[q].debt,
                                    !.version = @ + 1]
  BY <1>1 DEF R!ReviewKYC, R!UpdateDocumentDates, R!Update
<1>3. profile' \in R!Profile /\ profile'.version = profile.version + 1
  <2>1. profile' = [kyc |-> kyc, until |-> until, debt |-> work[q].debt,
                    status |-> profile.status, version |-> profile.version + 1]
    BY <1>0, <1>2 DEF R!Profile
  <2>2. profile.version + 1 \in Nat
    BY <1>0
  <2> QED
    BY <1>0, <1>1, <2>1, <2>2 DEF R!Profile
<1>4. PICK w \in R!WorkState : w.step # "allowed" /\ work' = [work EXCEPT ![q] = w]
  <2>1. [step |-> "saved", job |-> work[q].job] \in R!WorkState
    BY <1>1 DEF R!WorkState
  <2> QED
    BY <2>1 DEF R!ReviewKYC, R!UpdateDocumentDates
<1>5. R!RosterTypeOK'
  BY <1>0, <1>3, <1>4 DEF R!ReviewKYC, R!UpdateDocumentDates, R!RosterTypeOK
<1>6. \A p \in Requests : work'[p] = IF p = q THEN w ELSE work[p]
  BY <1>0, <1>4 DEF R!RosterTypeOK
<1> QED
  BY <1>0, <1>3, <1>4, <1>5, <1>6, RosterKeeps

\* What follows the write does not touch the row.
LEMMA AfterSaveStep ==
  ASSUME RosterSound, NEW q \in Requests,
         R!RevokeAccount(q) \/ R!Record(q) \/ R!FailAfterSave(q)
  PROVE  RosterSound'
<1>0. /\ R!RosterTypeOK /\ work[q] \in R!WorkState /\ profile \in R!Profile
      /\ work[q].step \in {"saved", "revoked"}
  BY DEF RosterSound, R!RosterTypeOK, R!RevokeAccount, R!Record, R!FailAfterSave
<1>1. work[q].job \in {"approve", "reject", "renew"}
  BY <1>0 DEF R!WorkState
<1>2. PICK w \in R!WorkState : w.step # "allowed" /\ work' = [work EXCEPT ![q] = w]
  <2>1. \A step \in {"saved", "revoked", "recorded"}, job \in {"approve", "reject", "renew"} :
          [step |-> step, job |-> job] \in R!WorkState
    BY DEF R!WorkState
  <2>2. [step |-> "left"] \in R!WorkState
    BY DEF R!WorkState
  <2> QED
    BY <1>1, <2>1, <2>2 DEF R!RevokeAccount, R!Record, R!FailAfterSave, R!Leave
<1>3. R!RosterTypeOK' /\ UNCHANGED profile
  BY <1>0, <1>2 DEF R!RevokeAccount, R!Record, R!FailAfterSave, R!RosterTypeOK
<1>4. \A p \in Requests : work'[p] = IF p = q THEN w ELSE work[p]
  BY <1>0, <1>2 DEF R!RosterTypeOK
<1> QED
  BY <1>0, <1>2, <1>3, <1>4, RosterKeeps

\* The compare-and-swap moves the status and the version, or nothing.
LEMMA StatusStep ==
  ASSUME RosterSound, NEW q \in Requests, R!GoOnline(q) \/ R!GoOffline(q) \/ R!Reserve(q)
  PROVE  RosterSound'
<1>0. /\ R!RosterTypeOK /\ profile \in R!Profile /\ profile.version \in Nat
      /\ work[q].step = "allowed"
  BY DEF RosterSound, R!RosterTypeOK, R!GoOnline, R!GoOffline, R!Reserve, R!Allowed, R!Profile
<1>1. PICK from \in {"OFFLINE", "IDLE"}, to \in {"OFFLINE", "IDLE", "ASSIGNED"} :
         R!UpdateStatus(q, from, to)
  BY DEF R!GoOnline, R!GoOffline, R!Reserve
<1>2. [step |-> "left"] \in R!WorkState
  BY DEF R!WorkState
<1>3. \/ UNCHANGED profile
      \/ /\ profile' \in R!Profile /\ profile'.version = profile.version + 1
         /\ profile'.kyc = profile.kyc /\ profile'.until = profile.until
  <2>1. CASE UNCHANGED profile
    BY <2>1
  <2>2. CASE ~ UNCHANGED profile
    <3> PICK v \in Nat : v = profile.version + 1
      BY <1>0
    <3>1. profile' = [kyc |-> profile.kyc, until |-> profile.until, debt |-> profile.debt,
                      status |-> to, version |-> v]
      BY <1>0, <1>1, <2>2 DEF R!UpdateStatus, R!Profile
    <3> QED
      BY <1>0, <3>1 DEF R!Profile
  <2> QED
    BY <2>1, <2>2
<1>4. R!RosterTypeOK'
  BY <1>0, <1>1, <1>2, <1>3 DEF R!UpdateStatus, R!Leave, R!RosterTypeOK
<1>5. \A p \in Requests : work'[p] = IF p = q THEN [step |-> "left"] ELSE work[p]
  BY <1>0, <1>1 DEF R!UpdateStatus, R!Leave, R!RosterTypeOK
<1> QED
  BY <1>0, <1>3, <1>4, <1>5, RosterKeeps

\* What happens around the requests.
LEMMA AroundStep ==
  ASSUME RosterSound,
         R!SignIn \/ R!Free \/ R!PostEntry \/ R!SyncWalletBalance \/ R!NextDay \/ UNCHANGED R!rosterVars
  PROVE  RosterSound'
<1>0. R!RosterTypeOK
  BY DEF RosterSound
<1>1. UNCHANGED work
  BY DEF R!SignIn, R!Free, R!PostEntry, R!SyncWalletBalance, R!NextDay, R!rosterVars
<1>2. CASE R!Free \/ R!SyncWalletBalance
  <2>1. profile \in R!Profile /\ profile.version \in Nat
    BY <1>0, <1>2 DEF R!RosterTypeOK, R!Free, R!SyncWalletBalance, R!Registered, R!Profile
  <2>2. /\ profile' \in R!Profile /\ profile'.version \in {profile.version, profile.version + 1}
        /\ profile'.kyc = profile.kyc /\ profile'.until = profile.until
    <3>1. CASE R!Free
      <4> PICK v \in Nat : v = profile.version + 1
        BY <2>1
      <4>1. profile' = [kyc |-> profile.kyc, until |-> profile.until, debt |-> profile.debt,
                        status |-> "IDLE", version |-> v]
        BY <2>1, <3>1 DEF R!Free, R!Profile
      <4> QED
        BY <2>1, <4>1 DEF R!Profile
    <3>2. CASE R!SyncWalletBalance
      <4>1. owed \in BOOLEAN
        BY <1>0 DEF R!RosterTypeOK
      <4>2. profile' = [kyc |-> profile.kyc, until |-> profile.until, debt |-> owed,
                        status |-> profile.status, version |-> profile.version]
        BY <2>1, <3>2 DEF R!SyncWalletBalance, R!Profile
      <4> QED
        BY <2>1, <4>1, <4>2 DEF R!Profile
    <3> QED
      BY <1>2, <3>1, <3>2
  <2>3. R!RosterTypeOK'
    BY <1>0, <1>2, <2>2 DEF R!Free, R!SyncWalletBalance, R!RosterTypeOK
  <2> QED
    BY <1>1, <2>1, <2>2, <2>3, RosterKeeps
<1>3. CASE R!SignIn \/ R!PostEntry \/ R!NextDay \/ UNCHANGED R!rosterVars
  <2>1. UNCHANGED profile
    BY <1>3 DEF R!SignIn, R!PostEntry, R!NextDay, R!rosterVars
  <2>2. R!RosterTypeOK'
    <3>1. day' \in R!Days
      BY <1>0, <1>3, OfficeAssumption
         DEF R!SignIn, R!PostEntry, R!NextDay, R!rosterVars, R!RosterTypeOK, R!Days
    <3>2. owed' \in BOOLEAN /\ session' \in BOOLEAN
      BY <1>0, <1>3 DEF R!SignIn, R!PostEntry, R!NextDay, R!rosterVars, R!RosterTypeOK
    <3> QED
      BY <1>0, <1>1, <2>1, <3>1, <3>2 DEF R!RosterTypeOK
  <2> QED
    BY <1>1, <2>1, <2>2, RosterKeeps
<1> QED
  BY <1>2, <1>3

\* Every step of the roster keeps what the requests have seen.
LEMMA RosterStep ==
  ASSUME RosterSound, [R!RosterNext]_(R!rosterVars)
  PROVE  RosterSound'
<1>1. ASSUME NEW q \in Requests, R!OperatorBegins(q) \/ R!DriverBegins(q) PROVE RosterSound'
  BY <1>1, BeginStep DEF R!OperatorBegins, R!DriverBegins
<1>2. ASSUME NEW q \in Requests, NEW until \in [Papers -> R!Date], R!Onboard(q, until)
      PROVE  RosterSound'
  BY <1>2, OnboardStep
<1> QED
  BY <1>1, <1>2, UpdateStep, AfterSaveStep, StatusStep, AroundStep DEF R!RosterNext

\* So it always holds.
LEMMA RosterInvariant == OfficeSpec => []RosterSound
<1>1. OfficeInit => RosterSound
  BY InitRoster DEF OfficeInit
<1>2. RosterSound /\ [OfficeNext]_officeVars => RosterSound'
  <2>1. RosterSound /\ [OfficeNext]_officeVars => [R!RosterNext]_(R!rosterVars)
    BY DEF OfficeNext, officeVars, R!rosterVars
  <2> QED
    BY <2>1, RosterStep
<1> QED
  BY <1>1, <1>2, PTL DEF OfficeSpec

\* Whatever is due on the overview is what the driver is stopped for, on any day and
\* with any dates.
THEOREM CountsAgree == OfficeSpec => []CountsMatchGate
<1>1. RosterSound => CountsMatchGate
  <2> SUFFICES ASSUME RosterSound, R!Registered, profile.kyc = "APPROVED"
               PROVE  /\ R!CountedExpired(profile.until, day) <=> R!FirstLevel(profile.until, day) = "expired"
                      /\ R!CountedExpiring(profile.until, day) <=> R!FirstLevel(profile.until, day) = "urgent"
                      /\ R!CountedExpired(profile.until, day) <=>
                           R!Blocked(profile, owed, day) = "documents_expired"
    BY DEF CountsMatchGate, R!CountsMatchGate
  <2>1. profile.until \in [Papers -> R!Date] /\ day \in R!Days
    BY DEF RosterSound, R!RosterTypeOK, R!Registered, R!Profile
  <2>2. R!Expired(profile.until, day) <=> R!Blocked(profile, owed, day) = "documents_expired"
    BY DEF R!Blocked
  <2> QED
    BY <2>1, <2>2, PapersAgree
<1> QED
  BY <1>1, RosterInvariant, PTL

\* Between the look and the compare-and-swap anything may be written: the swap only
\* succeeds on the version the request has looked at.
THEOREM SwapStandsOnLook == OfficeSpec => StandsOnCurrentProfile
<1>1. ASSUME RosterSound, [OfficeNext]_officeVars
      PROVE  [\A r \in Requests :
                ( /\ work[r].step = "allowed" /\ work'[r].step = "left"
                  /\ work[r].job \in {"online", "reserve"} /\ profile' # profile )
                => profile.kyc = "APPROVED" /\ ~ R!Expired(profile.until, work[r].day)]_(R!rosterVars)
  <2> SUFFICES ASSUME NEW q \in Requests,
                      work[q].step = "allowed", work'[q].step = "left",
                      work[q].job \in {"online", "reserve"}, profile' # profile
               PROVE  profile.kyc = "APPROVED" /\ ~ R!Expired(profile.until, work[q].day)
    OBVIOUS
  <2>1. R!RosterTypeOK
    BY <1>1 DEF RosterSound
  <2>2. R!RosterNext
    BY <1>1 DEF OfficeNext, officeVars
  <2>3. ASSUME NEW p \in Requests, NEW w, work' = [work EXCEPT ![p] = w], p # q
        PROVE  work'[q] = work[q]
    BY <2>1, <2>3 DEF R!RosterTypeOK
  <2>4. \E from, to : R!UpdateStatus(q, from, to)
    <3> USE DEF R!RosterTypeOK
    <3>1. CASE \E p \in Requests : R!OperatorBegins(p) \/ R!DriverBegins(p)
      BY <2>1, <3>1 DEF R!OperatorBegins, R!DriverBegins, R!Begin
    <3>2. CASE \E p \in Requests, until \in [Papers -> R!Date] : R!Onboard(p, until)
      BY <2>1, <3>2 DEF R!Onboard, R!Leave
    <3>3. CASE \E p \in Requests : R!ReviewKYC(p)
      BY <2>1, <3>3 DEF R!ReviewKYC, R!Reading
    <3>4. CASE \E p \in Requests, pp \in Papers, until \in R!Date :
                 R!UpdateDocumentDates(p, pp, until)
      BY <2>1, <3>4 DEF R!UpdateDocumentDates, R!Reading
    <3>5. CASE \E p \in Requests : R!RevokeAccount(p) \/ R!Record(p) \/ R!FailAfterSave(p)
      BY <3>5 DEF R!RevokeAccount, R!Record, R!FailAfterSave
    <3>6. CASE \E p \in Requests : R!GoOnline(p) \/ R!GoOffline(p) \/ R!Reserve(p)
      <4> PICK p \in Requests, from \in {"OFFLINE", "IDLE"}, to \in {"OFFLINE", "IDLE", "ASSIGNED"} :
             R!UpdateStatus(p, from, to)
        BY <3>6 DEF R!GoOnline, R!GoOffline, R!Reserve
      <4>1. work' = [work EXCEPT ![p] = [step |-> "left"]]
        BY DEF R!UpdateStatus, R!Leave
      <4>2. p = q
        BY <2>3, <4>1
      <4> QED
        BY <4>2
    <3>7. CASE R!SignIn \/ R!Free \/ R!PostEntry \/ R!SyncWalletBalance \/ R!NextDay
      BY <3>7 DEF R!SignIn, R!Free, R!PostEntry, R!SyncWalletBalance, R!NextDay
    <3> QED
      BY <2>2, <3>1, <3>2, <3>3, <3>4, <3>5, <3>6, <3>7 DEF R!RosterNext
  <2>5. work[q].version = profile.version
    BY <2>4 DEF R!UpdateStatus
  <2> QED
    BY <1>1, <2>5 DEF RosterSound
<1> QED
  <2>1. RosterSound /\ [OfficeNext]_officeVars =>
          [\A r \in Requests :
             ( /\ work[r].step = "allowed" /\ work'[r].step = "left"
               /\ work[r].job \in {"online", "reserve"} /\ profile' # profile )
             => profile.kyc = "APPROVED" /\ ~ R!Expired(profile.until, work[r].day)]_(R!rosterVars)
    BY <1>1
  <2> QED
    BY <2>1, RosterInvariant, PTL DEF OfficeSpec, StandsOnCurrentProfile, R!StandsOnCurrentProfile

-------------------------------------------------------------------------------
(* Lists: sorting, and the pages of a list that changes meanwhile.         *)

\* Sorting keeps every element once and puts what comes first first.
LEMMA ArrangedSorts ==
  ASSUME NEW S, IsFiniteSet(S), NEW order,
         \A x \in S : <<x, x>> \notin order,
         \A x, y \in S : x # y => <<x, y>> \in order \/ <<y, x>> \in order,
         \A x, y, z \in S : <<x, y>> \in order /\ <<y, z>> \in order => <<x, z>> \in order
  PROVE  /\ Cardinality(S) \in Nat
         /\ Pg!Arranged(S, order) \in [1 .. Cardinality(S) -> S]
         /\ \A i, j \in 1 .. Cardinality(S) :
              i < j => <<Pg!Arranged(S, order)[i], Pg!Arranged(S, order)[j]>> \in order
         /\ \A x \in S : \E i \in 1 .. Cardinality(S) : Pg!Arranged(S, order)[i] = x
<1> DEFINE n == Cardinality(S)
           Below(x) == {y \in S : <<y, x>> \in order}
           place == [x \in S |-> Cardinality(Below(x))]
           arr == [k \in 1 .. n |-> CHOOSE x \in S : Cardinality(Below(x)) = k - 1]
<1>1. n \in Nat
  BY FS_CardinalityType
<1>2. ASSUME NEW x \in S
      PROVE  place[x] \in 0 .. n - 1 /\ IsFiniteSet(Below(x)) /\ place[x] = Cardinality(Below(x))
  <2>1. Below(x) \in SUBSET (S \ {x})
    OBVIOUS
  <2>2. IsFiniteSet(S \ {x}) /\ Cardinality(S \ {x}) = n - 1
    BY FS_RemoveElement
  <2>3. IsFiniteSet(Below(x)) /\ Cardinality(Below(x)) <= n - 1
    <3> HIDE DEF Below, n
    <3> QED
      BY <2>1, <2>2, FS_Subset
  <2>4. Cardinality(Below(x)) \in Nat
    BY <2>3, FS_CardinalityType
  <2> QED
    BY <1>1, <2>3, <2>4
<1>3. ASSUME NEW x \in S, NEW y \in S, <<x, y>> \in order
      PROVE  place[x] < place[y]
  <2>1. Below(x) \in SUBSET Below(y) /\ x \in Below(y) /\ x \notin Below(x)
    BY <1>3
  <2>2. Cardinality(Below(x)) <= Cardinality(Below(y))
        /\ (Cardinality(Below(y)) = Cardinality(Below(x)) => Below(y) = Below(x))
    BY <1>2, <2>1, FS_Subset
  <2>3. Cardinality(Below(x)) # Cardinality(Below(y))
    BY <2>1, <2>2
  <2>4. /\ place[x] \in Int /\ place[y] \in Int
        /\ place[x] = Cardinality(Below(x)) /\ place[y] = Cardinality(Below(y))
    BY <1>1, <1>2
  <2> HIDE DEF Below, place
  <2> QED
    BY <2>2, <2>3, <2>4
<1>4. \A x, y \in S : place[x] = place[y] => x = y
  <2> SUFFICES ASSUME NEW x \in S, NEW y \in S, place[x] = place[y], x # y PROVE FALSE
    OBVIOUS
  <2>1. place[x] < place[y] \/ place[y] < place[x]
    BY <1>3
  <2>2. place[x] \in Int /\ place[y] \in Int
    BY <1>1, <1>2
  <2> HIDE DEF place
  <2> QED
    BY <2>1, <2>2
<1>5. place \in Injection(S, 0 .. n - 1)
  <2>1. place \in [S -> 0 .. n - 1]
    BY <1>2
  <2> QED
    BY <1>4, <2>1 DEF Injection, IsInjective
<1> HIDE DEF place
<1>6. place \in Surjection(S, 0 .. n - 1)
  <2>1. IsFiniteSet(0 .. n - 1) /\ Cardinality(0 .. n - 1) = n
    <3>1. n - 1 \in Int /\ 0 \in Int
      BY <1>1
    <3>2. IsFiniteSet(0 .. n - 1) /\ Cardinality(0 .. n - 1) = IF 0 > n - 1 THEN 0 ELSE n - 1 - 0 + 1
      BY <3>1, FS_Interval
    <3> HIDE DEF n
    <3> QED
      BY <1>1, <3>2
  <2> QED
    BY <1>5, <2>1, FS_Injection
<1>7. \A k \in 1 .. n : \E x \in S : place[x] = k - 1
  BY <1>1, <1>6 DEF Surjection
<1>8. \A k \in 1 .. n : arr[k] \in S /\ place[arr[k]] = k - 1
  <2> SUFFICES ASSUME NEW k \in 1 .. n PROVE arr[k] \in S /\ place[arr[k]] = k - 1
    OBVIOUS
  <2>1. \E x \in S : Cardinality(Below(x)) = k - 1
    BY <1>2, <1>7
  <2>2. arr[k] \in S /\ Cardinality(Below(arr[k])) = k - 1
    BY <2>1
  <2> QED
    BY <1>2, <2>2
<1>9. arr = Pg!Arranged(S, order)
  BY DEF Pg!Arranged, Pg!Preceding, Pg!Cardinality, Cardinality
<1>10. arr \in [1 .. n -> S]
  BY <1>8
<1> HIDE DEF arr, n
<1>11. \A i, j \in 1 .. n : i < j => <<arr[i], arr[j]>> \in order
  <2> SUFFICES ASSUME NEW i \in 1 .. n, NEW j \in 1 .. n, i < j
               PROVE  <<arr[i], arr[j]>> \in order
    OBVIOUS
  <2>1. arr[i] \in S /\ arr[j] \in S /\ place[arr[i]] = i - 1 /\ place[arr[j]] = j - 1
    BY <1>8
  <2>2. arr[i] # arr[j]
    BY <1>1, <2>1
  <2>3. ~ (<<arr[j], arr[i]>> \in order)
    BY <1>1, <1>3, <2>1
  <2> QED
    BY <2>1, <2>2, <2>3
<1>12. \A x \in S : \E i \in 1 .. n : arr[i] = x
  <2> SUFFICES ASSUME NEW x \in S PROVE \E i \in 1 .. n : arr[i] = x
    OBVIOUS
  <2> PICK k \in 0 .. n - 1 : place[x] = k
    BY <1>2
  <2>1. k \in Nat /\ k + 1 \in 1 .. n /\ k + 1 - 1 = k
    BY <1>1
  <2>2. arr[k + 1] \in S /\ place[arr[k + 1]] = k
    BY <1>8, <2>1
  <2> QED
    BY <1>4, <2>1, <2>2
<1> QED
  BY <1>1, <1>9, <1>10, <1>11, <1>12 DEF n

\* Of two rows one is the later.
LEMMA LaterOrders ==
  /\ IsFiniteSet(Pg!Rows)
  /\ \A x, y \in Pg!Rows : <<x, y>> \in Pg!Newest <=> Pg!Later(x, y)
  /\ \A x \in Pg!Rows : ~ Pg!Later(x, x) /\ x # Pg!End /\ x # <<>>
  /\ \A x, y \in Pg!Rows : x # y => Pg!Later(x, y) \/ Pg!Later(y, x)
  /\ \A x, y, z \in Pg!Rows : Pg!Later(x, y) /\ Pg!Later(y, z) => Pg!Later(x, z)
<1>1. IsFiniteSet(Pg!Rows)
  BY OfficeAssumption, FS_Product DEF Pg!Rows
<1>2. \A x \in Pg!Rows : /\ x = <<x[1], x[2]>> /\ x[1] \in Nat \ {0} /\ x[2] \in Nat \ {0}
  <2> SUFFICES ASSUME NEW x \in Times \X Ids
               PROVE  /\ x = <<x[1], x[2]>> /\ x[1] \in Nat \ {0} /\ x[2] \in Nat \ {0}
    BY DEF Pg!Rows
  <2> PICK t \in Times, i \in Ids : x = <<t, i>>
    OBVIOUS
  <2> QED
    BY OfficeAssumption
<1>3. \A x, y \in Pg!Rows : <<x, y>> \in Pg!Newest <=> Pg!Later(x, y)
  BY DEF Pg!Newest
<1>4. \A x \in Pg!Rows : ~ Pg!Later(x, x) /\ x # Pg!End /\ x # <<>>
  BY <1>2 DEF Pg!Later, Pg!End
<1>5. \A x, y \in Pg!Rows : x # y => Pg!Later(x, y) \/ Pg!Later(y, x)
  BY <1>2 DEF Pg!Later
<1>6. \A x, y, z \in Pg!Rows : Pg!Later(x, y) /\ Pg!Later(y, z) => Pg!Later(x, z)
  BY <1>2 DEF Pg!Later
<1> QED
  BY <1>1, <1>3, <1>4, <1>5, <1>6

\* The rows that are left when the cursor stands there.
Behind(c) == {x \in Pg!Rows : Pg!Matches(x) /\ Pg!Before(c, x)}

\* A page is the newest of what is behind the cursor; either it is all of it, or the
\* page is full and the next one starts at its last row.
LEMMA PageShown ==
  ASSUME Pg!ShowPage
  PROVE  \E page \in Seq(Pg!Rows) :
           /\ shown' = shown \o page
           /\ \A i \in 1 .. Len(page) : page[i] \in Behind(cursor)
           /\ \A i, j \in 1 .. Len(page) : i < j => Pg!Later(page[i], page[j])
           /\ \/ /\ cursor' = Pg!End
                 /\ \A x \in Behind(cursor) : \E i \in 1 .. Len(page) : page[i] = x
              \/ /\ Len(page) > 0 /\ cursor' = page[Len(page)]
                 /\ \A x \in Behind(cursor) :
                      x = cursor' \/ Pg!Later(x, cursor') => \E i \in 1 .. Len(page) : page[i] = x
<1> DEFINE S == Behind(cursor)
           n == Cardinality(S)
           arr == Pg!Arranged(S, Pg!Newest)
           found == Pg!List(cursor, PageSize + 1)
           page == Pg!Cut(found, PageSize)
<1>1. S \in SUBSET Pg!Rows /\ IsFiniteSet(S)
  BY LaterOrders, FS_Subset DEF Behind
<1>2. /\ n \in Nat /\ arr \in [1 .. n -> S]
      /\ \A i, j \in 1 .. n : i < j => <<arr[i], arr[j]>> \in Pg!Newest
      /\ \A x \in S : \E i \in 1 .. n : arr[i] = x
  <2>1. /\ \A x \in S : <<x, x>> \notin Pg!Newest
        /\ \A x, y \in S : x # y => <<x, y>> \in Pg!Newest \/ <<y, x>> \in Pg!Newest
        /\ \A x, y, z \in S : <<x, y>> \in Pg!Newest /\ <<y, z>> \in Pg!Newest
                                 => <<x, z>> \in Pg!Newest
    BY <1>1, LaterOrders
  <2> HIDE DEF S
  <2> QED
    BY <1>1, <2>1, ArrangedSorts
<1>3. PageSize \in Nat \ {0}
  BY OfficeAssumption
<1>4. /\ shown' = shown \o page
      /\ cursor' = IF Len(found) > PageSize THEN found[PageSize] ELSE Pg!End
  BY DEF Pg!ShowPage, Pg!NextCursor
<1>5. found = SubSeq(arr, 1, IF Len(arr) < PageSize + 1 THEN Len(arr) ELSE PageSize + 1)
  BY DEF Pg!List, Pg!Cut, Behind
<1> HIDE DEF S, n, arr
<1>6. arr \in Seq(S) /\ Len(arr) = n
  BY <1>2
<1>7. PICK m \in Nat : m = IF n < PageSize + 1 THEN n ELSE PageSize + 1
  BY <1>2, <1>3
<1>8. found \in Seq(S) /\ Len(found) = m /\ \A i \in 1 .. m : found[i] = arr[i]
  BY <1>2, <1>3, <1>5, <1>6, <1>7
<1> HIDE DEF found
<1>9. PICK q \in Nat : q = IF m < PageSize THEN m ELSE PageSize
  BY <1>3
<1>10. page \in Seq(S) /\ Len(page) = q /\ \A i \in 1 .. q : page[i] = arr[i]
  <2>1. page = SubSeq(found, 1, q)
    BY <1>8, <1>9 DEF Pg!Cut
  <2> QED
    BY <1>3, <1>7, <1>8, <1>9, <2>1
<1>11. page \in Seq(Pg!Rows)
  BY <1>1, <1>10
<1> HIDE DEF page
<1>12. \A i \in 1 .. q : i \in 1 .. n /\ page[i] \in S
  BY <1>2, <1>3, <1>7, <1>9, <1>10
<1>13. \A i, j \in 1 .. q : i < j => Pg!Later(page[i], page[j])
  BY <1>1, <1>2, <1>10, <1>12, LaterOrders
<1>14. CASE m > PageSize
  <2>1. q = PageSize /\ PageSize <= n /\ cursor' = page[q] /\ q > 0 /\ q \in 1 .. n
    <3>1. q = PageSize /\ PageSize <= n /\ q > 0 /\ q \in 1 .. n /\ q \in 1 .. m
      BY <1>2, <1>3, <1>7, <1>9, <1>14
    <3>2. cursor' = found[q]
      BY <1>4, <1>8, <1>14, <3>1
    <3>3. found[q] = arr[q] /\ page[q] = arr[q]
      BY <1>8, <1>10, <3>1
    <3> QED
      BY <3>1, <3>2, <3>3
  <2>2. ASSUME NEW x \in S, x = cursor' \/ Pg!Later(x, cursor')
        PROVE  \E i \in 1 .. q : page[i] = x
    <3>1. PICK i \in 1 .. n : arr[i] = x
      BY <1>2
    <3>2. i <= q
      <4> SUFFICES ASSUME q < i PROVE FALSE
        BY <1>2, <1>3, <2>1
      <4>1. Pg!Later(page[q], x) /\ page[q] \in Pg!Rows /\ x \in Pg!Rows
        <5>1. q \in 1 .. q /\ q \in 1 .. n /\ page[q] = arr[q]
          BY <1>9, <1>10, <2>1
        <5>2. <<page[q], x>> \in Pg!Newest /\ page[q] \in S
          BY <1>2, <1>12, <3>1, <5>1
        <5> QED
          BY <1>1, <5>2, LaterOrders
      <4> QED
        BY <2>1, <2>2, <4>1, LaterOrders
    <3> QED
      BY <1>10, <3>1, <3>2
  <2> QED
    BY <1>4, <1>10, <1>11, <1>12, <1>13, <2>1, <2>2 DEF S
<1>15. CASE ~ (m > PageSize)
  <2>1. q = n /\ cursor' = Pg!End
    BY <1>2, <1>3, <1>4, <1>7, <1>8, <1>9, <1>15
  <2>2. \A x \in S : \E i \in 1 .. q : page[i] = x
    BY <1>2, <1>10, <2>1
  <2> QED
    BY <1>4, <1>10, <1>11, <1>12, <1>13, <2>1, <2>2 DEF S
<1> QED
  BY <1>14, <1>15

\* What has been shown descends to the cursor, and nothing steady is left above it.
ListingSound ==
  /\ Pg!ListingTypeOK
  /\ \A i, j \in 1 .. Len(shown) : i < j => Pg!Later(shown[i], shown[j])
  /\ \A x \in steady : rows[x] = "match"
  /\ cursor = <<>> => shown = <<>> /\ steady = {}
  /\ cursor \in Pg!Rows =>
       /\ Len(shown) > 0 /\ shown[Len(shown)] = cursor
       /\ \A x \in steady : x = cursor \/ Pg!Later(x, cursor) =>
                              \E i \in 1 .. Len(shown) : shown[i] = x
  /\ cursor = Pg!End => \A x \in steady : \E i \in 1 .. Len(shown) : shown[i] = x

\* Before the first page nothing has been shown.
LEMMA InitListing == ASSUME Pg!ListingInit PROVE ListingSound
<1>1. Pg!ListingTypeOK
  BY DEF Pg!ListingInit, Pg!ListingTypeOK
<1>2. <<>> \notin Pg!Rows /\ <<>> # Pg!End
  BY LaterOrders DEF Pg!End
<1> QED
  BY <1>1, <1>2 DEF Pg!ListingInit, ListingSound

\* A row that comes or goes changes nothing that has been shown.
LEMMA RowStep ==
  ASSUME ListingSound, NEW x \in Pg!Rows, Pg!InsertRow(x) \/ Pg!ChangeRow(x)
  PROVE  ListingSound'
<1>1. Pg!ListingTypeOK
  BY DEF ListingSound
<1>2. PICK v \in {"match", "other"} : rows' = [rows EXCEPT ![x] = v]
  BY DEF Pg!InsertRow, Pg!ChangeRow
<1>3. /\ UNCHANGED <<cursor, shown>> /\ steady' \subseteq steady
      /\ x \in steady' => v = "match"
  <2>1. CASE Pg!InsertRow(x)
    BY <1>1, <1>2, <2>1 DEF Pg!InsertRow, Pg!ListingTypeOK
  <2>2. CASE Pg!ChangeRow(x)
    BY <2>2 DEF Pg!ChangeRow
  <2> QED
    BY <2>1, <2>2
<1>4. Pg!ListingTypeOK'
  BY <1>1, <1>2, <1>3 DEF Pg!ListingTypeOK
<1>5. \A y \in steady' : rows'[y] = "match"
  BY <1>1, <1>2, <1>3 DEF ListingSound, Pg!ListingTypeOK
<1> QED
  BY <1>3, <1>4, <1>5 DEF ListingSound

\* The next page goes on where the cursor stands.
LEMMA PageStep ==
  ASSUME ListingSound, Pg!ShowPage
  PROVE  ListingSound'
<1>1. /\ Pg!ListingTypeOK /\ cursor \in {<<>>} \cup Pg!Rows /\ cursor # Pg!End
      /\ shown \in Seq(Pg!Rows) /\ UNCHANGED rows
  BY DEF ListingSound, Pg!ListingTypeOK, Pg!ShowPage, Pg!Ended
<1> PICK page \in Seq(Pg!Rows) :
           /\ shown' = shown \o page
           /\ \A i \in 1 .. Len(page) : page[i] \in Behind(cursor)
           /\ \A i, j \in 1 .. Len(page) : i < j => Pg!Later(page[i], page[j])
           /\ \/ /\ cursor' = Pg!End
                 /\ \A x \in Behind(cursor) : \E i \in 1 .. Len(page) : page[i] = x
              \/ /\ Len(page) > 0 /\ cursor' = page[Len(page)]
                 /\ \A x \in Behind(cursor) :
                      x = cursor' \/ Pg!Later(x, cursor') => \E i \in 1 .. Len(page) : page[i] = x
  BY PageShown
<1>2. /\ Len(shown) \in Nat /\ Len(page) \in Nat
      /\ Len(shown') = Len(shown) + Len(page) /\ shown' \in Seq(Pg!Rows)
      /\ \A i \in 1 .. Len(shown) : shown'[i] = shown[i] /\ shown[i] \in Pg!Rows
      /\ \A i \in 1 .. Len(page) : shown'[Len(shown) + i] = page[i] /\ page[i] \in Pg!Rows
  BY <1>1
<1>3. \A i \in 1 .. Len(shown), x \in Behind(cursor) : Pg!Later(shown[i], x)
  <2> SUFFICES ASSUME NEW i \in 1 .. Len(shown), NEW x \in Behind(cursor)
               PROVE  Pg!Later(shown[i], x)
    OBVIOUS
  <2>1. cursor \in Pg!Rows /\ x \in Pg!Rows
    <3>1. cursor # <<>>
      BY <1>2 DEF ListingSound
    <3> QED
      BY <1>1, <3>1 DEF Behind
  <2>2. Pg!Later(cursor, x)
    BY <2>1, LaterOrders DEF Behind, Pg!Before
  <2>3. Len(shown) > 0 /\ shown[Len(shown)] = cursor
    BY <2>1 DEF ListingSound
  <2>4. shown[i] = cursor \/ Pg!Later(shown[i], cursor)
    <3>1. i = Len(shown) \/ i < Len(shown)
      BY <1>2
    <3>2. Len(shown) \in 1 .. Len(shown)
      BY <1>2, <2>3
    <3> QED
      BY <2>3, <3>1, <3>2 DEF ListingSound
  <2>5. shown[i] \in Pg!Rows
    BY <1>2
  <2> QED
    BY <2>1, <2>2, <2>4, <2>5, LaterOrders
<1>4. \A i, j \in 1 .. Len(shown') : i < j => Pg!Later(shown'[i], shown'[j])
  <2> SUFFICES ASSUME NEW i \in 1 .. Len(shown'), NEW j \in 1 .. Len(shown'), i < j
               PROVE  Pg!Later(shown'[i], shown'[j])
    OBVIOUS
  <2>1. CASE j <= Len(shown)
    <3>1. i \in 1 .. Len(shown) /\ j \in 1 .. Len(shown)
      BY <1>2, <2>1
    <3> QED
      BY <1>2, <3>1 DEF ListingSound
  <2>2. CASE j > Len(shown)
    <3> PICK k \in 1 .. Len(page) : j = Len(shown) + k
      <4>1. j - Len(shown) \in 1 .. Len(page) /\ j = Len(shown) + (j - Len(shown))
        BY <1>2, <2>2
      <4> QED
        BY <4>1
    <3>1. shown'[j] = page[k] /\ page[k] \in Behind(cursor)
      BY <1>2
    <3>2. CASE i <= Len(shown)
      BY <1>2, <1>3, <3>1, <3>2
    <3>3. CASE i > Len(shown)
      <4> PICK l \in 1 .. Len(page) : i = Len(shown) + l
        <5>1. i - Len(shown) \in 1 .. Len(page) /\ i = Len(shown) + (i - Len(shown))
          BY <1>2, <3>3
        <5> QED
          BY <5>1
      <4>1. shown'[i] = page[l] /\ l < k
        BY <1>2
      <4> QED
        BY <3>1, <4>1
    <3> QED
      BY <1>2, <3>2, <3>3
  <2> QED
    BY <1>2, <2>1, <2>2
<1>5. /\ steady' \subseteq Pg!Rows
      /\ \A x \in steady' : rows[x] = "match"
      /\ cursor = <<>> => \A x \in steady' : x \in Behind(cursor)
      /\ cursor # <<>> => steady' = steady
  BY <1>1 DEF Pg!ShowPage, ListingSound, Pg!ListingTypeOK, Behind, Pg!Matches, Pg!Before

\* A steady row has been shown, or is behind the cursor.
<1>6. \A x \in steady' : x \in Behind(cursor) \/ \E i \in 1 .. Len(shown) : shown[i] = x
  <2> SUFFICES ASSUME NEW x \in steady', cursor # <<>>, x \notin Behind(cursor)
               PROVE  \E i \in 1 .. Len(shown) : shown[i] = x
    BY <1>5
  <2>1. x \in steady /\ x \in Pg!Rows /\ cursor \in Pg!Rows /\ rows[x] = "match"
    BY <1>1, <1>5
  <2>2. x = cursor \/ Pg!Later(x, cursor)
    BY <2>1, LaterOrders DEF Behind, Pg!Before, Pg!Matches
  <2> QED
    BY <2>1, <2>2 DEF ListingSound

\* Showing in a page is showing.
<1>7. \A x : ((\E i \in 1 .. Len(page) : page[i] = x) \/ \E i \in 1 .. Len(shown) : shown[i] = x)
              => \E i \in 1 .. Len(shown') : shown'[i] = x
  <2> SUFFICES ASSUME NEW x,
                      (\E i \in 1 .. Len(page) : page[i] = x) \/ \E i \in 1 .. Len(shown) : shown[i] = x
               PROVE  \E i \in 1 .. Len(shown') : shown'[i] = x
    OBVIOUS
  <2>1. ASSUME NEW i \in 1 .. Len(page), page[i] = x PROVE \E k \in 1 .. Len(shown') : shown'[k] = x
    <3>1. Len(shown) + i \in 1 .. Len(shown')
      BY <1>2
    <3> QED
      BY <1>2, <2>1, <3>1
  <2>2. ASSUME NEW i \in 1 .. Len(shown), shown[i] = x PROVE \E k \in 1 .. Len(shown') : shown'[k] = x
    <3>1. i \in 1 .. Len(shown')
      BY <1>2
    <3> QED
      BY <1>2, <2>2, <3>1
  <2> QED
    BY <2>1, <2>2
<1>8. CASE cursor' = Pg!End /\ \A x \in Behind(cursor) : \E i \in 1 .. Len(page) : page[i] = x
  <2>1. Pg!ListingTypeOK'
    BY <1>1, <1>2, <1>5, <1>8 DEF Pg!ListingTypeOK
  <2>2. \A x \in steady' : \E i \in 1 .. Len(shown') : shown'[i] = x
    BY <1>6, <1>7, <1>8
  <2>3. Pg!End \notin Pg!Rows /\ Pg!End # <<>>
    BY LaterOrders DEF Pg!End
  <2>4. /\ \A x \in steady' : rows'[x] = "match"
        /\ cursor' \notin Pg!Rows /\ cursor' # <<>>
    BY <1>1, <1>5, <1>8, <2>3
  <2> QED
    BY <1>4, <2>1, <2>2, <2>4 DEF ListingSound
<1>9. CASE /\ Len(page) > 0 /\ cursor' = page[Len(page)]
           /\ \A x \in Behind(cursor) :
                x = cursor' \/ Pg!Later(x, cursor') => \E i \in 1 .. Len(page) : page[i] = x
  <2>1. Len(page) \in 1 .. Len(page) /\ cursor' \in Pg!Rows
    BY <1>2, <1>9
  <2>2. Len(shown') > 0 /\ shown'[Len(shown')] = cursor'
    BY <1>2, <1>9, <2>1
  <2>3. Pg!ListingTypeOK'
    BY <1>1, <1>2, <1>5, <2>1 DEF Pg!ListingTypeOK
  <2>4. cursor' # Pg!End /\ cursor' # <<>>
    BY <2>1, LaterOrders
  <2>5. \A x \in steady' : x = cursor' \/ Pg!Later(x, cursor') =>
                              \E i \in 1 .. Len(shown') : shown'[i] = x
    BY <1>6, <1>7, <1>9
  <2> QED
    BY <1>1, <1>4, <1>5, <2>2, <2>3, <2>4, <2>5 DEF ListingSound
<1> QED
  BY <1>8, <1>9

\* So it always holds.
LEMMA ListingInvariant == OfficeSpec => []ListingSound
<1>1. OfficeInit => ListingSound
  BY InitListing DEF OfficeInit
<1>2. ListingSound /\ [OfficeNext]_officeVars => ListingSound'
  <2> SUFFICES ASSUME ListingSound, [OfficeNext]_officeVars PROVE ListingSound'
    OBVIOUS
  <2>1. CASE Pg!ListingNext
    BY <2>1, PageStep, RowStep DEF Pg!ListingNext
  <2>2. CASE UNCHANGED <<rows, cursor, shown, steady>>
    BY <2>2 DEF ListingSound, Pg!ListingTypeOK
  <2> QED
    BY <2>1, <2>2 DEF OfficeNext, officeVars
<1> QED
  BY <1>1, <1>2, PTL DEF OfficeSpec

\* Rows may come in above or below the cursor, and in and out of the filter, between any
\* two pages: no row is shown twice, and none that was there throughout is missed.
THEOREM NothingMissed == OfficeSpec => []PagesComplete
<1>1. ListingSound => PagesComplete
  <2> SUFFICES ASSUME ListingSound
               PROVE  /\ \A i, j \in DOMAIN shown : i < j => Pg!Later(shown[i], shown[j])
                      /\ Pg!Ended => steady \subseteq Pg!ToSet(shown)
    BY DEF PagesComplete, Pg!PagesComplete
  <2>1. DOMAIN shown = 1 .. Len(shown)
    BY DEF ListingSound, Pg!ListingTypeOK
  <2> QED
    BY <2>1 DEF ListingSound, Pg!Ended, Pg!ToSet
<1> QED
  BY <1>1, ListingInvariant, PTL

\* Whatever part of the console a behaviour is about, its state has the types it is
\* declared with.
THEOREM OfficeTypes == OfficeSpec => []OfficeTypeOK
<1>1. SettingsSound /\ RosterSound /\ ListingSound => OfficeTypeOK
  BY DEF SettingsSound, RosterSound, ListingSound, OfficeTypeOK
<1> QED
  BY <1>1, SettingsInvariant, RosterInvariant, ListingInvariant, PTL
===============================================================================
