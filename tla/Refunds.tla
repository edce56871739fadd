-------------------------------- MODULE Refunds --------------------------------
(***************************************************************************)
(* Refunds of one finished trip (internal/refund): a clerk asks for one,   *)
(* small ones approve themselves, larger ones need a second clerk, and an  *)
(* approved refund is posted to the ledger.  Row, audit log, ledger and    *)
(* notification are four writes without a common transaction; Approve,     *)
(* called again, is the way to finish what stopped in between.             *)
(***************************************************************************)
EXTENDS Naturals, FiniteSetsExt

CONSTANTS
  Refs,           \* ids of refunds
  Clerks,
  Amounts,
  Paid,           \* what the rider paid for the trip: fare or cancel fee
  SelfApproveMax,
  Calls,          \* requests being served at the same time
  MaxFaults,      \* bound: requests that fail
  None

ASSUME RefundsAssumption ==
  /\ Amounts \subseteq Nat \ {0} /\ Paid \in Nat /\ SelfApproveMax \in Nat
  /\ MaxFaults \in Nat /\ None \notin Refs \cup Clerks

VARIABLES
  refunds,    \* the table; status NONE where there is no row
  audit,      \* the audit log: refund and status of each entry
  posted,     \* refunds whose transaction is in the ledger
  notified,   \* refunds the rider was told about
  calls,      \* call -> what its handler holds between two statements
  faults

vars == <<refunds, audit, posted, notified, calls, faults>>

-------------------------------------------------------------------------------
RefundStatus == {"NONE", "PENDING", "APPROVED", "REJECTED"}

Refund == [status : RefundStatus, amount : Amounts \cup {0},
           by : Clerks \cup {None}, self : BOOLEAN, decider : Clerks \cup {None}]

NoRefund == [status |-> "NONE", amount |-> 0, by |-> None, self |-> FALSE, decider |-> None]

\* status: that of the handler's copy of the row, once it has decided;
\* already: RefundPosted, read before posting.
Call == [step : {"idle", "insert", "approve", "reject", "record", "look", "post", "notify"},
         ref : Refs \cup {None}, actor : Clerks \cup {None}, amount : Amounts \cup {0},
         status : RefundStatus, already : BOOLEAN]

Idle == [step |-> "idle", ref |-> None, actor |-> None, amount |-> 0,
         status |-> "NONE", already |-> FALSE]

Init ==
  /\ refunds  = [r \in Refs |-> NoRefund]
  /\ audit    = {}
  /\ posted   = {}
  /\ notified = {}
  /\ calls    = [c \in Calls |-> Idle]
  /\ faults   = 0

At(c, step) == calls[c].step = step

Row(c) == refunds[calls[c].ref]

Go(c, step) == calls' = [calls EXCEPT ![c].step = step]

ToRecord(c, status) == calls' = [calls EXCEPT ![c].step = "record", ![c].status = status]

End(c) == calls' = [calls EXCEPT ![c] = Idle]

Start(c, step, r, actor, amount) ==
  calls' = [calls EXCEPT ![c] = [step |-> step, ref |-> r, actor |-> actor, amount |-> amount,
                                 status |-> "NONE", already |-> FALSE]]

-------------------------------------------------------------------------------
(* Request.                                                                *)

\* What the other refunds of the trip take up.
Used == MapThenSumSet(LAMBDA r : refunds[r].amount,
                      {r \in Refs : refunds[r].status \notin {"NONE", "REJECTED"}})

\* Mutant: the row of the trip is not locked.
TripLockedNever == FALSE

\* SELECT ... FOR UPDATE on the trip, held until the row is inserted.
TripLocked == \E c \in Calls : At(c, "insert")

Request(c, r, actor, amount) ==
  /\ At(c, "idle")
  /\ refunds[r].status = "NONE" /\ (\A d \in Calls : calls[d].ref # r)
  /\ ~ TripLocked /\ Used + amount <= Paid
  /\ Start(c, "insert", r, actor, amount)
  /\ UNCHANGED <<refunds, audit, posted, notified, faults>>

\* Mutant: everything the trip is worth.
SelfApprovedAlways(amount) == amount <= Paid

SelfApproved(amount) == amount <= SelfApproveMax

Insert(c) ==
  LET self   == SelfApproved(calls[c].amount)
      status == IF self THEN "APPROVED" ELSE "PENDING"
  IN  /\ At(c, "insert")
      /\ refunds' = [refunds EXCEPT ![calls[c].ref] =
           [status |-> status, amount |-> calls[c].amount, by |-> calls[c].actor,
            self |-> self, decider |-> IF self THEN calls[c].actor ELSE None]]
      /\ ToRecord(c, status)
      /\ UNCHANGED <<audit, posted, notified, faults>>

-------------------------------------------------------------------------------
(* Approve and Reject.                                                     *)

\* Mutant: only what is pending can be approved.
ApprovePending(c, r, actor) ==
  /\ At(c, "idle")
  /\ refunds[r].status = "PENDING" /\ actor # refunds[r].by
  /\ Start(c, "approve", r, actor, 0)
  /\ UNCHANGED <<refunds, audit, posted, notified, faults>>

\* The row is read.  One that is approved already is only posted.
Approve(c, r, actor) ==
  /\ At(c, "idle")
  /\ \/ refunds[r].status = "APPROVED" /\ Start(c, "look", r, actor, 0)
     \/ /\ refunds[r].status = "PENDING" /\ actor # refunds[r].by
        /\ Start(c, "approve", r, actor, 0)
  /\ UNCHANGED <<refunds, audit, posted, notified, faults>>

Reject(c, r, actor) ==
  /\ At(c, "idle")
  /\ refunds[r].status = "PENDING"
  /\ Start(c, "reject", r, actor, 0)
  /\ UNCHANGED <<refunds, audit, posted, notified, faults>>

\* Mutant: the name of the request is stored.
VerdictRaw(step) == step

Verdict(step) == IF step = "approve" THEN "APPROVED" ELSE "REJECTED"

\* Mutant: the UPDATE does not ask for PENDING.
DecideAnyway(c) ==
  /\ At(c, "approve") \/ At(c, "reject")
  /\ refunds' = [refunds EXCEPT ![calls[c].ref].status = Verdict(calls[c].step),
                                ![calls[c].ref].decider = calls[c].actor]
  /\ ToRecord(c, Verdict(calls[c].step))
  /\ UNCHANGED <<audit, posted, notified, faults>>

\* UPDATE ... WHERE status = 'PENDING'.  (The CHECK of the table, that an approved
\* refund is a small one or has two names on it, holds by the guard of Approve.)
Decide(c) ==
  /\ At(c, "approve") \/ At(c, "reject")
  /\ Row(c).status = "PENDING"
  /\ refunds' = [refunds EXCEPT ![calls[c].ref].status = Verdict(calls[c].step),
                                ![calls[c].ref].decider = calls[c].actor]
  /\ ToRecord(c, Verdict(calls[c].step))
  /\ UNCHANGED <<audit, posted, notified, faults>>

\* refund_already_decided.
DecideLost(c) ==
  /\ At(c, "approve") \/ At(c, "reject")
  /\ Row(c).status # "PENDING"
  /\ End(c)
  /\ UNCHANGED <<refunds, audit, posted, notified, faults>>

-------------------------------------------------------------------------------
\* record, by the three of them; who has an approved refund goes on to post it.
Record(c) ==
  /\ At(c, "record")
  /\ audit' = audit \cup {<<calls[c].ref, calls[c].status>>}
  /\ IF calls[c].status = "APPROVED" THEN Go(c, "look") ELSE End(c)
  /\ UNCHANGED <<refunds, posted, notified, faults>>

\* post asks first whether the rider was told.
Look(c) ==
  /\ At(c, "look")
  /\ calls' = [calls EXCEPT ![c].step = "post", ![c].already = calls[c].ref \in posted]
  /\ UNCHANGED <<refunds, audit, posted, notified, faults>>

\* PostRefund: the transaction has the refund's id, so the ledger takes it once.
Post(c) ==
  /\ At(c, "post")
  /\ posted' = posted \cup {calls[c].ref}
  /\ IF calls[c].already THEN End(c) ELSE Go(c, "notify")
  /\ UNCHANGED <<refunds, audit, notified, faults>>

\* OnPosted; a failure is only logged.
Notify(c) ==
  /\ At(c, "notify")
  /\ notified' \in {notified, notified \cup {calls[c].ref}}
  /\ End(c)
  /\ UNCHANGED <<refunds, audit, posted, faults>>

\* A database error, or a process that is killed; a transaction is rolled back.
Fail(c) ==
  /\ ~ At(c, "idle") /\ faults < MaxFaults
  /\ faults' = faults + 1
  /\ End(c)
  /\ UNCHANGED <<refunds, audit, posted, notified>>

-------------------------------------------------------------------------------
Proceed(c) ==
  Insert(c) \/ Decide(c) \/ DecideLost(c) \/ Record(c) \/ Look(c) \/ Post(c) \/ Notify(c)

Next ==
  \E c \in Calls :
    \/ \E r \in Refs, a \in Clerks :
         Approve(c, r, a) \/ Reject(c, r, a) \/ \E m \in Amounts : Request(c, r, a, m)
    \/ Proceed(c)
    \/ Fail(c)

\* A request that is being served gets on, and somebody presses "approve" again on a
\* refund that is shown as approved and not posted.
Fairness ==
  /\ \A c \in Calls : WF_vars(Proceed(c))
  /\ \A r \in Refs :
       SF_vars(r \notin posted /\ refunds[r].status = "APPROVED"
               /\ \E c \in Calls, a \in Clerks : Approve(c, r, a))

Spec == Init /\ [][Next]_vars /\ Fairness

-------------------------------------------------------------------------------
(* Properties.                                                             *)

\* The shape of the tables.
TypeOK ==
  /\ refunds \in [Refs -> Refund]
  /\ audit \subseteq Refs \X (RefundStatus \ {"NONE"})
  /\ posted \subseteq Refs
  /\ notified \subseteq Refs
  /\ calls \in [Calls -> Call]
  /\ faults \in 0 .. MaxFaults

\* A trip never gives back more than the rider paid for it, counting what waits for
\* an approval (Store.Create): two clerks who ask at the same time line up.
NeverMoreThanPaid == Used <= Paid

\* Of two clerks, one approving and one rejecting, one wins, and money moves only
\* for what stays approved; the rider hears of nothing else.
PostedIsApproved ==
  /\ \A r \in posted : refunds[r].status = "APPROVED"
  /\ notified \subseteq posted

\* Money above the limit of self-approval moves with two names on it, whoever
\* presses "approve" again after a failure.
TwoPeople ==
  \A r \in posted :
    refunds[r].amount > SelfApproveMax => refunds[r].decider # refunds[r].by

\* What was approved is posted in the end, and is in the audit log unless something
\* failed: the second call of Approve "posts it after the fact" (Refund.Posted).
ApprovedIsPosted ==
  \A r \in Refs :
    refunds[r].status = "APPROVED" ~>
      r \in posted /\ (<<r, "APPROVED">> \in audit \/ faults > 0)
===============================================================================
