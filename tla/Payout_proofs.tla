---------------------------- MODULE Payout_proofs ----------------------------
(***************************************************************************)
(* For any number of periods, drivers and jobs: the shape of the tables, a *)
(* line is tried at most once, and the jobs of settlement.go implement the *)
(* accountant's view, PayoutBook.                                          *)
(***************************************************************************)
EXTENDS Payout, TLAPS

Calculating == {"balances", "add"}
Paying == {"list", "claim", "post", "markFailed"}
Claiming == {"post", "markFailed"}

\* A batch is calculated by the job that created it, and by no other.
OneCalculation ==
  \A j \in Jobs : jobs[j].step \in Calculating =>
    /\ batches[jobs[j].period] = "OPEN"
    /\ \A k \in Jobs \ {j} : jobs[k].step \in Calculating => jobs[k].period # jobs[j].period

\* No money moves before the list is closed.
PaysPublished ==
  \A j \in Jobs : jobs[j].step \in Paying => batches[jobs[j].period] \notin {"NONE", "OPEN"}

\* The line a job is about to post says PAID, and is nobody else's.
OneClaim ==
  \A j \in Jobs : jobs[j].step \in Claiming =>
    /\ jobs[j].now \in Drivers
    /\ items[jobs[j].period][jobs[j].now].status = "PAID"
    /\ jobs[j].step = "post" => payouts[jobs[j].period][jobs[j].now] = 0
    /\ \A k \in Jobs \ {j} : jobs[k].step \in Claiming =>
         jobs[k].period # jobs[j].period \/ jobs[k].now # jobs[j].now

\* A line nobody has claimed has never been tried.
Untouched ==
  \A p \in Periods, d \in Drivers : items[p][d].status \in {"NONE", "SKIPPED", "PENDING"} =>
    payouts[p][d] = 0 /\ attempts[p][d] = 0

IInv ==
  /\ TypeOK
  /\ OneCalculation
  /\ PaysPublished
  /\ OneClaim
  /\ Untouched
  /\ TriedOnce
-----------------------------------------------------------------------------
\* A new batch is OPEN and has the job that created it, alone.
LEMMA CreateBatchStep ==
  ASSUME IInv, NEW j \in Jobs, NEW p \in Periods, CreateBatch(j, p)
  PROVE  IInv'
<1> USE PayoutAssumption DEF IInv, TypeOK, CreateBatch, At, ledger, Begin, JobAt
<1>1. TypeOK'
  BY DEF Job, Item, BatchStatus
<1>2. OneCalculation'
  BY DEF OneCalculation, Calculating, Job
<1>3. PaysPublished'
  BY DEF PaysPublished, Paying, Job
<1>4. OneClaim'
  BY DEF OneClaim, Claiming, Job
<1>5. Untouched'
  BY DEF Untouched
<1>6. TriedOnce'
  BY DEF TriedOnce, Untouched
<1> QED
  BY <1>1, <1>2, <1>3, <1>4, <1>5, <1>6

\* Reading the balances changes only the job.
LEMMA ReadBalancesStep ==
  ASSUME IInv, NEW j \in Jobs, ReadBalances(j)
  PROVE  IInv'
<1> DEFINE due == [d \in Drivers |-> IF wallet[d] >= 1 THEN wallet[d] ELSE 0]
<1>1. TypeOK'
  <2>1. jobs[j] \in Job /\ due \in [Drivers -> Nat]
    BY DEF IInv, TypeOK
  <2>2. jobs' = [jobs EXCEPT ![j].step = "add", ![j].due = due]
    BY DEF ReadBalances
  <2> HIDE DEF due
  <2>3. [jobs[j] EXCEPT !.step = "add", !.due = due] \in Job
    BY <2>1 DEF Job
  <2> QED
    BY <2>2, <2>3 DEF IInv, TypeOK, ReadBalances, ledger
<1> USE DEF IInv, TypeOK, ReadBalances, At, ledger
<1>2. OneCalculation'
  BY DEF OneCalculation, Calculating, Job
<1>3. PaysPublished'
  BY DEF PaysPublished, Paying, Job
<1>4. OneClaim'
  BY DEF OneClaim, Claiming, Job
<1>5. Untouched'
  BY DEF Untouched
<1>6. TriedOnce'
  BY DEF TriedOnce, Untouched
<1> QED
  BY <1>1, <1>2, <1>3, <1>4, <1>5, <1>6

\* A line that is added belongs to an OPEN batch, and has not been tried.
LEMMA AddItemStep ==
  ASSUME IInv, NEW j \in Jobs, NEW d \in Drivers, AddItem(j, d)
  PROVE  IInv'
<1>1. TypeOK'
  <2> DEFINE due == [jobs[j].due EXCEPT ![d] = 0]
             item == [status |-> StatusOf(jobs[j].due[d]), amount |-> jobs[j].due[d]]
  <2>1. jobs[j] \in Job /\ jobs[j].period \in Periods /\ jobs[j].due[d] \in Nat
    BY DEF IInv, TypeOK, Job
  <2>2. due \in [Drivers -> Nat]
    BY <2>1 DEF Job
  <2>3. jobs' = [jobs EXCEPT ![j].due = due]
    BY <2>1 DEF AddItem, IInv, TypeOK
  <2>4. item \in Item
    BY <2>1, PayoutAssumption DEF AddItem, Item, StatusOf
  <2>5. items' = [items EXCEPT ![jobs[j].period][d] = item] \/ items' = items
    BY DEF AddItem
  <2> HIDE DEF due, item
  <2>6. [jobs[j] EXCEPT !.due = due] \in Job
    BY <2>1, <2>2 DEF Job
  <2>7. jobs' \in [Jobs -> Job]
    BY <2>3, <2>6 DEF IInv, TypeOK
  <2>8. items \in [Periods -> [Drivers -> Item]]
    BY DEF IInv, TypeOK
  <2>9. items' \in [Periods -> [Drivers -> Item]]
    BY <2>1, <2>4, <2>5, <2>8
  <2> QED
    BY <2>7, <2>9 DEF IInv, TypeOK, AddItem, ledger
<1> USE PayoutAssumption DEF IInv, TypeOK, AddItem, At, ledger, StatusOf, NoItem
<1>2. OneCalculation'
  BY DEF OneCalculation, Calculating, Job
<1>3. PaysPublished'
  BY DEF PaysPublished, Paying, Job
<1>4. OneClaim'
  BY DEF OneClaim, Claiming, Job
<1>5. Untouched'
  BY DEF Untouched
<1>6. TriedOnce'
  BY DEF TriedOnce, Untouched
<1> QED
  BY <1>1, <1>2, <1>3, <1>4, <1>5, <1>6

\* Closing a list ends the only job that could change it.
LEMMA CloseCalculatedStep ==
  ASSUME IInv, NEW j \in Jobs, CloseCalculated(j)
  PROVE  IInv'
<1> USE PayoutAssumption DEF IInv, TypeOK, CloseCalculated, At, ledger, End, JobAt
<1>1. TypeOK'
  BY DEF Job, Item, BatchStatus
<1>2. OneCalculation'
  BY DEF OneCalculation, Calculating, Job
<1>3. PaysPublished'
  BY DEF PaysPublished, Paying, Job
<1>4. OneClaim'
  BY DEF OneClaim, Claiming, Job
<1>5. Untouched'
  BY DEF Untouched
<1>6. TriedOnce'
  BY DEF TriedOnce, Untouched
<1> QED
  BY <1>1, <1>2, <1>3, <1>4, <1>5, <1>6

\* Pay begins on a batch whose list is closed.
LEMMA PayStep ==
  ASSUME IInv, NEW j \in Jobs, NEW p \in Periods, Pay(j, p)
  PROVE  IInv'
<1> USE PayoutAssumption DEF IInv, TypeOK, Pay, At, ledger, Begin, JobAt
<1>1. TypeOK'
  BY DEF Job, Item, BatchStatus
<1>2. OneCalculation'
  BY DEF OneCalculation, Calculating, Job
<1>3. PaysPublished'
  BY DEF PaysPublished, Paying, Job
<1>4. OneClaim'
  BY DEF OneClaim, Claiming, Job
<1>5. Untouched'
  BY DEF Untouched
<1>6. TriedOnce'
  BY DEF TriedOnce, Untouched
<1> QED
  BY <1>1, <1>2, <1>3, <1>4, <1>5, <1>6

\* Listing the lines changes only the job.
LEMMA ListItemsStep ==
  ASSUME IInv, NEW j \in Jobs, ListItems(j)
  PROVE  IInv'
<1>1. TypeOK'
  <2> DEFINE left == {d \in Drivers : items[jobs[j].period][d].status = "PENDING"}
  <2>1. jobs[j] \in Job /\ left \in SUBSET Drivers
    BY DEF IInv, TypeOK
  <2>2. jobs' = [jobs EXCEPT ![j].step = "claim", ![j].left = left]
    BY DEF ListItems
  <2> HIDE DEF left
  <2>3. [jobs[j] EXCEPT !.step = "claim", !.left = left] \in Job
    BY <2>1 DEF Job
  <2> QED
    BY <2>2, <2>3 DEF IInv, TypeOK, ListItems, ledger
<1> USE DEF IInv, TypeOK, ListItems, At, ledger
<1>2. OneCalculation'
  BY DEF OneCalculation, Calculating, Job
<1>3. PaysPublished'
  BY DEF PaysPublished, Paying, Job
<1>4. OneClaim'
  BY DEF OneClaim, Claiming, Job
<1>5. Untouched'
  BY DEF Untouched
<1>6. TriedOnce'
  BY DEF TriedOnce, Untouched
<1> QED
  BY <1>1, <1>2, <1>3, <1>4, <1>5, <1>6

\* A line is claimed by one job, since only a PENDING one can be.
LEMMA MarkItemPaidStep ==
  ASSUME IInv, NEW j \in Jobs, NEW d \in Drivers, MarkItemPaid(j, d)
  PROVE  IInv'
<1> DEFINE p == jobs[j].period
           left == jobs[j].left \ {d}
<1>0. jobs[j] \in Job /\ p \in Periods /\ left \in SUBSET Drivers /\ items[p][d] \in Item
  BY DEF IInv, TypeOK, Job
<1>1. CASE items[p][d].status = "PENDING"
  <2>1. /\ jobs' = [jobs EXCEPT ![j] = [jobs[j] EXCEPT !.step = "post", !.left = left, !.now = d]]
        /\ items' = [items EXCEPT ![p][d].status = "PAID"]
        /\ attempts' = [attempts EXCEPT ![p][d] = @ + 1]
        /\ UNCHANGED <<ledger, batches>>
        /\ jobs[j].step = "claim"
    BY <1>1 DEF MarkItemPaid, At, IInv, TypeOK
  <2>2. [items[p][d] EXCEPT !.status = "PAID"] \in Item
    BY <1>0, <1>1, PayoutAssumption DEF Item
  <2> HIDE DEF p, left
  <2> DEFINE r == [jobs[j] EXCEPT !.step = "post", !.left = left, !.now = d]
  <2>3. r \in Job /\ r.step = "post" /\ r.period = p /\ r.now = d
    BY <1>0 DEF Job, p
  <2> HIDE DEF r
  <2>4. jobs' = [jobs EXCEPT ![j] = r]
    BY <2>1 DEF r
  <2>5. TypeOK'
    BY <1>0, <2>1, <2>2, <2>3, <2>4 DEF IInv, TypeOK, ledger
  <2>6. OneCalculation'
    BY <2>1, <2>3, <2>4 DEF IInv, TypeOK, OneCalculation, Calculating
  <2>7. PaysPublished'
    BY <2>1, <2>3, <2>4 DEF IInv, TypeOK, PaysPublished, Paying, p
  <2>8. OneClaim'
    <3>1. \A k \in Jobs \ {j} : jobs[k].step \in Claiming =>
            jobs[k].period # p \/ jobs[k].now # d
      BY <1>1 DEF IInv, OneClaim
    <3>2. payouts[p][d] = 0
      BY <1>0, <1>1 DEF IInv, Untouched
    <3>3. items'[p][d].status = "PAID"
      BY <1>0, <2>1, <2>2 DEF IInv, TypeOK, Item
    <3>4. items' = [items EXCEPT ![p][d] = [items[p][d] EXCEPT !.status = "PAID"]]
      BY <1>0, <2>1 DEF IInv, TypeOK
    <3>5. items \in [Periods -> [Drivers -> Item]]
      BY DEF IInv, TypeOK
    <3>6. \A q \in Periods, e \in Drivers : q # p \/ e # d => items'[q][e] = items[q][e]
      BY <1>0, <2>2, <3>4, <3>5
    <3>7. payouts' = payouts /\ jobs'[j] = r /\ \A k \in Jobs \ {j} : jobs'[k] = jobs[k]
      BY <2>1, <2>4 DEF IInv, TypeOK, ledger
    <3>8. ASSUME NEW k \in Jobs \ {j}, jobs[k].step \in Claiming
          PROVE  jobs[k].period \in Periods
      BY DEF IInv, TypeOK, Job
    <3>9. ASSUME NEW k \in Jobs, jobs'[k].step \in Claiming
          PROVE  /\ jobs'[k].now \in Drivers
                 /\ items'[jobs'[k].period][jobs'[k].now].status = "PAID"
                 /\ jobs'[k].step = "post" => payouts'[jobs'[k].period][jobs'[k].now] = 0
      BY <2>3, <3>1, <3>2, <3>3, <3>6, <3>7, <3>8, <3>9 DEF IInv, OneClaim
    <3>10. ASSUME NEW k \in Jobs, NEW i \in Jobs \ {k},
                  jobs'[k].step \in Claiming, jobs'[i].step \in Claiming
           PROVE  jobs'[i].period # jobs'[k].period \/ jobs'[i].now # jobs'[k].now
      BY <2>3, <3>1, <3>7, <3>10 DEF IInv, OneClaim
    <3> QED
      BY <3>9, <3>10 DEF OneClaim
  <2>9. Untouched'
    <3>1. items'[p][d].status = "PAID"
      BY <1>0, <2>1, <2>2 DEF IInv, TypeOK, Item
    <3> QED
      BY <1>0, <2>1, <3>1 DEF IInv, TypeOK, Untouched, ledger
  <2>10. TriedOnce'
    BY <1>0, <1>1, <2>1 DEF IInv, TypeOK, TriedOnce, Untouched
  <2> QED
    BY <2>5, <2>6, <2>7, <2>8, <2>9, <2>10 DEF IInv
<1>2. CASE items[p][d].status # "PENDING"
  <2>1. /\ jobs' = [jobs EXCEPT ![j] = [jobs[j] EXCEPT !.left = left]]
        /\ jobs[j].step = "claim"
        /\ UNCHANGED <<ledger, batches, items, attempts>>
    BY <1>2 DEF MarkItemPaid, At, IInv, TypeOK
  <2> HIDE DEF p, left
  <2>2. /\ [jobs[j] EXCEPT !.left = left] \in Job
        /\ [jobs[j] EXCEPT !.left = left].step = "claim"
        /\ [jobs[j] EXCEPT !.left = left].period = p
    BY <1>0, <2>1 DEF Job, p
  <2> QED
    BY <2>1, <2>2 DEF IInv, TypeOK, ledger, OneCalculation, Calculating, PaysPublished,
      Paying, OneClaim, Claiming, Untouched, TriedOnce, p
<1> QED
  BY <1>1, <1>2

\* What is posted is the line the job has claimed; the claim is over, or failed.
LEMMA PostStep ==
  ASSUME IInv, NEW j \in Jobs, Post(j)
  PROVE  IInv'
<1> DEFINE p == jobs[j].period
           d == jobs[j].now
<1>0. /\ jobs[j] \in Job /\ jobs[j].step = "post" /\ p \in Periods /\ d \in Drivers
      /\ items[p][d] \in Item /\ items[p][d].amount \in Nat
      /\ items[p][d].status = "PAID" /\ payouts[p][d] = 0
      /\ UNCHANGED <<batches, items, attempts>>
  BY PayoutAssumption DEF Post, At, IInv, TypeOK, OneClaim, Claiming, Job, Item
<1>1. /\ payouts' \in [Periods -> [Drivers -> Nat]]
      /\ wallet' \in [Drivers -> Int]
      /\ UNCHANGED <<credited, charged>>
      /\ \A q \in Periods, e \in Drivers : q # p \/ e # d => payouts'[q][e] = payouts[q][e]
  <2>1. CASE PostOnce(p, d)
    <3>1. /\ payouts' = [payouts EXCEPT ![p][d] = @ + items[p][d].amount]
          /\ wallet' = [wallet EXCEPT ![d] = @ - items[p][d].amount]
          /\ UNCHANGED <<credited, charged>>
      BY <1>0, <2>1 DEF PostOnce
    <3>2. payouts \in [Periods -> [Drivers -> Nat]] /\ wallet \in [Drivers -> Int]
      BY DEF IInv, TypeOK
    <3> HIDE DEF p, d
    <3>3. payouts' = [payouts EXCEPT ![p][d] = items[p][d].amount]
      <4>1. payouts[p][d] + items[p][d].amount = items[p][d].amount
        BY <1>0
      <4> QED
        BY <3>1, <4>1
    <3>4. wallet' \in [Drivers -> Int]
      BY <1>0, <3>1, <3>2
    <3> QED
      BY <1>0, <3>1, <3>2, <3>3, <3>4
  <2>2. CASE UNCHANGED ledger
    BY <2>2 DEF ledger, IInv, TypeOK
  <2> QED
    BY <2>1, <2>2 DEF Post
<1>2. PICK r \in Job : /\ jobs' = [jobs EXCEPT ![j] = r]
                       /\ r.step \in {"claim", "markFailed"}
                       /\ r.period = p
                       /\ r.step = "markFailed" => r.now = d
  <2> DEFINE ok == [jobs[j] EXCEPT !.step = "claim", !.now = Nothing]
             error == [jobs[j] EXCEPT !.step = "markFailed", !.failed = TRUE]
  <2>1. jobs' = [jobs EXCEPT ![j] = ok] \/ jobs' = [jobs EXCEPT ![j] = error]
    BY DEF Post, IInv, TypeOK
  <2>2. ok \in Job /\ ok.step = "claim" /\ ok.period = p
    BY <1>0 DEF Job
  <2>3. error \in Job /\ error.step = "markFailed" /\ error.period = p /\ error.now = d
    BY <1>0 DEF Job
  <2> HIDE DEF ok, error, p, d
  <2> QED
    BY <2>1, <2>2, <2>3
<1> HIDE DEF p, d
<1>3. TypeOK'
  BY <1>0, <1>1, <1>2 DEF IInv, TypeOK
<1>4. OneCalculation'
  BY <1>0, <1>2 DEF IInv, TypeOK, OneCalculation, Calculating
<1>5. PaysPublished'
  BY <1>0, <1>2 DEF IInv, TypeOK, PaysPublished, Paying, p
<1>6. OneClaim'
  <2>1. \A k \in Jobs \ {j} : jobs[k].step \in Claiming =>
          jobs[k].period # p \/ jobs[k].now # d
    BY <1>0 DEF IInv, OneClaim, Claiming, p, d
  <2> QED
    BY <1>0, <1>1, <1>2, <2>1 DEF IInv, TypeOK, OneClaim, Claiming, Job
<1>7. Untouched'
  BY <1>0, <1>1 DEF IInv, TypeOK, Untouched
<1>8. TriedOnce'
  BY <1>0 DEF IInv, TriedOnce
<1> QED
  BY <1>3, <1>4, <1>5, <1>6, <1>7, <1>8 DEF IInv

\* A line that failed is claimed by nobody and was tried.
LEMMA MarkItemFailedStep ==
  ASSUME IInv, NEW j \in Jobs, MarkItemFailed(j)
  PROVE  IInv'
<1> DEFINE p == jobs[j].period
           d == jobs[j].now
           r == [jobs[j] EXCEPT !.step = "claim", !.now = Nothing]
           failed == [items[p][d] EXCEPT !.status = "FAILED"]
<1>0. /\ jobs[j] \in Job /\ jobs[j].step = "markFailed" /\ p \in Periods /\ d \in Drivers
      /\ items[p][d] \in Item /\ items[p][d].status = "PAID"
      /\ UNCHANGED <<ledger, batches, attempts>>
  BY DEF MarkItemFailed, At, IInv, TypeOK, OneClaim, Claiming, Job
<1>1. jobs' = [jobs EXCEPT ![j] = r] /\ r \in Job /\ r.step = "claim" /\ r.period = p
  BY <1>0 DEF MarkItemFailed, IInv, TypeOK, Job
<1>2. /\ items' = items \/ items' = [items EXCEPT ![p][d] = failed]
      /\ failed \in Item /\ failed.status = "FAILED"
  BY <1>0, PayoutAssumption DEF MarkItemFailed, IInv, TypeOK, Item
<1>3. \A k \in Jobs \ {j} : jobs[k].step \in Claiming =>
        jobs[k].period # p \/ jobs[k].now # d
  BY <1>0 DEF IInv, OneClaim, Claiming
<1>4. /\ items' \in [Periods -> [Drivers -> Item]]
      /\ items'[p][d].status \in {"PAID", "FAILED"}
      /\ \A q \in Periods, e \in Drivers : q # p \/ e # d => items'[q][e] = items[q][e]
  <2> HIDE DEF p, d, failed
  <2>1. items \in [Periods -> [Drivers -> Item]]
    BY DEF IInv, TypeOK
  <2> QED
    BY <1>0, <1>2, <2>1
<1> HIDE DEF p, d, r, failed
<1>5. TypeOK'
  BY <1>0, <1>1, <1>4 DEF IInv, TypeOK, ledger
<1>6. OneCalculation'
  BY <1>0, <1>1 DEF IInv, TypeOK, OneCalculation, Calculating
<1>7. PaysPublished'
  BY <1>0, <1>1 DEF IInv, TypeOK, PaysPublished, Paying, p
<1>8. OneClaim'
  BY <1>0, <1>1, <1>3, <1>4 DEF IInv, TypeOK, OneClaim, Claiming, Job, ledger
<1>9. Untouched'
  BY <1>0, <1>4 DEF IInv, TypeOK, Untouched, ledger
<1>10. TriedOnce'
  BY <1>0 DEF IInv, TriedOnce
<1> QED
  BY <1>5, <1>6, <1>7, <1>8, <1>9, <1>10 DEF IInv

\* Closing a batch after the payments changes no line.
LEMMA ClosePaidStep ==
  ASSUME IInv, NEW j \in Jobs, ClosePaid(j)
  PROVE  IInv'
<1> USE PayoutAssumption DEF IInv, TypeOK, ClosePaid, At, ledger, End, JobAt
<1>1. TypeOK'
  BY DEF Job, Item, BatchStatus
<1>2. OneCalculation'
  <2>1. jobs'[j].step = "idle"
    BY DEF OneCalculation
  <2>2. \A k \in Jobs : jobs[k].step \in Calculating => jobs[k].period # jobs[j].period
    BY DEF OneCalculation, PaysPublished, Paying
  <2> QED
    BY <2>1, <2>2 DEF OneCalculation, Calculating, Job
<1>3. PaysPublished'
  BY DEF PaysPublished, Paying, Job
<1>4. OneClaim'
  BY DEF OneClaim, Claiming, Job
<1>5. Untouched'
  BY DEF Untouched
<1>6. TriedOnce'
  BY DEF TriedOnce, Untouched
<1> QED
  BY <1>1, <1>2, <1>3, <1>4, <1>5, <1>6

\* A job that dies gives nothing back: its line stays as it is.
LEMMA DieStep ==
  ASSUME IInv, NEW j \in Jobs, Die(j)
  PROVE  IInv'
<1> USE PayoutAssumption DEF IInv, TypeOK, Die, At, ledger, End, JobAt
<1>1. TypeOK'
  BY DEF Job, Item, BatchStatus
<1>2. OneCalculation'
  BY DEF OneCalculation, Calculating, Job
<1>3. PaysPublished'
  BY DEF PaysPublished, Paying, Job
<1>4. OneClaim'
  BY DEF OneClaim, Claiming, Job
<1>5. Untouched'
  BY DEF Untouched
<1>6. TriedOnce'
  BY DEF TriedOnce, Untouched
<1> QED
  BY <1>1, <1>2, <1>3, <1>4, <1>5, <1>6

\* What is credited meanwhile does not change a list.
LEMMA CreditStep ==
  ASSUME IInv, NEW d \in Drivers, Credit(d)
  PROVE  IInv'
<1> USE PayoutAssumption DEF IInv, TypeOK, Credit
<1>1. TypeOK'
  BY DEF Job, Item, BatchStatus
<1>2. OneCalculation'
  BY DEF OneCalculation, Calculating, Job
<1>3. PaysPublished'
  BY DEF PaysPublished, Paying, Job
<1>4. OneClaim'
  BY DEF OneClaim, Claiming, Job
<1>5. Untouched'
  BY DEF Untouched
<1>6. TriedOnce'
  BY DEF TriedOnce, Untouched
<1> QED
  BY <1>1, <1>2, <1>3, <1>4, <1>5, <1>6

\* Nor does what is charged.
LEMMA ChargeStep ==
  ASSUME IInv, NEW d \in Drivers, Charge(d)
  PROVE  IInv'
<1> USE PayoutAssumption DEF IInv, TypeOK, Charge
<1>1. TypeOK'
  BY DEF Job, Item, BatchStatus
<1>2. OneCalculation'
  BY DEF OneCalculation, Calculating, Job
<1>3. PaysPublished'
  BY DEF PaysPublished, Paying, Job
<1>4. OneClaim'
  BY DEF OneClaim, Claiming, Job
<1>5. Untouched'
  BY DEF Untouched
<1>6. TriedOnce'
  BY DEF TriedOnce, Untouched
<1> QED
  BY <1>1, <1>2, <1>3, <1>4, <1>5, <1>6

\* At first there is neither batch nor job.
LEMMA InitIInv == Init => IInv
<1> SUFFICES ASSUME Init PROVE IInv
  OBVIOUS
<1>1. \A j \in Jobs : jobs[j].step = "idle" /\ jobs[j] \in Job
  <2> TAKE j \in Jobs
  <2>1. PICK p \in Periods : jobs[j] = JobAt("idle", p)
    BY DEF Init
  <2> QED
    BY <2>1 DEF JobAt, Job
<1>2. TypeOK
  BY <1>1, PayoutAssumption DEF Init, TypeOK, NoItem, Item, BatchStatus
<1>3. OneCalculation /\ PaysPublished /\ OneClaim
  BY <1>1 DEF OneCalculation, PaysPublished, OneClaim, Calculating, Paying, Claiming
<1>4. Untouched /\ TriedOnce
  BY DEF Init, Untouched, TriedOnce
<1> QED
  BY <1>2, <1>3, <1>4 DEF IInv

\* Where nothing changes, everything stays.
LEMMA Stutter ==
  ASSUME IInv, UNCHANGED vars
  PROVE  IInv'
BY DEF vars, ledger, IInv, TypeOK, OneCalculation, PaysPublished, OneClaim, Untouched, TriedOnce

\* Every step keeps the invariant: the lemmas above, one by one.
LEMMA NextIInv == IInv /\ [Next]_vars => IInv'
<1> SUFFICES ASSUME IInv, [Next]_vars PROVE IInv'
  OBVIOUS
<1>1. CASE \E j \in Jobs, p \in Periods : CreateBatch(j, p) \/ Pay(j, p)
  BY <1>1, CreateBatchStep, PayStep
<1>2. CASE \E j \in Jobs : Proceed(j)
  BY <1>2, ReadBalancesStep, AddItemStep, MarkItemPaidStep, CloseCalculatedStep, ListItemsStep,
     PostStep, MarkItemFailedStep, ClosePaidStep DEF Proceed
<1>3. CASE \E j \in Jobs : Die(j)
  BY <1>3, DieStep
<1>4. CASE \E d \in Drivers : Credit(d) \/ Charge(d)
  BY <1>4, CreditStep, ChargeStep
<1>5. CASE UNCHANGED vars
  BY <1>5, Stutter
<1> QED
  BY <1>1, <1>2, <1>3, <1>4, <1>5 DEF Next

\* So it always holds, for any number of jobs of Calculate and Pay.
THEOREM SettlementInvariant == Spec => []IInv
BY InitIInv, NextIInv, PTL DEF Spec

\* The tables of a settlement keep their shape, whatever jobs run and die: what
\* the UNIQUE keys, the guards of Pay and the updates of MarkItemPaid and
\* MarkItemFailed leave in them.
THEOREM SettlementTypes == Spec => []TypeOK
BY SettlementInvariant, PTL DEF IInv

\* MarkItemPaid, with its "AND status='PENDING'", is enough for at most one
\* attempt to post a line, with any number of jobs of Calculate and Pay.
THEOREM LineTriedOnce == Spec => []TriedOnce
BY SettlementInvariant, PTL DEF IInv

-----------------------------------------------------------------------------
(***************************************************************************)
(* The refinement: closing the list is Publish, a Post that writes is      *)
(* PayOut, every other step leaves the accountant's view alone.            *)
(***************************************************************************)

\* No list is published at first.
LEMMA BookInit == Init => Book!Init
BY DEF Init, Book!Init, Listed

\* Closing the list of a period publishes it.
LEMMA Publishes ==
  ASSUME IInv, NEW j \in Jobs, CloseCalculated(j)
  PROVE  Book!Next
<1>0. PICK p \in Periods : p = jobs[j].period
  BY DEF IInv, TypeOK, Job
<1>1. /\ p \in Periods /\ batches[p] = "OPEN" /\ batches' = [batches EXCEPT ![p] = "CALCULATED"]
      /\ items' = items /\ payouts' = payouts
  BY <1>0 DEF IInv, TypeOK, OneCalculation, Calculating, CloseCalculated, At, ledger
<1>2. batches \in [Periods -> BatchStatus] /\ items \in [Periods -> [Drivers -> Item]]
  BY DEF IInv, TypeOK
<1>3. Listed(p) = Nothing
  BY <1>1 DEF Listed
<1>4. Listed(p)' \in [Drivers -> Nat]
  <2>1. batches'[p] = "CALCULATED"
    BY <1>1, <1>2
  <2>2. Listed(p)' = [d \in Drivers |-> IF items'[p][d].status = "SKIPPED" THEN 0
                                        ELSE items'[p][d].amount]
    BY <2>1 DEF Listed
  <2>3. \A d \in Drivers : items'[p][d].amount \in Nat
    BY <1>1, <1>2, PayoutAssumption DEF Item
  <2> QED
    BY <2>2, <2>3
<1>5. \A q \in Periods : q # p => Listed(q)' = Listed(q)
  <2>1. \A q \in Periods : q # p => batches'[q] = batches[q]
    BY <1>1, <1>2
  <2> QED
    BY <1>1, <2>1 DEF Listed
<1>6. Book!Publish(p)
  <2> DEFINE list == [q \in Periods |-> Listed(q)]
  <2>1. list[p] = Nothing
    BY <1>1, <1>3
  <2>2. list'[p] \in [Drivers -> Nat]
    BY <1>1, <1>4
  <2>3. \A q \in Periods : list'[q] = [list EXCEPT ![p] = list'[p]][q]
    BY <1>5
  <2>4. list' = [list EXCEPT ![p] = list'[p]]
    BY <2>3
  <2> QED
    BY <1>1, <2>1, <2>2, <2>4 DEF Book!Publish
<1> QED
  BY <1>1, <1>6 DEF Book!Next

\* A posting pays out a line of a published list, or nothing.
LEMMA PaysOut ==
  ASSUME IInv, NEW j \in Jobs, Post(j)
  PROVE  Book!Next \/ UNCHANGED Book!vars
<1> DEFINE p == jobs[j].period
           d == jobs[j].now
<1>1. /\ p \in Periods /\ d \in Drivers /\ batches[p] \notin {"NONE", "OPEN"}
      /\ items[p][d].status = "PAID" /\ payouts[p][d] = 0
      /\ UNCHANGED <<batches, items, attempts>>
  BY DEF IInv, TypeOK, PaysPublished, Paying, OneClaim, Claiming, Post, At, Job
<1>2. items[p][d].amount \in Nat /\ items[p][d].amount > 0
  BY <1>1, PayoutAssumption DEF IInv, TypeOK, Item
<1>3. payouts \in [Periods -> [Drivers -> Nat]]
  BY DEF IInv, TypeOK
<1>4. PostOnce(p, d) \/ UNCHANGED ledger
  BY DEF Post
<1> HIDE DEF p, d
<1>5. \A q \in Periods : Listed(q)' = Listed(q)
  BY <1>1 DEF Listed
<1>6. Listed(p) # Nothing /\ Listed(p)[d] = items[p][d].amount
  <2>1. Listed(p) = [e \in Drivers |-> IF items[p][e].status = "SKIPPED" THEN 0
                                       ELSE items[p][e].amount]
    BY <1>1 DEF Listed
  <2>2. \A e \in Drivers : items[p][e].amount \in Nat
    BY <1>1, PayoutAssumption DEF IInv, TypeOK, Item
  <2>3. Listed(p) \in [Drivers -> Nat]
    BY <2>1, <2>2
  <2> QED
    BY <1>1, <2>1, <2>3, PayoutAssumption
<1>7. CASE PostOnce(p, d)
  <2>1. payouts[p][d] + items[p][d].amount = items[p][d].amount
    BY <1>1, <1>2
  <2>2. payouts' = [payouts EXCEPT ![p][d] = payouts[p][d] + items[p][d].amount]
    BY <1>1, <1>7 DEF PostOnce
  <2>3. payouts' = [payouts EXCEPT ![p][d] = Listed(p)[d]]
    BY <1>6, <2>1, <2>2
  <2>4. Book!PayOut(p, d)
    BY <1>1, <1>2, <1>5, <1>6, <2>3 DEF Book!PayOut
  <2> QED
    BY <1>1, <2>4 DEF Book!Next
<1>8. CASE UNCHANGED ledger
  BY <1>5, <1>8 DEF Book!vars, ledger
<1> QED
  BY <1>4, <1>7, <1>8

\* What the view does not see: the status of an open list, of a closed one, and
\* whether a line that is not SKIPPED has been claimed.
LEMMA Unseen ==
  ASSUME \A q \in Periods : batches'[q] \in {"NONE", "OPEN"} <=> batches[q] \in {"NONE", "OPEN"},
         \A q \in Periods : batches[q] \in {"NONE", "OPEN"} \/
           \A e \in Drivers :
             /\ items'[q][e].amount = items[q][e].amount
             /\ items'[q][e].status = "SKIPPED" <=> items[q][e].status = "SKIPPED",
         payouts' = payouts
  PROVE  UNCHANGED Book!vars
<1>1. ASSUME NEW q \in Periods PROVE Listed(q)' = Listed(q)
  <2>1. CASE batches[q] \in {"NONE", "OPEN"}
    BY <2>1 DEF Listed
  <2>2. CASE batches[q] \notin {"NONE", "OPEN"}
    <3>1. \A e \in Drivers :
            (IF items'[q][e].status = "SKIPPED" THEN 0 ELSE items'[q][e].amount)
            = (IF items[q][e].status = "SKIPPED" THEN 0 ELSE items[q][e].amount)
      <4> TAKE e \in Drivers
      <4>1. items'[q][e].amount = items[q][e].amount
        BY <2>2
      <4>2. items'[q][e].status = "SKIPPED" <=> items[q][e].status = "SKIPPED"
        BY <2>2
      <4> QED
        BY <4>1, <4>2
    <3>2. Listed(q) = [e \in Drivers |-> IF items[q][e].status = "SKIPPED" THEN 0
                                         ELSE items[q][e].amount]
      BY <2>2 DEF Listed
    <3>3. Listed(q)' = [e \in Drivers |-> IF items'[q][e].status = "SKIPPED" THEN 0
                                          ELSE items'[q][e].amount]
      BY <2>2 DEF Listed
    <3> QED
      BY <3>1, <3>2, <3>3
  <2> QED
    BY <2>1, <2>2
<1> QED
  BY <1>1 DEF Book!vars

\* The accountant sees no line of a list that is not closed.
LEMMA AddItemUnseen ==
  ASSUME IInv, NEW j \in Jobs, NEW d \in Drivers, AddItem(j, d)
  PROVE  UNCHANGED Book!vars
<1>1. batches[jobs[j].period] = "OPEN" /\ batches' = batches /\ payouts' = payouts
  BY DEF IInv, OneCalculation, Calculating, AddItem, At, ledger
<1>2. \A q \in Periods : q # jobs[j].period => items'[q] = items[q]
  BY DEF AddItem, IInv, TypeOK
<1> QED
  BY <1>1, <1>2, Unseen

\* Nor whether a line is claimed, unless it becomes SKIPPED.
LEMMA MarkUnseen ==
  ASSUME IInv, NEW q \in Periods, NEW e \in Drivers, NEW st, st # "SKIPPED",
         items[q][e].status # "SKIPPED",
         items' = [items EXCEPT ![q][e].status = st],
         batches' = batches, payouts' = payouts
  PROVE  UNCHANGED Book!vars
<1>1. items[q][e] \in Item /\ items \in [Periods -> [Drivers -> Item]]
  BY DEF IInv, TypeOK
<1> DEFINE marked == [items[q][e] EXCEPT !.status = st]
<1>2. marked.amount = items[q][e].amount /\ marked.status = st
  BY <1>1 DEF Item
<1>3. items' = [items EXCEPT ![q][e] = marked]
  BY <1>1
<1> HIDE DEF marked
<1>4. items'[q][e] = marked
  BY <1>1, <1>3
<1>5. \A u \in Periods, v \in Drivers : u # q \/ v # e => items'[u][v] = items[u][v]
  BY <1>1, <1>3
<1>6. ASSUME NEW u \in Periods, NEW v \in Drivers
      PROVE  /\ items'[u][v].amount = items[u][v].amount
             /\ items'[u][v].status = "SKIPPED" <=> items[u][v].status = "SKIPPED"
  BY <1>2, <1>4, <1>5
<1> QED
  BY <1>6, Unseen

\* Claiming a line is not seen.
LEMMA MarkItemPaidUnseen ==
  ASSUME IInv, NEW j \in Jobs, NEW d \in Drivers, MarkItemPaid(j, d)
  PROVE  UNCHANGED Book!vars
<1>1. jobs[j].period \in Periods /\ batches' = batches /\ payouts' = payouts
  BY DEF IInv, TypeOK, Job, MarkItemPaid, ledger
<1>2. CASE items' = items
  BY <1>1, <1>2, Unseen
<1>3. CASE items' # items
  <2>1. /\ items[jobs[j].period][d].status = "PENDING"
        /\ items' = [items EXCEPT ![jobs[j].period][d].status = "PAID"]
    BY <1>3 DEF MarkItemPaid
  <2> QED
    BY <1>1, <2>1, MarkUnseen
<1> QED
  BY <1>2, <1>3

\* Giving it up is not seen.
LEMMA MarkItemFailedUnseen ==
  ASSUME IInv, NEW j \in Jobs, MarkItemFailed(j)
  PROVE  UNCHANGED Book!vars
<1>1. /\ jobs[j].period \in Periods /\ jobs[j].now \in Drivers
      /\ items[jobs[j].period][jobs[j].now].status = "PAID"
      /\ batches' = batches /\ payouts' = payouts
  BY DEF IInv, TypeOK, Job, OneClaim, Claiming, At, MarkItemFailed, ledger
<1>2. CASE items' = items
  BY <1>1, <1>2, Unseen
<1>3. CASE items' = [items EXCEPT ![jobs[j].period][jobs[j].now].status = "FAILED"]
  BY <1>1, <1>3, MarkUnseen
<1> QED
  BY <1>2, <1>3 DEF MarkItemFailed

\* Every step is one of the book, or not seen there.
LEMMA BookStep == IInv /\ [Next]_vars => [Book!Next]_(Book!vars)
<1> SUFFICES ASSUME IInv, [Next]_vars PROVE Book!Next \/ UNCHANGED Book!vars
  OBVIOUS
<1>1. ASSUME NEW j \in Jobs, NEW p \in Periods, CreateBatch(j, p) \/ Pay(j, p)
      PROVE  UNCHANGED Book!vars
  <2>1. items' = items /\ payouts' = payouts
    BY <1>1 DEF CreateBatch, Pay, ledger
  <2>2. \A q \in Periods : batches'[q] \in {"NONE", "OPEN"} <=> batches[q] \in {"NONE", "OPEN"}
    BY <1>1 DEF CreateBatch, Pay, IInv, TypeOK
  <2> QED
    BY <2>1, <2>2, Unseen
<1>2. ASSUME NEW j \in Jobs, ReadBalances(j) \/ ListItems(j) \/ Die(j)
      PROVE  UNCHANGED Book!vars
  <2>1. items' = items /\ payouts' = payouts /\ batches' = batches
    BY <1>2 DEF ReadBalances, ListItems, Die, ledger
  <2> QED
    BY <2>1, Unseen
<1>3. ASSUME NEW j \in Jobs, ClosePaid(j)
      PROVE  UNCHANGED Book!vars
  <2>1. /\ items' = items /\ payouts' = payouts
        /\ batches[jobs[j].period] \notin {"NONE", "OPEN"}
        /\ batches' = [batches EXCEPT ![jobs[j].period] = IF jobs[j].failed THEN "FAILED" ELSE "PAID"]
    BY <1>3 DEF ClosePaid, ledger, At, IInv, PaysPublished, Paying
  <2>2. batches \in [Periods -> BatchStatus]
    BY DEF IInv, TypeOK
  <2>3. \A q \in Periods : batches'[q] \in {"NONE", "OPEN"} <=> batches[q] \in {"NONE", "OPEN"}
    BY <2>1, <2>2
  <2> QED
    BY <2>1, <2>3, Unseen
<1>4. ASSUME NEW d \in Drivers, Credit(d) \/ Charge(d)
      PROVE  UNCHANGED Book!vars
  BY <1>4, Unseen DEF Credit, Charge
<1>5. ASSUME UNCHANGED vars PROVE UNCHANGED Book!vars
  BY <1>5, Unseen DEF vars, ledger
<1>6. ASSUME NEW j \in Jobs, Proceed(j) PROVE Book!Next \/ UNCHANGED Book!vars
  BY <1>2, <1>3, <1>6, Publishes, PaysOut, AddItemUnseen, MarkItemPaidUnseen,
     MarkItemFailedUnseen DEF Proceed
<1> QED
  BY <1>1, <1>2, <1>4, <1>5, <1>6 DEF Next

\* Whatever jobs run at once or are killed, a list is published once and as a
\* whole, and money leaves only for its lines, each once and for its amount:
\* Calculate and Pay need no transaction around their loops for that.
THEOREM SettlementImplementsBook == Spec => ImplementsBook
<1>1. Init => Book!Init
  BY BookInit
<1>2. IInv /\ [Next]_vars => [Book!Next]_(Book!vars)
  BY BookStep
<1> QED
  BY <1>1, <1>2, SettlementInvariant, PTL DEF Spec, ImplementsBook, Book!Spec
===============================================================================
