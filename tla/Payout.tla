-------------------------------- MODULE Payout --------------------------------
(***************************************************************************)
(* internal/wallet/settlement.go: Calculate fixes what each driver gets    *)
(* for a period, Pay moves the money.  Both are loops of single SQL        *)
(* statements with no transaction around them, started by hand or by a     *)
(* scheduler, possibly twice at once, and killed anywhere.  Meanwhile the  *)
(* ledger goes on changing.                                                *)
(*                                                                         *)
(* A batch is named by its period (UNIQUE (period_start, period_end)), an  *)
(* item by its batch and driver (UNIQUE (batch_id, driver_id)), a payout   *)
(* transaction by the same two (its tx_id).                                *)
(***************************************************************************)
EXTENDS Integers, FiniteSetsExt

CONSTANTS
  Periods,      \* periods that have ended; they may overlap
  Drivers,
  Jobs,         \* runs of Calculate and Pay at the same time
  MinPayout,
  MaxCredit,    \* bound: credits per driver
  MaxCharge,    \* bound: charges per driver
  Nothing

ASSUME PayoutAssumption ==
  /\ MinPayout \in Nat \ {0}
  /\ MaxCredit \in Nat
  /\ MaxCharge \in Nat
  /\ Nothing \notin Drivers
  /\ Nothing \notin [Drivers -> Nat]

VARIABLES
  credited,   \* driver -> sum of the credits of DRIVER_WALLET
  charged,    \* driver -> sum of its debits that are not payouts
  wallet,     \* driver -> SUM(amount_vnd) of DRIVER_WALLET, payouts included
  batches,    \* period -> status in settlement_batches
  items,      \* period -> driver -> row in settlement_items
  payouts,    \* period -> driver -> amount posted by its transaction, or 0
  attempts,   \* period -> driver -> how often Pay tried to post it (ghost)
  jobs        \* job -> where it stands

ledger == <<credited, charged, wallet, payouts>>

vars == <<ledger, batches, items, attempts, jobs>>

-------------------------------------------------------------------------------
BatchStatus == {"NONE", "OPEN", "CALCULATED", "PAID", "FAILED"}

\* A line below the threshold is on record as SKIPPED; the others are to be paid.
Item == [status : {"NONE"}, amount : {0}]
   \cup [status : {"SKIPPED"}, amount : 1 .. (MinPayout - 1)]
   \cup [status : {"PENDING", "PAID", "FAILED"}, amount : {n \in Nat : n >= MinPayout}]

\* The period of an idle job says nothing.
\* `due': the balances Calculate read and has not turned into items yet;
\* `left': the lines Pay read as PENDING and has not tried yet.
Job == [ step   : {"idle", "balances", "add", "list", "claim", "post", "markFailed"},
         period : Periods,
         due    : [Drivers -> Nat],
         left   : SUBSET Drivers,
         now    : Drivers \cup {Nothing},
         failed : BOOLEAN ]

JobAt(step, p) ==
  [ step |-> step, period |-> p, due |-> [d \in Drivers |-> 0],
    left |-> {}, now |-> Nothing, failed |-> FALSE ]

At(j, step) == jobs[j].step = step

NoItem == [status |-> "NONE", amount |-> 0]

Init ==
  /\ credited = [d \in Drivers |-> 0]
  /\ charged  = [d \in Drivers |-> 0]
  /\ wallet   = [d \in Drivers |-> 0]
  /\ batches  = [p \in Periods |-> "NONE"]
  /\ items    = [p \in Periods |-> [d \in Drivers |-> NoItem]]
  /\ payouts  = [p \in Periods |-> [d \in Drivers |-> 0]]
  /\ attempts = [p \in Periods |-> [d \in Drivers |-> 0]]
  /\ jobs \in [Jobs -> {JobAt("idle", p) : p \in Periods}]

Begin(j, p, step) ==
  /\ At(j, "idle")
  /\ jobs' = [jobs EXCEPT ![j] = JobAt(step, p)]

End(j) == jobs' = [jobs EXCEPT ![j] = JobAt("idle", jobs[j].period)]

-------------------------------------------------------------------------------
(* Calculate.                                                              *)

\* Mutant: a batch that was left OPEN is taken up again.
CreateBatchAgain(j, p) ==
  /\ batches[p] \in {"NONE", "OPEN"}
  /\ batches' = [batches EXCEPT ![p] = "OPEN"]
  /\ Begin(j, p, "balances")
  /\ UNCHANGED <<ledger, items, attempts>>

\* A period that has a batch already, whatever its status, gets no other one:
\* the job returns that batch, changing nothing.
CreateBatch(j, p) ==
  /\ batches[p] = "NONE"
  /\ batches' = [batches EXCEPT ![p] = "OPEN"]
  /\ Begin(j, p, "balances")
  /\ UNCHANGED <<ledger, items, attempts>>

\* DriversWithBalance(1): the whole balance, whatever the period.
ReadBalances(j) ==
  /\ At(j, "balances")
  /\ jobs' = [jobs EXCEPT ![j].step = "add",
       ![j].due = [d \in Drivers |-> IF wallet[d] >= 1 THEN wallet[d] ELSE 0]]
  /\ UNCHANGED <<ledger, batches, items, attempts>>

\* Mutant: "bal <= minPayout".
StatusAtMost(amount) == IF amount <= MinPayout THEN "SKIPPED" ELSE "PENDING"

StatusOf(amount) == IF amount < MinPayout THEN "SKIPPED" ELSE "PENDING"

AddItem(j, d) ==
  LET p == jobs[j].period
      b == jobs[j].due[d]
  IN  /\ At(j, "add")
      /\ b > 0
      /\ items' = IF items[p][d] = NoItem
                  THEN [items EXCEPT ![p][d] = [status |-> StatusOf(b), amount |-> b]]
                  ELSE items
      /\ jobs' = [jobs EXCEPT ![j].due[d] = 0]
      /\ UNCHANGED <<ledger, batches, attempts>>

CloseCalculated(j) ==
  /\ At(j, "add")
  /\ \A d \in Drivers : jobs[j].due[d] = 0
  /\ batches' = [batches EXCEPT ![jobs[j].period] = "CALCULATED"]
  /\ End(j)
  /\ UNCHANGED <<ledger, items, attempts>>

-------------------------------------------------------------------------------
(* Pay.                                                                    *)

Pay(j, p) ==
  /\ batches[p] \in {"CALCULATED", "PAID"}
  /\ Begin(j, p, "list")
  /\ UNCHANGED <<ledger, batches, items, attempts>>

ListItems(j) ==
  /\ At(j, "list")
  /\ jobs' = [jobs EXCEPT ![j].step = "claim",
       ![j].left = {d \in Drivers : items[jobs[j].period][d].status = "PENDING"}]
  /\ UNCHANGED <<ledger, batches, items, attempts>>

\* Mutant: UPDATE without "AND status='PENDING'".
MarkItemPaidAnyway(j, d) ==
  LET p == jobs[j].period
  IN  /\ At(j, "claim")
      /\ d \in jobs[j].left
      /\ items' = [items EXCEPT ![p][d].status = "PAID"]
      /\ attempts' = [attempts EXCEPT ![p][d] = @ + 1]
      /\ jobs' = [jobs EXCEPT ![j].step = "post", ![j].left = @ \ {d}, ![j].now = d]
      /\ UNCHANGED <<ledger, batches>>

\* Win the line, or leave it to whoever has it.
MarkItemPaid(j, d) ==
  LET p == jobs[j].period
  IN  /\ At(j, "claim")
      /\ d \in jobs[j].left
      /\ \/ /\ items[p][d].status = "PENDING"
            /\ items' = [items EXCEPT ![p][d].status = "PAID"]
            /\ attempts' = [attempts EXCEPT ![p][d] = @ + 1]
            /\ jobs' = [jobs EXCEPT ![j].step = "post", ![j].left = @ \ {d}, ![j].now = d]
         \/ /\ items[p][d].status # "PENDING"
            /\ jobs' = [jobs EXCEPT ![j].left = @ \ {d}]
            /\ UNCHANGED <<items, attempts>>
      /\ UNCHANGED <<ledger, batches>>

\* Post ignores a tx_id it has.
PostOnce(p, d) ==
  LET amount == IF payouts[p][d] = 0 THEN items[p][d].amount ELSE 0
  IN  /\ payouts' = [payouts EXCEPT ![p][d] = @ + amount]
      /\ wallet' = [wallet EXCEPT ![d] = @ - amount]
      /\ UNCHANGED <<credited, charged>>

\* An error leaves nothing behind, or everything when it is the answer to
\* COMMIT that was lost.
Post(j) ==
  /\ At(j, "post")
  /\ \/ /\ PostOnce(jobs[j].period, jobs[j].now)
        /\ jobs' = [jobs EXCEPT ![j].step = "claim", ![j].now = Nothing]
     \/ /\ PostOnce(jobs[j].period, jobs[j].now) \/ UNCHANGED ledger
        /\ jobs' = [jobs EXCEPT ![j].step = "markFailed", ![j].failed = TRUE]
  /\ UNCHANGED <<batches, items, attempts>>

\* Its own error is ignored.
MarkItemFailed(j) ==
  LET p == jobs[j].period
      d == jobs[j].now
  IN  /\ At(j, "markFailed")
      /\ items' \in {items, [items EXCEPT ![p][d].status = "FAILED"]}
      /\ jobs' = [jobs EXCEPT ![j].step = "claim", ![j].now = Nothing]
      /\ UNCHANGED <<ledger, batches, attempts>>

ClosePaid(j) ==
  /\ At(j, "claim")
  /\ jobs[j].left = {}
  /\ batches' = [batches EXCEPT ![jobs[j].period] =
                   IF jobs[j].failed THEN "FAILED" ELSE "PAID"]
  /\ End(j)
  /\ UNCHANGED <<ledger, items, attempts>>

-------------------------------------------------------------------------------
\* A database error or a kill, at any step.
Die(j) ==
  /\ ~At(j, "idle")
  /\ End(j)
  /\ UNCHANGED <<ledger, batches, items, attempts>>

\* The rest of the ledger: a trip is settled; a commission or a refund is
\* charged, below zero if need be.
Credit(d) ==
  /\ credited[d] < MaxCredit
  /\ credited' = [credited EXCEPT ![d] = @ + 1]
  /\ wallet' = [wallet EXCEPT ![d] = @ + 1]
  /\ UNCHANGED <<charged, payouts, batches, items, attempts, jobs>>

Charge(d) ==
  /\ charged[d] < MaxCharge
  /\ charged' = [charged EXCEPT ![d] = @ + 1]
  /\ wallet' = [wallet EXCEPT ![d] = @ - 1]
  /\ UNCHANGED <<credited, payouts, batches, items, attempts, jobs>>

Proceed(j) ==
  \/ ReadBalances(j)
  \/ \E d \in Drivers : AddItem(j, d) \/ MarkItemPaid(j, d)
  \/ CloseCalculated(j)
  \/ ListItems(j)
  \/ Post(j)
  \/ MarkItemFailed(j)
  \/ ClosePaid(j)

Next ==
  \/ \E j \in Jobs :
       \/ \E p \in Periods : CreateBatch(j, p) \/ Pay(j, p)
       \/ Proceed(j)
       \/ Die(j)
  \/ \E d \in Drivers : Credit(d) \/ Charge(d)

Spec == Init /\ [][Next]_vars

-------------------------------------------------------------------------------
(* Properties.                                                             *)

\* The shape of the tables and jobs; a line says SKIPPED exactly when it is
\* below the threshold.
TypeOK ==
  /\ credited \in [Drivers -> 0 .. MaxCredit]
  /\ charged \in [Drivers -> 0 .. MaxCharge]
  /\ wallet \in [Drivers -> Int]
  /\ batches \in [Periods -> BatchStatus]
  /\ items \in [Periods -> [Drivers -> Item]]
  /\ payouts \in [Periods -> [Drivers -> Nat]]
  /\ attempts \in [Periods -> [Drivers -> Nat]]
  /\ jobs \in [Jobs -> Job]

\* The first of the three layers that keep a line from being paid twice, without
\* help from the ledger's tx_id: no two jobs, at once or one after the other,
\* try to post the same line.
TriedOnce == \A p \in Periods, d \in Drivers : attempts[p][d] <= 1

\* The accountant's view: what is published does not change behind the back of
\* the person who reviews it, and what leaves is what was published.
Listed(p) ==
  IF batches[p] \in {"NONE", "OPEN"} THEN Nothing
  ELSE [d \in Drivers |-> IF items[p][d].status = "SKIPPED" THEN 0 ELSE items[p][d].amount]

Book == INSTANCE PayoutBook WITH
  list <- [p \in Periods |-> Listed(p)], paid <- payouts

ImplementsBook == Book!Spec

\* "Running it twice does not pay twice" (the comment on Settlement): a driver
\* is never paid more than was credited.
PaidOut(d) == MapThenSumSet(LAMBDA p : payouts[p][d], Periods)

NotPaidTwice == \A d \in Drivers : PaidOut(d) <= credited[d]
===============================================================================
