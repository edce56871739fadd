-------------------------------- MODULE Ledger --------------------------------
(***************************************************************************)
(* The money of trips that have ended: the consumers of trip.completed,    *)
(* trip.cancelled and wallet.balance_changed (internal/app/workers.go) and *)
(* the postings they make (internal/wallet/service.go).  A handler is a    *)
(* sequence of statements on different tables without a transaction around *)
(* them; it may fail or be killed between any two, and is then delivered   *)
(* again, MaxDeliver times in all.  Pods run handlers at the same time,    *)
(* also two of the same trip, because an outbox row may be published more  *)
(* than once.                                                              *)
(*                                                                         *)
(* All trips are of one driver, whose wallet and counters are the state    *)
(* that handlers of different trips share.                                 *)
(***************************************************************************)
EXTENDS Integers

CONSTANTS
  Trips,
  Workers,      \* consumer callbacks running at the same time
  Copies,       \* how often an outbox row may be published
  TripFare, Fee, Tax, CancelFee,  \* Tax = 0: not withheld
  MaxDeliver,   \* deliveries of one message
  MaxHandlerFaults, \* bound: handlers that fail, announcements that get lost
  Nil

ASSUME LedgerAssumption ==
  /\ TripFare \in Nat /\ Fee \in Nat /\ Tax \in Nat /\ CancelFee \in Nat
  /\ MaxDeliver \in Nat \ {0} /\ MaxHandlerFaults \in Nat
  /\ Nil \notin Trips /\ Nil \notin Copies

VARIABLES
  trips,      \* trip -> what its row says, as far as money is concerned
  cash,       \* trip -> paid in cash, or through the gateway or the rider's wallet
  messages,   \* trip -> copy -> the message that says how it ended
  transactions,  \* ledger_transactions: kind of posting and trip
  wallet,     \* SUM(amount_vnd) of the driver's DRIVER_WALLET
  completed,  \* trip -> how often it was added to drivers.completed_trips
  cancelled,  \* trip -> how often it was added to drivers.trips_cancelled
  cached,     \* drivers.wallet_balance
  news,       \* wallet.balance_changed messages not handled yet
  workers,    \* worker -> where its handler stands
  handlerFaults

rows == <<trips, cash>>
ledger == <<transactions, wallet>>
stats == <<completed, cancelled>>
ledgerVars == <<rows, messages, ledger, stats, cached, news, workers, handlerFaults>>

-------------------------------------------------------------------------------
TripStatus == {"ACTIVE", "COMPLETED", "PAID", "CANCELLED_LATE", "CANCELLED_BY_DRIVER"}

Message == [ state : {"none", "ready", "taken", "acked", "dead"},
             tries : 0 .. MaxDeliver ]

Transactions == {"trip", "tax", "cancel"} \X Trips

SettleSteps == {"exists", "post", "tax", "announce", "markPaid", "stats"}
CancelSteps == {"existsFee", "postFee", "announceFee", "statsCancelled"}

Worker == [ step : SettleSteps \cup CancelSteps \cup {"idle", "sync", "read", "write"},
            trip : Trips \cup {Nil},
            copy : Copies \cup {Nil},
            sum  : Int ]

IdleWorker == [step |-> "idle", trip |-> Nil, copy |-> Nil, sum |-> 0]

LedgerInit ==
  /\ trips     = [t \in Trips |-> "ACTIVE"]
  /\ cash \in [Trips -> BOOLEAN]
  /\ messages  = [t \in Trips |-> [c \in Copies |-> [state |-> "none", tries |-> 0]]]
  /\ transactions = {}
  /\ wallet    = 0
  /\ completed = [t \in Trips |-> 0]
  /\ cancelled = [t \in Trips |-> 0]
  /\ cached    = 0
  /\ news      = 0
  /\ workers   = [w \in Workers |-> IdleWorker]
  /\ handlerFaults = 0

HandlerAt(w, step) == workers[w].step = step

HandlerGoes(w, step) == workers' = [workers EXCEPT ![w].step = step]

\* The trip ends, and the relay publishes what the outbox says of it.
Finish(t) ==
  /\ trips[t] = "ACTIVE"
  /\ \E end \in {"COMPLETED", "CANCELLED_LATE", "CANCELLED_BY_DRIVER"} :
       trips' = [trips EXCEPT ![t] = end]
  /\ \E sent \in SUBSET Copies \ {{}} :
       messages' = [messages EXCEPT ![t] =
         [c \in Copies |-> [state |-> IF c \in sent THEN "ready" ELSE "none", tries |-> 0]]]
  /\ UNCHANGED <<cash, ledger, stats, cached, news, workers, handlerFaults>>

\* A late cancellation by the rider costs a fee, one by the driver counts.
FirstStep(t) ==
  IF trips[t] = "CANCELLED_LATE" THEN "existsFee"
  ELSE IF trips[t] = "CANCELLED_BY_DRIVER" THEN "statsCancelled"
  ELSE "exists"

Take(w, t, c) ==
  /\ HandlerAt(w, "idle")
  /\ messages[t][c].state = "ready"
  /\ messages' = [messages EXCEPT ![t][c] = [state |-> "taken", tries |-> @.tries + 1]]
  /\ workers' = [workers EXCEPT ![w] =
       [step |-> FirstStep(t), trip |-> t, copy |-> c, sum |-> 0]]
  /\ UNCHANGED <<rows, ledger, stats, cached, news, handlerFaults>>

-------------------------------------------------------------------------------
(* The ledger.                                                             *)

Posted(kind, t) == <<kind, t>> \in transactions

\* PostgresLedger.Post ignores a tx_id that it has.
PostOnce(kind, t, amount) ==
  /\ transactions' = transactions \cup {<<kind, t>>}
  /\ wallet' = IF Posted(kind, t) THEN wallet ELSE wallet + amount

\* Cash is in the driver's hands already: the wallet only owes the commission.
Earning(t) == IF cash[t] THEN -Fee ELSE TripFare - Fee

-------------------------------------------------------------------------------
(* trip.completed: SettleTrip or SettleWalletTrip, MarkPaid, statistics.   *)

\* Mutant: a trip that is in the ledger needs nothing more.
ExistsAndDone(w) ==
  /\ HandlerAt(w, "exists")
  /\ HandlerGoes(w, IF Posted("trip", workers[w].trip) THEN "sync" ELSE "post")
  /\ UNCHANGED <<rows, messages, ledger, stats, cached, news, handlerFaults>>

\* The early return skips the tax and the announcement, too.
Exists(w) ==
  /\ HandlerAt(w, "exists")
  /\ HandlerGoes(w, IF Posted("trip", workers[w].trip) THEN "markPaid" ELSE "post")
  /\ UNCHANGED <<rows, messages, ledger, stats, cached, news, handlerFaults>>

\* Mutant: an error of the ledger is logged and the handler goes on.
PostOrLog(w) ==
  LET t == workers[w].trip
  IN  /\ HandlerAt(w, "post")
      /\ \/ PostOnce("trip", t, Earning(t))
         \/ UNCHANGED ledger
      /\ HandlerGoes(w, IF Tax > 0 THEN "tax" ELSE "announce")
      /\ UNCHANGED <<rows, messages, stats, cached, news, handlerFaults>>

PostTrip(w) ==
  LET t == workers[w].trip
  IN  /\ HandlerAt(w, "post")
      /\ PostOnce("trip", t, Earning(t))
      /\ HandlerGoes(w, IF Tax > 0 THEN "tax" ELSE "announce")
      /\ UNCHANGED <<rows, messages, stats, cached, news, handlerFaults>>

PostTax(w) ==
  /\ HandlerAt(w, "tax")
  /\ PostOnce("tax", workers[w].trip, -Tax)
  /\ HandlerGoes(w, "announce")
  /\ UNCHANGED <<rows, messages, stats, cached, news, handlerFaults>>

\* Not through the outbox, and an error is ignored.
Publish ==
  \/ news' = news + 1 /\ UNCHANGED handlerFaults
  \/ handlerFaults < MaxHandlerFaults /\ handlerFaults' = handlerFaults + 1 /\ UNCHANGED news

Announce(w) ==
  /\ HandlerAt(w, "announce")
  /\ Publish
  /\ HandlerGoes(w, "markPaid")
  /\ UNCHANGED <<rows, messages, ledger, stats, cached>>

\* Mutant: PAID again is no error.
MarkPaidAgain(w) ==
  LET t == workers[w].trip
  IN  /\ HandlerAt(w, "markPaid")
      /\ trips[t] \in {"COMPLETED", "PAID"}
      /\ trips' = [trips EXCEPT ![t] = "PAID"]
      /\ HandlerGoes(w, "stats")
      /\ UNCHANGED <<cash, messages, ledger, stats, cached, news, handlerFaults>>

\* A stale read loses the version check of Save, so reading and writing are one step.
MarkPaid(w) ==
  LET t == workers[w].trip
  IN  /\ HandlerAt(w, "markPaid")
      /\ trips[t] = "COMPLETED"
      /\ trips' = [trips EXCEPT ![t] = "PAID"]
      /\ HandlerGoes(w, "stats")
      /\ UNCHANGED <<cash, messages, ledger, stats, cached, news, handlerFaults>>

CountCompleted(w) ==
  /\ HandlerAt(w, "stats")
  /\ completed' = [completed EXCEPT ![workers[w].trip] = @ + 1]
  /\ HandlerGoes(w, "sync")
  /\ UNCHANGED <<rows, messages, ledger, cancelled, cached, news, handlerFaults>>

-------------------------------------------------------------------------------
(* trip.cancelled: PostCancelFee, or the statistics of the driver.         *)

ExistsFee(w) ==
  /\ HandlerAt(w, "existsFee")
  /\ HandlerGoes(w, IF Posted("cancel", workers[w].trip) THEN "sync" ELSE "postFee")
  /\ UNCHANGED <<rows, messages, ledger, stats, cached, news, handlerFaults>>

PostFee(w) ==
  /\ HandlerAt(w, "postFee")
  /\ PostOnce("cancel", workers[w].trip, CancelFee)
  /\ HandlerGoes(w, "announceFee")
  /\ UNCHANGED <<rows, messages, stats, cached, news, handlerFaults>>

AnnounceFee(w) ==
  /\ HandlerAt(w, "announceFee")
  /\ Publish
  /\ HandlerGoes(w, "sync")
  /\ UNCHANGED <<rows, messages, ledger, stats, cached>>

CountCancelled(w) ==
  /\ HandlerAt(w, "statsCancelled")
  /\ cancelled' = [cancelled EXCEPT ![workers[w].trip] = @ + 1]
  /\ HandlerGoes(w, "sync")
  /\ UNCHANGED <<rows, messages, ledger, completed, cached, news, handlerFaults>>

-------------------------------------------------------------------------------
(* The end of a delivery.                                                  *)

\* syncDriverStatus is DriverStatus's subject; then the message is acknowledged.
Ack(w) ==
  /\ HandlerAt(w, "sync")
  /\ messages' = [messages EXCEPT ![workers[w].trip][workers[w].copy].state = "acked"]
  /\ workers' = [workers EXCEPT ![w] = IdleWorker]
  /\ UNCHANGED <<rows, ledger, stats, cached, news, handlerFaults>>

\* Mutant: one delivery too many.
NakOnceMore(w) ==
  /\ messages' = [messages EXCEPT ![workers[w].trip][workers[w].copy].state =
       IF messages[workers[w].trip][workers[w].copy].tries <= MaxDeliver THEN "ready" ELSE "dead"]
  /\ workers' = [workers EXCEPT ![w] = IdleWorker]

\* Delivered again, or given up.
Nak(w) ==
  /\ messages' = [messages EXCEPT ![workers[w].trip][workers[w].copy].state =
       IF messages[workers[w].trip][workers[w].copy].tries < MaxDeliver THEN "ready" ELSE "dead"]
  /\ workers' = [workers EXCEPT ![w] = IdleWorker]

\* The transition table refuses: the handler returns the error.
PaidAlready(w) ==
  /\ HandlerAt(w, "markPaid")
  /\ trips[workers[w].trip] # "COMPLETED"
  /\ Nak(w)
  /\ UNCHANGED <<rows, ledger, stats, cached, news, handlerFaults>>

\* A database error, a killed pod, a timeout, a lost acknowledgement.
HandlerFails(w) ==
  /\ workers[w].step \in SettleSteps \cup CancelSteps \cup {"sync"}
  /\ handlerFaults < MaxHandlerFaults
  /\ handlerFaults' = handlerFaults + 1
  /\ Nak(w)
  /\ UNCHANGED <<rows, ledger, stats, cached, news>>

-------------------------------------------------------------------------------
(* wallet.balance_changed: read the sum, then write it to the driver's row. *)

TakeNews(w) ==
  /\ HandlerAt(w, "idle")
  /\ news > 0
  /\ news' = news - 1
  /\ HandlerGoes(w, "read")
  /\ UNCHANGED <<rows, messages, ledger, stats, cached, handlerFaults>>

ReadBalance(w) ==
  /\ HandlerAt(w, "read")
  /\ workers' = [workers EXCEPT ![w].step = "write", ![w].sum = wallet]
  /\ UNCHANGED <<rows, messages, ledger, stats, cached, news, handlerFaults>>

SyncWalletBalance(w) ==
  /\ HandlerAt(w, "write")
  /\ cached' = workers[w].sum
  /\ workers' = [workers EXCEPT ![w] = IdleWorker]
  /\ UNCHANGED <<rows, messages, ledger, stats, news, handlerFaults>>

\* Deliveries of it are not counted: MaxFaults bounds them.
FailNews(w) ==
  /\ workers[w].step \in {"read", "write"}
  /\ handlerFaults < MaxHandlerFaults
  /\ handlerFaults' = handlerFaults + 1
  /\ news' = news + 1
  /\ workers' = [workers EXCEPT ![w] = IdleWorker]
  /\ UNCHANGED <<rows, messages, ledger, stats, cached>>

-------------------------------------------------------------------------------
Work(w) ==
  \/ Exists(w) \/ PostTrip(w) \/ PostTax(w) \/ Announce(w)
  \/ MarkPaid(w) \/ PaidAlready(w) \/ CountCompleted(w)
  \/ ExistsFee(w) \/ PostFee(w) \/ AnnounceFee(w) \/ CountCancelled(w)
  \/ Ack(w)
  \/ ReadBalance(w) \/ SyncWalletBalance(w)

LedgerNext ==
  \/ \E t \in Trips : Finish(t)
  \/ \E w \in Workers :
       \/ \E t \in Trips, c \in Copies : Take(w, t, c)
       \/ TakeNews(w)
       \/ Work(w)
       \/ HandlerFails(w)
       \/ FailNews(w)

\* A handler that runs gets on; a message that is ready is delivered.
LedgerFairness ==
  /\ \A w \in Workers : WF_ledgerVars(Work(w))
  /\ \A t \in Trips, c \in Copies : WF_ledgerVars(\E w \in Workers : Take(w, t, c))

LedgerSpec == LedgerInit /\ [][LedgerNext]_ledgerVars /\ LedgerFairness

-------------------------------------------------------------------------------
(* Properties.                                                             *)

\* The shape of the tables; a message is not delivered more often than
\* MaxDeliver.
LedgerTypeOK ==
  /\ trips \in [Trips -> TripStatus]
  /\ cash \in [Trips -> BOOLEAN]
  /\ messages \in [Trips -> [Copies -> Message]]
  /\ transactions \subseteq Transactions
  /\ wallet \in Int
  /\ completed \in [Trips -> Nat]
  /\ cancelled \in [Trips -> Nat]
  /\ cached \in Int
  /\ news \in Nat
  /\ workers \in [Workers -> Worker]
  /\ handlerFaults \in 0 .. MaxHandlerFaults

\* PAID is what the rider and the support desk are shown: by then the trip's
\* transaction is in the ledger, whichever copies of the message raced, and
\* whichever handlers took the early return after another one's crash.
PaidIsPosted == \A t \in Trips : trips[t] = "PAID" => Posted("trip", t)

\* completed_trips is incremented, not set, and onTripCompleted has no record of
\* having done so: that MarkPaid lets one handler through is what keeps a trip
\* from being counted twice.
CountedOnce == \A t \in Trips : completed[t] <= 1

\* A completed trip gets paid although every statement of the handlers may fail,
\* as long as not all deliveries of its message do.
CompletedIsPaid ==
  \A t \in Trips : trips[t] = "COMPLETED" ~> trips[t] = "PAID"
===============================================================================
