----------------------------- MODULE Ledger_proofs -----------------------------
(***************************************************************************)
(* For any number of trips, workers and copies of a message, and any       *)
(* faults: a PAID trip is in the ledger, and no trip is counted twice.     *)
(***************************************************************************)
EXTENDS Ledger, TLAPS

TripSteps == SettleSteps \cup CancelSteps \cup {"sync"}

\* A handler of a trip's message knows which.
HasMessage ==
  \A w \in Workers : workers[w].step \in TripSteps =>
    workers[w].trip \in Trips /\ workers[w].copy \in Copies

\* A message that has used up its deliveries is not ready.
ReadyAgain ==
  \A t \in Trips, c \in Copies :
    messages[t][c].state = "ready" => messages[t][c].tries < MaxDeliver

\* Whoever gets as far as MarkPaid found the transaction or posted it.
PostedFirst ==
  \A w \in Workers : workers[w].step \in {"tax", "announce", "markPaid", "stats"} =>
    <<"trip", workers[w].trip>> \in transactions

\* A handler on its way to the statistics counts a PAID trip that is not counted.
NotYetCounted ==
  /\ \A t \in Trips : trips[t] # "PAID" => completed[t] = 0
  /\ \A w \in Workers : workers[w].step = "stats" =>
       trips[workers[w].trip] = "PAID" /\ completed[workers[w].trip] = 0

\* MarkPaid let one handler through, and no other will follow.
OneCounter ==
  \A v, w \in Workers :
    v # w /\ workers[v].step = "stats" /\ workers[w].step = "stats" =>
      workers[v].trip # workers[w].trip

Counting == PaidIsPosted /\ NotYetCounted /\ OneCounter /\ CountedOnce

IInv ==
  /\ LedgerTypeOK
  /\ HasMessage
  /\ ReadyAgain
  /\ PostedFirst
  /\ Counting

-------------------------------------------------------------------------------
(* What the updates of `workers' and `messages' do.                        *)

Steps == TripSteps \cup {"idle", "read", "write"}

\* Going to a step keeps the handler's message.
LEMMA GoFacts ==
  ASSUME LedgerTypeOK, NEW w \in Workers, NEW s \in Steps, HandlerGoes(w, s)
  PROVE  /\ workers' \in [Workers -> Worker]
         /\ workers'[w].step = s
         /\ workers'[w].trip = workers[w].trip
         /\ workers'[w].copy = workers[w].copy
         /\ \A v \in Workers \ {w} : workers'[v] = workers[v]
<1>1. workers \in [Workers -> Worker] /\ workers[w] \in Worker
  BY DEF LedgerTypeOK
<1> DEFINE r == [workers[w] EXCEPT !.step = s]
<1>2. r \in Worker /\ r.step = s /\ r.trip = workers[w].trip /\ r.copy = workers[w].copy
  BY <1>1 DEF Worker, Steps, TripSteps
<1>3. workers' = [workers EXCEPT ![w] = r]
  BY DEF HandlerGoes
<1> HIDE DEF r
<1> QED
  BY <1>1, <1>2, <1>3

\* A handler that ends forgets its message.
LEMMA IdleFacts ==
  ASSUME LedgerTypeOK, NEW w \in Workers, workers' = [workers EXCEPT ![w] = IdleWorker]
  PROVE  /\ workers' \in [Workers -> Worker]
         /\ workers'[w].step = "idle"
         /\ \A v \in Workers \ {w} : workers'[v] = workers[v]
<1>1. workers \in [Workers -> Worker]
  BY DEF LedgerTypeOK
<1>2. IdleWorker \in Worker /\ IdleWorker.step = "idle"
  BY DEF IdleWorker, Worker
<1> HIDE DEF IdleWorker
<1> QED
  BY <1>1, <1>2

SetState(t, c, s) == messages' = [messages EXCEPT ![t][c].state = s]

\* The state of a message changes, and no other message.
LEMMA MessageFacts ==
  ASSUME LedgerTypeOK, NEW t \in Trips, NEW c \in Copies, NEW s \in {"ready", "acked", "dead"},
         SetState(t, c, s)
  PROVE  /\ messages' \in [Trips -> [Copies -> Message]]
         /\ messages'[t][c].state = s
         /\ messages'[t][c].tries = messages[t][c].tries
         /\ \A u \in Trips, d \in Copies : u # t \/ d # c => messages'[u][d] = messages[u][d]
<1>1. messages \in [Trips -> [Copies -> Message]] /\ messages[t][c] \in Message
  BY DEF LedgerTypeOK
<1> DEFINE m == [messages[t][c] EXCEPT !.state = s]
<1>2. m \in Message /\ m.state = s /\ m.tries = messages[t][c].tries
  BY <1>1 DEF Message
<1>3. messages' = [messages EXCEPT ![t][c] = m]
  BY <1>1 DEF SetState
<1> HIDE DEF m
<1> QED
  BY <1>1, <1>2, <1>3

\* What is said about counting stays true while nothing is marked PAID or
\* counted, and no handler gets as far as that.
LEMMA QuietStep ==
  ASSUME IInv, NEW w \in Workers, UNCHANGED <<trips, completed>>,
         transactions \subseteq transactions',
         workers'[w].step # "stats",
         \A v \in Workers \ {w} : workers'[v] = workers[v]
  PROVE  Counting'
<1>1. Counting
  BY DEF IInv
<1>2. \A v \in Workers : workers'[v].step = "stats" => workers'[v] = workers[v]
  OBVIOUS
<1>3. PaidIsPosted'
  BY <1>1 DEF Counting, PaidIsPosted, Posted
<1>4. NotYetCounted'
  BY <1>1, <1>2 DEF Counting, NotYetCounted
<1>5. OneCounter'
  BY <1>1, <1>2 DEF Counting, OneCounter
<1>6. CountedOnce'
  BY <1>1 DEF Counting, CountedOnce
<1> QED
  BY <1>3, <1>4, <1>5, <1>6 DEF Counting

-------------------------------------------------------------------------------
(* One lemma per action.                                                   *)

\* Looking for the transaction either finds it or goes on to post it.
LEMMA ExistsStep ==
  ASSUME IInv, NEW w \in Workers, Exists(w)
  PROVE  IInv'
<1> DEFINE s == IF Posted("trip", workers[w].trip) THEN "markPaid" ELSE "post"
<1>1. /\ workers' \in [Workers -> Worker]
      /\ workers'[w].step = s
      /\ workers'[w].trip = workers[w].trip
      /\ workers'[w].copy = workers[w].copy
      /\ \A v \in Workers \ {w} : workers'[v] = workers[v]
  BY GoFacts DEF IInv, Exists, Steps, TripSteps, SettleSteps, CancelSteps
<1>2. workers[w].step = "exists" /\ workers[w].trip \in Trips
  BY DEF IInv, HasMessage, TripSteps, SettleSteps, CancelSteps, Exists, HandlerAt
<1>3. LedgerTypeOK'
  BY <1>1, <1>2, LedgerAssumption
  DEF IInv, LedgerTypeOK, Exists, rows, ledger, stats, Posted, Transactions, TripStatus
<1>4. HasMessage'
  BY <1>1, <1>2 DEF IInv, HasMessage, TripSteps, SettleSteps, CancelSteps
<1>5. ReadyAgain'
  BY DEF IInv, ReadyAgain, Exists
<1>6. PostedFirst'
  BY <1>1, <1>2 DEF IInv, PostedFirst, Exists, rows, ledger, stats, Posted
<1>7. Counting'
  BY <1>1, <1>2, QuietStep DEF Exists, rows, ledger, stats, Posted
<1> QED
  BY <1>3, <1>4, <1>5, <1>6, <1>7 DEF IInv

\* Posting a trip adds its transaction to the ledger and takes none away.
LEMMA PostStep ==
  ASSUME IInv, NEW w \in Workers, PostTrip(w)
  PROVE  IInv'
<1> DEFINE s == IF Tax > 0 THEN "tax" ELSE "announce"
<1>1. /\ workers' \in [Workers -> Worker]
      /\ workers'[w].step = s
      /\ workers'[w].trip = workers[w].trip
      /\ workers'[w].copy = workers[w].copy
      /\ \A v \in Workers \ {w} : workers'[v] = workers[v]
  BY GoFacts DEF IInv, PostTrip, Steps, TripSteps, SettleSteps, CancelSteps
<1>2. workers[w].step = "post" /\ workers[w].trip \in Trips
  BY DEF IInv, HasMessage, TripSteps, SettleSteps, CancelSteps, PostTrip, HandlerAt
<1>3. LedgerTypeOK'
  BY <1>1, <1>2, LedgerAssumption
  DEF IInv, LedgerTypeOK, PostTrip, rows, ledger, stats, PostOnce, Posted, Earning, Transactions, TripStatus
<1>4. HasMessage'
  BY <1>1, <1>2 DEF IInv, HasMessage, TripSteps, SettleSteps, CancelSteps
<1>5. ReadyAgain'
  BY DEF IInv, ReadyAgain, PostTrip
<1>6. PostedFirst'
  BY <1>1, <1>2 DEF IInv, PostedFirst, PostTrip, rows, ledger, stats, PostOnce, Posted, Earning
<1>7. Counting'
  BY <1>1, <1>2, QuietStep DEF PostTrip, rows, ledger, stats, PostOnce, Posted, Earning
<1> QED
  BY <1>3, <1>4, <1>5, <1>6, <1>7 DEF IInv

\* Posting the tax leaves the trip and its transaction alone.
LEMMA PostTaxStep ==
  ASSUME IInv, NEW w \in Workers, PostTax(w)
  PROVE  IInv'
<1> DEFINE s == "announce"
<1>1. /\ workers' \in [Workers -> Worker]
      /\ workers'[w].step = s
      /\ workers'[w].trip = workers[w].trip
      /\ workers'[w].copy = workers[w].copy
      /\ \A v \in Workers \ {w} : workers'[v] = workers[v]
  BY GoFacts DEF IInv, PostTax, Steps, TripSteps, SettleSteps, CancelSteps
<1>2. workers[w].step = "tax" /\ workers[w].trip \in Trips
  BY DEF IInv, HasMessage, TripSteps, SettleSteps, CancelSteps, PostTax, HandlerAt
<1>3. LedgerTypeOK'
  BY <1>1, <1>2, LedgerAssumption
  DEF IInv, LedgerTypeOK, PostTax, rows, ledger, stats, PostOnce, Posted, Transactions, TripStatus
<1>4. HasMessage'
  BY <1>1, <1>2 DEF IInv, HasMessage, TripSteps, SettleSteps, CancelSteps
<1>5. ReadyAgain'
  BY DEF IInv, ReadyAgain, PostTax
<1>6. PostedFirst'
  BY <1>1, <1>2 DEF IInv, PostedFirst, PostTax, rows, ledger, stats, PostOnce, Posted
<1>7. Counting'
  BY <1>1, <1>2, QuietStep DEF PostTax, rows, ledger, stats, PostOnce, Posted
<1> QED
  BY <1>3, <1>4, <1>5, <1>6, <1>7 DEF IInv

\* A balance that is announced, or not, changes no trip.
LEMMA AnnounceStep ==
  ASSUME IInv, NEW w \in Workers, Announce(w)
  PROVE  IInv'
<1> DEFINE s == "markPaid"
<1>1. /\ workers' \in [Workers -> Worker]
      /\ workers'[w].step = s
      /\ workers'[w].trip = workers[w].trip
      /\ workers'[w].copy = workers[w].copy
      /\ \A v \in Workers \ {w} : workers'[v] = workers[v]
  BY GoFacts DEF IInv, Announce, Steps, TripSteps, SettleSteps, CancelSteps
<1>2. workers[w].step = "announce" /\ workers[w].trip \in Trips
  BY DEF IInv, HasMessage, TripSteps, SettleSteps, CancelSteps, Announce, HandlerAt
<1>3. LedgerTypeOK'
  BY <1>1, <1>2, LedgerAssumption
  DEF IInv, LedgerTypeOK, Announce, rows, ledger, stats, Publish, Transactions, TripStatus
<1>4. HasMessage'
  BY <1>1, <1>2 DEF IInv, HasMessage, TripSteps, SettleSteps, CancelSteps
<1>5. ReadyAgain'
  BY DEF IInv, ReadyAgain, Announce
<1>6. PostedFirst'
  BY <1>1, <1>2 DEF IInv, PostedFirst, Announce, rows, ledger, stats, Publish
<1>7. Counting'
  BY <1>1, <1>2, QuietStep DEF Announce, rows, ledger, stats, Publish
<1> QED
  BY <1>3, <1>4, <1>5, <1>6, <1>7 DEF IInv

\* Only a trip that was posted becomes PAID, and only its handler may count it.
LEMMA MarkPaidStep ==
  ASSUME IInv, NEW w \in Workers, MarkPaid(w)
  PROVE  IInv'
<1> DEFINE s == "stats"
<1>1. /\ workers' \in [Workers -> Worker]
      /\ workers'[w].step = s
      /\ workers'[w].trip = workers[w].trip
      /\ workers'[w].copy = workers[w].copy
      /\ \A v \in Workers \ {w} : workers'[v] = workers[v]
  BY GoFacts DEF IInv, MarkPaid, Steps, TripSteps, SettleSteps, CancelSteps
<1>2. workers[w].step = "markPaid" /\ workers[w].trip \in Trips
  BY DEF IInv, HasMessage, TripSteps, SettleSteps, CancelSteps, MarkPaid, HandlerAt
<1>3. LedgerTypeOK'
  BY <1>1, <1>2, LedgerAssumption
  DEF IInv, LedgerTypeOK, MarkPaid, rows, ledger, stats, Transactions, TripStatus
<1>4. HasMessage'
  BY <1>1, <1>2 DEF IInv, HasMessage, TripSteps, SettleSteps, CancelSteps
<1>5. ReadyAgain'
  BY DEF IInv, ReadyAgain, MarkPaid
<1>6. PostedFirst'
  BY <1>1, <1>2 DEF IInv, PostedFirst, MarkPaid, rows, ledger, stats
<1>7. PaidIsPosted'
  BY <1>1, <1>2 DEF IInv, LedgerTypeOK, Counting, PaidIsPosted, PostedFirst, Posted, MarkPaid, ledger
<1>8. NotYetCounted'
  <2>1. completed[workers[w].trip] = 0
    BY <1>2 DEF IInv, Counting, NotYetCounted, MarkPaid
  <2> QED
    BY <1>1, <1>2, <2>1 DEF IInv, LedgerTypeOK, Counting, NotYetCounted, MarkPaid, stats
<1>9. OneCounter'
  <2>1. \A v \in Workers : workers[v].step = "stats" => workers[v].trip # workers[w].trip
    BY DEF IInv, Counting, NotYetCounted, MarkPaid
  <2> QED
    BY <1>1, <2>1 DEF IInv, Counting, OneCounter
<1>10. CountedOnce'
  BY DEF IInv, Counting, CountedOnce, MarkPaid, stats
<1>11. Counting'
  BY <1>7, <1>8, <1>9, <1>10 DEF Counting
<1> QED
  BY <1>3, <1>4, <1>5, <1>6, <1>11 DEF IInv

\* The one handler that marked the trip counts it.
LEMMA CountCompletedStep ==
  ASSUME IInv, NEW w \in Workers, CountCompleted(w)
  PROVE  IInv'
<1> DEFINE s == "sync"
<1>1. /\ workers' \in [Workers -> Worker]
      /\ workers'[w].step = s
      /\ workers'[w].trip = workers[w].trip
      /\ workers'[w].copy = workers[w].copy
      /\ \A v \in Workers \ {w} : workers'[v] = workers[v]
  BY GoFacts DEF IInv, CountCompleted, Steps, TripSteps, SettleSteps, CancelSteps
<1>2. workers[w].step = "stats" /\ workers[w].trip \in Trips
  BY DEF IInv, HasMessage, TripSteps, SettleSteps, CancelSteps, CountCompleted, HandlerAt
<1>3. LedgerTypeOK'
  BY <1>1, <1>2, LedgerAssumption
  DEF IInv, LedgerTypeOK, CountCompleted, rows, ledger, stats, Transactions, TripStatus
<1>4. HasMessage'
  BY <1>1, <1>2 DEF IInv, HasMessage, TripSteps, SettleSteps, CancelSteps
<1>5. ReadyAgain'
  BY DEF IInv, ReadyAgain, CountCompleted
<1>6. PostedFirst'
  BY <1>1, <1>2 DEF IInv, PostedFirst, CountCompleted, rows, ledger, stats
<1>7. PaidIsPosted'
  BY DEF IInv, Counting, PaidIsPosted, Posted, CountCompleted, rows, ledger
<1>8. NotYetCounted'
  <2>1. \A v \in Workers \ {w} : workers[v].step = "stats" => workers[v].trip # workers[w].trip
    BY <1>2 DEF IInv, Counting, OneCounter
  <2>2. trips[workers[w].trip] = "PAID"
    BY <1>2 DEF IInv, Counting, NotYetCounted
  <2> QED
    BY <1>1, <1>2, <2>1, <2>2
    DEF IInv, LedgerTypeOK, HasMessage, TripSteps, SettleSteps, Counting, NotYetCounted, CountCompleted, rows
<1>9. OneCounter'
  BY <1>1 DEF IInv, Counting, OneCounter
<1>10. CountedOnce'
  <2>1. completed[workers[w].trip] = 0
    BY <1>2 DEF IInv, Counting, NotYetCounted
  <2> QED
    BY <1>2, <2>1 DEF IInv, LedgerTypeOK, Counting, CountedOnce, CountCompleted
<1>11. Counting'
  BY <1>7, <1>8, <1>9, <1>10 DEF Counting
<1> QED
  BY <1>3, <1>4, <1>5, <1>6, <1>11 DEF IInv

\* Looking for the cancellation fee changes only the handler.
LEMMA ExistsFeeStep ==
  ASSUME IInv, NEW w \in Workers, ExistsFee(w)
  PROVE  IInv'
<1> DEFINE s == IF Posted("cancel", workers[w].trip) THEN "sync" ELSE "postFee"
<1>1. /\ workers' \in [Workers -> Worker]
      /\ workers'[w].step = s
      /\ workers'[w].trip = workers[w].trip
      /\ workers'[w].copy = workers[w].copy
      /\ \A v \in Workers \ {w} : workers'[v] = workers[v]
  BY GoFacts DEF IInv, ExistsFee, Steps, TripSteps, SettleSteps, CancelSteps
<1>2. workers[w].step = "existsFee" /\ workers[w].trip \in Trips
  BY DEF IInv, HasMessage, TripSteps, SettleSteps, CancelSteps, ExistsFee, HandlerAt
<1>3. LedgerTypeOK'
  BY <1>1, <1>2, LedgerAssumption
  DEF IInv, LedgerTypeOK, ExistsFee, rows, ledger, stats, Posted, Transactions, TripStatus
<1>4. HasMessage'
  BY <1>1, <1>2 DEF IInv, HasMessage, TripSteps, SettleSteps, CancelSteps
<1>5. ReadyAgain'
  BY DEF IInv, ReadyAgain, ExistsFee
<1>6. PostedFirst'
  BY <1>1, <1>2 DEF IInv, PostedFirst, ExistsFee, rows, ledger, stats, Posted
<1>7. Counting'
  BY <1>1, <1>2, QuietStep DEF ExistsFee, rows, ledger, stats, Posted
<1> QED
  BY <1>3, <1>4, <1>5, <1>6, <1>7 DEF IInv

\* Posting a fee leaves completed trips alone.
LEMMA PostFeeStep ==
  ASSUME IInv, NEW w \in Workers, PostFee(w)
  PROVE  IInv'
<1> DEFINE s == "announceFee"
<1>1. /\ workers' \in [Workers -> Worker]
      /\ workers'[w].step = s
      /\ workers'[w].trip = workers[w].trip
      /\ workers'[w].copy = workers[w].copy
      /\ \A v \in Workers \ {w} : workers'[v] = workers[v]
  BY GoFacts DEF IInv, PostFee, Steps, TripSteps, SettleSteps, CancelSteps
<1>2. workers[w].step = "postFee" /\ workers[w].trip \in Trips
  BY DEF IInv, HasMessage, TripSteps, SettleSteps, CancelSteps, PostFee, HandlerAt
<1>3. LedgerTypeOK'
  BY <1>1, <1>2, LedgerAssumption
  DEF IInv, LedgerTypeOK, PostFee, rows, ledger, stats, PostOnce, Posted, Transactions, TripStatus
<1>4. HasMessage'
  BY <1>1, <1>2 DEF IInv, HasMessage, TripSteps, SettleSteps, CancelSteps
<1>5. ReadyAgain'
  BY DEF IInv, ReadyAgain, PostFee
<1>6. PostedFirst'
  BY <1>1, <1>2 DEF IInv, PostedFirst, PostFee, rows, ledger, stats, PostOnce, Posted
<1>7. Counting'
  BY <1>1, <1>2, QuietStep DEF PostFee, rows, ledger, stats, PostOnce, Posted
<1> QED
  BY <1>3, <1>4, <1>5, <1>6, <1>7 DEF IInv

\* Announcing the balance after a fee changes no trip.
LEMMA AnnounceFeeStep ==
  ASSUME IInv, NEW w \in Workers, AnnounceFee(w)
  PROVE  IInv'
<1> DEFINE s == "sync"
<1>1. /\ workers' \in [Workers -> Worker]
      /\ workers'[w].step = s
      /\ workers'[w].trip = workers[w].trip
      /\ workers'[w].copy = workers[w].copy
      /\ \A v \in Workers \ {w} : workers'[v] = workers[v]
  BY GoFacts DEF IInv, AnnounceFee, Steps, TripSteps, SettleSteps, CancelSteps
<1>2. workers[w].step = "announceFee" /\ workers[w].trip \in Trips
  BY DEF IInv, HasMessage, TripSteps, SettleSteps, CancelSteps, AnnounceFee, HandlerAt
<1>3. LedgerTypeOK'
  BY <1>1, <1>2, LedgerAssumption
  DEF IInv, LedgerTypeOK, AnnounceFee, rows, ledger, stats, Publish, Transactions, TripStatus
<1>4. HasMessage'
  BY <1>1, <1>2 DEF IInv, HasMessage, TripSteps, SettleSteps, CancelSteps
<1>5. ReadyAgain'
  BY DEF IInv, ReadyAgain, AnnounceFee
<1>6. PostedFirst'
  BY <1>1, <1>2 DEF IInv, PostedFirst, AnnounceFee, rows, ledger, stats, Publish
<1>7. Counting'
  BY <1>1, <1>2, QuietStep DEF AnnounceFee, rows, ledger, stats, Publish
<1> QED
  BY <1>3, <1>4, <1>5, <1>6, <1>7 DEF IInv

\* Cancellations have a counter of their own.
LEMMA CountCancelledStep ==
  ASSUME IInv, NEW w \in Workers, CountCancelled(w)
  PROVE  IInv'
<1> DEFINE s == "sync"
<1>1. /\ workers' \in [Workers -> Worker]
      /\ workers'[w].step = s
      /\ workers'[w].trip = workers[w].trip
      /\ workers'[w].copy = workers[w].copy
      /\ \A v \in Workers \ {w} : workers'[v] = workers[v]
  BY GoFacts DEF IInv, CountCancelled, Steps, TripSteps, SettleSteps, CancelSteps
<1>2. workers[w].step = "statsCancelled" /\ workers[w].trip \in Trips
  BY DEF IInv, HasMessage, TripSteps, SettleSteps, CancelSteps, CountCancelled, HandlerAt
<1>3. LedgerTypeOK'
  BY <1>1, <1>2, LedgerAssumption
  DEF IInv, LedgerTypeOK, CountCancelled, rows, ledger, stats, Transactions, TripStatus
<1>4. HasMessage'
  BY <1>1, <1>2 DEF IInv, HasMessage, TripSteps, SettleSteps, CancelSteps
<1>5. ReadyAgain'
  BY DEF IInv, ReadyAgain, CountCancelled
<1>6. PostedFirst'
  BY <1>1, <1>2 DEF IInv, PostedFirst, CountCancelled, rows, ledger, stats
<1>7. Counting'
  BY <1>1, <1>2, QuietStep DEF CountCancelled, rows, ledger, stats
<1> QED
  BY <1>3, <1>4, <1>5, <1>6, <1>7 DEF IInv

\* A handler that takes news of a balance has no trip.
LEMMA TakeNewsStep ==
  ASSUME IInv, NEW w \in Workers, TakeNews(w)
  PROVE  IInv'
<1> DEFINE s == "read"
<1>1. /\ workers' \in [Workers -> Worker]
      /\ workers'[w].step = s
      /\ workers'[w].trip = workers[w].trip
      /\ workers'[w].copy = workers[w].copy
      /\ \A v \in Workers \ {w} : workers'[v] = workers[v]
  BY GoFacts DEF IInv, TakeNews, Steps, TripSteps, SettleSteps, CancelSteps
<1>2. workers[w].step = "idle"
  BY DEF IInv, HasMessage, TripSteps, SettleSteps, CancelSteps, TakeNews, HandlerAt
<1>3. LedgerTypeOK'
  BY <1>1, <1>2, LedgerAssumption
  DEF IInv, LedgerTypeOK, TakeNews, rows, ledger, stats, Transactions, TripStatus
<1>4. HasMessage'
  BY <1>1, <1>2 DEF IInv, HasMessage, TripSteps, SettleSteps, CancelSteps
<1>5. ReadyAgain'
  BY DEF IInv, ReadyAgain, TakeNews
<1>6. PostedFirst'
  BY <1>1, <1>2 DEF IInv, PostedFirst, TakeNews, rows, ledger, stats
<1>7. Counting'
  BY <1>1, <1>2, QuietStep DEF TakeNews, rows, ledger, stats
<1> QED
  BY <1>3, <1>4, <1>5, <1>6, <1>7 DEF IInv

\* An acknowledged message is not delivered to that handler again.
LEMMA AckStep ==
  ASSUME IInv, NEW w \in Workers, Ack(w)
  PROVE  IInv'
<1>1. workers[w].trip \in Trips /\ workers[w].copy \in Copies
  BY DEF IInv, HasMessage, TripSteps, SettleSteps, CancelSteps, Ack, HandlerAt
<1> DEFINE t == workers[w].trip
           c == workers[w].copy
           s == "acked"
<1>2. /\ messages' \in [Trips -> [Copies -> Message]]
      /\ messages'[t][c].state = s
      /\ messages'[t][c].tries = messages[t][c].tries
      /\ \A u \in Trips, d \in Copies : u # t \/ d # c => messages'[u][d] = messages[u][d]
  <2>1. PICK u \in Trips, d \in Copies, x \in {"ready", "acked", "dead"} :
          u = t /\ d = c /\ x = s
    BY <1>1
  <2>2. SetState(u, d, x)
    BY <2>1 DEF SetState, Ack
  <2>3. LedgerTypeOK
    BY DEF IInv
  <2> HIDE DEF t, c, s
  <2>4. /\ messages' \in [Trips -> [Copies -> Message]]
        /\ messages'[u][d].state = x
        /\ messages'[u][d].tries = messages[u][d].tries
        /\ \A a \in Trips, b \in Copies : a # u \/ b # d => messages'[a][b] = messages[a][b]
    BY <2>2, <2>3, MessageFacts
  <2> QED
    BY <2>1, <2>4
<1>3. /\ workers' \in [Workers -> Worker]
      /\ workers'[w].step = "idle"
      /\ \A v \in Workers \ {w} : workers'[v] = workers[v]
  BY IdleFacts DEF IInv, Ack
<1>4. LedgerTypeOK'
  BY <1>2, <1>3, LedgerAssumption DEF IInv, LedgerTypeOK, Ack, rows, ledger, stats
<1>5. HasMessage'
  BY <1>3 DEF IInv, HasMessage, TripSteps, SettleSteps, CancelSteps
<1>6. ReadyAgain'
  BY <1>1, <1>2 DEF IInv, ReadyAgain
<1>7. PostedFirst'
  BY <1>3 DEF IInv, PostedFirst, Ack, ledger
<1>8. Counting'
  BY <1>3, QuietStep DEF Ack, rows, ledger, stats
<1> QED
  BY <1>4, <1>5, <1>6, <1>7, <1>8 DEF IInv

\* A trip that is PAID already is left as it is, and its message acknowledged.
LEMMA PaidAlreadyStep ==
  ASSUME IInv, NEW w \in Workers, PaidAlready(w)
  PROVE  IInv'
<1>1. workers[w].trip \in Trips /\ workers[w].copy \in Copies
  BY DEF IInv, HasMessage, TripSteps, SettleSteps, CancelSteps, PaidAlready, HandlerAt
<1> DEFINE t == workers[w].trip
           c == workers[w].copy
           s == IF messages[t][c].tries < MaxDeliver THEN "ready" ELSE "dead"
<1>2. /\ messages' \in [Trips -> [Copies -> Message]]
      /\ messages'[t][c].state = s
      /\ messages'[t][c].tries = messages[t][c].tries
      /\ \A u \in Trips, d \in Copies : u # t \/ d # c => messages'[u][d] = messages[u][d]
  <2>1. PICK u \in Trips, d \in Copies, x \in {"ready", "acked", "dead"} :
          u = t /\ d = c /\ x = s
    BY <1>1
  <2>2. SetState(u, d, x)
    BY <2>1 DEF SetState, PaidAlready, Nak
  <2>3. LedgerTypeOK
    BY DEF IInv
  <2> HIDE DEF t, c, s
  <2>4. /\ messages' \in [Trips -> [Copies -> Message]]
        /\ messages'[u][d].state = x
        /\ messages'[u][d].tries = messages[u][d].tries
        /\ \A a \in Trips, b \in Copies : a # u \/ b # d => messages'[a][b] = messages[a][b]
    BY <2>2, <2>3, MessageFacts
  <2> QED
    BY <2>1, <2>4
<1>3. /\ workers' \in [Workers -> Worker]
      /\ workers'[w].step = "idle"
      /\ \A v \in Workers \ {w} : workers'[v] = workers[v]
  BY IdleFacts DEF IInv, PaidAlready, Nak
<1>4. LedgerTypeOK'
  BY <1>2, <1>3, LedgerAssumption DEF IInv, LedgerTypeOK, PaidAlready, rows, ledger, stats
<1>5. HasMessage'
  BY <1>3 DEF IInv, HasMessage, TripSteps, SettleSteps, CancelSteps
<1>6. ReadyAgain'
  BY <1>1, <1>2 DEF IInv, ReadyAgain
<1>7. PostedFirst'
  BY <1>3 DEF IInv, PostedFirst, PaidAlready, ledger
<1>8. Counting'
  BY <1>3, QuietStep DEF PaidAlready, rows, ledger, stats
<1> QED
  BY <1>4, <1>5, <1>6, <1>7, <1>8 DEF IInv

\* A handler that fails forgets what it was about to do; what it wrote stays.
LEMMA FailStep ==
  ASSUME IInv, NEW w \in Workers, HandlerFails(w)
  PROVE  IInv'
<1>1. workers[w].trip \in Trips /\ workers[w].copy \in Copies
  BY DEF IInv, HasMessage, TripSteps, SettleSteps, CancelSteps, HandlerFails, HandlerAt
<1> DEFINE t == workers[w].trip
           c == workers[w].copy
           s == IF messages[t][c].tries < MaxDeliver THEN "ready" ELSE "dead"
<1>2. /\ messages' \in [Trips -> [Copies -> Message]]
      /\ messages'[t][c].state = s
      /\ messages'[t][c].tries = messages[t][c].tries
      /\ \A u \in Trips, d \in Copies : u # t \/ d # c => messages'[u][d] = messages[u][d]
  <2>1. PICK u \in Trips, d \in Copies, x \in {"ready", "acked", "dead"} :
          u = t /\ d = c /\ x = s
    BY <1>1
  <2>2. SetState(u, d, x)
    BY <2>1 DEF SetState, HandlerFails, Nak
  <2>3. LedgerTypeOK
    BY DEF IInv
  <2> HIDE DEF t, c, s
  <2>4. /\ messages' \in [Trips -> [Copies -> Message]]
        /\ messages'[u][d].state = x
        /\ messages'[u][d].tries = messages[u][d].tries
        /\ \A a \in Trips, b \in Copies : a # u \/ b # d => messages'[a][b] = messages[a][b]
    BY <2>2, <2>3, MessageFacts
  <2> QED
    BY <2>1, <2>4
<1>3. /\ workers' \in [Workers -> Worker]
      /\ workers'[w].step = "idle"
      /\ \A v \in Workers \ {w} : workers'[v] = workers[v]
  BY IdleFacts DEF IInv, HandlerFails, Nak
<1>4. LedgerTypeOK'
  BY <1>2, <1>3, LedgerAssumption DEF IInv, LedgerTypeOK, HandlerFails, rows, ledger, stats
<1>5. HasMessage'
  BY <1>3 DEF IInv, HasMessage, TripSteps, SettleSteps, CancelSteps
<1>6. ReadyAgain'
  BY <1>1, <1>2 DEF IInv, ReadyAgain
<1>7. PostedFirst'
  BY <1>3 DEF IInv, PostedFirst, HandlerFails, ledger
<1>8. Counting'
  BY <1>3, QuietStep DEF HandlerFails, rows, ledger, stats
<1> QED
  BY <1>4, <1>5, <1>6, <1>7, <1>8 DEF IInv

\* Writing the cached balance changes neither trips nor ledger.
LEMMA SyncWalletBalanceStep ==
  ASSUME IInv, NEW w \in Workers, SyncWalletBalance(w)
  PROVE  IInv'
<1>1. /\ workers' \in [Workers -> Worker]
      /\ workers'[w].step = "idle"
      /\ \A v \in Workers \ {w} : workers'[v] = workers[v]
  BY IdleFacts DEF IInv, SyncWalletBalance
<1>2. LedgerTypeOK'
  <2>1. workers[w].sum \in Int
    BY DEF IInv, LedgerTypeOK, Worker
  <2> QED
    BY <1>1, <2>1 DEF IInv, LedgerTypeOK, SyncWalletBalance, rows, ledger, stats
<1>3. HasMessage'
  BY <1>1 DEF IInv, HasMessage, TripSteps, SettleSteps, CancelSteps
<1>4. ReadyAgain'
  BY DEF IInv, ReadyAgain, SyncWalletBalance
<1>5. PostedFirst'
  BY <1>1 DEF IInv, PostedFirst, SyncWalletBalance, ledger
<1>6. Counting'
  BY <1>1, QuietStep DEF SyncWalletBalance, rows, ledger, stats
<1> QED
  BY <1>2, <1>3, <1>4, <1>5, <1>6 DEF IInv

\* Failing to refresh the balance changes neither trips nor ledger.
LEMMA FailNewsStep ==
  ASSUME IInv, NEW w \in Workers, FailNews(w)
  PROVE  IInv'
<1>1. /\ workers' \in [Workers -> Worker]
      /\ workers'[w].step = "idle"
      /\ \A v \in Workers \ {w} : workers'[v] = workers[v]
  BY IdleFacts DEF IInv, FailNews
<1>2. LedgerTypeOK'
  BY <1>1, LedgerAssumption DEF IInv, LedgerTypeOK, FailNews, rows, ledger, stats
<1>3. HasMessage'
  BY <1>1 DEF IInv, HasMessage, TripSteps, SettleSteps, CancelSteps
<1>4. ReadyAgain'
  BY DEF IInv, ReadyAgain, FailNews
<1>5. PostedFirst'
  BY <1>1 DEF IInv, PostedFirst, FailNews, ledger
<1>6. Counting'
  BY <1>1, QuietStep DEF FailNews, rows, ledger, stats
<1> QED
  BY <1>2, <1>3, <1>4, <1>5, <1>6 DEF IInv

\* Reading the balance changes only the handler.
LEMMA ReadBalanceStep ==
  ASSUME IInv, NEW w \in Workers, ReadBalance(w)
  PROVE  IInv'
<1> DEFINE r == [workers[w] EXCEPT !.step = "write", !.sum = wallet]
<1>1. workers \in [Workers -> Worker] /\ workers[w] \in Worker /\ wallet \in Int
  BY DEF IInv, LedgerTypeOK
<1>2. r \in Worker /\ r.step = "write"
  BY <1>1 DEF Worker
<1>3. workers' = [workers EXCEPT ![w] = r]
  BY DEF ReadBalance
<1> HIDE DEF r
<1>4. /\ workers' \in [Workers -> Worker]
      /\ workers'[w].step = "write"
      /\ \A v \in Workers \ {w} : workers'[v] = workers[v]
  BY <1>1, <1>2, <1>3
<1>5. LedgerTypeOK'
  BY <1>4 DEF IInv, LedgerTypeOK, ReadBalance, rows, ledger, stats
<1>6. HasMessage'
  BY <1>4 DEF IInv, HasMessage, TripSteps, SettleSteps, CancelSteps
<1>7. ReadyAgain'
  BY DEF IInv, ReadyAgain, ReadBalance
<1>8. PostedFirst'
  BY <1>4 DEF IInv, PostedFirst, ReadBalance, ledger
<1>9. Counting'
  BY <1>4, QuietStep DEF ReadBalance, rows, ledger, stats
<1> QED
  BY <1>5, <1>6, <1>7, <1>8, <1>9 DEF IInv

\* A handler that takes a message begins before the posting.
LEMMA TakeStep ==
  ASSUME IInv, NEW w \in Workers, NEW t \in Trips, NEW c \in Copies, Take(w, t, c)
  PROVE  IInv'
<1>1. /\ workers \in [Workers -> Worker]
      /\ messages \in [Trips -> [Copies -> Message]]
      /\ messages[t][c] \in Message
  BY DEF IInv, LedgerTypeOK
<1>2. messages[t][c].tries < MaxDeliver
  BY DEF IInv, ReadyAgain, Take
<1> DEFINE m == [state |-> "taken", tries |-> messages[t][c].tries + 1]
           r == [step |-> FirstStep(t), trip |-> t, copy |-> c, sum |-> 0]
<1>3. m \in Message /\ m.state = "taken"
  BY <1>1, <1>2, LedgerAssumption DEF Message
<1>4. /\ r \in Worker /\ r.trip = t /\ r.copy = c
      /\ r.step \in {"exists", "existsFee", "statsCancelled"}
  BY DEF Worker, FirstStep, SettleSteps, CancelSteps
<1>5. messages' = [messages EXCEPT ![t][c] = m] /\ workers' = [workers EXCEPT ![w] = r]
  BY DEF Take
<1> HIDE DEF m, r
<1>6. /\ messages' \in [Trips -> [Copies -> Message]]
      /\ messages'[t][c].state = "taken"
      /\ \A u \in Trips, d \in Copies : u # t \/ d # c => messages'[u][d] = messages[u][d]
  BY <1>1, <1>3, <1>5
<1>7. /\ workers' \in [Workers -> Worker]
      /\ workers'[w] = r
      /\ \A v \in Workers \ {w} : workers'[v] = workers[v]
  BY <1>1, <1>4, <1>5
<1>8. LedgerTypeOK'
  BY <1>6, <1>7 DEF IInv, LedgerTypeOK, Take, rows, ledger, stats
<1>9. HasMessage'
  BY <1>4, <1>7 DEF IInv, HasMessage
<1>10. ReadyAgain'
  BY <1>6 DEF IInv, ReadyAgain
<1>11. PostedFirst'
  BY <1>4, <1>7 DEF IInv, PostedFirst, Take, ledger
<1>12. Counting'
  BY <1>4, <1>7, QuietStep DEF Take, rows, ledger, stats
<1> QED
  BY <1>8, <1>9, <1>10, <1>11, <1>12 DEF IInv

\* A trip that ends is neither posted nor counted.
LEMMA FinishStep ==
  ASSUME IInv, NEW t \in Trips, Finish(t)
  PROVE  IInv'
<1>1. PICK end \in {"COMPLETED", "CANCELLED_LATE", "CANCELLED_BY_DRIVER"} :
        trips' = [trips EXCEPT ![t] = end]
  BY DEF Finish
<1>2. PICK sent \in SUBSET Copies :
        messages' = [messages EXCEPT ![t] =
          [c \in Copies |-> [state |-> IF c \in sent THEN "ready" ELSE "none", tries |-> 0]]]
  BY DEF Finish
<1> DEFINE ms == [c \in Copies |-> [state |-> IF c \in sent THEN "ready" ELSE "none", tries |-> 0]]
<1>3. ms \in [Copies -> Message] /\ \A c \in Copies : ms[c].tries = 0
  BY LedgerAssumption DEF Message
<1>4. messages' = [messages EXCEPT ![t] = ms]
  BY <1>2
<1> HIDE DEF ms
<1>5. /\ messages' \in [Trips -> [Copies -> Message]]
      /\ messages'[t] = ms
      /\ \A u \in Trips \ {t} : messages'[u] = messages[u]
  BY <1>3, <1>4 DEF IInv, LedgerTypeOK
<1>6. /\ trips' \in [Trips -> TripStatus]
      /\ trips[t] = "ACTIVE" /\ trips'[t] # "PAID"
      /\ \A u \in Trips \ {t} : trips'[u] = trips[u]
  BY <1>1 DEF IInv, LedgerTypeOK, TripStatus, Finish
<1>7. LedgerTypeOK'
  BY <1>5, <1>6 DEF IInv, LedgerTypeOK, Finish, ledger, stats
<1>8. HasMessage'
  BY DEF IInv, HasMessage, Finish
<1>9. ReadyAgain'
  BY <1>3, <1>5, LedgerAssumption DEF IInv, ReadyAgain
<1>10. PostedFirst'
  BY DEF IInv, PostedFirst, Finish, ledger
<1>11. PaidIsPosted'
  BY <1>6 DEF IInv, Counting, PaidIsPosted, Posted, Finish, ledger
<1>12. NotYetCounted'
  BY <1>6 DEF IInv, Counting, NotYetCounted, Finish, stats
<1>13. OneCounter' /\ CountedOnce'
  BY DEF IInv, Counting, OneCounter, CountedOnce, Finish, stats
<1> QED
  BY <1>7, <1>8, <1>9, <1>10, <1>11, <1>12, <1>13 DEF IInv, Counting

-------------------------------------------------------------------------------
(* The invariant.                                                          *)

\* At first nothing has ended and nobody is at work.
LEMMA InitIInv == LedgerInit => IInv
<1> SUFFICES ASSUME LedgerInit
             PROVE  IInv
  OBVIOUS
<1>1. \A w \in Workers : workers[w].step = "idle"
  BY DEF LedgerInit, IdleWorker
<1>2. IdleWorker \in Worker
  BY DEF IdleWorker, Worker
<1>3. workers \in [Workers -> Worker]
  BY <1>2 DEF LedgerInit
<1>4. messages \in [Trips -> [Copies -> Message]]
  BY LedgerAssumption DEF LedgerInit, Message
<1>5. LedgerTypeOK
  BY <1>3, <1>4, LedgerAssumption DEF LedgerInit, LedgerTypeOK, TripStatus, Transactions
<1>6. ReadyAgain
  BY DEF LedgerInit, ReadyAgain
<1>7. HasMessage /\ PostedFirst
  BY <1>1 DEF HasMessage, PostedFirst, TripSteps, SettleSteps, CancelSteps
<1>8. Counting
  BY <1>1 DEF LedgerInit, Counting, PaidIsPosted, NotYetCounted, OneCounter, CountedOnce
<1> QED
  BY <1>5, <1>6, <1>7, <1>8 DEF IInv

\* Where nothing changes, everything stays.
LEMMA Stutter == IInv /\ UNCHANGED ledgerVars => IInv'
BY DEF IInv, LedgerTypeOK, HasMessage, ReadyAgain, PostedFirst, Counting, PaidIsPosted, Posted,
  NotYetCounted, OneCounter, CountedOnce, ledgerVars, rows, ledger, stats

\* Every step keeps the invariant: the lemmas above, one by one.
LEMMA NextIInv == IInv /\ [LedgerNext]_ledgerVars => IInv'
<1> SUFFICES ASSUME IInv, [LedgerNext]_ledgerVars
             PROVE  IInv'
  OBVIOUS
<1>1. CASE \E t \in Trips : Finish(t)
  BY <1>1, FinishStep
<1>2. CASE \E w \in Workers, t \in Trips, c \in Copies : Take(w, t, c)
  BY <1>2, TakeStep
<1>3. ASSUME NEW w \in Workers, TakeNews(w) \/ HandlerFails(w) \/ FailNews(w)
      PROVE  IInv'
  BY <1>3, TakeNewsStep, FailStep, FailNewsStep
<1>4. ASSUME NEW w \in Workers, Work(w)
      PROVE  IInv'
  BY <1>4, ExistsStep, PostStep, PostTaxStep, AnnounceStep, MarkPaidStep, PaidAlreadyStep,
     CountCompletedStep, ExistsFeeStep, PostFeeStep, AnnounceFeeStep, CountCancelledStep,
     AckStep, ReadBalanceStep, SyncWalletBalanceStep DEF Work
<1>5. CASE UNCHANGED ledgerVars
  BY <1>5, Stutter
<1> QED
  BY <1>1, <1>2, <1>3, <1>4, <1>5 DEF LedgerNext

\* So it always holds.
LEMMA InvariantIInv == LedgerSpec => []IInv
BY InitIInv, NextIInv, PTL DEF LedgerSpec

-------------------------------------------------------------------------------
\* The tables keep their shape, and no message is delivered more than MaxDeliver
\* times, for any number of trips, handlers and copies.
THEOREM LedgerTypes == LedgerSpec => []LedgerTypeOK
<1>1. IInv => LedgerTypeOK
  BY DEF IInv
<1> QED
  BY <1>1, InvariantIInv, PTL

\* onTripCompleted: a PAID trip is in the ledger, for any number of handlers and
\* copies of the message, and any crashes between the statements.
THEOREM PaidTripsArePosted == LedgerSpec => []PaidIsPosted
<1>1. IInv => PaidIsPosted
  BY DEF IInv, Counting
<1> QED
  BY <1>1, InvariantIInv, PTL

\* onTripCompleted: no trip is added to the driver's statistics twice.
THEOREM TripsCountedOnce == LedgerSpec => []CountedOnce
<1>1. IInv => CountedOnce
  BY DEF IInv, Counting
<1> QED
  BY <1>1, InvariantIInv, PTL
===============================================================================
