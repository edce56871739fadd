-------------------------------- MODULE TopUps --------------------------------
(***************************************************************************)
(* A driver pays into the wallet through a gateway (internal/payment).  An *)
(* intent is recorded first; the gateway's notification is checked against *)
(* it, the result is written down once, and the ledger is posted.  Result  *)
(* and posting are two transactions, and notifications are repeated until  *)
(* the gateway gets an answer, also to several pods at once.               *)
(***************************************************************************)
EXTENDS Naturals

CONSTANTS
  Orders,
  Hooks,             \* webhook requests being served at the same time
  MaxWebhookFaults,  \* bound: requests that fail
  NoOrder

ASSUME TopUpsAssumption == MaxWebhookFaults \in Nat /\ NoOrder \notin Orders

VARIABLES
  payments,   \* order -> status of its row in payment_transactions, or NONE
  gateway,    \* external: order -> what the gateway made of it
  told,       \* external: orders with an answered notification
  credited,   \* orders whose TopUp is in the ledger
  tries,      \* order -> how often wallet.TopUp was called; not in the code
  webhooks,   \* call -> its next statement and its order
  webhookFaults

topUpVars == <<payments, gateway, told, credited, tries, webhooks, webhookFaults>>

-------------------------------------------------------------------------------
PaymentStatus == {"NONE", "PENDING", "SUCCESS", "FAILED", "EXPIRED"}

\* Paid as asked, paid another amount, or not paid.
Outcome == {"open", "paid", "paidOther", "refused"}

Webhook == [step : {"idle", "markResult", "topUp", "ack"}, order : Orders \cup {NoOrder}]

NoWebhook == [step |-> "idle", order |-> NoOrder]

TopUpInit ==
  /\ payments = [o \in Orders |-> "NONE"]
  /\ gateway  = [o \in Orders |-> "open"]
  /\ told     = {}
  /\ credited = {}
  /\ tries    = [o \in Orders |-> 0]
  /\ webhooks = [c \in Hooks |-> NoWebhook]
  /\ webhookFaults = 0

WebhookAt(c, step) == webhooks[c].step = step

WebhookGoes(c, step) == webhooks' = [webhooks EXCEPT ![c].step = step]

CreateTopUpIntent(o) ==
  /\ payments[o] = "NONE"
  /\ payments' = [payments EXCEPT ![o] = "PENDING"]
  /\ UNCHANGED <<gateway, told, credited, tries, webhooks, webhookFaults>>

\* The driver pays or gives up; whenever, also long after the intent expired.
GatewaySettles(o) ==
  /\ payments[o] # "NONE" /\ gateway[o] = "open"
  /\ \E outcome \in Outcome \ {"open"} : gateway' = [gateway EXCEPT ![o] = outcome]
  /\ UNCHANGED <<payments, told, credited, tries, webhooks, webhookFaults>>

-------------------------------------------------------------------------------
(* HandleWebhook.                                                          *)

\* Mutant: the amount is not compared.
HandleAnyAmount(c, o) ==
  /\ WebhookAt(c, "idle")
  /\ gateway[o] # "open"
  /\ webhooks' = [webhooks EXCEPT ![c] = [step |-> "markResult", order |-> o]]
  /\ UNCHANGED <<payments, gateway, told, credited, tries, webhookFaults>>

\* A notification, first, repeated or late, passes the checks against the intent.
HandleWebhook(c, o) ==
  /\ WebhookAt(c, "idle")
  /\ gateway[o] \in {"paid", "refused"}
  /\ webhooks' = [webhooks EXCEPT ![c] = [step |-> "markResult", order |-> o]]
  /\ UNCHANGED <<payments, gateway, told, credited, tries, webhookFaults>>

ResultOf(o) == IF gateway[o] = "refused" THEN "FAILED" ELSE "SUCCESS"

\* Mutant: the gateway's word is stored as it is.
MarkResultRaw(c) ==
  LET o == webhooks[c].order
  IN  /\ WebhookAt(c, "markResult") /\ payments[o] = "PENDING"
      /\ payments' = [payments EXCEPT ![o] = gateway[o]]
      /\ WebhookGoes(c, IF gateway[o] = "paid" THEN "topUp" ELSE "ack")
      /\ UNCHANGED <<gateway, told, credited, tries, webhookFaults>>

\* Mutant: the UPDATE does not ask for PENDING.
MarkResultAlways(c) ==
  LET o == webhooks[c].order
  IN  /\ WebhookAt(c, "markResult")
      /\ payments' = [payments EXCEPT ![o] = ResultOf(o)]
      /\ WebhookGoes(c, IF ResultOf(o) = "SUCCESS" THEN "topUp" ELSE "ack")
      /\ UNCHANGED <<gateway, told, credited, tries, webhookFaults>>

\* UPDATE ... WHERE status = 'PENDING'.
MarkResult(c) ==
  LET o == webhooks[c].order
  IN  /\ WebhookAt(c, "markResult") /\ payments[o] = "PENDING"
      /\ payments' = [payments EXCEPT ![o] = ResultOf(o)]
      /\ WebhookGoes(c, IF ResultOf(o) = "SUCCESS" THEN "topUp" ELSE "ack")
      /\ UNCHANGED <<gateway, told, credited, tries, webhookFaults>>

\* payment_already_settled: taken for a repetition, answered, not posted.
AlreadySettled(c) ==
  /\ WebhookAt(c, "markResult") /\ payments[webhooks[c].order] # "PENDING"
  /\ WebhookGoes(c, "ack")
  /\ UNCHANGED <<payments, gateway, told, credited, tries, webhookFaults>>

\* The transaction's id comes from the gateway's: posting it again is ignored.
TopUp(c) ==
  LET o == webhooks[c].order
  IN  /\ WebhookAt(c, "topUp")
      /\ credited' = credited \cup {o}
      /\ tries' = [tries EXCEPT ![o] = @ + 1]
      /\ WebhookGoes(c, "ack")
      /\ UNCHANGED <<payments, gateway, told, webhookFaults>>

\* The answer reaches the gateway, which stops notifying.
Answer(c) ==
  /\ WebhookAt(c, "ack")
  /\ told' = told \cup {webhooks[c].order}
  /\ webhooks' = [webhooks EXCEPT ![c] = NoWebhook]
  /\ UNCHANGED <<payments, gateway, credited, tries, webhookFaults>>

\* A database error, a killed pod, or an answer that gets lost.
WebhookFails(c) ==
  /\ ~ WebhookAt(c, "idle") /\ webhookFaults < MaxWebhookFaults
  /\ webhookFaults' = webhookFaults + 1
  /\ webhooks' = [webhooks EXCEPT ![c] = NoWebhook]
  /\ UNCHANGED <<payments, gateway, told, credited, tries>>

-------------------------------------------------------------------------------
\* Mutant: every intent past its time, whatever its status.
ExpireStaleAll ==
  \E stale \in SUBSET {o \in Orders : payments[o] # "NONE"} \ {{}} :
    /\ payments' = [o \in Orders |-> IF o \in stale THEN "EXPIRED" ELSE payments[o]]
    /\ UNCHANGED <<gateway, told, credited, tries, webhooks, webhookFaults>>

\* One UPDATE over the intents that are past their time.  (The service offers it;
\* no job of this version calls it.)
ExpireStale ==
  \E stale \in SUBSET {o \in Orders : payments[o] = "PENDING"} \ {{}} :
    /\ payments' = [o \in Orders |-> IF o \in stale THEN "EXPIRED" ELSE payments[o]]
    /\ UNCHANGED <<gateway, told, credited, tries, webhooks, webhookFaults>>

Serve(c) == MarkResult(c) \/ AlreadySettled(c) \/ TopUp(c) \/ Answer(c)

TopUpNext ==
  \/ \E o \in Orders : CreateTopUpIntent(o) \/ GatewaySettles(o)
  \/ \E c \in Hooks : (\E o \in Orders : HandleWebhook(c, o)) \/ Serve(c) \/ WebhookFails(c)
  \/ ExpireStale

TopUpSpec == TopUpInit /\ [][TopUpNext]_topUpVars

-------------------------------------------------------------------------------
(* Properties.                                                             *)

\* The shape of the table, whose CHECK admits these statuses only.
TopUpTypeOK ==
  /\ payments \in [Orders -> PaymentStatus]
  /\ gateway \in [Orders -> Outcome]
  /\ told \subseteq Orders
  /\ credited \subseteq Orders
  /\ tries \in [Orders -> Nat]
  /\ webhooks \in [Hooks -> Webhook]
  /\ webhookFaults \in 0 .. MaxWebhookFaults

\* Money in the wallet has a counterpart at the gateway, of the amount that was
\* asked for, and the intent says SUCCESS ever after: what the reconciliation with
\* GATEWAY_CLEARING relies on, whatever webhooks race with each other and with
\* ExpireStale.
CreditedIsPaid ==
  \A o \in credited : gateway[o] = "paid" /\ payments[o] = "SUCCESS"

\* "Only one side can write, the other gets Conflict and does not post again"
\* (PostgresRepo.MarkResult): the ledger's own protection is never needed.
PostedByOne == \A o \in Orders : tries[o] <= 1

\* "It has a result already = the gateway is repeating itself" (the comment in
\* HandleWebhook): an answered SUCCESS that nobody is working on is credited.
SettledIsCredited ==
  \A o \in told :
    payments[o] = "SUCCESS" /\ (\A c \in Hooks : webhooks[c].order # o) => o \in credited
===============================================================================
