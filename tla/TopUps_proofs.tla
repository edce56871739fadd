----------------------------- MODULE TopUps_proofs -----------------------------
(***************************************************************************)
(* Theorems about TopUps, for any orders, requests and faults.  No step    *)
(* needs more than the invariant and the action it is about.               *)
(***************************************************************************)
EXTENDS TopUps, TLAPS

\* A request that is being served knows its order, and its notification is about
\* a payment of the amount that was asked for, or about a refusal.
Checked ==
  \A c \in Hooks :
    ~ WebhookAt(c, "idle") => /\ webhooks[c].order \in Orders
                              /\ gateway[webhooks[c].order] \in {"paid", "refused"}

\* Nothing is paid before there is an intent.
IntentFirst == \A o \in Orders : payments[o] = "NONE" => gateway[o] = "open"

\* Only what the gateway reports as paid becomes SUCCESS.
SuccessIsPaid == \A o \in Orders : payments[o] = "SUCCESS" => gateway[o] = "paid"

\* Nothing is posted before SUCCESS.
NotYetPosted == \A o \in Orders : payments[o] # "SUCCESS" => tries[o] = 0 /\ o \notin credited

\* A request that is about to post is the first to do so ...
FirstPost ==
  \A c \in Hooks :
    WebhookAt(c, "topUp") => /\ payments[webhooks[c].order] = "SUCCESS"
                             /\ tries[webhooks[c].order] = 0

\* ... and the only one.
OnePoster ==
  \A c, d \in Hooks :
    WebhookAt(c, "topUp") /\ WebhookAt(d, "topUp") /\ webhooks[c].order = webhooks[d].order => c = d

IInv ==
  /\ TopUpTypeOK /\ Checked /\ IntentFirst /\ SuccessIsPaid
  /\ NotYetPosted /\ FirstPost /\ OnePoster /\ PostedByOne

-------------------------------------------------------------------------------
\* The initial state satisfies the invariant.
LEMMA InitIInv == ASSUME TopUpInit PROVE IInv
  BY TopUpsAssumption DEF TopUpInit, NoWebhook, IInv, TopUpTypeOK, Checked, IntentFirst, SuccessIsPaid,
         NotYetPosted, FirstPost, OnePoster, PostedByOne, WebhookAt, Webhook, PaymentStatus, Outcome

\* Every step of the two other parties keeps it: no request moves.
LEMMA IntentStep ==
  ASSUME IInv, NEW o \in Orders, CreateTopUpIntent(o) \/ GatewaySettles(o)
  PROVE  IInv'
  BY DEF IInv, TopUpTypeOK, Checked, IntentFirst, SuccessIsPaid, NotYetPosted, FirstPost, OnePoster,
         PostedByOne, WebhookAt, Webhook, PaymentStatus, Outcome, CreateTopUpIntent, GatewaySettles

\* A notification finds a free request, which is not about to post.
LEMMA NotifyStep ==
  ASSUME IInv, NEW c \in Hooks, NEW o \in Orders, HandleWebhook(c, o)
  PROVE  IInv'
  BY DEF IInv, TopUpTypeOK, Checked, IntentFirst, SuccessIsPaid, NotYetPosted, FirstPost, OnePoster,
         PostedByOne, WebhookAt, Webhook, HandleWebhook

\* The UPDATE turns one PENDING order into a result; this request may post.
LEMMA MarkResultStep ==
  ASSUME IInv, NEW c \in Hooks, MarkResult(c)
  PROVE  IInv'
<1> DEFINE o == webhooks[c].order
<1>1. o \in Orders /\ gateway[o] \in {"paid", "refused"} /\ payments[o] = "PENDING" /\ tries[o] = 0
  BY DEF IInv, TopUpTypeOK, Checked, NotYetPosted, MarkResult, WebhookAt
<1>2. \A d \in Hooks : WebhookAt(d, "topUp") => webhooks[d].order # o
  BY <1>1 DEF IInv, FirstPost
<1> QED
  BY <1>1, <1>2 DEF IInv, TopUpTypeOK, Checked, IntentFirst, SuccessIsPaid, NotYetPosted, FirstPost,
     OnePoster, PostedByOne, WebhookAt, WebhookGoes, Webhook, PaymentStatus, MarkResult, ResultOf

\* The credit: this request stops being the one that may post.
LEMMA TopUpStep ==
  ASSUME IInv, NEW c \in Hooks, TopUp(c)
  PROVE  IInv'
<1> DEFINE o == webhooks[c].order
<1>1. o \in Orders /\ payments[o] = "SUCCESS" /\ tries[o] = 0
  BY DEF IInv, TopUpTypeOK, Checked, FirstPost, TopUp, WebhookAt
<1>2. \A d \in Hooks \ {c} : WebhookAt(d, "topUp") => webhooks[d].order # o
  BY DEF IInv, OnePoster, TopUp
<1> QED
  BY <1>1, <1>2 DEF IInv, TopUpTypeOK, Checked, IntentFirst, SuccessIsPaid, NotYetPosted, FirstPost,
     OnePoster, PostedByOne, WebhookAt, WebhookGoes, Webhook, TopUp

\* Requests that end, or are told that the result is there, write nothing.
LEMMA EndStep ==
  ASSUME IInv, NEW c \in Hooks, AlreadySettled(c) \/ Answer(c) \/ WebhookFails(c)
  PROVE  IInv'
<1>1. TopUpTypeOK /\ webhookFaults' \in 0 .. MaxWebhookFaults
  BY TopUpsAssumption DEF IInv, TopUpTypeOK, AlreadySettled, Answer, WebhookFails
<1>2. PICK request \in {NoWebhook, [webhooks[c] EXCEPT !.step = "ack"]} :
         webhooks' = [webhooks EXCEPT ![c] = request]
  BY <1>1 DEF TopUpTypeOK, AlreadySettled, Answer, WebhookFails, WebhookGoes
<1>3. /\ request \in Webhook
      /\ request.step \in {"idle", "ack"}
      /\ request.step = "ack" => request.order = webhooks[c].order
      /\ request.step = "ack" => ~ WebhookAt(c, "idle")
  <2>1. CASE request = NoWebhook
    BY <2>1 DEF NoWebhook, Webhook
  <2>2. ~ WebhookAt(c, "idle") /\ webhooks[c] \in Webhook
    BY <1>1 DEF TopUpTypeOK, WebhookAt, AlreadySettled, Answer, WebhookFails
  <2>3. CASE request = [webhooks[c] EXCEPT !.step = "ack"]
    BY <2>2, <2>3 DEF Webhook
  <2> QED
    BY <2>1, <2>3
<1>4. /\ UNCHANGED <<payments, gateway, credited, tries>>
      /\ told' \subseteq Orders
  BY <1>1 DEF IInv, TopUpTypeOK, Checked, AlreadySettled, Answer, WebhookFails, WebhookAt
<1>5. webhooks'[c] = request /\ \A d \in Hooks \ {c} : webhooks'[d] = webhooks[d]
  BY <1>1, <1>2 DEF TopUpTypeOK
<1>6. TopUpTypeOK'
  BY <1>1, <1>2, <1>3, <1>4 DEF TopUpTypeOK
<1>7. Checked' /\ FirstPost' /\ OnePoster'
  BY <1>3, <1>4, <1>5 DEF IInv, Checked, FirstPost, OnePoster, WebhookAt
<1> QED
  BY <1>4, <1>6, <1>7 DEF IInv, IntentFirst, SuccessIsPaid, NotYetPosted, PostedByOne

\* Expiry touches PENDING intents only, which nobody is about to post.
LEMMA ExpireStep == ASSUME IInv, ExpireStale PROVE IInv'
  BY DEF IInv, TopUpTypeOK, Checked, IntentFirst, SuccessIsPaid, NotYetPosted, FirstPost, OnePoster,
         PostedByOne, WebhookAt, PaymentStatus, ExpireStale

\* The invariant is inductive.
LEMMA NextIInv == ASSUME IInv, [TopUpNext]_topUpVars PROVE IInv'
<1>1. CASE \E o \in Orders : CreateTopUpIntent(o) \/ GatewaySettles(o)
  BY <1>1, IntentStep
<1>2. CASE \E c \in Hooks, o \in Orders : HandleWebhook(c, o)
  BY <1>2, NotifyStep
<1>3. CASE \E c \in Hooks : Serve(c)
  BY <1>3, MarkResultStep, TopUpStep, EndStep DEF Serve
<1>4. CASE \E c \in Hooks : WebhookFails(c)
  BY <1>4, EndStep
<1>5. CASE ExpireStale
  BY <1>5, ExpireStep
<1>6. CASE UNCHANGED topUpVars
  BY <1>6 DEF topUpVars, IInv, TopUpTypeOK, Checked, IntentFirst, SuccessIsPaid, NotYetPosted, FirstPost,
     OnePoster, PostedByOne, WebhookAt
<1> QED
  BY <1>1, <1>2, <1>3, <1>4, <1>5, <1>6 DEF TopUpNext

\* All theorems below follow from this one.
LEMMA Invariant == TopUpSpec => []IInv
<1>1. TopUpInit => IInv
  BY InitIInv
<1>2. IInv /\ [TopUpNext]_topUpVars => IInv'
  BY NextIInv
<1> QED
  BY <1>1, <1>2, PTL DEF TopUpSpec

-------------------------------------------------------------------------------
\* The table keeps its shape, whatever webhooks and expiry do to a row.
THEOREM TopUpTypes == TopUpSpec => []TopUpTypeOK
<1>1. IInv => TopUpTypeOK
  BY DEF IInv
<1> QED
  BY <1>1, Invariant, PTL

\* Money credited by HandleWebhook was paid at the gateway, as asked for.
THEOREM CreditsArePaid == TopUpSpec => []CreditedIsPaid
<1>1. IInv => CreditedIsPaid
  BY DEF IInv, TopUpTypeOK, SuccessIsPaid, NotYetPosted, CreditedIsPaid
<1> QED
  BY <1>1, Invariant, PTL

\* MarkResult lets one webhook of an order through to the ledger, however many
\* arrive, at however many pods.
THEOREM PostedOnce == TopUpSpec => []PostedByOne
<1>1. IInv => PostedByOne
  BY DEF IInv
<1> QED
  BY <1>1, Invariant, PTL
===============================================================================
