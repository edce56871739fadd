-------------------------------- MODULE Delivery --------------------------------
(***************************************************************************)
(* What happens to an event after what caused it: the row of the outbox    *)
(* and the relays that publish it, or, for an offer, the engine's own      *)
(* Publish; the JetStream stream and its durable consumers                 *)
(* (internal/outbox, platform/eventbus/nats.go); and the two consumers     *)
(* that tell people: "push" over MQTT (app/realtime.go) and "notify" over  *)
(* FCM to every phone of the account (app/notify.go,                       *)
(* internal/notification).                                                 *)
(***************************************************************************)
EXTENDS Naturals, Sequences, FiniteSets

CONSTANTS
  Events,        \* changes of a trip's status, offers and their withdrawals
  Kinds,         \* what they may say: among AllKinds
  Pods,          \* processes, each with a relay and both consumers
  RiderPhones, DriverPhones,   \* FCM tokens of the two accounts
  MaxAttempts, MaxDeliver,
  MaxFaults,     \* bound: errors, crashes, and logins and logouts
  MaxCopies      \* bound: messages of one event in the stream

\* A trip has no driver in the states of Driverless; the other changes of its
\* status concern both sides.
Offers     == {"OFFER", "OFFER_WITHDRAWN"}
Driverless == {"SEARCHING", "EXPIRED", "CANCELLED_UNMATCHED"}
Matched    == {"ASSIGNED", "ARRIVED", "IN_PROGRESS", "COMPLETED", "PAID",
               "CANCELLED_BY_RIDER", "CANCELLED_BY_DRIVER", "CANCELLED_BY_SYSTEM"}
AllKinds   == Offers \cup Driverless \cup Matched

ASSUME DeliveryAssumption ==
  /\ MaxAttempts \in Nat \ {0} /\ MaxDeliver \in Nat \ {0}
  /\ MaxFaults \in Nat /\ MaxCopies \in Nat \ {0}
  /\ RiderPhones \cap DriverPhones = {}
  /\ Kinds \subseteq AllKinds

VARIABLES
  says,      \* event -> what it says
  row,       \* event -> its outbox row, or "direct" for an offer
  relay,     \* pod -> the batch its relay is publishing
  stream,    \* sequence of published messages; a copy is an index of it
  sub,       \* the durable consumer that is followed; the others are independent
  inbox,     \* copy -> where that consumer stands with it
  work,      \* pod -> its handler call under way
  tokens,    \* phones in device_tokens
  told,      \* <<event, target>> that reached an MQTT topic or a phone
  refused,   \* <<event, phone>> FCM rejected for its content
  steady,    \* phones whose row in device_tokens never went away (observer)
  lapsed,    \* offers whose time to answer is over
  faults

vars == <<says, row, relay, stream, sub, inbox, work, tokens, told, refused, steady,
          lapsed, faults>>
outboxVars == <<says, row, relay>>
phoneVars  == <<tokens, told, refused, steady, lapsed>>

-------------------------------------------------------------------------------
Subs   == {"push", "notify"}
Phones == RiderPhones \cup DriverPhones
OwnerOf(f) == IF f \in RiderPhones THEN "rider" ELSE "driver"

\* tripNotice and notifyOffer: what is worth waking somebody for.
Notified(e) ==
  CASE says[e] \in {"ASSIGNED", "ARRIVED", "COMPLETED", "EXPIRED", "CANCELLED_BY_DRIVER"} -> {"rider"}
    [] says[e] \in {"OFFER", "CANCELLED_BY_RIDER"} -> {"driver"}
    [] OTHER -> {}

\* The topics of pushOffer, pushOfferWithdrawn and pushTripStatus.
Topics(e) ==
  CASE says[e] \in Offers     -> {"driver"}
    [] says[e] \in Driverless -> {"rider"}
    [] OTHER                   -> {"rider", "driver"}

\* ListByAccount, as of now, for those to be notified.
PhonesOf(e) == {f \in tokens : OwnerOf(f) \in Notified(e)}

\* Whom a handler call tells; of an offer that has lapsed, nobody.
Targets(e) ==
  IF e \in lapsed THEN {} ELSE IF sub = "push" THEN Topics(e) ELSE PhonesOf(e)

Copies == DOMAIN stream
CopiesOf(e) == {c \in Copies : stream[c] = e}

NoBatch == [todo |-> {}, done |-> {}]
NoWork  == [copy |-> 0, left |-> {}, retry |-> FALSE]
Unseen  == [st |-> "ready", n |-> 0]

Init ==
  /\ says    \in [Events -> Kinds]
  /\ row     = [e \in Events |-> [st |-> "none", attempts |-> 0]]
  /\ relay   = [p \in Pods |-> NoBatch]
  /\ stream  = <<>>
  /\ sub     \in Subs
  /\ inbox   = <<>>
  /\ work    = [p \in Pods |-> NoWork]
  /\ tokens  = Phones
  /\ told    = {}
  /\ refused = {}
  /\ steady  = Phones
  /\ lapsed  = {}
  /\ faults  = 0

MayFail == faults < MaxFaults
Failed  == faults' = faults + 1

-------------------------------------------------------------------------------
(* The outbox and its relays *)

\* EnqueueTx, at the commit of the business transaction.
EnqueueTx(e) ==
  /\ row[e].st = "none" /\ says[e] \notin Offers
  /\ row' = [row EXCEPT ![e].st = "pending"]
  /\ UNCHANGED <<says, relay, stream, sub, inbox, work, phoneVars, faults>>

\* natsBus.Publish makes a new event id, so the stream keeps every copy.
Append1(e) ==
  /\ Cardinality(CopiesOf(e)) < MaxCopies
  /\ stream' = Append(stream, e)
  /\ inbox' = Append(inbox, Unseen)

\* The engine publishes its offers and withdrawals itself, once, and drops the
\* error: an offer that is not published then is never pushed.
PublishOffer(e) ==
  /\ row[e].st = "none" /\ says[e] \in Offers
  /\ row' = [row EXCEPT ![e].st = "direct"]
  /\ \/ Append1(e) /\ UNCHANGED faults
     \/ MayFail /\ Failed /\ (Append1(e) \/ UNCHANGED <<stream, inbox>>)
  /\ UNCHANGED <<says, relay, sub, work, phoneVars>>

\* The answer to an offer is due.
Lapse(e) ==
  /\ says[e] = "OFFER" /\ row[e].st = "direct" /\ e \notin lapsed
  /\ lapsed' = lapsed \cup {e}
  /\ UNCHANGED <<outboxVars, stream, sub, inbox, work, tokens, told, refused, steady, faults>>

\* Mutant: the query counts the attempt it is about to make.
UnpublishedOneLess == {e \in Events : row[e].st = "pending" /\ row[e].attempts + 1 < MaxAttempts}

\* What FetchUnpublished returns.  SKIP LOCKED locks nothing past the SELECT.
Unpublished == {e \in Events : row[e].st = "pending" /\ row[e].attempts < MaxAttempts}

FetchUnpublished(p) ==
  /\ relay[p] = NoBatch /\ Unpublished # {}
  /\ relay' = [relay EXCEPT ![p].todo = Unpublished]
  /\ UNCHANGED <<says, row, stream, sub, inbox, work, phoneVars, faults>>

Publish(p, e) ==
  /\ e \in relay[p].todo
  /\ Append1(e)
  /\ relay' = [relay EXCEPT ![p] = [todo |-> @.todo \ {e}, done |-> @.done \cup {e}]]
  /\ UNCHANGED <<says, row, sub, work, phoneVars, faults>>

\* Mutant: no continue after the error.
PublishFailsIsDone(p, e) ==
  /\ MayFail /\ e \in relay[p].todo
  /\ row' = [row EXCEPT ![e].attempts = @ + 1]
  /\ relay' = [relay EXCEPT ![p] = [todo |-> @.todo \ {e}, done |-> @.done \cup {e}]]
  /\ Failed
  /\ UNCHANGED <<says, stream, sub, inbox, work, phoneVars>>

\* Publish returns an error, whether or not the server stored the message.
PublishFails(p, e) ==
  /\ MayFail /\ e \in relay[p].todo
  /\ Append1(e) \/ UNCHANGED <<stream, inbox>>
  /\ row' = [row EXCEPT ![e].attempts = @ + 1]
  /\ relay' = [relay EXCEPT ![p].todo = @ \ {e}]
  /\ Failed
  /\ UNCHANGED <<says, sub, work, phoneVars>>

\* One UPDATE for the whole batch, after its last Publish.
MarkPublished(p) ==
  /\ relay[p].todo = {} /\ relay[p].done # {}
  /\ relay' = [relay EXCEPT ![p] = NoBatch]
  /\ \/ /\ row' = [e \in Events |-> IF e \in relay[p].done
                                    THEN [row[e] EXCEPT !.st = "published"] ELSE row[e]]
        /\ UNCHANGED faults
     \/ MayFail /\ Failed /\ UNCHANGED row
  /\ UNCHANGED <<says, stream, sub, inbox, work, phoneVars>>

-------------------------------------------------------------------------------
(* The durable consumers *)

\* Delivery number n+1 of copy c, to one pod of the group.  Who is to be told is
\* looked up first (the driver's account, its phones, what the offer shows): an
\* error of that ends the call before anybody is.
Deliver(p, c) ==
  /\ c \in Copies /\ inbox[c].st = "ready" /\ inbox[c].n < MaxDeliver
  /\ work[p] = NoWork
  /\ inbox' = [inbox EXCEPT ![c] = [st |-> "out", n |-> @.n + 1]]
  /\ \/ /\ work' = [work EXCEPT ![p] =
                       [copy |-> c, left |-> Targets(stream[c]), retry |-> FALSE]]
        /\ UNCHANGED faults
     \/ /\ MayFail /\ Failed
        /\ sub = "notify" \/ says[stream[c]] = "OFFER"
        /\ Targets(stream[c]) # {}
        /\ work' = [work EXCEPT ![p] = [copy |-> c, left |-> {}, retry |-> TRUE]]
  /\ UNCHANGED <<outboxVars, stream, sub, phoneVars>>

\* Mutant: the last send decides.
LastSendDecides(w, t, failed) == [w EXCEPT !.left = @ \ {t}, !.retry = failed]

\* A transient failure is remembered past later successes.
AfterSend(w, t, failed) == [w EXCEPT !.left = @ \ {t}, !.retry = @ \/ failed]

\* pushTripStatus, pushOffer: both sides are tried before the error is returned.
Push(p, t) ==
  LET w == work[p] IN
  /\ sub = "push" /\ t \in w.left
  /\ \/ /\ told' = told \cup {<<stream[w.copy], t>>}
        /\ work' = [work EXCEPT ![p] = AfterSend(w, t, FALSE)]
        /\ UNCHANGED faults
     \/ /\ MayFail /\ Failed
        /\ work' = [work EXCEPT ![p] = AfterSend(w, t, TRUE)]
        /\ UNCHANGED told
  /\ UNCHANGED <<outboxVars, stream, sub, inbox, tokens, refused, steady, lapsed>>

\* classifyFCM: delivered, gone, retry later, or rejected.
Outcome == {"ok", "gone", "retry", "error"}

\* One turn of Notify's loop.
Send(p, f, o) ==
  LET w == work[p] IN
  /\ sub = "notify" /\ f \in w.left
  /\ o \in {"retry", "error"} => MayFail
  /\ work' = [work EXCEPT ![p] = AfterSend(w, f, o = "retry")]
  /\ faults' = IF o \in {"retry", "error"} THEN faults + 1 ELSE faults
  /\ told' = IF o = "ok" THEN told \cup {<<stream[w.copy], f>>} ELSE told
  /\ refused' = IF o = "error" THEN refused \cup {<<stream[w.copy], f>>} ELSE refused
  /\ tokens' = IF o = "gone" THEN tokens \ {f} ELSE tokens
  /\ steady' = steady \cap tokens'
  /\ UNCHANGED <<outboxVars, stream, sub, inbox, lapsed>>

Returned(p) == work[p].copy # 0 /\ work[p].left = {}

\* The handler returned nil: Ack, which may fail to reach the server.
Ack(p) ==
  /\ Returned(p) /\ ~work[p].retry
  /\ work' = [work EXCEPT ![p] = NoWork]
  /\ \/ inbox' = [inbox EXCEPT ![work[p].copy].st = "acked"] /\ UNCHANGED faults
     \/ MayFail /\ Failed /\ UNCHANGED inbox
  /\ UNCHANGED <<outboxVars, stream, sub, phoneVars>>

\* It returned an error or panicked: NakWithDelay.
Nak(p) ==
  /\ Returned(p) /\ work[p].retry
  /\ work' = [work EXCEPT ![p] = NoWork]
  /\ inbox' = [inbox EXCEPT ![work[p].copy].st = "ready"]
  /\ UNCHANGED <<outboxVars, stream, sub, phoneVars, faults>>

\* The consumer gave up on the copy; nobody reads MaxDeliver advisories.
GaveUp(c) == inbox[c].st = "ready" /\ inbox[c].n = MaxDeliver

\* AckWait ran out.  A handler has the same time, so it is not running any more.
AckWait(c) ==
  /\ c \in Copies /\ inbox[c].st = "out"
  /\ \A p \in Pods : work[p].copy # c
  /\ inbox' = [inbox EXCEPT ![c].st = "ready"]
  /\ UNCHANGED <<outboxVars, stream, sub, work, phoneVars, faults>>

\* The process dies: its relay's batch and its handler calls are gone.
Crash(p) ==
  /\ MayFail /\ Failed
  /\ relay[p] # NoBatch \/ work[p] # NoWork
  /\ relay' = [relay EXCEPT ![p] = NoBatch]
  /\ work' = [work EXCEPT ![p] = NoWork]
  /\ UNCHANGED <<says, row, stream, sub, inbox, phoneVars>>

-------------------------------------------------------------------------------
(* Devices *)

\* Upsert of the token by the device handler, after a login or a new token.
RegisterDevice(f) ==
  /\ MayFail /\ Failed /\ f \notin tokens
  /\ tokens' = tokens \cup {f}
  /\ UNCHANGED <<outboxVars, stream, sub, inbox, work, told, refused, steady, lapsed>>

\* DeleteDevice at logout.
ForgetDevice(f) ==
  /\ MayFail /\ Failed /\ f \in tokens
  /\ tokens' = tokens \ {f} /\ steady' = steady \ {f}
  /\ UNCHANGED <<outboxVars, stream, sub, inbox, work, told, refused, lapsed>>

\* DeleteAccount at "log out everywhere".
ForgetAccount(a) ==
  LET mine == {f \in Phones : OwnerOf(f) = a} IN
  /\ MayFail /\ Failed /\ mine \cap tokens # {}
  /\ tokens' = tokens \ mine /\ steady' = steady \ mine
  /\ UNCHANGED <<outboxVars, stream, sub, inbox, work, told, refused, lapsed>>

-------------------------------------------------------------------------------
Step(p) ==
  \/ FetchUnpublished(p)
  \/ \E e \in Events : Publish(p, e) \/ PublishFails(p, e)
  \/ MarkPublished(p)
  \/ \E c \in Copies : Deliver(p, c)
  \/ Ack(p) \/ Nak(p)
  \/ \E t \in {"rider", "driver"} : Push(p, t)
  \/ \E f \in Phones, o \in Outcome : Send(p, f, o)

Next ==
  \/ \E e \in Events : EnqueueTx(e) \/ PublishOffer(e) \/ Lapse(e)
  \/ \E p \in Pods : Step(p) \/ Crash(p)
  \/ \E c \in Copies : AckWait(c)
  \/ \E f \in Phones : RegisterDevice(f) \/ ForgetDevice(f)
  \/ \E a \in {"rider", "driver"} : ForgetAccount(a)

\* Some relay's ticker, some consumer goroutine and the server's timer run on:
\* no pod in particular has to stay alive.  Nothing makes a transaction commit,
\* a process die or a person log out.
Fairness == WF_vars((\E p \in Pods : Step(p)) \/ (\E c \in Copies : AckWait(c)))

Spec == Init /\ [][Next]_vars /\ Fairness

-------------------------------------------------------------------------------
(* Properties *)

TypeOK ==
  /\ says \in [Events -> Kinds]
  /\ row \in [Events -> [st : {"none", "pending", "published", "direct"}, attempts : 0..MaxFaults]]
  /\ relay \in [Pods -> [todo : SUBSET Events, done : SUBSET Events]]
  /\ stream \in Seq(Events)
  /\ sub \in Subs
  /\ inbox \in [Copies -> [st : {"ready", "out", "acked"}, n : 0..MaxDeliver]]
  /\ work \in [Pods -> [copy : 0..Len(stream),
                      left : SUBSET (Phones \cup {"rider", "driver"}), retry : BOOLEAN]]
  /\ tokens \subseteq Phones /\ steady \subseteq tokens
  /\ lapsed \subseteq Events
  /\ faults \in 0..MaxFaults

\* A row is only marked published, and so never looked at again, when a message
\* with the event is in the stream, whatever was interrupted, failed or done
\* twice by another relay (outbox.go:261-287).
PublishedIsOnStream ==
  \A e \in Events : row[e].st = "published" => CopiesOf(e) # {}

\* A message that was acknowledged has nobody left to tell: everyone it was for
\* and who could be reached all along got it, or FCM refused its content
\* (notifier.go:41-70, realtime.go:123-149).  An offer that has lapsed concerns
\* nobody any more.
AckedIsTold ==
  \A c \in Copies : inbox[c].st = "acked" /\ stream[c] \notin lapsed =>
    /\ sub = "push" => \A t \in Topics(stream[c]) : <<stream[c], t>> \in told
    /\ sub = "notify" =>
         \A f \in steady : OwnerOf(f) \in Notified(stream[c]) =>
                             <<stream[c], f>> \in told \cup refused

Dead(e) == row[e].attempts >= MaxAttempts

\* An event of the outbox does not stay on its way for ever: a copy of it is
\* acknowledged; or its row is dead and counted by DeadCount; or the broker has
\* given every copy up after MaxDeliver failed deliveries, which is where an
\* event is lost and nothing in the repository shows it.  (Offers are not in the
\* outbox.)
NothingForgotten ==
  \A e \in Events :
    (row[e].st = "pending") ~>
      \/ Dead(e)
      \/ \E c \in CopiesOf(e) : inbox[c].st = "acked"
      \/ CopiesOf(e) # {} /\ \A c \in CopiesOf(e) : GaveUp(c)
===============================================================================
