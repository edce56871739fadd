-------------------------------- MODULE LocalBus --------------------------------
(***************************************************************************)
(* The in-process bus (platform/eventbus/bus.go), used when there is no    *)
(* NATS_URL: Publish starts a goroutine per subscriber, counted in a       *)
(* WaitGroup, and Close waits for them.  Handlers publish events of their  *)
(* own, also while the bus is being closed; and whoever publishes once it  *)
(* is closed (a relay, a search, a request that outlived the shutdown)     *)
(* runs the handlers itself, which no Close waits for.                     *)
(***************************************************************************)
EXTENDS Naturals, FiniteSets

CONSTANTS
  Roots,      \* handler calls for events published by requests and relays
  Children    \* calls for the event published by the handler of a root

VARIABLES
  call,     \* handler call -> how far it is
  wg,       \* the WaitGroup's counter
  closed,   \* the flag of the bus
  down      \* Close has returned

localVars == <<call, wg, closed, down>>

Calls == (Roots \X {"own"}) \cup (Children \X {"follow-up"})
Follow(c) == <<c[1], "follow-up">>

Init ==
  /\ call = [c \in Calls |-> "none"]
  /\ wg = 0 /\ closed = FALSE /\ down = FALSE

\* Who publishes: a root's publisher is outside, a child's is the root's handler.
Published(c) == c[2] = "own" \/ call[<<c[1], "own">>] \in {"running", "inline"}

\* Mutant: the flag is not looked at under the lock.
AdmitUnlocked(c) ==
  /\ call[c] = "none" /\ Published(c)
  /\ call' = [call EXCEPT ![c] = "admitted"] /\ wg' = wg + 1
  /\ UNCHANGED <<closed, down>>

\* Subscribers, flag and counter are taken under the read lock.
Admit(c) ==
  /\ call[c] = "none" /\ Published(c)
  /\ IF closed
     THEN call' = [call EXCEPT ![c] = "inline"] /\ UNCHANGED wg
     ELSE call' = [call EXCEPT ![c] = "admitted"] /\ wg' = wg + 1
  /\ UNCHANGED <<closed, down>>

Spawn(c) ==
  /\ call[c] = "admitted"
  /\ call' = [call EXCEPT ![c] = "running"]
  /\ UNCHANGED <<wg, closed, down>>

\* The handler cannot return before its own Publish has; an inline child runs
\* inside of it.
MayReturn(c) ==
  c[2] = "own" /\ c[1] \in Children => call[Follow(c)] \notin {"none", "inline"}

\* Mutant: a handler that panics skips wg.Done.
FinishUncounted(c) ==
  /\ call[c] = "running" /\ MayReturn(c)
  /\ call' = [call EXCEPT ![c] = "done"]
  /\ UNCHANGED <<wg, closed, down>>

\* wg.Done is deferred, so an error or a panic ends the call the same way.
Finish(c) ==
  /\ call[c] = "running" /\ MayReturn(c)
  /\ call' = [call EXCEPT ![c] = "done"]
  /\ wg' = wg - 1
  /\ UNCHANGED <<closed, down>>

\* The bus is closing: the publisher runs the handler itself.
RunInline(c) ==
  /\ call[c] = "inline" /\ MayReturn(c)
  /\ call' = [call EXCEPT ![c] = "done"]
  /\ UNCHANGED <<wg, closed, down>>

Close ==
  /\ ~closed
  /\ closed' = TRUE
  /\ UNCHANGED <<call, wg, down>>

WaitDone ==
  /\ closed /\ ~down /\ wg = 0
  /\ down' = TRUE
  /\ UNCHANGED <<call, wg, closed>>

HandlerStep(c) == Spawn(c) \/ Finish(c) \/ RunInline(c) \/ (c[2] = "follow-up" /\ Admit(c))

Next ==
  \/ \E c \in Calls : Admit(c) \/ Spawn(c) \/ Finish(c) \/ RunInline(c)
  \/ Close \/ WaitDone

\* Some goroutine that can run does; nothing obliges a caller to publish or to
\* close.
Fairness == WF_localVars((\E c \in Calls : HandlerStep(c)) \/ WaitDone)

Spec == Init /\ [][Next]_localVars /\ Fairness

-------------------------------------------------------------------------------
TypeOK ==
  /\ call \in [Calls -> {"none", "admitted", "inline", "running", "done"}]
  /\ wg \in 0..Cardinality(Calls) /\ closed \in BOOLEAN /\ down \in BOOLEAN

\* Once Close has returned no goroutine of the bus is or will be running, and
\* what handlers left undone they do not do afterwards: a handler that still runs
\* has a caller, outside of the bus, who published when it was closed
\* (bus.go:104-136).
Drained ==
  down => \A c \in Calls :
    /\ call[c] \notin {"admitted", "running"}
    /\ c[2] = "follow-up" /\ call[c] = "inline" => call[<<c[1], "own">>] = "inline"

\* An orderly stop ends: every handler call that was owed has been made by then,
\* and no goroutine of the bus outlives it.
StopCompletes ==
  /\ []Drained
  /\ closed ~> (down /\ \A c \in Calls : call[c] \in {"none", "done"})
===============================================================================
