-------------------------------- MODULE EventBus --------------------------------
(***************************************************************************)
(* The bus the composition root picks (app.NewWithClock): JetStream when   *)
(* NATS_URL is set, else the in-process bus.                               *)
(***************************************************************************)
EXTENDS Delivery

CONSTANTS Roots, Children

\* A follow-up is published by the handler of a root.
ASSUME EventBusAssumption == Children \subseteq Roots

VARIABLES natsURL, call, wg, closed, down

L == INSTANCE LocalBus
busVars == <<vars, natsURL, call, wg, closed, down>>

BusInit == natsURL \in BOOLEAN /\ Init /\ L!Init

BusNext ==
  /\ \/ natsURL /\ Next /\ UNCHANGED <<call, wg, closed, down>>
     \/ ~natsURL /\ L!Next /\ UNCHANGED vars
  /\ UNCHANGED natsURL

BusSpec == BusInit /\ [][BusNext]_busVars /\ Fairness /\ L!Fairness

BusTypeOK == TypeOK /\ L!TypeOK /\ natsURL \in BOOLEAN

\* Closing the in-process bus ends, every handler call that was owed to an event
\* has been made by then, and no goroutine of the bus is or will be running: what
\* still runs, a publisher runs that came after the closing (bus.go:104-136,
\* 164-174).
StopCompletes == L!StopCompletes
===============================================================================
