--------------------------------- MODULE Offers ---------------------------------
(***************************************************************************)
(* Where the offers of a trip are kept (matching.Store but for ClaimTrip): *)
(* in a map or in Postgres, where every operation is atomic, or in Redis,  *)
(* where the offers of a driver and of a trip are found through two sets   *)
(* of ids and everything has a life of its own.  Matching has the races    *)
(* of the statuses; here it is whether what is kept is found.  A driver is *)
(* asked again in a later round; a list and a withdrawal are not under way *)
(* at once.                                                                *)
(***************************************************************************)
EXTENDS Integers

CONSTANTS
  Asked,         \* drivers
  Batches,       \* rounds of the trip
  OfferTTL,
  OfferRecordTTL,     \* RedisStore.OfferTTL, longer than an offer is open
  Until,         \* the run ends here
  StoreFaults

VARIABLES
  kept,          \* "atomic" or "redis"
  at,
  batch,         \* the last that was saved
  offers,        \* offer -> [status, expires, gone], or None; answered,
                 \* withdrawn and expired are all "CLOSED"
  byDriver,      \* driver -> [ids, gone]: the set drvoffers
  byTrip,        \* the set tripoffers
  list,          \* PendingForDriver: [step, driver, time, left, stale, out, due]
  sweep,         \* ExpireOffers: [step, left, seen, due, cut]
  write,         \* UpdateStatus: [step, offer, expires]
  storeFaults

offerVars == <<kept, at, batch, offers, byDriver, byTrip, list, sweep, write,
               storeFaults>>

Offer == Asked \X Batches
None == [status |-> "none"]
NoSet == [ids |-> {}, gone |-> 0]
Rest == [step |-> "rest"]
Forever == -1

OffersInit ==
  /\ kept \in {"atomic", "redis"}
  /\ at = 1 /\ batch = 0
  /\ offers = [o \in Offer |-> None]
  /\ byDriver = [d \in Asked |-> NoSet] /\ byTrip = NoSet
  /\ list = Rest /\ sweep = Rest /\ write = Rest
  /\ storeFaults = 0

Fault == storeFaults < StoreFaults /\ storeFaults' = storeFaults + 1
NoFault == UNCHANGED storeFaults

Pending(o) == offers[o].status = "PENDING"
IsOpen(o, time) == Pending(o) /\ time < offers[o].expires

-------------------------------------------------------------------------------
\* Mutant: the life of a set is given once, when it begins.
AddedOnce(set, ids) ==
  [ids |-> set.ids \cup ids, gone |-> IF set.gone = 0 THEN at + OfferRecordTTL ELSE set.gone]

\* SADD and EXPIRE.
Added(set, ids) == [ids |-> set.ids \cup ids, gone |-> at + OfferRecordTTL]

\* One transaction, or one pipeline of MULTI and EXEC, for the whole round.
SaveOffers(chosen) ==
  LET new == {<<d, batch + 1>> : d \in chosen}
  IN  /\ batch + 1 \in Batches
      /\ batch' = batch + 1
      /\ offers' = [o \in Offer |->
           IF o \in new
           THEN [status |-> "PENDING", expires |-> at + OfferTTL, gone |-> at + OfferRecordTTL]
           ELSE offers[o]]
      /\ byDriver' = [d \in Asked |->
           IF d \in chosen THEN Added(byDriver[d], {<<d, batch + 1>>}) ELSE byDriver[d]]
      /\ byTrip' = Added(byTrip, new)
      /\ UNCHANGED <<kept, at, list, sweep, write, storeFaults>>

-------------------------------------------------------------------------------
(* UpdateStatus, for the driver's answer.                                  *)

\* GET of the record.
BeginUpdate(o) ==
  /\ write = Rest /\ Pending(o)
  /\ IF kept = "atomic"
     THEN offers' = [offers EXCEPT ![o].status = "CLOSED"] /\ UNCHANGED write
     ELSE UNCHANGED offers /\
          write' = [step |-> "set", offer |-> o, expires |-> offers[o].expires]
  /\ UNCHANGED <<kept, at, batch, byDriver, byTrip, list, sweep, storeFaults>>

\* SET with KEEPTTL: a record that has gone meanwhile comes back for ever.
Stored(o, expires) ==
  [status |-> "CLOSED", expires |-> expires,
   gone |-> IF offers[o] = None THEN Forever ELSE offers[o].gone]

EndUpdate ==
  /\ write.step = "set"
  /\ \/ offers' = [offers EXCEPT ![write.offer] = Stored(write.offer, write.expires)]
        /\ NoFault
     \/ UNCHANGED offers /\ Fault
  /\ write' = Rest
  /\ UNCHANGED <<kept, at, batch, byDriver, byTrip, list, sweep>>

-------------------------------------------------------------------------------
(* PendingForDriver.  .due are the offers that are open when it begins.    *)

BeginList(d) ==
  LET due == {o \in Offer : o[1] = d /\ IsOpen(o, at)}
  IN  /\ list = Rest /\ sweep = Rest
      /\ list' =
           IF kept = "atomic"
           THEN [step |-> "told", time |-> at, out |-> due, due |-> due]
           ELSE [step |-> "get", driver |-> d, time |-> at, left |-> byDriver[d].ids,
                 stale |-> {}, out |-> {}, due |-> due]
      /\ UNCHANGED <<kept, at, batch, offers, byDriver, byTrip, sweep, write, storeFaults>>

\* GetOffer one by one; no answer is taken for "gone".
ListOne(o) ==
  /\ list.step = "get" /\ o \in list.left
  /\ \/ /\ NoFault
        /\ list' = [list EXCEPT !.left = @ \ {o},
             !.stale = IF offers[o] = None THEN @ \cup {o} ELSE @,
             !.out = IF IsOpen(o, list.time) THEN @ \cup {o} ELSE @]
     \/ Fault /\ list' = [list EXCEPT !.left = @ \ {o}, !.stale = @ \cup {o}]
  /\ UNCHANGED <<kept, at, batch, offers, byDriver, byTrip, sweep, write>>

\* SREM of what is gone.
EndList ==
  /\ list.step = "get" /\ list.left = {}
  /\ byDriver' = [byDriver EXCEPT ![list.driver].ids = @ \ list.stale]
  /\ list' = [step |-> "told", time |-> list.time, out |-> list.out, due |-> list.due]
  /\ UNCHANGED <<kept, at, batch, offers, byTrip, sweep, write, storeFaults>>

\* PendingOfferViews: each is shown with its trip.
ListRead ==
  /\ list.step = "told"
  /\ list' = Rest
  /\ UNCHANGED <<kept, at, batch, offers, byDriver, byTrip, sweep, write, storeFaults>>

-------------------------------------------------------------------------------
(* ExpireOffers.  .due are the offers that are pending when it begins.     *)

BeginSweep(except) ==
  LET due == {o \in Offer \ {except} : Pending(o)}
  IN  /\ sweep = Rest /\ list = Rest
      /\ IF kept = "atomic"
         THEN /\ offers' = [o \in Offer |->
                   IF o \in due THEN [offers[o] EXCEPT !.status = "CLOSED"] ELSE offers[o]]
              /\ sweep' = [step |-> "told", due |-> due, cut |-> FALSE]
         ELSE /\ UNCHANGED offers
              /\ sweep' = [step |-> "get", left |-> byTrip.ids \ {except}, seen |-> None,
                           due |-> due, cut |-> FALSE]
      /\ UNCHANGED <<kept, at, batch, byDriver, byTrip, list, write, storeFaults>>

\* No answer, and the offer is passed over.
SweepOne(o) ==
  /\ sweep.step = "get" /\ o \in sweep.left
  /\ \/ /\ NoFault
        /\ sweep' = IF Pending(o) THEN [sweep EXCEPT !.step = "set", !.seen = o]
                    ELSE [sweep EXCEPT !.left = @ \ {o}]
     \/ Fault /\ sweep' = [sweep EXCEPT !.left = @ \ {o}]
  /\ UNCHANGED <<kept, at, batch, offers, byDriver, byTrip, list, write>>

\* UpdateStatus; an error ends the sweep with what it has done so far.
SweepWrite ==
  LET o == sweep.seen
      on == [sweep EXCEPT !.step = "get", !.left = @ \ {o}, !.seen = None]
      told == [step |-> "told", due |-> sweep.due, cut |-> TRUE]
  IN  /\ sweep.step = "set"
      /\ \/ /\ offers[o] # None /\ NoFault
            /\ offers' = [offers EXCEPT ![o].status = "CLOSED"]
            /\ sweep' = on
         \/ offers[o] = None /\ UNCHANGED <<offers, storeFaults>> /\ sweep' = told
         \/ UNCHANGED offers /\ Fault /\ sweep' = told
      /\ UNCHANGED <<kept, at, batch, byDriver, byTrip, list, write>>

EndSweep ==
  /\ sweep.step = "get" /\ sweep.left = {}
  /\ sweep' = [step |-> "told", due |-> sweep.due, cut |-> FALSE]
  /\ UNCHANGED <<kept, at, batch, offers, byDriver, byTrip, list, write, storeFaults>>

Swept ==
  /\ sweep.step = "told"
  /\ sweep' = Rest
  /\ UNCHANGED <<kept, at, batch, offers, byDriver, byTrip, list, write, storeFaults>>

-------------------------------------------------------------------------------
Alive(set, time) == IF set.gone = time THEN NoSet ELSE set

\* Redis forgets what has run out.
Later ==
  /\ at < Until
  /\ at' = at + 1
  /\ IF kept = "redis"
     THEN /\ offers' = [o \in Offer |->
               IF offers[o] # None /\ offers[o].gone = at + 1 THEN None ELSE offers[o]]
          /\ byDriver' = [d \in Asked |-> Alive(byDriver[d], at + 1)]
          /\ byTrip' = Alive(byTrip, at + 1)
     ELSE UNCHANGED <<offers, byDriver, byTrip>>
  /\ UNCHANGED <<kept, batch, list, sweep, write, storeFaults>>

OffersNext ==
  \/ \E chosen \in SUBSET Asked \ {{}} : SaveOffers(chosen)
  \/ \E d \in Asked : BeginList(d)
  \/ \E o \in Offer : BeginUpdate(o) \/ ListOne(o) \/ BeginSweep(o) \/ SweepOne(o)
  \/ EndUpdate \/ EndList \/ ListRead \/ SweepWrite \/ EndSweep \/ Swept
  \/ Later

OffersSpec == OffersInit /\ [][OffersNext]_offerVars

-------------------------------------------------------------------------------
\* An offer somebody can still accept is in both sets; a driver who asks is shown
\* every offer that was open and still is; after a withdrawal none of the offers
\* there were is pending, if none ran out under it.  Unless a read fails, which takes
\* the offer out of the driver's set (store_redis.go: SaveOffers, PendingForDriver, ExpireOffers).
OffersAreFound ==
  storeFaults = 0 =>
    /\ kept = "redis" => \A o \in Offer : IsOpen(o, at) =>
         o \in byDriver[o[1]].ids /\ o \in byTrip.ids
    /\ list.step = "told" => \A o \in list.due : IsOpen(o, list.time) => o \in list.out
    /\ sweep.step = "told" /\ ~sweep.cut => \A o \in sweep.due : ~Pending(o)
===============================================================================
