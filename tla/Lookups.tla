-------------------------------- MODULE Lookups --------------------------------
(***************************************************************************)
(* What is asked of others for money and remembered for a while: addresses *)
(* (places.Service in front of MemoryCache or RedisCache) and the access   *)
(* token of FCM (FCM.accessToken).  Requests run side by side; the cache   *)
(* is not locked between looking and keeping, the token is.                *)
(***************************************************************************)
EXTENDS Integers, FiniteSets

CONSTANTS
  Askers,        \* requests under way
  Spots,         \* points on the map, two to a rounded one
  TTL,
  MaxItems,
  Lag,           \* an answer is kept and a message sent within this time
  TokenLife, Margin,
  LastInstant,
  LookupFaults

VARIABLES
  cacheKind,     \* "memory", "redis", or "none" when it is about the token
  instant,
  items,         \* key -> [said, exp], or Nothing
  asks,          \* asker -> [step, spot, said, at]; .said: when the provider said it
  token,         \* the time the token is taken to end at; 0 is none yet
  exchange,      \* asker -> the time he locked and asked for a token at, or 0
  lookupFaults

lookupVars == <<cacheKind, instant, items, asks, token, exchange, lookupFaults>>

Key(spot) == spot \div 2
Nothing == [said |-> 0, exp |-> 0]
Resting == [step |-> "rest"]

LookupsInit ==
  /\ cacheKind \in {"memory", "redis", "none"}
  /\ instant = 1
  /\ items = [k \in {Key(s) : s \in Spots} |-> Nothing]
  /\ asks = [a \in Askers |-> Resting]
  /\ token = 0 /\ exchange = [a \in Askers |-> 0]
  /\ lookupFaults = 0

CacheFails == lookupFaults < LookupFaults /\ lookupFaults' = lookupFaults + 1

\* To the last moment in memory, up to it in Redis.
Fresh(k) ==
  /\ items[k] # Nothing
  /\ IF cacheKind = "memory" THEN instant <= items[k].exp ELSE instant < items[k].exp

-------------------------------------------------------------------------------
(* cached, for Reverse: points nearby share a key.                         *)

Told(said) == [step |-> "told", said |-> said, at |-> instant]

\* A cache that fails is a cache that has nothing.
LookUp(a, spot) ==
  /\ asks[a] = Resting /\ cacheKind # "none"
  /\ \/ /\ Fresh(Key(spot))
        /\ asks' = [asks EXCEPT ![a] = Told(items[Key(spot)].said)]
        /\ UNCHANGED <<items, lookupFaults>>
     \/ /\ ~Fresh(Key(spot))
        /\ asks' = [asks EXCEPT ![a] = [step |-> "fetch", spot |-> spot]]
        /\ items' = [items EXCEPT ![Key(spot)] = Nothing]
        /\ UNCHANGED lookupFaults
     \/ /\ CacheFails
        /\ asks' = [asks EXCEPT ![a] = [step |-> "fetch", spot |-> spot]]
        /\ UNCHANGED items
  /\ UNCHANGED <<cacheKind, instant, token, exchange>>

\* The provider answers or does not.
Fetch(a) ==
  /\ asks[a].step = "fetch"
  /\ \/ asks' = [asks EXCEPT ![a] = [step |-> "keep", spot |-> asks[a].spot, said |-> instant]]
        /\ UNCHANGED lookupFaults
     \/ asks' = [asks EXCEPT ![a] = Resting] /\ CacheFails
  /\ UNCHANGED <<cacheKind, instant, items, token, exchange>>

Stocked == {k \in DOMAIN items : items[k] # Nothing}

\* Mutant: a full cache drops what has run out, and then grows.
RoomByAge == {{k \in Stocked : Cardinality(Stocked) < MaxItems \/ Fresh(k)}}

\* What may stay when something is kept: all, or, when it is full, the fresh ones
\* and of them, chosen at random, fewer than MaxItems.
Room ==
  IF cacheKind = "redis" \/ Cardinality(Stocked) < MaxItems THEN {Stocked}
  ELSE LET fresh == {k \in Stocked : Fresh(k)}
       IN  IF Cardinality(fresh) < MaxItems THEN {fresh}
           ELSE {s \in SUBSET fresh : Cardinality(s) = MaxItems - 1}

Keep(a) ==
  LET k == Key(asks[a].spot)
  IN  /\ asks[a].step = "keep"
      /\ \/ /\ \E stay \in Room :
                 items' = [j \in DOMAIN items |->
                   IF j = k THEN [said |-> asks[a].said, exp |-> instant + TTL]
                   ELSE IF j \in stay THEN items[j] ELSE Nothing]
            /\ UNCHANGED lookupFaults
         \/ UNCHANGED items /\ cacheKind = "redis" /\ CacheFails
      /\ asks' = [asks EXCEPT ![a] = Told(asks[a].said)]
      /\ UNCHANGED <<cacheKind, instant, token, exchange>>

-------------------------------------------------------------------------------
(* accessToken and Send.                                                   *)

TakeToken(a) ==
  /\ asks[a] = Resting /\ cacheKind = "none"
  /\ \A b \in Askers : exchange[b] = 0
  /\ IF token # 0 /\ instant < token - Margin
     THEN asks' = [asks EXCEPT ![a] = [step |-> "send", said |-> instant]] /\ UNCHANGED exchange
     ELSE UNCHANGED asks /\ exchange' = [exchange EXCEPT ![a] = instant]
  /\ UNCHANGED <<cacheKind, instant, items, token, lookupFaults>>

\* The life Google gives begins when it answers; FCM counts from when it asked.
Exchanged(a) ==
  /\ exchange[a] # 0
  /\ \/ /\ token' = exchange[a] + TokenLife
        /\ asks' = [asks EXCEPT ![a] = [step |-> "send", said |-> instant]]
        /\ UNCHANGED lookupFaults
     \/ UNCHANGED <<token, asks>> /\ CacheFails
  /\ exchange' = [exchange EXCEPT ![a] = 0]
  /\ UNCHANGED <<cacheKind, instant, items>>

Rest(a) ==
  /\ asks[a].step \in {"told", "send"}
  /\ asks' = [asks EXCEPT ![a] = Resting]
  /\ UNCHANGED <<cacheKind, instant, items, token, exchange, lookupFaults>>

\* Redis forgets; in memory an entry stays until somebody looks or needs room.
NextInstant ==
  /\ instant < LastInstant
  /\ \A a \in Askers : /\ asks[a].step \in {"keep", "send"} => instant - asks[a].said < Lag
                       /\ exchange[a] # 0 => instant - exchange[a] < Lag
  /\ instant' = instant + 1
  /\ items' = [k \in DOMAIN items |->
       IF cacheKind = "redis" /\ items[k].exp = instant + 1 THEN Nothing ELSE items[k]]
  /\ UNCHANGED <<cacheKind, asks, token, exchange, lookupFaults>>

LookupsNext ==
  \/ \E a \in Askers :
       \/ \E spot \in Spots : LookUp(a, spot)
       \/ Fetch(a) \/ Keep(a) \/ TakeToken(a) \/ Exchanged(a) \/ Rest(a)
  \/ NextInstant

LookupsSpec == LookupsInit /\ [][LookupsNext]_lookupVars

-------------------------------------------------------------------------------
\* Whatever answers overtake each other, none is told that is older than its life
\* and the time it took to be kept; the memory cache stays within its limit; a token
\* is sent only while it lives (places/service.go: cached; places/cache.go; fcm.go: accessToken).
LookupsAreFresh ==
  /\ \A a \in Askers : asks[a].step = "told" =>
       asks[a].at - asks[a].said <= TTL + Lag
  /\ cacheKind = "memory" => Cardinality(Stocked) <= MaxItems
  /\ \A a \in Askers : asks[a].step = "send" => instant < token
===============================================================================
