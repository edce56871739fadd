-------------------------------- MODULE Settings --------------------------------
(***************************************************************************)
(* Business settings (internal/settings): one versioned row per group with *)
(* its history, a snapshot of all groups in the memory of every pod that   *)
(* is reloaded after CacheTTL, and the console's PUT, which merges the     *)
(* fields it was sent onto the snapshot of the pod it reached.             *)
(*                                                                         *)
(* One group is followed.  A value has two fields, each out of range at 0; *)
(* in the groups Ordered the second may not be below the first (the radii  *)
(* of matching, the step and the cap of surge).                            *)
(***************************************************************************)
EXTENDS Naturals, FiniteSets, Sequences, SequencesExt

CONSTANTS
  Pods,       \* processes that serve requests, each with its snapshot
  Admins,     \* PUT requests of the console, one each
  MaxLoads,   \* Reloads of one pod that overlap
  MaxEdits,   \* corrections by hand in the database
  SettingFaults  \* statements and calls that fail

ASSUME SettingsAssumption == MaxEdits \in Nat /\ SettingFaults \in Nat

VARIABLES
  group,      \* the group that is edited
  row,        \* its row: version (0 = never stored) and value
  history,    \* settings_history of the group, oldest first
  pods,       \* pod -> the group in its snapshot
  loads,      \* Reloads that have read the table and not stored the snapshot
  puts,       \* PUT request -> how far it is
  changed,    \* settings.changed messages nobody has handled
  byHand,     \* what was put into the row by hand, with the version it had
  settingFaults

settingVars == <<group, row, history, pods, loads, puts, changed, byHand, settingFaults>>

AllKeys == {"pricing", "surge", "matching", "wallet", "location"}
Value == [low : 0 .. 2, high : 0 .. 2]
Default == [low |-> 1, high |-> 2]
Broken == [low |-> 2, high |-> 0]
Narrow == [low |-> 1, high |-> 1]

-------------------------------------------------------------------------------
(* What the groups accept, and how a fragment is read.                     *)

InRange(v) == v.low > 0 /\ v.high > 0

PricingValid(v) == InRange(v)
SurgeValid(v) == InRange(v) /\ v.low <= v.high
MatchingValid(v) == InRange(v) /\ v.low <= v.high
WalletValid(v) == InRange(v)
LocationValid(v) == InRange(v)

Valid(v) ==
  \/ group = "pricing" /\ PricingValid(v)
  \/ group = "surge" /\ SurgeValid(v)
  \/ group = "matching" /\ MatchingValid(v)
  \/ group = "wallet" /\ WalletValid(v)
  \/ group = "location" /\ LocationValid(v)

\* Only the fields that are present replace what is there.
Merge(fragment, base) == [f \in DOMAIN base |->
  IF f \in DOMAIN fragment THEN fragment[f] ELSE base[f]]

\* The form offers a range per field; what relates two fields it cannot offer.
FormOffers == [{"low"} -> {2}] \cup [{"high"} -> {1}]

\* A script may send what the form does not.
Fragments == FormOffers \cup [{"high"} -> {0}]

\* Mutant: a group in the table is taken without looking at it.
DecodeUnchecked(r) ==
  IF r.version > 0 THEN r ELSE [version |-> 0, value |-> Default]

\* A row that cannot be used leaves the default, and version 0.
Decode(r) ==
  IF r.version > 0 /\ Valid(r.value)
  THEN r ELSE [version |-> 0, value |-> Default]

-------------------------------------------------------------------------------
SettingInit ==
  /\ group \in {"matching", "wallet"}
  /\ row = [version |-> 0, value |-> Default]
  /\ history = <<>>
  /\ pods = [p \in Pods |-> [version |-> 0, value |-> Default]]
  /\ loads = {}
  /\ puts = [a \in Admins |-> [step |-> "new"]]
  /\ changed = 0 /\ byHand = {} /\ settingFaults = 0

MayFail == settingFaults < SettingFaults /\ settingFaults' = settingFaults + 1
NoFault == UNCHANGED settingFaults

(* The snapshots.                                                          *)

\* One SELECT: a row with its version, or none for a group nobody has changed.
GetAll == row

\* The start of a Reload; several may be under way in one pod.
StartLoad(p) ==
  /\ Cardinality({l \in loads : l.pod = p}) < MaxLoads
  /\ loads' = loads \cup {[pod |-> p, read |-> GetAll]}

\* Current reloads when CacheTTL has passed, and time may always have; when the
\* database fails it answers with the old one, and the next call tries again.
Current(p) ==
  /\ StartLoad(p) /\ NoFault
  /\ UNCHANGED <<group, row, history, pods, puts, changed, byHand>>

\* Mutant: a snapshot of the same version is not stored again.
StoreNewer(l) ==
  /\ l \in loads
  /\ loads' = loads \ {l}
  /\ pods' = [pods EXCEPT ![l.pod] =
       IF l.read.version > @.version THEN Decode(l.read) ELSE @]
  /\ UNCHANGED <<group, row, history, puts, changed, byHand, settingFaults>>

\* The end of Reload: whichever comes last is what the pod serves.
Reload(l) ==
  /\ l \in loads
  /\ loads' = loads \ {l}
  /\ pods' = [pods EXCEPT ![l.pod] = Decode(l.read)]
  /\ UNCHANGED <<group, row, history, puts, changed, byHand, settingFaults>>

\* All pods share the durable consumer settings-reload: one of them is told.
HandleChanged(p) ==
  /\ changed > 0
  /\ changed' = changed - 1
  /\ StartLoad(p) /\ NoFault
  /\ UNCHANGED <<group, row, history, pods, puts, byHand>>

(* A PUT.                                                                  *)

\* The console has shown the group: the version of the row goes into the PUT.
View(a, fragment) ==
  /\ puts[a].step = "new"
  /\ puts' = [puts EXCEPT ![a] =
       [step |-> "viewed", fragment |-> fragment, expect |-> row.version]]
  /\ UNCHANGED <<group, row, history, pods, loads, changed, byHand, settingFaults>>

Answer(a) == puts' = [puts EXCEPT ![a] = [step |-> "answered"]]

\* Put merges onto what this pod serves, and checks before it writes.
Probe(a, p) ==
  /\ puts[a].step = "viewed"
  /\ LET value == Merge(puts[a].fragment, pods[p].value)
     IN  IF Valid(value)
         THEN puts' = [puts EXCEPT ![a] =
                [step |-> "checked", pod |-> p, fragment |-> @.fragment, value |-> value,
                 expect |-> @.expect]]
         ELSE Answer(a)
  /\ UNCHANGED <<group, row, history, pods, loads, changed, byHand, settingFaults>>

Write(a) ==
  /\ row' = [version |-> row.version + 1, value |-> puts[a].value]
  /\ history' = Append(history,
       [version |-> row.version + 1, old |-> row.value, new |-> puts[a].value])
  /\ puts' = [puts EXCEPT ![a] = [step |-> "written", pod |-> @.pod]]

\* Mutant: the version the console has seen is not compared.
PutUnseen(a) ==
  /\ puts[a].step = "checked"
  /\ row.version > 0
  /\ Write(a)
  /\ UNCHANGED <<group, pods, loads, changed, byHand, settingFaults>>

\* With a row, FOR UPDATE holds it from the comparison to the commit.
Put(a) ==
  /\ puts[a].step = "checked"
  /\ row.version > 0
  /\ IF row.version = puts[a].expect
     THEN Write(a)
     ELSE Answer(a) /\ UNCHANGED <<row, history>>
  /\ UNCHANGED <<group, pods, loads, changed, byHand, settingFaults>>

\* Without a row there is nothing to lock: two first PUTs both get here.
PutFirst(a) ==
  /\ puts[a].step = "checked"
  /\ row.version = 0
  /\ IF puts[a].expect = 0
     THEN puts' = [puts EXCEPT ![a].step = "inserting"]
     ELSE Answer(a)
  /\ UNCHANGED <<group, row, history, pods, loads, changed, byHand, settingFaults>>

\* Mutant: the first row is written with ON CONFLICT DO UPDATE.
InsertOver(a) ==
  /\ puts[a].step = "inserting"
  /\ row' = [version |-> 1, value |-> puts[a].value]
  /\ history' = Append(history,
       [version |-> 1, old |-> Default, new |-> puts[a].value])
  /\ puts' = [puts EXCEPT ![a] = [step |-> "written", pod |-> @.pod]]
  /\ UNCHANGED <<group, pods, loads, changed, byHand, settingFaults>>

\* The primary key refuses the second one.
InsertFirst(a) ==
  /\ puts[a].step = "inserting"
  /\ IF row.version = 0
     THEN Write(a)
     ELSE Answer(a) /\ UNCHANGED <<row, history>>
  /\ UNCHANGED <<group, pods, loads, changed, byHand, settingFaults>>

\* The transaction fails or the process dies before the commit.
PutFails(a) ==
  /\ puts[a].step \in {"viewed", "checked", "inserting"}
  /\ MayFail /\ Answer(a)
  /\ UNCHANGED <<group, row, history, pods, loads, changed, byHand>>

\* Put reloads its own pod and tells the others; if it cannot, it is done.
ReloadOwn(a) ==
  /\ puts[a].step = "written"
  /\ puts' = [puts EXCEPT ![a] = [step |-> "read", pod |-> @.pod, read |-> row]]
  /\ UNCHANGED <<group, row, history, pods, loads, changed, byHand, settingFaults>>

Announce(a) ==
  /\ puts[a].step = "read"
  /\ pods' = [pods EXCEPT ![puts[a].pod] = Decode(puts[a].read)]
  /\ \/ changed' = changed + 1 /\ NoFault
     \/ UNCHANGED changed /\ MayFail
  /\ Answer(a)
  /\ UNCHANGED <<group, row, history, loads, byHand>>

AnnounceNothing(a) ==
  /\ puts[a].step = "written"
  /\ MayFail /\ Answer(a)
  /\ UNCHANGED <<group, row, history, pods, loads, changed, byHand>>

\* Somebody corrects the value in the database, to something usable or not: the
\* version stays and the history gets no entry.
EditByHand ==
  /\ row.version > 0 /\ Cardinality(byHand) < MaxEdits
  /\ \E value \in {Broken, Narrow} :
       /\ row' = [row EXCEPT !.value = value]
       /\ byHand' = byHand \cup {[version |-> row.version, value |-> value]}
  /\ UNCHANGED <<group, history, pods, loads, puts, changed, settingFaults>>

-------------------------------------------------------------------------------
PutStep(a) ==
  \/ Put(a) \/ PutFirst(a) \/ InsertFirst(a) \/ PutFails(a)
  \/ ReloadOwn(a) \/ Announce(a) \/ AnnounceNothing(a)
  \/ \E f \in Fragments : View(a, f)
  \/ \E p \in Pods : Probe(a, p)

SettingNext ==
  \/ \E p \in Pods : Current(p) \/ HandleChanged(p)
  \/ \E l \in loads : Reload(l)
  \/ \E a \in Admins : PutStep(a)
  \/ EditByHand

\* Requests keep asking every pod for its settings and time passes; nobody has
\* to send a PUT, and no message has to arrive.
SettingFairness ==
  \A p \in Pods :
    /\ WF_settingVars(Current(p))
    /\ WF_settingVars(\E l \in loads : l.pod = p /\ Reload(l))

SettingSpec == SettingInit /\ [][SettingNext]_settingVars /\ SettingFairness

-------------------------------------------------------------------------------
PutState ==
  [step : {"new", "answered"}]
    \cup [step : {"viewed"}, fragment : Fragments, expect : Nat]
    \cup [step : {"checked", "inserting"}, pod : Pods, fragment : Fragments,
           value : Value, expect : Nat]
    \cup [step : {"written"}, pod : Pods]
    \cup [step : {"read"}, pod : Pods, read : [version : Nat, value : Value]]

SettingTypeOK ==
  /\ group \in AllKeys
  /\ row \in [version : Nat, value : Value]
  /\ history \in Seq([version : Nat, old : Value, new : Value])
  /\ pods \in [Pods -> [version : Nat, value : Value]]
  /\ loads \subseteq [pod : Pods, read : [version : Nat, value : Value]]
  /\ puts \in [Admins -> PutState]
  /\ changed \in Nat /\ byHand \subseteq [version : Nat, value : Value]
  /\ settingFaults \in 0 .. SettingFaults

\* The value of version n: what the history says it became, or what somebody made
\* of it by hand.
IsVersion(n, value) ==
  \/ n = 0 /\ value = Default
  \/ n \in DOMAIN history /\ value = history[n].new
  \/ [version |-> n, value |-> value] \in byHand

\* Entries are numbered 1, 2, 3, each starts from the value of the version before
\* it, and the last one is the row's.
Chained ==
  /\ \A i \in DOMAIN history :
       history[i].version = i /\ IsVersion(i - 1, history[i].old)
  /\ row.version = Len(history)
  /\ IsVersion(row.version, row.value)

\* "Every change leaves a trace" (settings/domain.go:12), of the changes the
\* program makes: the history of a group has no gap and no fork, whoever races
\* for the first or a later version, and a pod, however far it lags behind,
\* computes with a version of it.  What is put into the table by hand has no
\* entry; a pod serves it, if it is usable, under the version it was put under.
HistoryExplains ==
  Chained /\ \A p \in Pods : IsVersion(pods[p].version, pods[p].value)

\* Whatever is lost, overtaken or edited, every pod ends up serving the row.
PodsConverge == <>[](\A p \in Pods : pods[p] = Decode(row))

\* What the version is for (settings/domain.go:72): whoever comes second reads
\* again instead of overwriting somebody else's change silently.  A PUT changes
\* only the fields it was sent.
OnlyAskedFields ==
  [][\A a \in Admins :
       puts[a].step \in {"checked", "inserting"} /\ puts'[a].step = "written" =>
         \A f \in DOMAIN row.value \ DOMAIN puts[a].fragment :
           row'.value[f] = row.value[f]]_settingVars
===============================================================================
