------------------------------ MODULE PayoutBook ------------------------------
(***************************************************************************)
(* What a settlement run promises, with no jobs and no database: for each  *)
(* period a list of amounts is published once, as a whole, and never       *)
(* changes; money leaves only for a line of a published list, each line at *)
(* most once and for exactly its amount.                                   *)
(***************************************************************************)
EXTENDS Naturals

CONSTANTS Periods, Drivers, Nothing

VARIABLES
  list,     \* period -> Nothing, or driver -> amount to pay (0: no line)
  paid      \* the amount that has left for a line, 0 before

vars == <<list, paid>>

Init ==
  /\ list = [p \in Periods |-> Nothing]
  /\ paid = [p \in Periods |-> [d \in Drivers |-> 0]]

Publish(p) ==
  /\ list[p] = Nothing
  /\ list'[p] \in [Drivers -> Nat]
  /\ list' = [list EXCEPT ![p] = list'[p]]
  /\ UNCHANGED paid

PayOut(p, d) ==
  /\ list[p] # Nothing
  /\ list[p][d] > 0
  /\ paid[p][d] = 0
  /\ paid' = [paid EXCEPT ![p][d] = list[p][d]]
  /\ UNCHANGED list

Next == \E p \in Periods : Publish(p) \/ \E d \in Drivers : PayOut(p, d)

Spec == Init /\ [][Next]_vars
===============================================================================
