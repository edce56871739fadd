------------------------------- MODULE MCPayout -------------------------------
(* Small settlements: two periods, which may be the same days cut in two ways, *)
(* and two jobs at once.  Only safety is checked, so the symmetry is sound.    *)
EXTENDS Payout, TLC

Symmetry ==
  Permutations(Periods) \cup Permutations(Drivers) \cup Permutations(Jobs)
===============================================================================
