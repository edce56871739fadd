SPECIFICATION Spec
CONSTANTS
  Periods = {p1, p2}
  Drivers = {d1, d2}
  Jobs = {j1, j2}
  MinPayout = 2
  MaxCredit = 2
  MaxCharge = 1
  Nothing = Nothing
SYMMETRY Symmetry
INVARIANTS
  TriedOnce
PROPERTY ImplementsBook
\* Every period can be settled: nothing is left to do.
CHECK_DEADLOCK FALSE
