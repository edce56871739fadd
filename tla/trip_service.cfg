SPECIFICATION Spec
CONSTANTS
  Trips = {t1, t2}
  Drivers = {d1, d2}
  Calls = {c1, c2}
  Stars = {low, high}
  NoDriver = NoDriver
  NoRating = NoRating
  NoCall = NoCall
SYMMETRY Symmetry
INVARIANTS
  LogIsHistory
  OneActivePerDriver
  OutcomeAnnouncedOnce
  MessagesAreTrue
  RatedOnce
PROPERTY ImplementsLifecycle
\* Every trip can end and every rating be given: the system really stops.
CHECK_DEADLOCK FALSE
