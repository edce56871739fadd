\* Liveness is checked, of both buses: no symmetry.
SPECIFICATION BusSpec
CONSTANTS
  Events = {e1}
  Kinds = {"ASSIGNED", "EXPIRED", "OFFER"}
  Pods = {p1, p2}
  RiderPhones = {f1, f2}
  DriverPhones = {g1}
  MaxAttempts = 2
  MaxDeliver = 2
  MaxFaults = 2
  MaxCopies = 2
  Roots = {h1, h2}
  Children = {h1}
INVARIANTS
  PublishedIsOnStream
  AckedIsTold
PROPERTIES
  NothingForgotten
  StopCompletes
\* Every event is delivered, or the bus is closed.
CHECK_DEADLOCK FALSE
