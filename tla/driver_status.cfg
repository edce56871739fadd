\* Two trips compete for one driver.  Liveness is checked: no symmetry.
SPECIFICATION FairSpec
CONSTANTS
  Trips = {t1, t2}
  Drivers = {d1}
  NoDriver = NoDriver
  MaxDeliver = 2
  MaxFaults = 1
INVARIANT OneTripPerDriver
PROPERTY StuckDriverRecovers
CHECK_DEADLOCK FALSE
