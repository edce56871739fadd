\* Two pods and two PUTs; one driver, two papers and three requests, with the
\* windows of 7, 15 and 30 days scaled to 0, 1 and 1; six rows, three of each
\* instant, two to a page.  PodsConverge is a liveness property: no symmetry.
SPECIFICATION OfficeSpec
CONSTANTS
  Pods = {p1, p2}
  Admins = {a1, a2}
  MaxLoads = 1
  MaxEdits = 1
  SettingFaults = 1
  Requests = {1, 2, 3}
  Papers = {insurance, license}
  LastDay = 2
  UrgentDays = 0
  SoonDays = 1
  WindowDays = 1
  NoProfile = NoProfile
  Times = {1, 2}
  Ids = {1, 2, 3}
  PageSize = 2
INVARIANTS
  HistoryExplains
  CountsMatchGate
  PagesComplete
PROPERTIES
  StandsOnCurrentProfile
  PodsConverge
\* All requests are answered and all pages shown.
CHECK_DEADLOCK FALSE
