\* Two administrators, two pods, no fault.
SPECIFICATION SettingSpec
CONSTANTS
  Pods = {p1, p2}
  Admins = {a1, a2}
  MaxLoads = 1
  MaxEdits = 0
  SettingFaults = 0
PROPERTY OnlyAskedFields
CHECK_DEADLOCK FALSE
