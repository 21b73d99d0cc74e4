SPECIFICATION FairSpec
CONSTANTS
  Pool = {p}
  Order = {o}
  Special = {s}
  Fund = {f}
  PoolOf <- MCPoolOf
  Genesis = {p, o, f}
  MaxForeign = 1
  MaxFaults = 1
  MaxEvictions = 0
  Patient = FALSE
  FeeTakers = {o}
  FilterSize = 4
  Capacity = 1
  MaxOwn = 1
  BoxUses = {"replaced", "added"}
  None = None
  Absent = Absent
CHECK_DEADLOCK FALSE
INVARIANT IndexSound
PROPERTIES
  OwnSpendsStick
  EventuallyQuiet
