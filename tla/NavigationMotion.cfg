SPECIFICATION Spec
CONSTANTS
  MaxWorkspaces = 4
  Windows = {w1}
  Popups = {p1}
  Launches = {}
  Devices = {d1}
  PredefinedChoices = {2}
  SettleTicks = 1
  Interruptions = {}
  NoWindow = NoWindow
  NoDevice = NoDevice
INVARIANTS
  NoDanglingIndex
PROPERTIES
  SwipeLandsWhereShown
