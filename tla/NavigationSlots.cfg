SPECIFICATION Spec
CONSTANTS
  MaxWorkspaces = 4
  Windows = {w1, w2}
  Popups = {}
  Launches = {c1}
  Devices = {}
  PredefinedChoices = {0}
  SettleTicks = 1
  Interruptions = {}
  NoWindow = NoWindow
  NoDevice = NoDevice
SYMMETRY Symmetry
INVARIANTS
  TypeOK
  DynamicTail
PROPERTIES
  WindowsKept
  MutationsPublished
