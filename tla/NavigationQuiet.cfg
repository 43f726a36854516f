SPECIFICATION Spec
CONSTANTS
  MaxWorkspaces = 3
  Windows = {}
  Popups = {}
  Launches = {}
  Devices = {d1, d2}
  PredefinedChoices = {0}
  SettleTicks = 1
  Interruptions = {"grabbed", "layerGrab", "selecting", "unfocused", "overview"}
  NoWindow = NoWindow
  NoDevice = NoDevice
INVARIANTS
  TimerRunsWithMotion
  ClientSwipePaired
PROPERTIES
  QuietMotionEnds
