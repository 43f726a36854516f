SPECIFICATION Spec
CONSTANTS
  Windows = {a, b}
  Slots = {s1, s2}
  Orders = {"layout", "mru"}
  Placements = {"none"}
  ShellStates = {"overlay", "overlayExclusive"}
  Overlays = {"fullscreen"}
  Looks = {"minimized"}
  Dialogs = {FALSE}
  HostStates = {TRUE}
  MaxHistory = 2
  NoWindow = NoWindow
  Shell = Shell
  Nobody = Nobody
SYMMETRY Symmetry
INVARIANTS
  MinimizedReachable
PROPERTIES
  OverlaysTravel
  FamilyTogether
  CycleKeepsRecency
