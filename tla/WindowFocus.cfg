SPECIFICATION Spec
CONSTANTS
  Windows = {a, b}
  Slots = {s1}
  Orders = {"layout", "mru"}
  Placements = {"none"}
  ShellStates = {"none", "topExclusive", "overlay"}
  Overlays = {"fullscreen", "maximized"}
  Looks = {"minimized", "floating"}
  Dialogs = {FALSE}
  HostStates = {TRUE, FALSE}
  MaxHistory = 2
  NoWindow = NoWindow
  Shell = Shell
  Nobody = Nobody
SYMMETRY Symmetry
INVARIANTS
  KeyboardFollowsSight
PROPERTIES
  HiddenShellIsLeft
  FocusGranted
