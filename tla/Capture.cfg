SPECIFICATION Spec
CONSTANTS
  Clients = {c1, c2}
  MaxSessions = 2
  MaskBits = 2
  MaxWorkspaces = 3
  Modes = {small, large}
  Huge = huge
  WindowSize = framed
  NoPixels = NoPixels
SYMMETRY Symmetry
INVARIANTS
  SharedAsAllowed
  FramesAccounted
