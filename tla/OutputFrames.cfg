SPECIFICATION FramesSpec
CONSTANTS
  Backends = {"tty", "winit"}
  MaxFlips = 2
INVARIANTS
  NobodyWaitsInVain
PROPERTIES
  FramesArrive
