SPECIFICATION Spec
CONSTANTS
  Left = left
  Buttons = {left, right}
  Tiles = {t1, t2}
  Dialog = dialog
  Shapes = {x, y}
  Backends = {"winit", "tty"}
  NoButton = NoButton
  NoWindow = NoWindow
  NoDrag = NoDrag
SYMMETRY Symmetry
INVARIANTS
  DragOwnsPointer
  ButtonsAccounted
PROPERTIES
  CancelLeavesNoTrace
