SPECIFICATION Spec
CONSTANTS
  ModKeys = {"super"}
  Keys = {"a", "esc"}
  EscapeKey = "esc"
  ReturnKey = "a"
  ChordKeys = {"esc"}
  Ids = {i1, i2, i3}
  MaxShortcuts = 2
  BoundChoices <- BoundSome
  NoKey = NoKey
  NoId = NoId
  NoTrigger = NoTrigger
SYMMETRY Interchangeable
INVARIANTS
  TriggersDistinct
PROPERTIES
  OnePressLost
  ConsumedStaysConsumed
  TapIsAlone
