SPECIFICATION Spec
CONSTANTS
  Subscribers = {s1}
  Contents = {c1, c2}
  MaxPending = 2
  MaxGeneration = 3
  MaxReloads = 2
  MaxShortcuts = 4
INVARIANTS
  NoLostWake
  NothingMissed
PROPERTIES
  FeedImplemented
  GapsAnnounced
  EventsArrive
CHECK_DEADLOCK FALSE
