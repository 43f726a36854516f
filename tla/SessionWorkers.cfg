SPECIFICATION Spec
CONSTANTS
  MaxRequests = 3
  MaxPendingActions = 1
  NoJob = NoJob
  NoFile = NoFile
  NoAnswer = NoAnswer
  Failure = Failure
INVARIANTS
  NothingOutlives
PROPERTIES
  OpensWhatWasClicked
  DropEnds
  DisplayReaches
CHECK_DEADLOCK FALSE
