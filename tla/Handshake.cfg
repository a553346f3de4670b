SPECIFICATION Spec
CONSTANTS
  Streams <- ShortStreams
  Skews <- ShortSkews
INVARIANT ClassifierExact
PROPERTY ClassStable
CHECK_DEADLOCK FALSE
