SPECIFICATION Spec
CONSTANTS
  Streams <- LongStreams
  Skews = {0}
INVARIANT RoutesOnNextState
CHECK_DEADLOCK FALSE
