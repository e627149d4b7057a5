SPECIFICATION Spec
CONSTANTS
  JobIds = {j1}
  Listeners = {t1}
  Workers = {w1}
  NoJob = NoJob
  MaxChunks = 3
  RingChunks = 2
  ListenerBuffer = 1
  WireFrames = 2
INVARIANTS
  ListenersOpen
  StreamInOrder
  NoListenerLeft
  FinalStatusIsComplete
PROPERTIES
  JobEnds
  StreamEnds
CHECK_DEADLOCK FALSE
