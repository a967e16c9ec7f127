\* A cancelled call keeps the event loop of every other call waiting.
SPECIFICATION Spec
CONSTANTS
  c1 = c1
  c2 = c2
  NoCall = NoCall
  Call <- MCCall
  Event <- MCEvents
  MaxEvents = 2
  ServerKeyKnown = TRUE
INVARIANT LoopNeverWaitsForRelay
CHECK_DEADLOCK FALSE
