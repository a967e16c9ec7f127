\* A result that carries another catalogue digest.
SPECIFICATION Spec
CONSTANTS
  c1 = c1
  c2 = c2
  NoCall = NoCall
  Call <- MCOneCall
  Event <- MCEvents
  MaxEvents = 2
  ServerKeyKnown = TRUE
INVARIANT StatusReturnsResultWhenTerminal
CHECK_DEADLOCK FALSE
