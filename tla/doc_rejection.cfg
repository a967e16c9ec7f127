\* A rejection whose content is JSON but not an object.
SPECIFICATION Spec
CONSTANTS
  c1 = c1
  c2 = c2
  NoCall = NoCall
  Call <- MCOneCall
  Event <- MCEvents
  MaxEvents = 2
  ServerKeyKnown = TRUE
INVARIANT RejectionReported
CHECK_DEADLOCK FALSE
