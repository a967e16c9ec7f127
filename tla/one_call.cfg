\* One call, an event of every class, longer streams, and an iterator that may
\* never end.
SPECIFICATION EndlessIteratorSpec
CONSTANTS
  c1 = c1
  c2 = c2
  NoCall = NoCall
  Call <- MCOneCall
  Event <- MCEvents
  MaxEvents = 3
  ServerKeyKnown = TRUE
PROPERTIES
  KeepsPromise
  AnswersWithoutDelay
CHECK_DEADLOCK FALSE
