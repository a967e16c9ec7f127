\* Two calls, cancelled anywhere: what they answer follows their logs, and
\* under fairness they end and leave nothing.
SPECIFICATION FairSpec
CONSTANTS
  c1 = c1
  c2 = c2
  NoCall = NoCall
  Call <- MCCall
  Event <- MCLiveEvents
  MaxEvents = 2
  ServerKeyKnown = TRUE
INVARIANTS
  TypeOK
  AnswerFollowsLog
  NoAnswerTakenBack
  IInv
  NobodyWaitsInVain
  NoThreadUnattended
PROPERTIES
  EveryStepIsProgress
  EveryCallEnds
  NothingLeftRunning
  LoopRecovers
CHECK_DEADLOCK FALSE
