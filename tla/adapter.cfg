SPECIFICATION FairSpec
CONSTANTS
  ServerKeyKnown = TRUE
  Operation = {o1}
  Key = {"owner", "alice"}
  Owner = "owner"
  Actor <- MCActor
  Floor <- MCFloor
  MaxCatalogue = 1
  Call = {c1}
  NoOperation = none
  Forgeable <- MCForgeable
  MaxFaults = 1
INVARIANTS
  TypeOK
  AnswersAreTrue
  BoundaryIsTrue
  OrphansNeedLoss
PROPERTIES
  StatusKeepsUp
  KeepsService
  PollingLearns
CHECK_DEADLOCK FALSE
