\* Every catalogue, caller and body.
SPECIFICATION Spec
CONSTANTS
  site = site
  app = app
  Name <- MCName
  Document <- MCDocument
  Unstated = Unstated
  None = None
  PolicyInstalled = TRUE
INVARIANTS
  TypeOK
  SecretsRedacted
  NsiteCallsRedacted
CHECK_DEADLOCK FALSE
