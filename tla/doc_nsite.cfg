\* The untrusted text of an nsite, asked for through op_status.
SPECIFICATION Spec
CONSTANTS
  site = site
  app = app
  Name <- MCName
  Document <- MCDocument
  Unstated = Unstated
  None = None
  PolicyInstalled = TRUE
INVARIANT NsiteTextNeverReachesClient
CHECK_DEADLOCK FALSE
