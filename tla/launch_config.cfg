\* Every launch, edits of operator.toml at any moment of it.
SPECIFICATION Spec
CONSTANTS
  agent = agent
  other = other
  operator = operator
  server = server
  admin = admin
  Secret = {agent, other, operator}
  Pubkey = {server, admin}
  Absent = Absent
  Malformed = Malformed
  Blank = Blank
  Unreadable = Unreadable
  Given <- MCGiven
  File <- MCFile
INVARIANTS
  TypeOK
  NoOperatorKeyOverHttp
  FieldsFromFirstSource
  FailsForCause
