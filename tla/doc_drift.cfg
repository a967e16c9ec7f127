\* The daemon restarts with an edited operator.toml, the adapter runs on.
SPECIFICATION Spec
CONSTANTS
  agent = agent
  other = other
  operator = operator
  server = server
  admin = admin
  Secret = {agent, other, operator}
  Pubkey = {server, admin}
  Absent = Absent
  Malformed = Malformed
  Blank = Blank
  Unreadable = Unreadable
  Given <- MCGiven
  File <- MCFile
PROPERTY AdminsNeverDrift
