\* A client that goes away in the middle of its body.
SPECIFICATION FairSpec
CONSTANTS
  r1 = r1
  r2 = r2
  r3 = r3
  alice = alice
  bob = bob
  a1 = a1
  b1 = b1
  Request = {r1, r2}
  Credential = {a1, b1}
  Key = {alice, bob}
  SignerOf <- MCSignerOf
  SignedLength <- MCSignedLength
  Length = {1, 2}
  MaxBody = 2
  Configured = bob
  NoKey = NoKey
  NoMessage = NoMessage
  NoCredential = NoCredential
  NoRequest = NoRequest
PROPERTY EachRequestVerified
CHECK_DEADLOCK FALSE
