\* Two requests, credentials of two clients, chunks around the cap of 2.
SPECIFICATION FairSpec
CONSTANTS
  r1 = r1
  r2 = r2
  r3 = r3
  alice = alice
  bob = bob
  a1 = a1
  b1 = b1
  Request = {r1, r2}
  Credential = {a1, b1}
  Key = {alice, bob}
  SignerOf <- MCSignerOf
  SignedLength <- MCSignedLength
  Length = {1, 2}
  MaxBody = 2
  Configured = bob
  NoKey = NoKey
  NoMessage = NoMessage
  NoCredential = NoCredential
  NoRequest = NoRequest
INVARIANTS
  TypeOK
  AdmittedOnce
  ActsForSigner
  RefusedForCause
  BodyWithinCapAndSigned
  IInv
  NothingElseStops
PROPERTIES
  KeepsAdmission
  AnsweredUnlessSpinning
CHECK_DEADLOCK FALSE
