------------------------ MODULE HttpTransportProofs ------------------------
(***************************************************************************)
(* For any number of requests, credentials and keys, any chunk lengths and *)
(* any cap: HttpTransport keeps its types, admits a credential once, lets  *)
(* tool calls act for the signer only, refuses for a cause, and keeps      *)
(* bodies within the cap.                                                  *)
(***************************************************************************)
EXTENDS HttpTransport, TLAPS

LEMMA TypeInit == Init => TypeOK
<1> SUFFICES ASSUME Init PROVE TypeOK
  OBVIOUS
<1>1. /\ phase \in [Request -> Phase]
      /\ header \in [Request -> Credential \cup {NoCredential}]
      /\ pending \in [Request -> Messages \cup {NoMessage}]
      /\ context \in [Request -> Key \cup {NoKey}]
      /\ actor \in [Request -> Key \cup {NoKey}]
  BY DEF Init, Phase
<1> QED
  BY <1>1 DEF Init, TypeOK

(* A chunk on its way has a length and says whether more follow.           *)
LEMMA PendingChunk ==
  ASSUME TypeOK, NEW r \in Request, pending[r] # NoMessage
  PROVE  pending[r].length \in Nat /\ pending[r].more \in BOOLEAN
<1>1. pending[r] \in Messages
  BY DEF TypeOK
<1> QED
  BY <1>1, HttpAssumption DEF Messages

(* Taking it in keeps the types of what it changes.                        *)
LEMMA ReceivesTypes ==
  ASSUME TypeOK, NEW r \in Request, Receives(r)
  PROVE  /\ pending' \in [Request -> Messages \cup {NoMessage}]
         /\ size' \in [Request -> Nat]
         /\ Keep(r) => kept' \in [Request -> Nat]
  BY PendingChunk DEF TypeOK, Receives, Keep

LEMMA TypeNext == TypeOK /\ [Next]_vars => TypeOK'
<1> SUFFICES ASSUME TypeOK, [Next]_vars PROVE TypeOK'
  OBVIOUS
<1> USE HttpAssumption DEF TypeOK, Phase
<1>1. CASE UNCHANGED vars
  BY <1>1 DEF vars
<1>2. CASE Next
  <2>0. PICK r \in Request : Client(r) \/ Task(r)
    BY <1>2 DEF Next
  <2>1. ASSUME NEW h \in Credential \cup {NoCredential}, Arrive(r, h)
        PROVE  TypeOK'
    BY <2>1 DEF Arrive
  <2>2. ASSUME NEW message \in Messages, Send(r, message)
        PROVE  TypeOK'
    BY <2>2 DEF Send
  <2>3. CASE Disconnect(r)
    BY <2>3 DEF Disconnect
  <2>4. CASE ReceiveTooMuch(r)
    BY <2>4, ReceivesTypes DEF ReceiveTooMuch, Receives, Refuse
  <2>5. CASE ReceivePart(r)
    BY <2>5, ReceivesTypes DEF ReceivePart, Receives
  <2>6. CASE Admit(r)
    <3>1. Receives(r) /\ Keep(r) /\ Ensure /\ UNCHANGED status
      BY <2>6 DEF Admit, ReceiveLast
    <3>2. header[r] \in Credential
      BY <2>6 DEF Admit, Verifies
    <3>3. used' \subseteq Credential
      BY <2>6, <3>2 DEF Admit, Ensured
    <3>4. context' \in [Request -> Key \cup {NoKey}]
      BY <2>6, <3>2 DEF Admit, Bind
    <3>5. phase' \in [Request -> Phase]
      BY <2>6 DEF Admit
    <3> QED
      BY <3>1, <3>3, <3>4, <3>5, ReceivesTypes DEF Receives, Ensure
  <2>7. CASE RefuseCredential(r)
    <3>1. /\ Receives(r) /\ Keep(r) /\ Ensure /\ UNCHANGED context
          /\ Refuse(r, 401)
      BY <2>7 DEF RefuseCredential, ReceiveLast
    <3>2. used' \subseteq Credential
      BY <2>7 DEF RefuseCredential, Ensured, Ensure, Recordable, Recordable
    <3> QED
      BY <3>1, <3>2, ReceivesTypes DEF Receives, Refuse, Ensure
  <2>8. CASE ReceiveDisconnect(r)
    BY <2>8 DEF ReceiveDisconnect
  <2>9. CASE Call(r)
    BY <2>9 DEF Call
  <2>10. CASE Return(r)
    BY <2>10 DEF Return
  <2> QED
    BY <2>0, <2>1, <2>2, <2>3, <2>4, <2>5, <2>6, <2>7, <2>8, <2>9, <2>10
       DEF Client, Task
<1> QED
  BY <1>1, <1>2

(* Every variable has its type in every state.                             *)
THEOREM HttpTypeCorrect == Spec => []TypeOK
  BY TypeInit, TypeNext, PTL DEF Spec

-----------------------------------------------------------------------------
LEMMA InvInit == Init => IInv
<1> SUFFICES ASSUME Init PROVE IInv
  OBVIOUS
<1>1. TypeOK
  BY TypeInit
<1> QED
  BY <1>1, HttpAssumption
     DEF Init, IInv, ReadingInv, AdmittedInv, CacheInv, AdmittedOnce,
         ActsForSigner, RefusedForCause, BodyWithinCapAndSigned, Admitted

LEMMA InvNext == IInv /\ [Next]_vars => IInv'
<1> SUFFICES ASSUME IInv, [Next]_vars PROVE IInv'
  OBVIOUS
<1>1. TypeOK /\ TypeOK'
  BY TypeNext DEF IInv
<1>2. CASE UNCHANGED vars
  BY <1>2, <1>1
     DEF vars, IInv, ReadingInv, AdmittedInv, CacheInv, AdmittedOnce,
         ActsForSigner, RefusedForCause, BodyWithinCapAndSigned, Admitted
<1>3. CASE Next
  <2>0. PICK r \in Request : Client(r) \/ Task(r)
    BY <1>3 DEF Next
  <2>1. ASSUME NEW h \in Credential \cup {NoCredential}, Arrive(r, h)
        PROVE  IInv'
    <3>1. \A q \in Request : ReadingInv(q)'
      BY <2>1 DEF TypeOK, IInv, ReadingInv, Arrive
    <3>2. \A q \in Request : AdmittedInv(q)'
      BY <2>1 DEF IInv, ReadingInv, AdmittedInv, Admitted, Arrive
    <3>3. CacheInv'
      BY <2>1 DEF IInv, CacheInv, Arrive
    <3>4. AdmittedOnce'
      BY <2>1 DEF IInv, ReadingInv, AdmittedOnce, Admitted, Arrive
    <3>5. ActsForSigner'
      BY <2>1 DEF IInv, ReadingInv, ActsForSigner, Arrive
    <3>a. (ensured = "missing" => \A q \in Request : ~Admitted(q))'
      BY <3>2 DEF AdmittedInv
    <3>6. RefusedForCause'
      <4>1. status[r] = 0
        BY <2>1 DEF IInv, ReadingInv, Arrive
      <4>2. header[r] = NoCredential
        BY <2>1 DEF IInv, ReadingInv, Arrive
      <4>3. \A q \in Request : status[q] # 0 => q # r
        BY <4>1
      <4> QED
        BY <3>a, <2>1, <4>2, <4>3 DEF IInv, RefusedForCause, Arrive
    <3>7. BodyWithinCapAndSigned'
      BY <2>1 DEF IInv, ReadingInv, BodyWithinCapAndSigned, Admitted, Arrive
    <3> QED
      BY <1>1, <3>1, <3>2, <3>3, <3>4, <3>5, <3>6, <3>7 DEF IInv
  <2>2. ASSUME NEW message \in Messages, Send(r, message)
        PROVE  IInv'
    <3>1. \A q \in Request : ReadingInv(q)'
      <4>1. message # NoMessage /\ message.more \in BOOLEAN
        BY HttpAssumption DEF Messages
      <4>2. /\ pending'[r] = message /\ complete'[r] = ~message.more
            /\ phase[r] = "reading"
        BY <1>1, <2>2 DEF TypeOK, Send
      <4>3. ReadingInv(r)'
        BY <2>2, <4>1, <4>2 DEF IInv, ReadingInv, Send
      <4>4. ASSUME NEW q \in Request \ {r} PROVE ReadingInv(q)'
        BY <2>2 DEF IInv, ReadingInv, Send
      <4> QED
        BY <4>3, <4>4
    <3>2. \A q \in Request : AdmittedInv(q)'
      BY <2>2 DEF IInv, AdmittedInv, Admitted, Send
    <3>3. CacheInv'
      BY <2>2 DEF IInv, CacheInv, Send
    <3>4. AdmittedOnce'
      BY <2>2 DEF IInv, AdmittedOnce, Admitted, Send
    <3>5. ActsForSigner'
      BY <2>2 DEF IInv, ActsForSigner, Send
    <3>a. (ensured = "missing" => \A q \in Request : ~Admitted(q))'
      BY <3>2 DEF AdmittedInv
    <3>6. RefusedForCause'
      BY <3>a, <2>2 DEF IInv, RefusedForCause, Send
    <3>7. BodyWithinCapAndSigned'
      BY <2>2 DEF IInv, BodyWithinCapAndSigned, Admitted, Send
    <3> QED
      BY <1>1, <3>1, <3>2, <3>3, <3>4, <3>5, <3>6, <3>7 DEF IInv
  <2>3. CASE Disconnect(r)
    <3>1. \A q \in Request : ReadingInv(q)'
      BY <2>3 DEF IInv, ReadingInv, Disconnect
    <3>2. \A q \in Request : AdmittedInv(q)'
      BY <2>3 DEF IInv, AdmittedInv, Admitted, Disconnect
    <3>3. CacheInv'
      BY <2>3 DEF IInv, CacheInv, Disconnect
    <3>4. AdmittedOnce'
      BY <2>3 DEF IInv, AdmittedOnce, Admitted, Disconnect
    <3>5. ActsForSigner'
      BY <2>3 DEF IInv, ActsForSigner, Disconnect
    <3>a. (ensured = "missing" => \A q \in Request : ~Admitted(q))'
      BY <3>2 DEF AdmittedInv
    <3>6. RefusedForCause'
      BY <3>a, <2>3 DEF IInv, RefusedForCause, Disconnect
    <3>7. BodyWithinCapAndSigned'
      BY <2>3 DEF IInv, BodyWithinCapAndSigned, Admitted, Disconnect
    <3> QED
      BY <1>1, <3>1, <3>2, <3>3, <3>4, <3>5, <3>6, <3>7 DEF IInv
  <2>4. CASE ReceiveTooMuch(r)
    <3>1. \A q \in Request : ReadingInv(q)'
      BY <2>4 DEF TypeOK, IInv, ReadingInv, ReceiveTooMuch, Receives, Refuse
    <3>2. \A q \in Request : AdmittedInv(q)'
      BY <2>4
         DEF IInv, AdmittedInv, Admitted, ReceiveTooMuch, Receives, Refuse
    <3>3. CacheInv'
      BY <2>4 DEF IInv, CacheInv, ReceiveTooMuch, Receives, Refuse
    <3>4. AdmittedOnce'
      BY <2>4
         DEF IInv, AdmittedOnce, Admitted, ReceiveTooMuch, Receives, Refuse
    <3>5. ActsForSigner'
      BY <2>4 DEF IInv, ActsForSigner, ReceiveTooMuch, Receives
    <3>a. (ensured = "missing" => \A q \in Request : ~Admitted(q))'
      BY <3>2 DEF AdmittedInv
    <3>6. RefusedForCause'
      BY <3>a, <1>1, <2>4, HttpAssumption
         DEF TypeOK, IInv, RefusedForCause, ReceiveTooMuch, Receives, WithinCap,
             Refuse
    <3>7. BodyWithinCapAndSigned'
      BY <2>4
         DEF IInv, BodyWithinCapAndSigned, Admitted, ReceiveTooMuch, Receives,
             Refuse
    <3> QED
      BY <1>1, <3>1, <3>2, <3>3, <3>4, <3>5, <3>6, <3>7 DEF IInv
  <2>5. CASE ReceivePart(r)
    <3>1. \A q \in Request : ReadingInv(q)'
      BY <2>5
         DEF TypeOK, IInv, ReadingInv, ReceivePart, Receives, WithinCap, Keep
    <3>2. \A q \in Request : AdmittedInv(q)'
      BY <2>5 DEF IInv, AdmittedInv, Admitted, ReceivePart, Receives
    <3>3. CacheInv'
      BY <2>5 DEF IInv, CacheInv, ReceivePart, Receives
    <3>4. AdmittedOnce'
      BY <2>5 DEF IInv, AdmittedOnce, Admitted, ReceivePart, Receives
    <3>5. ActsForSigner'
      BY <2>5 DEF IInv, ActsForSigner, ReceivePart, Receives
    <3>a. (ensured = "missing" => \A q \in Request : ~Admitted(q))'
      BY <3>2 DEF AdmittedInv
    <3>6. RefusedForCause'
      BY <3>a, <2>5
         DEF IInv, ReadingInv, RefusedForCause, ReceivePart, Receives
    <3>7. BodyWithinCapAndSigned'
      BY <2>5
         DEF IInv, ReadingInv, BodyWithinCapAndSigned, Admitted, ReceivePart,
             Receives, WithinCap, Keep
    <3> QED
      BY <1>1, <3>1, <3>2, <3>3, <3>4, <3>5, <3>6, <3>7 DEF IInv
  <2>6. CASE Admit(r)
    <3>1. \A q \in Request : ReadingInv(q)'
      BY <2>6 DEF TypeOK, IInv, ReadingInv, Admit, ReceiveLast, Receives, Keep
    <3>2. \A q \in Request : AdmittedInv(q)'
      <4>1. ensured # "missing" /\ header[r] \in Credential
        BY <1>1, <2>6 DEF TypeOK, Admit, Verifies
      <4>2. ensured' = "yes" /\ used' = Ensured \cup {header[r]}
        BY <2>6, <4>1 DEF Admit, ReceiveLast, Ensure
      <4>3. /\ phase' = [phase EXCEPT ![r] = "app"]
            /\ context' = [context EXCEPT ![r] = SignerOf[header[r]]]
            /\ UNCHANGED <<header, status>>
        BY <2>6 DEF Admit, ReceiveLast, Receives, Bind
      <4> QED
        BY <1>1, <4>1, <4>2, <4>3
           DEF TypeOK, IInv, AdmittedInv, Admitted, Ensured
    <3>3. CacheInv'
      BY <2>6
         DEF TypeOK, IInv, CacheInv, Admit, ReceiveLast, Receives, Ensured, Ensure
    <3>4. AdmittedOnce'
      BY <2>6
         DEF IInv, AdmittedInv, AdmittedOnce, Admitted, Admit, ReceiveLast,
             Receives, Verifies, Ensured
    <3>5. ActsForSigner'
      BY <2>6 DEF IInv, ActsForSigner, Admit, ReceiveLast, Receives
    <3>a. (ensured = "missing" => \A q \in Request : ~Admitted(q))'
      BY <3>2 DEF AdmittedInv
    <3>6. RefusedForCause'
      BY <3>a, <2>6
         DEF IInv, ReadingInv, RefusedForCause, Admit, ReceiveLast, Receives,
             Ensure
    <3>7. BodyWithinCapAndSigned'
      BY <2>6
         DEF IInv, ReadingInv, BodyWithinCapAndSigned, Admitted, Admit,
             ReceiveLast, Receives, WithinCap, Keep, Verifies
    <3> QED
      BY <1>1, <3>1, <3>2, <3>3, <3>4, <3>5, <3>6, <3>7 DEF IInv
  <2>7. CASE RefuseCredential(r)
    <3>1. \A q \in Request : ReadingInv(q)'
      BY <2>7
         DEF TypeOK, IInv, ReadingInv, RefuseCredential, ReceiveLast, Receives,
             Keep, Refuse
    <3>2. \A q \in Request : AdmittedInv(q)'
      BY <2>7
         DEF IInv, AdmittedInv, Admitted, RefuseCredential, ReceiveLast,
             Receives, Ensured, Ensure, Recordable, Refuse
    <3>3. CacheInv'
      BY <2>7
         DEF TypeOK, IInv, CacheInv, RefuseCredential, ReceiveLast, Receives,
             Ensured, Ensure, Recordable, Refuse
    <3>4. AdmittedOnce'
      BY <2>7
         DEF IInv, AdmittedOnce, Admitted, RefuseCredential, ReceiveLast,
             Receives, Refuse
    <3>5. ActsForSigner'
      BY <2>7 DEF IInv, ActsForSigner, RefuseCredential, ReceiveLast, Receives
    <3>a. (ensured = "missing" => \A q \in Request : ~Admitted(q))'
      BY <3>2 DEF AdmittedInv
    <3>6. RefusedForCause'
      BY <3>a, <2>7
         DEF TypeOK, IInv, ReadingInv, CacheInv, RefusedForCause,
             RefuseCredential, ReceiveLast, Receives, Keep, Verifies, Ensured,
             Ensure, Recordable,
             Refuse
    <3>7. BodyWithinCapAndSigned'
      BY <2>7
         DEF IInv, ReadingInv, BodyWithinCapAndSigned, Admitted,
             RefuseCredential, ReceiveLast, Receives, WithinCap, Keep, Refuse
    <3> QED
      BY <1>1, <3>1, <3>2, <3>3, <3>4, <3>5, <3>6, <3>7 DEF IInv
  <2>8. CASE ReceiveDisconnect(r)
    <3>1. \A q \in Request : ReadingInv(q)'
      BY <2>8 DEF IInv, ReadingInv, ReceiveDisconnect
    <3>2. \A q \in Request : AdmittedInv(q)'
      BY <2>8 DEF IInv, AdmittedInv, Admitted, ReceiveDisconnect
    <3>3. CacheInv'
      BY <2>8 DEF IInv, CacheInv, ReceiveDisconnect
    <3>4. AdmittedOnce'
      BY <2>8 DEF IInv, AdmittedOnce, Admitted, ReceiveDisconnect
    <3>5. ActsForSigner'
      BY <2>8 DEF IInv, ActsForSigner, ReceiveDisconnect
    <3>a. (ensured = "missing" => \A q \in Request : ~Admitted(q))'
      BY <3>2 DEF AdmittedInv
    <3>6. RefusedForCause'
      BY <3>a, <2>8 DEF IInv, RefusedForCause, ReceiveDisconnect
    <3>7. BodyWithinCapAndSigned'
      BY <2>8 DEF IInv, BodyWithinCapAndSigned, Admitted, ReceiveDisconnect
    <3> QED
      BY <1>1, <3>1, <3>2, <3>3, <3>4, <3>5, <3>6, <3>7 DEF IInv
  <2>9. CASE Call(r)
    <3>1. \A q \in Request : ReadingInv(q)'
      BY <2>9 DEF IInv, ReadingInv, Call
    <3>2. \A q \in Request : AdmittedInv(q)'
      BY <2>9 DEF IInv, AdmittedInv, Admitted, Call
    <3>3. CacheInv'
      BY <2>9 DEF IInv, CacheInv, Call
    <3>4. AdmittedOnce'
      BY <2>9 DEF IInv, AdmittedOnce, Admitted, Call
    <3>5. ActsForSigner'
      BY <2>9, HttpAssumption
         DEF IInv, AdmittedInv, ActsForSigner, Admitted, Call
    <3>a. (ensured = "missing" => \A q \in Request : ~Admitted(q))'
      BY <3>2 DEF AdmittedInv
    <3>6. RefusedForCause'
      BY <3>a, <2>9 DEF IInv, RefusedForCause, Call
    <3>7. BodyWithinCapAndSigned'
      BY <2>9 DEF IInv, BodyWithinCapAndSigned, Admitted, Call
    <3> QED
      BY <1>1, <3>1, <3>2, <3>3, <3>4, <3>5, <3>6, <3>7 DEF IInv
  <2>10. CASE Return(r)
    <3>1. \A q \in Request : ReadingInv(q)'
      BY <2>10 DEF IInv, ReadingInv, Return
    <3>2. \A q \in Request : AdmittedInv(q)'
      BY <2>10 DEF TypeOK, IInv, AdmittedInv, Admitted, Return
    <3>3. CacheInv'
      BY <2>10 DEF IInv, CacheInv, Return
    <3>4. AdmittedOnce'
      BY <2>10 DEF IInv, AdmittedOnce, Admitted, Return
    <3>5. ActsForSigner'
      BY <2>10 DEF IInv, ActsForSigner, Return
    <3>a. (ensured = "missing" => \A q \in Request : ~Admitted(q))'
      BY <3>2 DEF AdmittedInv
    <3>6. RefusedForCause'
      BY <3>a, <2>10 DEF IInv, RefusedForCause, Return
    <3>7. BodyWithinCapAndSigned'
      BY <2>10 DEF IInv, BodyWithinCapAndSigned, Admitted, Return
    <3> QED
      BY <1>1, <3>1, <3>2, <3>3, <3>4, <3>5, <3>6, <3>7 DEF IInv
  <2> QED
    BY <2>0, <2>1, <2>2, <2>3, <2>4, <2>5, <2>6, <2>7, <2>8, <2>9, <2>10
       DEF Client, Task
<1> QED
  BY <1>2, <1>3

(* What holds together while requests interleave at every receive          *)
(* (http.py:37-81): the context, the cache and what was kept of a body.    *)
THEOREM Invariance == Spec => []IInv
  BY InvInit, InvNext, PTL DEF Spec

(* A credential admits one request.                                        *)
THEOREM CredentialsAdmitOnce == Spec => []AdmittedOnce
<1>1. IInv => AdmittedOnce
  BY DEF IInv
<1> QED
  BY Invariance, <1>1, PTL

(* A tool call acts for the key that signed its request.                   *)
THEOREM CallsActForSigner == Spec => []ActsForSigner
<1>1. IInv => ActsForSigner
  BY DEF IInv
<1> QED
  BY Invariance, <1>1, PTL

(* A request is refused for a cause.                                       *)
THEOREM RefusalsHaveCauses == Spec => []RefusedForCause
<1>1. IInv => RefusedForCause
  BY DEF IInv
<1> QED
  BY Invariance, <1>1, PTL

(* What is kept of a body is within the cap and, once admitted, what was   *)
(* signed.                                                                 *)
THEOREM BodiesAreSigned == Spec => []BodyWithinCapAndSigned
<1>1. IInv => BodyWithinCapAndSigned
  BY DEF IInv
<1> QED
  BY Invariance, <1>1, PTL

-----------------------------------------------------------------------------
(***************************************************************************)
(* What NothingElseStops and the refinement need beside IInv: a request    *)
(* has not acted before its app runs a call.                               *)
(***************************************************************************)
NotYetActed ==
  \A r \in Request : phase[r] \in {"idle", "reading", "app"} => actor[r] = NoKey

StopInv == NothingElseStops /\ NotYetActed

LEMMA StopInit == Init => StopInv
  BY DEF Init, StopInv, NothingElseStops, NotYetActed, LoopFree

(* A chunk that is received was not the last, or the body is all there.    *)
LEMMA StopNext == IInv /\ StopInv /\ [Next]_vars => StopInv'
<1> SUFFICES ASSUME IInv, StopInv, [Next]_vars PROVE StopInv'
  OBVIOUS
<1>1. TypeOK /\ NothingElseStops /\ NotYetActed
  BY DEF IInv, StopInv
<1>2. CASE UNCHANGED vars
  BY <1>1, <1>2 DEF vars, StopInv, NothingElseStops, NotYetActed, LoopFree
<1>3. CASE Next
  <2>0. PICK r \in Request : Client(r) \/ Task(r)
    BY <1>3 DEF Next
  <2>1. ASSUME NEW h \in Credential \cup {NoCredential}, Arrive(r, h)
        PROVE  StopInv'
    BY <1>1, <2>1
       DEF TypeOK, IInv, ReadingInv, StopInv, NothingElseStops, NotYetActed,
           LoopFree, Arrive
  <2>2. ASSUME NEW message \in Messages, Send(r, message)
        PROVE  StopInv'
    <3>1. message # NoMessage /\ message.more \in BOOLEAN
      BY HttpAssumption DEF Messages
    <3>2. pending'[r] = message /\ complete'[r] = ~message.more
      BY <1>1, <2>2 DEF TypeOK, Send
    <3> QED
      BY <1>1, <2>2, <3>1, <3>2
         DEF TypeOK, StopInv, NothingElseStops, NotYetActed, LoopFree, Send
  <2>3. CASE Disconnect(r)
    BY <1>1, <2>3
       DEF TypeOK, StopInv, NothingElseStops, NotYetActed, LoopFree, Disconnect
  <2>4. CASE ReceiveTooMuch(r)
    BY <1>1, <2>4
       DEF TypeOK, StopInv, NothingElseStops, NotYetActed, LoopFree,
           ReceiveTooMuch, Receives, Refuse
  <2>5. CASE ReceivePart(r)
    BY <1>1, <2>5
       DEF TypeOK, StopInv, NothingElseStops, NotYetActed, LoopFree,
           ReceivePart, Receives
  <2>6. CASE Admit(r)
    BY <1>1, <2>6
       DEF TypeOK, StopInv, NothingElseStops, NotYetActed, LoopFree,
           Admit, ReceiveLast, Receives
  <2>7. CASE RefuseCredential(r)
    BY <1>1, <2>7
       DEF TypeOK, StopInv, NothingElseStops, NotYetActed, LoopFree,
           RefuseCredential, ReceiveLast, Receives, Refuse
  <2>8. CASE ReceiveDisconnect(r)
    BY <1>1, <2>8
       DEF StopInv, NothingElseStops, NotYetActed, LoopFree, ReceiveDisconnect
  <2>9. CASE Call(r)
    BY <1>1, <2>9
       DEF TypeOK, StopInv, NothingElseStops, NotYetActed, LoopFree, Call
  <2>10. CASE Return(r)
    BY <1>1, <2>10
       DEF TypeOK, StopInv, NothingElseStops, NotYetActed, LoopFree, Return
  <2> QED
    BY <2>0, <2>1, <2>2, <2>3, <2>4, <2>5, <2>6, <2>7, <2>8, <2>9, <2>10
       DEF Client, Task
<1> QED
  BY <1>2, <1>3

LEMMA StopInvariant == Spec => []StopInv
<1>1. Init => StopInv
  BY StopInit
<1>2. IInv /\ StopInv /\ [Next]_vars => StopInv'
  BY StopNext
<1> QED
  BY <1>1, <1>2, Invariance, PTL DEF Spec

(* Only a client that goes away in the middle of its body keeps a request  *)
(* from its answer (http.py:37-81).                                        *)
THEOREM OnlyDisconnectsStop == Spec => []NothingElseStops
<1>1. StopInv => NothingElseStops
  BY DEF StopInv
<1> QED
  BY <1>1, StopInvariant, PTL

-----------------------------------------------------------------------------
(***************************************************************************)
(* HttpTransport implements Admission: taking in the last chunk admits or  *)
(* refuses, a chunk over the cap refuses, a tool call acts, and every      *)
(* other step leaves verdicts and actors alone.                            *)
(***************************************************************************)
LEMMA AdmissionInit == Init => Promise!Init
  BY DEF Init, Promise!Init, Verdict, Admitted

LEMMA SameVerdicts ==
  ASSUME UNCHANGED actor,
         \A s \in Request : /\ Verdict(s)' = Verdict(s)
                            /\ Admitted(s) => header'[s] = header[s]
  PROVE  UNCHANGED Promise!vars
<1>1. \A s \in Request : Admitted(s)' <=> Admitted(s)
  BY DEF Verdict
<1> QED
  BY <1>1 DEF Promise!vars

(* A request under way is refused.                                         *)
LEMMA RefusedOne ==
  ASSUME TypeOK, NEW r \in Request, phase[r] = "reading", status[r] = 0,
         NEW code \in {401, 413}, Refuse(r, code), UNCHANGED <<header, actor>>
  PROVE  Promise!Refuse(r)
<1>1. Verdict(r) = "none" /\ ~Admitted(r) /\ ~Admitted(r)'
  BY DEF TypeOK, Verdict, Admitted, Refuse
<1>2. header' = header /\ actor' = actor
  OBVIOUS
<1> DEFINE verdict == [s \in Request |-> Verdict(s)]
           by == [s \in Request |-> IF Admitted(s) THEN header[s]
                                    ELSE NoCredential]
<1>3. verdict[r] = "none"
  BY <1>1
<1>4. verdict' = [verdict EXCEPT ![r] = "refused"]
  <2>1. verdict'[r] = "refused"
    BY DEF TypeOK, Verdict, Admitted, Refuse
  <2>2. ASSUME NEW s \in Request, s # r
        PROVE  verdict'[s] = verdict[s]
    BY <2>2 DEF TypeOK, Verdict, Admitted, Refuse
  <2> QED
    BY ONLY <2>1, <2>2
<1>5. by' = by
  BY <1>2 DEF TypeOK, Verdict, Admitted, Refuse
<1> QED
  BY <1>2, <1>3, <1>4, <1>5 DEF Promise!Refuse

LEMMA AdmissionNext ==
  IInv /\ StopInv /\ [Next]_vars => [Promise!Next]_(Promise!vars)
<1> SUFFICES ASSUME IInv, StopInv, [Next]_vars
             PROVE  [Promise!Next]_(Promise!vars)
  OBVIOUS
<1>1. TypeOK /\ NotYetActed
  BY DEF IInv, StopInv
<1>2. CASE UNCHANGED vars
  BY <1>2, SameVerdicts DEF vars, Verdict, Admitted
<1>3. CASE Next
  <2>0. PICK r \in Request : Client(r) \/ Task(r)
    BY <1>3 DEF Next
  <2>a. phase[r] = "reading" => status[r] = 0
    BY DEF IInv, ReadingInv
  <2>1. ASSUME NEW h \in Credential \cup {NoCredential}, Arrive(r, h)
        PROVE  UNCHANGED Promise!vars
    <3>1. ~Admitted(r)
      BY <2>1 DEF IInv, ReadingInv, Arrive, Admitted
    <3>2. \A s \in Request : Verdict(s)' = Verdict(s)
      BY <1>1, <2>1 DEF TypeOK, Arrive, Verdict, Admitted
    <3> QED
      BY <1>1, <2>1, <3>1, <3>2, SameVerdicts DEF TypeOK, Arrive
  <2>2. ASSUME NEW message \in Messages, Send(r, message)
        PROVE  UNCHANGED Promise!vars
    BY <2>2, SameVerdicts DEF Send, Verdict, Admitted
  <2>3. CASE Disconnect(r) \/ ReceivePart(r) \/ ReceiveDisconnect(r)
    BY <2>3, SameVerdicts
       DEF Disconnect, ReceivePart, Receives, ReceiveDisconnect, Verdict,
           Admitted
  <2>4. CASE ReceiveTooMuch(r)
    <3>1. Promise!Refuse(r)
      BY <1>1, <2>a, <2>4, RefusedOne DEF ReceiveTooMuch, Receives
    <3> QED
      BY <3>1 DEF Promise!Next
  <2>5. CASE RefuseCredential(r)
    <3>1. Promise!Refuse(r)
      BY <1>1, <2>a, <2>5, RefusedOne
         DEF RefuseCredential, ReceiveLast, Receives
    <3> QED
      BY <3>1 DEF Promise!Next
  <2>6. CASE Admit(r)
    <3>1. /\ phase[r] = "reading" /\ phase' = [phase EXCEPT ![r] = "app"]
          /\ UNCHANGED <<header, status, actor>>
      BY <2>6 DEF Admit, ReceiveLast, Receives
    <3>2. PICK h \in Credential :
            h = header[r] /\ h \notin Ensured /\ SignedLength[h] = kept'[r]
      BY <1>1, <2>6 DEF TypeOK, Admit, Verifies
    <3>3. kept'[r] <= MaxBody
      BY InvNext, <1>3 DEF IInv, BodyWithinCapAndSigned
    <3>4. Verdict(r) = "none" /\ Verdict(r)' = "admitted"
      BY <1>1, <2>a, <3>1 DEF TypeOK, Verdict, Admitted
    <3>5. ~Admitted(r) /\ Admitted(r)'
      BY <3>4 DEF Verdict
    <3>6. \A s \in Request \ {r} : /\ Verdict(s)' = Verdict(s)
                                  /\ Admitted(s)' <=> Admitted(s)
      BY <3>1 DEF Verdict, Admitted
    <3>7. \A s \in Request : Admitted(s) => header[s] # h
      BY <3>2 DEF IInv, AdmittedInv, Ensured
    <3> DEFINE verdict == [s \in Request |-> Verdict(s)]
               by == [s \in Request |-> IF Admitted(s) THEN header[s]
                                        ELSE NoCredential]
    <3>8. verdict[r] = "none" /\ verdict' = [verdict EXCEPT ![r] = "admitted"]
      <4>1. verdict[r] = "none" /\ verdict'[r] = "admitted"
        BY <1>1, <2>a, <3>1 DEF TypeOK, Verdict, Admitted
      <4>2. ASSUME NEW s \in Request, s # r
            PROVE  verdict'[s] = verdict[s]
        BY <1>1, <3>1, <4>2 DEF TypeOK, Verdict, Admitted
      <4> QED
        BY <4>1, <4>2
    <3>9. by' = [by EXCEPT ![r] = h]
      BY <1>1, <2>a, <3>1, <3>2 DEF TypeOK, Verdict, Admitted
    <3>10. \A s \in Request : by[s] # h
      BY <3>2, <3>7, HttpAssumption
    <3>11. Promise!Admit(r, h)
      BY <3>1, <3>2, <3>3, <3>8, <3>9, <3>10 DEF Promise!Admit
    <3>12. \E g \in Credential : Promise!Admit(r, g)
      BY <3>2, <3>11
    <3> QED
      BY <3>12 DEF Promise!Next
  <2>7. CASE Call(r)
    <3>1. /\ phase[r] = "app" /\ phase' = [phase EXCEPT ![r] = "calling"]
          /\ UNCHANGED <<header, status>>
      BY <2>7 DEF Call
    <3>2. Admitted(r) /\ Verdict(r) = "admitted" /\ actor[r] = NoKey
      BY <1>1, <3>1 DEF Admitted, Verdict, NotYetActed
    <3>3. context[r] = SignerOf[header[r]] /\ context[r] \in Key
      BY <3>1, <3>2, HttpAssumption DEF IInv, AdmittedInv
    <3>4. actor' = [actor EXCEPT ![r] = SignerOf[header[r]]]
      BY <2>7, <3>3, HttpAssumption DEF Call
    <3>5. \A s \in Request : /\ Verdict(s)' = Verdict(s)
                            /\ Admitted(s)' <=> Admitted(s)
      BY <1>1, <3>1 DEF TypeOK, Verdict, Admitted
    <3> DEFINE verdict == [s \in Request |-> Verdict(s)]
               by == [s \in Request |-> IF Admitted(s) THEN header[s]
                                        ELSE NoCredential]
    <3>6. verdict' = verdict /\ by' = by
      BY <1>1, <3>1 DEF TypeOK, Verdict, Admitted
    <3>7. verdict[r] = "admitted" /\ by[r] = header[r]
      BY <3>2
    <3>8. Promise!Act(r)
      BY <3>2, <3>4, <3>6, <3>7 DEF Promise!Act
    <3> QED
      BY <3>8 DEF Promise!Next
  <2>8. CASE Return(r)
    <3>1. \A s \in Request : Verdict(s)' = Verdict(s)
      BY <1>1, <2>8 DEF TypeOK, Return, Verdict, Admitted
    <3> QED
      BY <2>8, <3>1, SameVerdicts DEF Return
  <2> QED
    BY <2>0, <2>1, <2>2, <2>3, <2>4, <2>5, <2>6, <2>7, <2>8
       DEF Client, Task
<1> QED
  BY <1>2, <1>3

(* Bodies in chunks, credentials checked and recorded, identities bound to *)
(* tasks (http.py:29-81, auth.py:28-62): together, one verdict on each     *)
(* request, by a credential nothing else was admitted by.                  *)
THEOREM ImplementsAdmission == Spec => KeepsAdmission
<1>1. Init => Promise!Init
  BY AdmissionInit
<1>2. IInv /\ StopInv /\ [Next]_vars => [Promise!Next]_(Promise!vars)
  BY AdmissionNext
<1> QED
  BY <1>1, <1>2, Invariance, StopInvariant, PTL
     DEF Spec, KeepsAdmission, Promise!Spec
=============================================================================
