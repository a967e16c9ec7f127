--------------------------- MODULE AdapterProofs ---------------------------
(***************************************************************************)
(* What the adapter and the control plane keep between them, for any       *)
(* number of operations, calls and faults, and whatever a local process    *)
(* forges: the types, and that what clients are told is true.              *)
(***************************************************************************)
EXTENDS Adapter, TLAPS

(***************************************************************************)
(* The ways an operation moves on.                                         *)
(***************************************************************************)
Advances(s, t) ==
  \/ s = "none" /\ t = "requested"
  \/ s = "requested" /\ t \in {"approved", "failed", "rejected"}
  \/ s = "approved" /\ t = "executing"
  \/ s = "executing" /\ t \in {"succeeded", "failed"}

(* What a genuine event of kind k and body b says of an operation in state *)
(* s, and what an answer says of it, is true.  The daemon says ok with     *)
(* true or false.                                                          *)
TrueEvent(k, b, s) ==
  /\ k = "rejection" => s = "rejected"
  /\ k = "result" => b # "truthy"
  /\ k = "result" /\ b = "ok" => s = "succeeded"
  /\ k = "result" /\ b = "failed" => s = "failed"
  /\ k \in {"started", "progress"} =>
       s \in {"executing", "succeeded", "failed"}

TrueAnswer(a, s) ==
  /\ a = "SUCCEEDED" => s = "succeeded"
  /\ a = "FAILED" => s = "failed"
  /\ a = "REJECTED" => s = "rejected"
  /\ a = "EXECUTING" => s \in {"executing", "succeeded", "failed"}
  /\ a \in NamingAnswers => s # "none"

(* What a step of the daemon, or of those who decide, does to operation o. *)
OpStep(o) ==
  /\ UNCHANGED <<admins, catalogue>>
  /\ \/ UNCHANGED state
     \/ \E t \in States : /\ Advances(state[o], t) /\ state[o] # "none"
                          /\ state' = [state EXCEPT ![o] = t]
  /\ \/ UNCHANGED chain
     \/ \E k \in Kinds : \E b \in Bodies[k] :
          /\ Publishes(o, k, b)
          /\ TrueEvent(k, b, state'[o])
          /\ b \notin {"not_object", "not_json", "stale", "malformed"}
          /\ k \in {"rejection", "result"} =>
               state[o] \in {"requested", "executing"}
  /\ \/ UNCHANGED automatic
     \/ /\ automatic' = automatic \cup {o}
        /\ Ungated(o) /\ state[o] = "requested"
        /\ state' = [state EXCEPT ![o] = "approved"]

(* Truth does not age.                                                     *)
LEMMA TruthStays ==
  ASSUME NEW s, NEW t, Advances(s, t)
  PROVE  /\ \A k, b : TrueEvent(k, b, s) => TrueEvent(k, b, t)
         /\ \A a : TrueAnswer(a, s) => TrueAnswer(a, t)
  BY DEF Advances, TrueEvent, TrueAnswer

LEMMA BodiesOfKinds ==
  /\ Kinds = {"started", "progress", "rejection", "result", "other"}
  /\ Bodies["started"] = {"empty"}
  /\ Bodies["progress"] = {"full", "empty"}
  /\ Bodies["rejection"] = {"object", "not_json", "not_object"}
  /\ Bodies["result"] = {"ok", "truthy", "failed", "stale", "malformed"}
  /\ Bodies["other"] = {"empty"}
  BY DEF Kinds, Bodies

LEMMA OpSteps ==
  ASSUME PlaneTypeOK, NEW o \in Operation, Executes(o) \/ Decides(o)
  PROVE  OpStep(o)
<1> USE BodiesOfKinds DEF PlaneTypeOK, OpStep, Moves, Advances, TrueEvent,
                          States
<1>1. CASE ApproveAutomatically(o)
  BY <1>1 DEF ApproveAutomatically
<1>2. CASE Start(o)
  <2>1. /\ Publishes(o, "started", "empty") /\ state'[o] = "executing"
        /\ "empty" \in Bodies["started"] /\ "started" \in Kinds
    BY <1>2 DEF Start
  <2> QED
    BY <1>2, <2>1 DEF Start
<1>3. CASE Report(o)
  <2>1. /\ Publishes(o, "progress", "full") /\ state'[o] = "executing"
        /\ "full" \in Bodies["progress"] /\ "progress" \in Kinds
    BY <1>3 DEF Report
  <2> QED
    BY <1>3, <2>1 DEF Report
<1>4. ASSUME NEW ok \in BOOLEAN, Finish(o, ok)
      PROVE  OpStep(o)
  <2> DEFINE b == IF ok THEN "ok" ELSE "failed"
  <2>1. /\ Publishes(o, "result", b) /\ b \in Bodies["result"]
        /\ "result" \in Kinds /\ state[o] = "executing"
        /\ TrueEvent("result", b, state'[o])
    BY <1>4 DEF Finish
  <2> QED
    BY <1>4, <2>1 DEF Finish
<1>5. CASE Deny(o)
  <2>1. /\ Publishes(o, "result", "failed") /\ state'[o] = "failed"
        /\ "failed" \in Bodies["result"] /\ "result" \in Kinds
        /\ state[o] = "requested"
    BY <1>5 DEF Deny
  <2> QED
    BY <1>5, <2>1 DEF Deny
<1>6. CASE Reject(o)
  <2>1. /\ Publishes(o, "rejection", "object") /\ state'[o] = "rejected"
        /\ "object" \in Bodies["rejection"] /\ "rejection" \in Kinds
        /\ state[o] = "requested"
    BY <1>6 DEF Reject
  <2> QED
    BY <1>6, <2>1 DEF Reject
<1>7. ASSUME NEW k \in Key, Approve(o, k)
      PROVE  OpStep(o)
  BY <1>7 DEF Approve
<1> QED
  BY <1>1, <1>2, <1>3, <1>4, <1>5, <1>6, <1>7 DEF Executes, Decides

-----------------------------------------------------------------------------
(* Types.                                                                  *)
LEMMA PublicationType ==
  ASSUME catalogue \in 0..MaxCatalogue, NEW k \in Kinds, NEW b \in Bodies[k]
  PROVE  Publication(k, b) \in Publications
<1>1. MaxCatalogue \in Nat
  BY ControlPlaneAssumption
<1>2. b \in UNION {Bodies[j] : j \in Kinds}
  OBVIOUS
<1>3. (IF k = "result" THEN catalogue ELSE 0) \in 0..MaxCatalogue
  BY <1>1
<1> QED
  BY <1>2, <1>3 DEF Publication, Publications

LEMMA AsReadType ==
  ASSUME NEW p \in Publications
  PROVE  AsRead(p) \in Events
<1> DEFINE b == IF p.kind = "result" /\ p.catalogue # known.catalogue
                THEN "stale" ELSE p.body
<1>1. /\ p.kind \in Kinds /\ p.signed \in BOOLEAN /\ p.body \in Bodies[p.kind]
  BY DEF Publications
<1>2. b \in Bodies[p.kind]
  BY <1>1, BodiesOfKinds
<1>3. AsRead(p) \in [kind : {p.kind}, signed : BOOLEAN, body : Bodies[p.kind]]
  BY <1>1, <1>2 DEF AsRead
<1> QED
  BY <1>1, <1>3 DEF Events

LEMMA OpStepType ==
  ASSUME PlaneTypeOK, NEW o \in Operation, OpStep(o)
  PROVE  PlaneTypeOK'
<1>1. state' \in [Operation -> States]
  BY DEF PlaneTypeOK, OpStep, Advances, States
<1>2. chain' \in [Operation -> SUBSET Publications]
  <2>1. ASSUME NEW k \in Kinds, NEW b \in Bodies[k], Publishes(o, k, b)
        PROVE  chain' \in [Operation -> SUBSET Publications]
    <3>1. Publication(k, b) \in Publications
      BY PublicationType DEF PlaneTypeOK
    <3> QED
      BY <2>1, <3>1 DEF PlaneTypeOK, Publishes
  <2> QED
    BY <2>1 DEF OpStep, PlaneTypeOK
<1> QED
  BY <1>1, <1>2 DEF OpStep, PlaneTypeOK

LEMMA InitType == Init => TypeOK
<1> SUFFICES ASSUME Init PROVE TypeOK
  OBVIOUS
<1>1. PlaneTypeOK
  BY ControlPlaneAssumption DEF Init, PlaneInit, PlaneTypeOK, States
<1>2. known \in [admins : SUBSET Key, catalogue : 0..MaxCatalogue]
  BY <1>1 DEF Init, PlaneTypeOK
<1>3. faults \in 0..MaxFaults
  BY AdapterAssumption DEF Init
<1> QED
  BY <1>1, <1>2, <1>3 DEF Init, Promise!Init, TypeOK, Answers, NamingAnswers

(* What the steps of a call share: they leave the control plane alone.     *)
LEMMA ReturnsType ==
  ASSUME TypeOK, NEW c \in Call, stage[c] # "idle",
         NEW a \in Answers \cup NoAnswers, Returns(c, a),
         lost' \subseteq Operation, faults' \in 0..MaxFaults
  PROVE  TypeOK'
<1>1. PlaneTypeOK'
  BY DEF TypeOK, Returns, PlaneTypeOK, planeVars
<1>2. op[c] \in Operation
  BY DEF TypeOK
<1>3. told' \in [Operation -> SUBSET Answers]
  BY <1>2 DEF TypeOK, Returns
<1>4. log' \in [Call -> Seq(Events)]
  BY DEF TypeOK, Returns
<1>5. \A d \in Call : stage'[d] # "idle" => op'[d] \in Operation
  BY DEF TypeOK, Returns
<1> QED
  BY <1>1, <1>3, <1>4, <1>5 DEF TypeOK, Returns

LEMMA EntersType ==
  ASSUME TypeOK, NEW c \in Call, NEW o \in Operation,
         NEW what \in {"operation", "status"},
         NEW where \in {"submitting", "streaming"},
         NEW events \in SUBSET Publications,
         Enters(c, what, o, where, events)
  PROVE  TypeOK'
<1>1. PlaneTypeOK'
  BY DEF TypeOK, Enters, PlaneTypeOK, planeVars
<1>2. \A d \in Call : stage'[d] # "idle" => op'[d] \in Operation
  BY DEF TypeOK, Enters
<1> QED
  BY <1>1, <1>2 DEF TypeOK, Enters, clientVars, adapterVars

LEMMA FaultType ==
  ASSUME TypeOK, Fault
  PROVE  faults' \in 0..MaxFaults
  BY AdapterAssumption DEF TypeOK, Fault

LEMMA TypeNext == TypeOK /\ [Next]_vars => TypeOK'
<1> SUFFICES ASSUME TypeOK, [Next]_vars PROVE TypeOK'
  OBVIOUS
<1>1. CASE UNCHANGED vars
  BY <1>1 DEF vars, planeVars, callVars, promiseVars, clientVars, adapterVars,
              TypeOK, PlaneTypeOK
<1>2. CASE Plane
  <2>1. PlaneTypeOK'
    <3>1. ASSUME NEW o \in Operation, Executes(o) \/ Decides(o)
          PROVE  PlaneTypeOK'
      BY <3>1, OpSteps, OpStepType DEF TypeOK
    <3>2. ASSUME NEW o \in Operation, NEW p \in Forgeable, Forge(o, p)
          PROVE  PlaneTypeOK'
      BY <3>2, AdapterAssumption DEF Forge, TypeOK, PlaneTypeOK
    <3>3. CASE Upgrade
      BY <3>3, ControlPlaneAssumption DEF Upgrade, TypeOK, PlaneTypeOK
    <3> QED
      BY <1>2, <3>1, <3>2, <3>3 DEF Plane
  <2> QED
    BY <1>2, <2>1
       DEF Plane, TypeOK, callVars, promiseVars, clientVars, adapterVars
<1>3. ASSUME NEW k \in Key, AdminAdded(k)
      PROVE  TypeOK'
  <2>1. PlaneTypeOK'
    BY <1>3 DEF AdminAdded, AddAdmin, TypeOK, PlaneTypeOK
  <2> QED
    BY <1>3, <2>1
       DEF AdminAdded, TypeOK, callVars, promiseVars, clientVars, adapterVars
<1>4. CASE Restart
  <2>1. PlaneTypeOK'
    BY <1>4 DEF Restart, TypeOK, PlaneTypeOK, planeVars
  <2>2. lost' \subseteq Operation
    BY <1>4 DEF Restart, TypeOK, Asked, Pending
  <2>3. known' \in [admins : SUBSET Key, catalogue : 0..MaxCatalogue]
    BY <1>4 DEF Restart, TypeOK, PlaneTypeOK
  <2>4. faults' \in 0..MaxFaults
    BY <1>4, FaultType DEF Restart
  <2>5. log' \in [Call -> Seq(Events)]
    BY <1>4 DEF Restart
  <2> QED
    BY <1>4, <2>1, <2>2, <2>3, <2>4, <2>5 DEF Restart, TypeOK
<1>5. ASSUME NEW c \in Call, CallStep(c)
      PROVE  TypeOK'
  <2>1. ASSUME NEW o \in Operation, CallOperation(c, o)
        PROVE  TypeOK'
    BY <2>1, EntersType DEF CallOperation
  <2>2. ASSUME NEW o \in Operation, CallStatus(c, o)
        PROVE  TypeOK'
    <3>1. chain[o] \in SUBSET Publications
      BY DEF TypeOK, PlaneTypeOK
    <3> QED
      BY <2>2, <3>1, EntersType DEF CallStatus
  <2>3. CASE Publish(c)
    <3>1. op[c] \in Operation
      BY <2>3 DEF Publish, TypeOK
    <3>2. PlaneTypeOK'
      BY <2>3, <3>1
         DEF Publish, Request, Moves, TypeOK, PlaneTypeOK, States
    <3> QED
      BY <2>3, <3>1, <3>2
         DEF Publish, TypeOK, promiseVars, clientVars, adapterVars
  <2>4. CASE SubmitFails(c)
    <3>1. lost' \subseteq Operation
      BY <2>4 DEF SubmitFails, TypeOK
    <3> QED
      BY <2>4, <3>1, ReturnsType DEF SubmitFails, NoAnswers, TypeOK
  <2>5. CASE Boundary(c)
    BY <2>5, ReturnsType DEF Boundary, Answers, NamingAnswers, TypeOK
  <2>6. CASE StreamOperation(c)
    <3>1. op[c] \in Operation
      BY <2>6 DEF StreamOperation, TypeOK
    <3>2. PlaneTypeOK'
      BY <2>6 DEF StreamOperation, planeVars, TypeOK, PlaneTypeOK
    <3> QED
      BY <2>6, <3>1, <3>2
         DEF StreamOperation, TypeOK, PlaneTypeOK, promiseVars, clientVars,
             adapterVars
  <2>7. CASE Deliver(c)
    <3>1. PICK p \in chain[op[c]] : Promise!Deliver(c, AsRead(p))
      BY <2>7 DEF Deliver
    <3>2. AsRead(p) \in Events
      BY <2>7, <3>1, AsReadType DEF Deliver, TypeOK, PlaneTypeOK
    <3>3. log' \in [Call -> Seq(Events)]
      BY <3>1, <3>2 DEF Promise!Deliver, TypeOK
    <3>4. PlaneTypeOK'
      BY <2>7 DEF Deliver, planeVars, TypeOK, PlaneTypeOK
    <3> QED
      BY <2>7, <3>1, <3>3, <3>4
         DEF Deliver, Promise!Deliver, TypeOK, clientVars, adapterVars
  <2>8. CASE EndStream(c)
    <3>1. PlaneTypeOK'
      BY <2>8 DEF EndStream, planeVars, TypeOK, PlaneTypeOK
    <3> QED
      BY <2>8, <3>1
         DEF EndStream, Promise!End, TypeOK, clientVars, adapterVars
  <2>9. CASE BreakOff(c)
    <3>1. PlaneTypeOK'
      BY <2>9 DEF BreakOff, planeVars, TypeOK, PlaneTypeOK
    <3>2. faults' \in 0..MaxFaults
      BY <2>9, FaultType DEF BreakOff
    <3> QED
      BY <2>9, <3>1, <3>2 DEF BreakOff, Promise!End, TypeOK, clientVars
  <2>10. CASE AnswerOutcome(c)
    BY <2>10, ReturnsType DEF AnswerOutcome, Answers, NamingAnswers, TypeOK
  <2>11. CASE AnswerInterim(c)
    BY <2>11, ReturnsType
       DEF AnswerInterim, Answers, NamingAnswers, Phases, TypeOK
  <2>12. CASE Cancel(c)
    <3>1. lost' \subseteq Operation
      BY <2>12 DEF Cancel, Pending, Asked, TypeOK
    <3>2. faults' \in 0..MaxFaults
      BY <2>12, FaultType DEF Cancel
    <3> QED
      BY <2>12, <3>1, <3>2, ReturnsType DEF Cancel, Pending, NoAnswers
  <2> QED
    BY <1>5, <2>1, <2>2, <2>3, <2>4, <2>5, <2>6, <2>7, <2>8, <2>9, <2>10,
       <2>11, <2>12
       DEF CallStep, Streams
<1> QED
  BY <1>1, <1>2, <1>3, <1>4, <1>5 DEF Next

(***************************************************************************)
(* Every variable keeps its type, whatever the calls, the control plane    *)
(* and a forger do, across restarts.                                       *)
(***************************************************************************)
THEOREM AdapterTypeCorrect == Spec => []TypeOK
<1>1. Init => TypeOK
  BY InitType
<1>2. TypeOK /\ [Next]_vars => TypeOK'
  BY TypeNext
<1> QED
  BY <1>1, <1>2, PTL DEF Spec

-----------------------------------------------------------------------------
(***************************************************************************)
(* The inductive invariant behind AnswersAreTrue: a call in a slot is      *)
(* about an operation that has been requested, once it is published; every *)
(* genuine event the relay holds, and every one a call has read, says what *)
(* is so; and so does every answer.                                        *)
(***************************************************************************)
StageInv ==
  \A c \in Call :
    /\ stage[c] \in {"submitting", "published"} => asks[c] = "operation"
    /\ stage[c] \in {"published", "streaming"} => state[op[c]] # "none"
    /\ stage[c] # "streaming" => log[c] = <<>>

ChainIsTrue ==
  \A o \in Operation : \A p \in chain[o] :
    p.signed => TrueEvent(p.kind, p.body, state[o])

LogIsTrue ==
  \A c \in Call : stage[c] = "streaming" =>
    \A i \in 1..Len(log[c]) :
      log[c][i].signed =>
        TrueEvent(log[c][i].kind, log[c][i].body, state[op[c]])

ToldIsTrue ==
  \A o \in Operation : \A a \in told[o] : TrueAnswer(a, state[o])

Truth == TypeOK /\ StageInv /\ ChainIsTrue /\ LogIsTrue /\ ToldIsTrue

LEMMA ToldMeansTrue == TypeOK /\ ToldIsTrue => AnswersAreTrue
  BY DEF ToldIsTrue, TrueAnswer, AnswersAreTrue, HasId, TypeOK

LEMMA TruthInit == Init => Truth
  BY InitType
     DEF Init, PlaneInit, Promise!Init, Truth, StageInv, ChainIsTrue,
         LogIsTrue, ToldIsTrue

(* When an operation moves on, what was true of it stays true.             *)
LEMMA TruthOpStep ==
  ASSUME Truth, TypeOK', NEW o \in Operation, OpStep(o),
         UNCHANGED <<callVars, clientVars, adapterVars, drifted>>
  PROVE  Truth'
<1>1. \A x \in Operation :
        state'[x] = state[x] \/ Advances(state[x], state'[x])
  BY DEF OpStep, Truth, TypeOK, PlaneTypeOK
<1>2. \A c \in Call : stage[c] # "idle" => op[c] \in Operation
  BY DEF Truth, TypeOK
<1>3. StageInv'
  BY <1>1, <1>2
     DEF Truth, StageInv, Advances, callVars, promiseVars
<1>4. ChainIsTrue'
  <2>1. ASSUME NEW x \in Operation, NEW p \in chain'[x], p.signed
        PROVE  TrueEvent(p.kind, p.body, state'[x])
    <3>1. CASE p \in chain[x]
      BY <1>1, <2>1, <3>1, TruthStays DEF Truth, ChainIsTrue
    <3>2. CASE p \notin chain[x]
      <4>1. PICK k \in Kinds : \E b \in Bodies[k] :
              Publishes(o, k, b) /\ TrueEvent(k, b, state'[o])
        BY <2>1, <3>2 DEF OpStep
      <4>2. PICK b \in Bodies[k] :
              Publishes(o, k, b) /\ TrueEvent(k, b, state'[o])
        BY <4>1
      <4>3. x = o /\ p = Publication(k, b)
        BY <2>1, <3>2, <4>2 DEF Publishes, Truth, TypeOK, PlaneTypeOK
      <4>4. p.kind = k /\ p.body = b
        BY <4>3 DEF Publication
      <4> QED
        BY <4>2, <4>3, <4>4
    <3> QED
      BY <3>1, <3>2
  <2> QED
    BY <2>1 DEF ChainIsTrue
<1>5. LogIsTrue'
  BY <1>1, <1>2, TruthStays
     DEF Truth, LogIsTrue, callVars, promiseVars
<1>6. ToldIsTrue'
  BY <1>1, TruthStays DEF Truth, ToldIsTrue, clientVars
<1> QED
  BY <1>3, <1>4, <1>5, <1>6 DEF Truth

(* A call returns with an answer that is true, or with none.               *)
LEMMA TruthReturns ==
  ASSUME Truth, TypeOK', NEW c \in Call, Pending(c),
         NEW a \in Answers \cup NoAnswers, Returns(c, a),
         a \in NoAnswers \/ TrueAnswer(a, state[op[c]])
  PROVE  Truth'
<1>1. op[c] \in Operation
  BY DEF Truth, TypeOK, Pending
<1>2. StageInv'
  BY DEF Truth, TypeOK, StageInv, Returns, planeVars
<1>3. ChainIsTrue'
  BY DEF Truth, ChainIsTrue, Returns, planeVars
<1>4. LogIsTrue'
  BY DEF Truth, TypeOK, LogIsTrue, Returns, planeVars
<1>5. ToldIsTrue'
  BY <1>1 DEF Truth, TypeOK, ToldIsTrue, Returns, planeVars
<1> QED
  BY <1>2, <1>3, <1>4, <1>5 DEF Truth

LEMMA TruthEnters ==
  ASSUME Truth, TypeOK', NEW c \in Call, NEW o \in Operation,
         NEW what, NEW where, NEW events,
         Enters(c, what, o, where, events),
         \/ where = "submitting" /\ what = "operation"
         \/ where = "streaming" /\ state[o] # "none"
  PROVE  Truth'
<1>1. log[c] = <<>>
  BY DEF Truth, StageInv, Enters, Pending
<1>2. StageInv'
  BY <1>1 DEF Truth, TypeOK, StageInv, Enters, planeVars
<1>3. ChainIsTrue' /\ ToldIsTrue'
  BY DEF Truth, ChainIsTrue, ToldIsTrue, Enters, planeVars, clientVars
<1>4. LogIsTrue'
  BY <1>1 DEF Truth, TypeOK, LogIsTrue, Enters, planeVars
<1> QED
  BY <1>2, <1>3, <1>4 DEF Truth

(* Promise! names its own copies of the definitions of ChainEvents.        *)
LEMMA SameReading ==
  /\ Promise!Outcomes = Outcomes
  /\ \A e : /\ Promise!Terminal(e) <=> Terminal(e)
            /\ Promise!Breaks(e) <=> Breaks(e)
            /\ \A polled : Promise!Outcome(e, polled) = Outcome(e, polled)
            /\ Promise!Settles(e) <=> Settles(e)
            /\ Promise!ShowsExecution(e) <=> ShowsExecution(e)
  /\ \A s, i : Promise!SettledAt(s, i) <=> SettledAt(s, i)
  /\ \A s : Promise!ShownExecuting(s) <=> ShownExecuting(s)
<1>1. \A e : /\ Promise!Terminal(e) <=> Terminal(e)
             /\ Promise!Breaks(e) <=> Breaks(e)
             /\ \A polled : Promise!Outcome(e, polled) = Outcome(e, polled)
             /\ Promise!Settles(e) <=> Settles(e)
             /\ Promise!ShowsExecution(e) <=> ShowsExecution(e)
  BY DEF Promise!Terminal, Promise!Breaks, Promise!Outcome, Promise!Settles,
         Promise!ShowsExecution, Promise!Yielded, Promise!Skipped,
         Promise!ReadingRaises, Promise!VerifyResultEvent, Promise!Success,
         Success, Terminal, Breaks,
         Outcome, Settles, ShowsExecution, Yielded, Skipped, ReadingRaises,
         VerifyResultEvent
<1> QED
  BY <1>1 DEF Promise!SettledAt, Promise!ShownExecuting, SettledAt,
              ShownExecuting, Promise!Outcomes, Outcomes

(* What is read off a log of genuine, true events is true.                 *)
LEMMA OutcomeIsTrue ==
  ASSUME NEW e \in Events, Terminal(e), NEW s,
         e.signed => TrueEvent(e.kind, e.body, s), NEW polled
  PROVE  TrueAnswer(Outcome(e, polled), s)
<1>1. e.signed /\ e.kind \in {"rejection", "result"}
  BY DEF Terminal, Yielded, Skipped, VerifyResultEvent
<1>2. e.kind = "result" => e.body \in {"ok", "failed"}
  <2>1. e.body \in Bodies[e.kind]
    BY DEF Events
  <2> QED
    BY <1>1, <2>1, BodiesOfKinds DEF Terminal, Yielded, ReadingRaises, TrueEvent
<1> QED
  BY <1>1, <1>2
     DEF TrueEvent, TrueAnswer, Outcome, Success, NamingAnswers, Outcomes

LEMMA PhaseIsTrue ==
  ASSUME NEW e, ShowsExecution(e), NEW s,
         e.signed => TrueEvent(e.kind, e.body, s)
  PROVE  s \in {"executing", "succeeded", "failed"}
  BY DEF ShowsExecution, Yielded, Skipped, VerifyResultEvent, TrueEvent

LEMMA TruthNext == Truth /\ [Next]_vars => Truth'
<1> SUFFICES ASSUME Truth, [Next]_vars PROVE Truth'
  OBVIOUS
<1>t. TypeOK /\ TypeOK'
  BY TypeNext DEF Truth
<1>1. CASE UNCHANGED vars
  BY <1>1, <1>t
     DEF vars, planeVars, callVars, promiseVars, clientVars, adapterVars,
         Truth, StageInv, ChainIsTrue, LogIsTrue, ToldIsTrue
<1>2. CASE Plane
  <2>1. ASSUME NEW o \in Operation, Executes(o) \/ Decides(o)
        PROVE  Truth'
    <3>1. OpStep(o)
      BY <1>t, <2>1, OpSteps DEF TypeOK
    <3> QED
      BY <1>2, <1>t, <3>1, TruthOpStep DEF Plane
  <2>2. ASSUME NEW o \in Operation, NEW p \in Forgeable, Forge(o, p)
        PROVE  Truth'
    <3>1. ChainIsTrue'
      BY <1>t, <2>2 DEF Forge, Truth, ChainIsTrue, TypeOK, PlaneTypeOK
    <3> QED
      BY <1>2, <1>t, <2>2, <3>1
         DEF Plane, Forge, Truth, StageInv, LogIsTrue, ToldIsTrue, callVars,
             promiseVars, clientVars
  <2>3. CASE Upgrade
    BY <1>2, <1>t, <2>3
       DEF Plane, Upgrade, Truth, StageInv, ChainIsTrue, LogIsTrue,
           ToldIsTrue, callVars, promiseVars, clientVars
  <2> QED
    BY <1>2, <2>1, <2>2, <2>3 DEF Plane
<1>3. ASSUME NEW k \in Key, AdminAdded(k)
      PROVE  Truth'
  BY <1>3, <1>t
     DEF AdminAdded, AddAdmin, Truth, StageInv, ChainIsTrue, LogIsTrue,
         ToldIsTrue, callVars, promiseVars, clientVars
<1>4. CASE Restart
  BY <1>4, <1>t
     DEF Restart, Truth, StageInv, ChainIsTrue, LogIsTrue, ToldIsTrue,
         planeVars
<1>5. ASSUME NEW c \in Call, CallStep(c)
      PROVE  Truth'
  <2>1. ASSUME NEW o \in Operation, CallOperation(c, o)
        PROVE  Truth'
    BY <1>t, <2>1, TruthEnters DEF CallOperation
  <2>2. ASSUME NEW o \in Operation, CallStatus(c, o)
        PROVE  Truth'
    <3>1. state[o] # "none"
      BY <2>2 DEF CallStatus, HasId, Truth, ToldIsTrue, TrueAnswer
    <3> QED
      BY <1>t, <2>2, <3>1, TruthEnters DEF CallStatus
  <2>3. CASE Publish(c)
    <3>1. /\ op[c] \in Operation /\ state[op[c]] = "none"
          /\ state' = [state EXCEPT ![op[c]] = "requested"]
          /\ UNCHANGED <<chain, log, over, answer, asks, op, told>>
          /\ stage' = [stage EXCEPT ![c] = "published"]
          /\ stage[c] = "submitting"
      BY <1>t, <2>3
         DEF Publish, Request, Moves, TypeOK, promiseVars, clientVars
    <3>2. \A x \in Operation :
            state'[x] = state[x] \/ Advances(state[x], state'[x])
      BY <1>t, <3>1 DEF TypeOK, PlaneTypeOK, Advances
    <3>3. StageInv'
      BY <1>t, <3>1, <3>2
         DEF Truth, StageInv, TypeOK, PlaneTypeOK, Advances
    <3>4. ChainIsTrue' /\ ToldIsTrue'
      BY <3>1, <3>2, TruthStays DEF Truth, ChainIsTrue, ToldIsTrue
    <3>5. LogIsTrue'
      BY <1>t, <3>1, <3>2, TruthStays DEF Truth, LogIsTrue, TypeOK
    <3> QED
      BY <1>t, <3>3, <3>4, <3>5 DEF Truth
  <2>4. CASE SubmitFails(c)
    BY <1>t, <2>4, TruthReturns DEF SubmitFails, Pending, NoAnswers
  <2>5. CASE Boundary(c)
    <3>1. TrueAnswer("approval_required", state[op[c]])
      BY <2>5 DEF Boundary, Truth, StageInv, TrueAnswer
    <3> QED
      BY <1>t, <2>5, <3>1, TruthReturns
         DEF Boundary, Pending, Answers, NamingAnswers
  <2>6. CASE StreamOperation(c)
    BY <1>t, <2>6
       DEF StreamOperation, Truth, TypeOK, StageInv, ChainIsTrue, LogIsTrue,
           ToldIsTrue, planeVars, promiseVars, clientVars
  <2>7. CASE Deliver(c)
    <3>1. PICK p \in chain[op[c]] : Promise!Deliver(c, AsRead(p))
      BY <2>7 DEF Deliver
    <3>2. /\ op[c] \in Operation /\ stage[c] = "streaming"
          /\ log' = [log EXCEPT ![c] = Append(@, AsRead(p))]
          /\ UNCHANGED <<planeVars, asks, op, stage, told>>
          /\ AsRead(p) \in Events
      BY <1>t, <2>7, <3>1, AsReadType
         DEF Deliver, Promise!Deliver, TypeOK, PlaneTypeOK, clientVars
    <3>3. AsRead(p).signed =>
            TrueEvent(AsRead(p).kind, AsRead(p).body, state[op[c]])
      BY <3>1, <3>2 DEF Truth, ChainIsTrue, AsRead, TrueEvent
    <3>4. LogIsTrue'
      <4>1. ASSUME NEW d \in Call, stage[d] = "streaming",
                   NEW i \in 1..Len(log'[d]), log'[d][i].signed
            PROVE  TrueEvent(log'[d][i].kind, log'[d][i].body, state[op[d]])
        <5>1. CASE d # c
          BY <1>t, <3>2, <4>1, <5>1 DEF Truth, LogIsTrue, TypeOK
        <5>2. CASE d = c
          <6>1. log[c] \in Seq(Events) /\ log'[c] = Append(log[c], AsRead(p))
            BY <1>t, <3>2 DEF TypeOK
          <6>2. \/ i \in 1..Len(log[c]) /\ log'[c][i] = log[c][i]
                \/ log'[c][i] = AsRead(p)
            BY <3>2, <4>1, <5>2, <6>1
          <6> QED
            BY <3>3, <4>1, <5>2, <6>2 DEF Truth, LogIsTrue
        <5> QED
          BY <5>1, <5>2
      <4> QED
        BY <3>2, <4>1 DEF LogIsTrue, planeVars
    <3>5. StageInv'
      BY <1>t, <3>2 DEF Truth, StageInv, TypeOK, planeVars
    <3>6. ChainIsTrue' /\ ToldIsTrue'
      BY <3>2 DEF Truth, ChainIsTrue, ToldIsTrue, planeVars
    <3> QED
      BY <1>t, <3>4, <3>5, <3>6 DEF Truth
  <2>8. CASE EndStream(c)
    BY <1>t, <2>8
       DEF EndStream, Promise!End, Truth, StageInv, ChainIsTrue, LogIsTrue,
           ToldIsTrue, planeVars, clientVars
  <2>9. CASE BreakOff(c)
    BY <1>t, <2>9
       DEF BreakOff, Promise!End, Truth, StageInv, ChainIsTrue, LogIsTrue,
           ToldIsTrue, planeVars, clientVars
  <2>10. CASE AnswerOutcome(c)
    <3> DEFINE polled == asks[c] = "status"
    <3>1. PICK a \in Outcomes :
            Promise!SaysOutcome(polled, c, a) /\ Returns(c, a)
      BY <2>10 DEF AnswerOutcome
    <3>2. PICK i \in 1..Len(log[c]) :
            Terminal(log[c][i]) /\ a = Outcome(log[c][i], polled)
      BY <3>1, SameReading DEF Promise!SaysOutcome
    <3>3. log[c][i] \in Events /\ stage[c] = "streaming"
      BY <1>t, <2>10 DEF AnswerOutcome, TypeOK
    <3>4. TrueAnswer(a, state[op[c]])
      BY <3>2, <3>3, OutcomeIsTrue DEF Truth, LogIsTrue
    <3> QED
      BY <1>t, <3>1, <3>3, <3>4, TruthReturns
         DEF Pending, Answers, NamingAnswers
  <2>11. CASE AnswerInterim(c)
    <3>1. PICK a \in {"PENDING", "EXECUTING", "REQUESTED"} :
            Promise!SaysInterim(c, a) /\ Returns(c, a)
      BY <2>11 DEF AnswerInterim
    <3>2. stage[c] = "streaming" /\ state[op[c]] # "none"
      BY <2>11 DEF AnswerInterim, Truth, StageInv
    <3>3. a = "EXECUTING" =>
            state[op[c]] \in {"executing", "succeeded", "failed"}
      <4>1. a = "EXECUTING" => ShownExecuting(log[c])
        BY <3>1, SameReading DEF Promise!SaysInterim
      <4> QED
        BY <3>2, <4>1, PhaseIsTrue DEF ShownExecuting, Truth, LogIsTrue
    <3>4. TrueAnswer(a, state[op[c]])
      BY <3>1, <3>2, <3>3 DEF TrueAnswer
    <3> QED
      BY <1>t, <3>1, <3>2, <3>4, TruthReturns
         DEF Pending, Answers, NamingAnswers, Phases
  <2>12. CASE Cancel(c)
    BY <1>t, <2>12, TruthReturns DEF Cancel, NoAnswers
  <2> QED
    BY <1>5, <2>1, <2>2, <2>3, <2>4, <2>5, <2>6, <2>7, <2>8, <2>9, <2>10,
       <2>11, <2>12
       DEF CallStep, Streams
<1> QED
  BY <1>1, <1>2, <1>3, <1>4, <1>5 DEF Next

LEMMA TruthInvariant == Spec => []Truth
<1>1. Init => Truth
  BY TruthInit
<1>2. Truth /\ [Next]_vars => Truth'
  BY TruthNext
<1> QED
  BY <1>1, <1>2, PTL DEF Spec

(***************************************************************************)
(* What clients have been told of an operation is true of it, however many *)
(* calls there are and in whatever order the relay yields the events,      *)
(* whatever is forged and whenever the adapter restarts.                   *)
(***************************************************************************)
THEOREM AnswersTrue == Spec => []AnswersAreTrue
<1>1. Truth => AnswersAreTrue
  BY ToldMeansTrue DEF Truth
<1> QED
  BY <1>1, TruthInvariant, PTL

-----------------------------------------------------------------------------
(***************************************************************************)
(* The inductive invariant behind BoundaryIsTrue.  While an operation that *)
(* has not drifted awaits approval, the daemon and the adapter have the    *)
(* same admins; so one that the daemon has approved automatically is one   *)
(* that the adapter does not hold to be gated.                             *)
(***************************************************************************)
Gated(o, by) == Floor[o] # "none" /\ Actor[o] \notin by

BoundaryInv ==
  \A o \in Operation :
    /\ o \in automatic => state[o] \notin {"none", "requested"}
    /\ o \notin drifted =>
         /\ state[o] = "requested" => known.admins = admins
         /\ "approval_required" \in told[o] =>
              /\ o \notin automatic
              /\ state[o] = "requested" => Gated(o, admins)
         /\ \A c \in Call :
              stage[c] = "published" /\ op[c] = o /\ o \in automatic =>
                ~Gated(o, known.admins)

LEMMA BoundaryInit == Init => BoundaryInv
  BY DEF Init, PlaneInit, BoundaryInv

LEMMA BoundaryNext == Truth /\ BoundaryInv /\ [Next]_vars => BoundaryInv'
<1> SUFFICES ASSUME Truth, BoundaryInv, [Next]_vars PROVE BoundaryInv'
  OBVIOUS
<1>t. TypeOK
  BY DEF Truth
<1>1. CASE UNCHANGED vars
  BY <1>1
     DEF vars, planeVars, callVars, clientVars, adapterVars, BoundaryInv
<1>2. CASE Plane
  <2>1. ASSUME NEW o \in Operation, Executes(o) \/ Decides(o)
        PROVE  BoundaryInv'
    <3>1. OpStep(o) /\ UNCHANGED <<stage, op, told, known, drifted, admins>>
      BY <1>2, <1>t, <2>1, OpSteps
         DEF TypeOK, Plane, callVars, clientVars, adapterVars, OpStep
    <3>2. \A x \in Operation :
            \/ state'[x] = state[x]
            \/ state[x] # "none" /\ state'[x] \notin {"none", "requested"}
      BY <1>t, <3>1 DEF OpStep, TypeOK, PlaneTypeOK, Advances
    <3>3. \A x \in Operation :
            \/ x \in automatic' <=> x \in automatic
            \/ /\ state[x] = "requested" /\ ~Gated(x, admins)
               /\ state'[x] = "approved"
      BY <1>t, <3>1 DEF OpStep, TypeOK, PlaneTypeOK, Ungated, Gated
    <3> QED
      BY <3>1, <3>2, <3>3 DEF BoundaryInv
  <2>2. ASSUME NEW o \in Operation, NEW p \in Forgeable, Forge(o, p)
        PROVE  BoundaryInv'
    BY <1>2, <2>2
       DEF Plane, Forge, callVars, clientVars, adapterVars, BoundaryInv
  <2>3. CASE Upgrade
    BY <1>2, <2>3
       DEF Plane, Upgrade, callVars, clientVars, adapterVars, BoundaryInv
  <2> QED
    BY <1>2, <2>1, <2>2, <2>3 DEF Plane
<1>3. ASSUME NEW k \in Key, AdminAdded(k)
      PROVE  BoundaryInv'
  BY <1>3
     DEF AdminAdded, AddAdmin, callVars, clientVars, adapterVars, BoundaryInv
<1>4. CASE Restart
  BY <1>4, <1>t DEF Restart, planeVars, BoundaryInv, TypeOK
<1>5. ASSUME NEW c \in Call, CallStep(c)
      PROVE  BoundaryInv'
  <2>1. ASSUME NEW o \in Operation, CallOperation(c, o) \/ CallStatus(c, o)
        PROVE  BoundaryInv'
    <3>1. UNCHANGED <<state, automatic, admins, told, known, drifted>>
      BY <2>1
         DEF CallOperation, CallStatus, Enters, planeVars, clientVars,
             adapterVars
    <3>2. \A d \in Call : stage'[d] = "published" =>
            stage[d] = "published" /\ op'[d] = op[d]
      BY <1>t, <2>1 DEF CallOperation, CallStatus, Enters, TypeOK
    <3> QED
      BY <3>1, <3>2 DEF BoundaryInv
  <2>2. CASE Publish(c)
    <3>1. /\ op[c] \in Operation /\ state[op[c]] = "none"
          /\ state' = [state EXCEPT ![op[c]] = "requested"]
          /\ UNCHANGED <<automatic, admins, op, told, known>>
          /\ stage' = [stage EXCEPT ![c] = "published"]
          /\ drifted' = IF known.admins = admins THEN drifted
                        ELSE drifted \cup {op[c]}
      BY <1>t, <2>2
         DEF Publish, Request, Moves, TypeOK, clientVars, adapterVars
    <3>2. "approval_required" \notin told[op[c]]
      BY <3>1 DEF Truth, ToldIsTrue, TrueAnswer, NamingAnswers
    <3> QED
      BY <1>t, <3>1, <3>2 DEF BoundaryInv, TypeOK, PlaneTypeOK
  <2>3. ASSUME NEW a, Returns(c, a), a # "approval_required", Pending(c)
        PROVE  BoundaryInv'
    BY <1>t, <2>3 DEF Returns, planeVars, BoundaryInv, TypeOK, Pending
  <2>4. CASE Boundary(c)
    <3>1. /\ op[c] \in Operation /\ stage[c] = "published"
          /\ Gated(op[c], known.admins)
          /\ stage' = [stage EXCEPT ![c] = "idle"]
          /\ told' = [told EXCEPT ![op[c]] = @ \cup {"approval_required"}]
          /\ UNCHANGED <<planeVars, op, known, drifted>>
      BY <1>t, <2>4
         DEF Boundary, Returns, ActorIsAdmin, Gated, TypeOK, NoAnswers
    <3> QED
      BY <1>t, <3>1 DEF BoundaryInv, TypeOK, planeVars
  <2>5. CASE SubmitFails(c) \/ Cancel(c)
    BY <2>3, <2>5 DEF SubmitFails, Cancel, Pending
  <2>6. CASE AnswerOutcome(c) \/ AnswerInterim(c)
    BY <2>3, <2>6 DEF AnswerOutcome, AnswerInterim, Pending, Outcomes
  <2>7. CASE StreamOperation(c)
    BY <1>t, <2>7
       DEF StreamOperation, planeVars, clientVars, adapterVars, BoundaryInv,
           TypeOK
  <2>8. CASE Deliver(c) \/ EndStream(c) \/ BreakOff(c)
    BY <2>8
       DEF Deliver, EndStream, BreakOff, planeVars, clientVars, adapterVars,
           BoundaryInv
  <2> QED
    BY <1>5, <2>1, <2>2, <2>4, <2>5, <2>6, <2>7, <2>8 DEF CallStep, Streams
<1> QED
  BY <1>1, <1>2, <1>3, <1>4, <1>5 DEF Next

(***************************************************************************)
(* An operation of which approval_required was reported is not one the     *)
(* daemon approved by itself, for any admins, floors and actors; unless    *)
(* the admins the adapter read at its start were not the daemon's while    *)
(* the operation awaited approval.                                         *)
(***************************************************************************)
THEOREM BoundaryTrue == Spec => []BoundaryIsTrue
<1>1. Init => BoundaryInv
  BY BoundaryInit
<1>2. Truth /\ BoundaryInv /\ [Next]_vars => BoundaryInv'
  BY BoundaryNext
<1>3. BoundaryInv => BoundaryIsTrue
  BY DEF BoundaryInv, BoundaryIsTrue
<1> QED
  BY <1>1, <1>2, <1>3, TruthInvariant, PTL DEF Spec

-----------------------------------------------------------------------------
LEMMA OrphansInit == Init => OrphansNeedLoss
  BY DEF Init, PlaneInit, OrphansNeedLoss

LEMMA OrphansNext ==
  Truth /\ OrphansNeedLoss /\ [Next]_vars => OrphansNeedLoss'
<1> SUFFICES ASSUME Truth, OrphansNeedLoss, [Next]_vars
             PROVE  OrphansNeedLoss'
  OBVIOUS
<1>t. TypeOK
  BY DEF Truth
<1> USE DEF OrphansNeedLoss, HasId, InProgress, Pending
<1>1. CASE UNCHANGED vars
  BY <1>1 DEF vars, planeVars, callVars, clientVars
<1>2. CASE Plane
  <2>1. ASSUME NEW o \in Operation, Executes(o) \/ Decides(o)
        PROVE  OrphansNeedLoss'
    <3>1. OpStep(o) /\ UNCHANGED <<stage, asks, op, told, lost>>
      BY <1>2, <1>t, <2>1, OpSteps DEF TypeOK, Plane, callVars, clientVars
    <3>2. \A x \in Operation : state'[x] # "none" => state[x] # "none"
      BY <1>t, <3>1 DEF OpStep, TypeOK, PlaneTypeOK
    <3> QED
      BY <3>1, <3>2
  <2>2. ASSUME NEW o \in Operation, NEW p \in Forgeable, Forge(o, p)
        PROVE  OrphansNeedLoss'
    BY <1>2, <2>2 DEF Plane, Forge, callVars, clientVars
  <2>3. CASE Upgrade
    BY <1>2, <2>3 DEF Plane, Upgrade, callVars, clientVars
  <2> QED
    BY <1>2, <2>1, <2>2, <2>3 DEF Plane
<1>3. ASSUME NEW k \in Key, AdminAdded(k)
      PROVE  OrphansNeedLoss'
  BY <1>3 DEF AdminAdded, AddAdmin, callVars, clientVars
<1>4. CASE Restart
  BY <1>4 DEF Restart, planeVars, Asked
<1>5. ASSUME NEW c \in Call, CallStep(c)
      PROVE  OrphansNeedLoss'
  <2>1. ASSUME NEW o \in Operation, CallOperation(c, o) \/ CallStatus(c, o)
        PROVE  OrphansNeedLoss'
    <3>1. UNCHANGED <<state, told, lost>>
      BY <2>1 DEF CallOperation, CallStatus, Enters, planeVars, clientVars
    <3>2. \A d \in Call : stage[d] # "idle" =>
            stage'[d] = stage[d] /\ asks'[d] = asks[d] /\ op'[d] = op[d]
      BY <1>t, <2>1 DEF CallOperation, CallStatus, Enters, TypeOK
    <3> QED
      BY <3>1, <3>2
  <2>2. CASE Publish(c)
    <3>1. asks[c] = "operation" /\ op[c] \in Operation
      BY <1>t, <2>2 DEF Publish, Truth, StageInv, TypeOK
    <3>2. /\ state' = [state EXCEPT ![op[c]] = "requested"]
          /\ stage' = [stage EXCEPT ![c] = "published"]
          /\ UNCHANGED <<asks, op, told, lost>>
      BY <2>2 DEF Publish, Request, Moves, clientVars
    <3>3. \A d \in Call : stage[d] # "idle" => stage'[d] # "idle"
      BY <1>t, <3>2 DEF TypeOK
    <3>4. stage'[c] # "idle"
      BY <1>t, <3>2 DEF TypeOK
    <3>5. \A x \in Operation \ {op[c]} : state'[x] = state[x]
      BY <1>t, <3>2 DEF TypeOK, PlaneTypeOK
    <3> QED
      BY <3>1, <3>2, <3>3, <3>4, <3>5
  <2>3. ASSUME NEW a, Returns(c, a), Pending(c), lost' = lost,
               asks[c] = "status" \/ a \in NamingAnswers
        PROVE  OrphansNeedLoss'
    <3>1. /\ op[c] \in Operation
          /\ stage' = [stage EXCEPT ![c] = "idle"]
          /\ told' = [told EXCEPT ![op[c]] = @ \cup ({a} \ NoAnswers)]
          /\ UNCHANGED <<state, asks, op, lost>>
          /\ \A x \in Operation : told[x] \subseteq told'[x]
      BY <1>t, <2>3 DEF Returns, TypeOK, planeVars
    <3>2. a \in NamingAnswers => a \in told'[op[c]]
      BY <1>t, <3>1 DEF TypeOK, NamingAnswers, NoAnswers, Outcomes
    <3>3. \A d \in Call \ {c} : stage'[d] = stage[d]
      BY <1>t, <3>1 DEF TypeOK
    <3> QED
      BY <2>3, <3>1, <3>2, <3>3
  <2>4. ASSUME NEW a, Returns(c, a), Pending(c),
               lost' = lost \cup {op[c]} \/ lost' = lost \cup Asked({c})
        PROVE  OrphansNeedLoss'
    <3>1. /\ stage' = [stage EXCEPT ![c] = "idle"]
          /\ UNCHANGED <<state, asks, op>>
          /\ \A x \in Operation : told[x] \subseteq told'[x]
          /\ asks[c] = "operation" => op[c] \in lost'
          /\ lost \subseteq lost'
      BY <1>t, <2>4 DEF Returns, TypeOK, planeVars, Asked
    <3> QED
      BY <1>t, <2>4, <3>1 DEF TypeOK
  <2>5. CASE SubmitFails(c) \/ Cancel(c)
    BY <2>4, <2>5 DEF SubmitFails, Cancel
  <2>6. CASE Boundary(c)
    BY <2>3, <2>6 DEF Boundary, NamingAnswers
  <2>7. CASE AnswerOutcome(c)
    BY <2>3, <2>7 DEF AnswerOutcome, NamingAnswers
  <2>8. CASE AnswerInterim(c)
    <3>1. asks[c] \in {"operation", "status"}
      BY <1>t DEF TypeOK
    <3> QED
      BY <2>3, <2>8, <3>1 DEF AnswerInterim, NamingAnswers
  <2>9. CASE StreamOperation(c)
    BY <1>t, <2>9 DEF StreamOperation, planeVars, clientVars, TypeOK
  <2>10. CASE Deliver(c) \/ EndStream(c) \/ BreakOff(c)
    BY <2>10 DEF Deliver, EndStream, BreakOff, planeVars, clientVars
  <2> QED
    BY <1>5, <2>1, <2>2, <2>5, <2>6, <2>7, <2>8, <2>9, <2>10
       DEF CallStep, Streams
<1> QED
  BY <1>1, <1>2, <1>3, <1>4, <1>5 DEF Next

(***************************************************************************)
(* No operation is on its way without a client that has its id or a call   *)
(* that is in progress, unless its call failed at submit, was cancelled or *)
(* was cut off by a restart.                                               *)
(***************************************************************************)
THEOREM NoOtherOrphans == Spec => []OrphansNeedLoss
<1>1. Init => OrphansNeedLoss
  BY OrphansInit
<1>2. Truth /\ OrphansNeedLoss /\ [Next]_vars => OrphansNeedLoss'
  BY OrphansNext
<1> QED
  BY <1>1, <1>2, TruthInvariant, PTL DEF Spec

-----------------------------------------------------------------------------
(***************************************************************************)
(* The inductive invariant behind StatusKeepsUp.  The relay holds at most  *)
(* one genuine event that ends an operation, and it reads well; a call     *)
(* reads what the relay holds, and nothing after an event that settles it; *)
(* and a stream is over when it is settled or has yielded what it owed.    *)
(***************************************************************************)
Ending(p) == p.signed /\ p.kind \in {"rejection", "result"}

ChainEnds ==
  \A o \in Operation :
    /\ \A p \in chain[o] :
         p.signed =>
           p.body \notin {"not_object", "not_json", "stale", "malformed"}
    /\ \A p, q \in chain[o] : Ending(p) /\ Ending(q) => p = q

StreamInv ==
  \A c \in Call :
    /\ stage[c] # "idle" => answer[c] = "none"
    /\ stage[c] = "streaming" =>
         /\ owed[c] \subseteq chain[op[c]]
         /\ \A i \in 1..Len(log[c]) :
              /\ i < Len(log[c]) => ~Settles(log[c][i])
              /\ \E q \in chain[op[c]] : log[c][i] = AsRead(q)
         /\ over[c] => \/ Settled(c)
                       \/ \A p \in owed[c] : AsRead(p) \in Read(c)
    /\ stage[c] # "streaming" => ~over[c]

KeepUpInv == ChainEnds /\ StreamInv

LEMMA KeepUpInit == Init => KeepUpInv
  BY DEF Init, PlaneInit, Promise!Init, KeepUpInv, ChainEnds, StreamInv

(* Of an operation that is not over the relay holds no event that ends it. *)
LEMMA NoEndYet ==
  ASSUME Truth, KeepUpInv, NEW o \in Operation,
         state[o] \in {"none", "requested", "approved", "executing"}
  PROVE  \A p \in chain[o] : ~Ending(p)
<1>1. SUFFICES ASSUME NEW p \in chain[o], Ending(p)
               PROVE  FALSE
  OBVIOUS
<1>2. p.body \in Bodies[p.kind] /\ p.body \notin {"stale", "malformed"}
  BY <1>1 DEF Truth, TypeOK, PlaneTypeOK, Publications, KeepUpInv, ChainEnds,
              Ending
<1>3. TrueEvent(p.kind, p.body, state[o])
  BY <1>1 DEF Truth, ChainIsTrue, Ending
<1> QED
  BY <1>1, <1>2, <1>3, BodiesOfKinds DEF TrueEvent, Ending

LEMMA ChainEndsOpStep ==
  ASSUME Truth, KeepUpInv, NEW o \in Operation, OpStep(o)
  PROVE  ChainEnds'
<1>1. CASE UNCHANGED chain
  BY <1>1 DEF KeepUpInv, ChainEnds
<1>2. ASSUME NEW k \in Kinds, NEW b \in Bodies[k], Publishes(o, k, b),
             b \notin {"not_object", "not_json", "stale", "malformed"},
             k \in {"rejection", "result"} =>
               state[o] \in {"requested", "executing"}
      PROVE  ChainEnds'
  <2> DEFINE n == Publication(k, b)
  <2>1. n.kind = k /\ n.body = b /\ n.signed
    BY DEF Publication
  <2>2. chain' = [chain EXCEPT ![o] = @ \cup {n}]
    BY <1>2 DEF Publishes
  <2>3. \A x \in Operation : \A p \in chain'[x] :
          p \in chain[x] \/ (x = o /\ p = n)
    <3>1. chain \in [Operation -> SUBSET Publications]
      BY DEF Truth, TypeOK, PlaneTypeOK
    <3> HIDE DEF n
    <3> QED
      BY <2>2, <3>1
  <2>4. Ending(n) => \A p \in chain[o] : ~Ending(p)
    BY <1>2, <2>1, NoEndYet DEF Ending
  <2> HIDE DEF n
  <2> QED
    BY <1>2, <2>1, <2>3, <2>4 DEF KeepUpInv, ChainEnds
<1> QED
  BY <1>1, <1>2 DEF OpStep

(* Growing chains leave what calls have read and are owed as it is.        *)
LEMMA StreamsStay ==
  ASSUME Truth, StreamInv, UNCHANGED <<callVars, known>>,
         \A o \in Operation : chain[o] \subseteq chain'[o]
  PROVE  StreamInv'
<1>1. \A c \in Call : stage[c] # "idle" => op[c] \in Operation
  BY DEF Truth, TypeOK
<1>2. \A p : AsRead(p)' = AsRead(p)
  BY DEF AsRead
<1>3. \A c \in Call : Read(c)' = Read(c) /\ (Settled(c)' <=> Settled(c))
  BY DEF Read, Settled, callVars, promiseVars
<1> QED
  BY <1>1, <1>2, <1>3 DEF StreamInv, callVars, promiseVars, AsRead

(* A call that reads no further leaves the others as they are.             *)
LEMMA StreamsApart ==
  ASSUME Truth, StreamInv, NEW c \in Call, UNCHANGED <<chain, known>>,
         \A d \in Call \ {c} :
           /\ stage'[d] = stage[d] /\ answer'[d] = answer[d]
           /\ log'[d] = log[d] /\ over'[d] = over[d]
           /\ op'[d] = op[d] /\ owed'[d] = owed[d],
         \/ /\ stage'[c] # "streaming" /\ ~over'[c]
            /\ stage'[c] # "idle" => answer'[c] = "none"
         \/ /\ stage'[c] = "streaming" /\ ~over'[c] /\ answer'[c] = "none"
            /\ owed'[c] = chain[op'[c]] /\ log'[c] = <<>>
  PROVE  StreamInv'
<1>1. \A d \in Call \ {c} :
        /\ Read(d)' = Read(d)
        /\ Settled(d)' <=> Settled(d)
  BY DEF Read, Settled
<1>2. \A p : AsRead(p)' = AsRead(p)
  BY DEF AsRead
<1> DEFINE Inv(d) ==
      /\ stage[d] # "idle" => answer[d] = "none"
      /\ stage[d] = "streaming" =>
           /\ owed[d] \subseteq chain[op[d]]
           /\ \A i \in 1..Len(log[d]) :
                /\ i < Len(log[d]) => ~Settles(log[d][i])
                /\ \E q \in chain[op[d]] : log[d][i] = AsRead(q)
           /\ over[d] => \/ Settled(d)
                         \/ \A p \in owed[d] : AsRead(p) \in Read(d)
      /\ stage[d] # "streaming" => ~over[d]
<1>3. ASSUME NEW d \in Call \ {c}
      PROVE  Inv(d)'
  <2>1. Inv(d)
    BY DEF StreamInv
  <2> QED
    BY <1>1, <1>2, <2>1
<1>4. Inv(c)'
  BY <1>2
<1> QED
  BY <1>3, <1>4 DEF StreamInv

LEMMA KeepUpNext == Truth /\ KeepUpInv /\ [Next]_vars => KeepUpInv'
<1> SUFFICES ASSUME Truth, KeepUpInv, [Next]_vars PROVE KeepUpInv'
  OBVIOUS
<1>t. TypeOK /\ TypeOK' /\ StreamInv /\ ChainEnds
  BY TypeNext DEF Truth, KeepUpInv
<1>a. UNCHANGED chain => ChainEnds'
  BY <1>t DEF ChainEnds
<1>1. CASE UNCHANGED vars
  BY <1>1, <1>t, <1>a, StreamsStay
     DEF vars, planeVars, adapterVars, KeepUpInv
<1>2. CASE Plane
  <2>1. UNCHANGED <<callVars, known>>
    BY <1>2 DEF Plane, adapterVars
  <2>2. ASSUME NEW o \in Operation, Executes(o) \/ Decides(o)
        PROVE  KeepUpInv'
    <3>1. OpStep(o)
      BY <1>t, <2>2, OpSteps DEF TypeOK
    <3>2. \A x \in Operation : chain[x] \subseteq chain'[x]
      <4>1. ASSUME NEW n, chain' = [chain EXCEPT ![o] = @ \cup {n}]
            PROVE  \A x \in Operation : chain[x] \subseteq chain'[x]
        BY <1>t, <4>1 DEF TypeOK, PlaneTypeOK
      <4> QED
        BY <3>1, <4>1 DEF OpStep, Publishes
    <3> QED
      BY <1>t, <2>1, <3>1, <3>2, ChainEndsOpStep, StreamsStay DEF KeepUpInv
  <2>3. ASSUME NEW o \in Operation, NEW p \in Forgeable, Forge(o, p)
        PROVE  KeepUpInv'
    <3>1. /\ ~p.signed
          /\ \A x \in Operation : /\ chain[x] \subseteq chain'[x]
                                  /\ chain'[x] \subseteq chain[x] \cup {p}
      BY <1>t, <2>3 DEF Forge, TypeOK, PlaneTypeOK
    <3>2. ChainEnds'
      BY <1>t, <3>1 DEF ChainEnds, Ending
    <3> QED
      BY <1>t, <2>1, <3>1, <3>2, StreamsStay DEF KeepUpInv
  <2>4. CASE Upgrade
    BY <1>t, <1>a, <2>1, <2>4, StreamsStay DEF Upgrade, KeepUpInv
  <2> QED
    BY <1>2, <2>2, <2>3, <2>4 DEF Plane
<1>3. ASSUME NEW k \in Key, AdminAdded(k)
      PROVE  KeepUpInv'
  BY <1>3, <1>t, <1>a, StreamsStay
     DEF AdminAdded, AddAdmin, adapterVars, KeepUpInv
<1>4. CASE Restart
  BY <1>4, <1>a DEF Restart, planeVars, StreamInv, KeepUpInv
<1>5. ASSUME NEW c \in Call, CallStep(c)
      PROVE  KeepUpInv'
  <2>1. ASSUME NEW o \in Operation, CallOperation(c, o)
        PROVE  KeepUpInv'
    <3>1. stage[c] = "idle" /\ ~over[c]
      BY <1>t, <2>1 DEF CallOperation, Enters, Pending, StreamInv
    <3> QED
      BY <1>t, <1>a, <2>1, <3>1, StreamsApart
         DEF CallOperation, Enters, planeVars, adapterVars, TypeOK, KeepUpInv
  <2>2. ASSUME NEW o \in Operation, CallStatus(c, o)
        PROVE  KeepUpInv'
    <3>1. stage[c] = "idle" /\ ~over[c] /\ log[c] = <<>>
      BY <1>t, <2>2
         DEF CallStatus, Enters, Pending, StreamInv, Truth, StageInv
    <3> QED
      BY <1>t, <1>a, <2>2, <3>1, StreamsApart
         DEF CallStatus, Enters, planeVars, adapterVars, TypeOK, KeepUpInv
  <2>3. CASE Publish(c)
    <3>1. answer[c] = "none" /\ ~over[c]
      BY <1>t, <2>3 DEF Publish, StreamInv
    <3> QED
      BY <1>t, <1>a, <2>3, <3>1, StreamsApart
         DEF Publish, Request, promiseVars, adapterVars, TypeOK, KeepUpInv
  <2>4. CASE StreamOperation(c)
    <3>1. answer[c] = "none" /\ ~over[c] /\ log[c] = <<>>
      BY <1>t, <2>4 DEF StreamOperation, StreamInv, Truth, StageInv
    <3> QED
      BY <1>t, <1>a, <2>4, <3>1, StreamsApart
         DEF StreamOperation, planeVars, promiseVars, adapterVars, TypeOK,
             KeepUpInv
  <2>5. ASSUME NEW a, Returns(c, a)
        PROVE  KeepUpInv'
    <3>1. /\ stage'[c] = "idle" /\ ~over'[c]
          /\ UNCHANGED <<chain, known, op>>
          /\ \A d \in Call \ {c} :
               /\ stage'[d] = stage[d] /\ answer'[d] = answer[d]
               /\ log'[d] = log[d] /\ over'[d] = over[d]
               /\ owed'[d] = owed[d]
      BY <1>t, <2>5 DEF Returns, planeVars, TypeOK
    <3> QED
      BY <1>t, <1>a, <3>1, StreamsApart DEF KeepUpInv
  <2>6. CASE SubmitFails(c) \/ Boundary(c) \/ AnswerOutcome(c)
             \/ AnswerInterim(c) \/ Cancel(c)
    BY <2>5, <2>6
       DEF SubmitFails, Boundary, AnswerOutcome, AnswerInterim, Cancel
  <2>7. CASE Deliver(c)
    <3>1. PICK p \in chain[op[c]] : Promise!Deliver(c, AsRead(p))
      BY <2>7 DEF Deliver
    <3>2. /\ log' = [log EXCEPT ![c] = Append(@, AsRead(p))]
          /\ stage[c] = "streaming" /\ ~over[c] /\ ~Settled(c)
          /\ UNCHANGED <<chain, known, over, answer, op, stage, owed>>
      BY <2>7, <3>1
         DEF Deliver, Promise!Deliver, planeVars, adapterVars
    <3>3. /\ log[c] \in Seq(Events) /\ log'[c] = Append(log[c], AsRead(p))
          /\ \A d \in Call \ {c} : log'[d] = log[d]
      BY <1>t, <3>2 DEF TypeOK
    <3>4. \A q : AsRead(q)' = AsRead(q)
      BY <3>2 DEF AsRead
    <3>5. ASSUME NEW i \in 1..Len(log'[c])
          PROVE  /\ i < Len(log'[c]) => ~Settles(log'[c][i])
                 /\ \E q \in chain[op[c]] : log'[c][i] = AsRead(q)
      <4>1. AsRead(p) \in Events
        BY <1>t, <3>1, <3>2, AsReadType DEF TypeOK, PlaneTypeOK
      <4>2. \/ i \in 1..Len(log[c]) /\ log'[c][i] = log[c][i]
            \/ i = Len(log'[c]) /\ log'[c][i] = AsRead(p)
        BY <3>3, <3>5, <4>1
      <4>3. CASE i \in 1..Len(log[c]) /\ log'[c][i] = log[c][i]
        BY <1>t, <3>2, <4>3 DEF StreamInv, Settled, Read
      <4>4. CASE i = Len(log'[c]) /\ log'[c][i] = AsRead(p)
        BY <3>1, <4>4
      <4> QED
        BY <4>2, <4>3, <4>4
    <3>6. \A d \in Call \ {c} :
            Read(d)' = Read(d) /\ (Settled(d)' <=> Settled(d))
      BY <3>3 DEF Read, Settled
    <3>7. StreamInv'
      BY <1>t, <3>2, <3>3, <3>4, <3>5, <3>6 DEF StreamInv
    <3> QED
      BY <1>a, <3>2, <3>7 DEF KeepUpInv
  <2>8. CASE EndStream(c)
    <3>1. /\ over' = [over EXCEPT ![c] = TRUE]
          /\ UNCHANGED <<chain, known, log, answer, op, stage, owed>>
          /\ stage[c] = "streaming"
          /\ Settled(c) \/ \A p \in owed[c] : AsRead(p) \in Read(c)
      BY <2>8 DEF EndStream, Promise!End, planeVars, adapterVars
    <3>2. \A d \in Call : Read(d)' = Read(d) /\ (Settled(d)' <=> Settled(d))
      BY <3>1 DEF Read, Settled
    <3>3. \A q : AsRead(q)' = AsRead(q)
      BY <3>1 DEF AsRead
    <3>4. StreamInv'
      BY <1>t, <3>1, <3>2, <3>3 DEF StreamInv, TypeOK
    <3> QED
      BY <1>a, <3>1, <3>4 DEF KeepUpInv
  <2>9. CASE BreakOff(c)
    <3>1. /\ over' = [over EXCEPT ![c] = TRUE]
          /\ owed' = [owed EXCEPT ![c] = {}]
          /\ UNCHANGED <<chain, known, log, answer, op, stage>>
          /\ stage[c] = "streaming"
      BY <2>9 DEF BreakOff, Promise!End, planeVars
    <3>2. \A d \in Call : Read(d)' = Read(d) /\ (Settled(d)' <=> Settled(d))
      BY <3>1 DEF Read, Settled
    <3>3. \A q : AsRead(q)' = AsRead(q)
      BY <3>1 DEF AsRead
    <3>4. StreamInv'
      BY <1>t, <3>1, <3>2, <3>3 DEF StreamInv, TypeOK
    <3> QED
      BY <1>a, <3>1, <3>4 DEF KeepUpInv
  <2> QED
    BY <1>5, <2>1, <2>2, <2>3, <2>4, <2>6, <2>7, <2>8, <2>9
       DEF CallStep, Streams
<1> QED
  BY <1>1, <1>2, <1>3, <1>4, <1>5 DEF Next

(* A call that answers with a phase has missed no outcome it was owed.     *)
LEMMA PhaseMissesNothing ==
  ASSUME Truth, KeepUpInv, ServerKeyKnown, NEW c \in Call,
         stage[c] = "streaming", NEW a, Promise!SaysInterim(c, a),
         NEW p \in owed[c], SaysOutcome(p)
  PROVE  FALSE
<1>1. /\ op[c] \in Operation /\ p \in chain[op[c]] /\ p \in Publications
      /\ log[c] \in Seq(Events) /\ over[c]
  BY DEF Truth, TypeOK, PlaneTypeOK, KeepUpInv, StreamInv,
         Promise!SaysInterim
<1>2. AsRead(p).kind = p.kind /\ AsRead(p).signed = p.signed
      /\ AsRead(p).body = p.body
  BY DEF SaysOutcome, AsRead
<1>3. Terminal(AsRead(p)) /\ ~Breaks(AsRead(p))
  BY <1>2 DEF SaysOutcome, Terminal, Breaks, Yielded, Skipped, ReadingRaises,
              VerifyResultEvent
<1>4. ASSUME NEW i \in 1..Len(log[c]), Settles(log[c][i])
      PROVE  Breaks(log[c][i])
  <2>1. \A j \in 1..(i - 1) : ~Settles(log[c][j])
    BY <1>1, <1>4 DEF KeepUpInv, StreamInv
  <2>2. SettledAt(log[c], i)
    BY <1>4, <2>1 DEF SettledAt
  <2> QED
    BY <2>2, SameReading DEF Promise!SaysInterim
<1>5. PICK e \in Read(c) : Settles(e)
  BY <1>1, <1>3 DEF KeepUpInv, StreamInv, Settled, Settles
<1>6. PICK i \in 1..Len(log[c]) : e = log[c][i]
  BY DEF Read
<1>7. Breaks(e)
  BY <1>4, <1>5, <1>6
<1>8. PICK q \in chain[op[c]] : e = AsRead(q)
  BY <1>6 DEF KeepUpInv, StreamInv
<1>9. Ending(p)
  BY DEF SaysOutcome, Ending
<1>10. Ending(q)
  BY <1>7, <1>8
     DEF Breaks, Skipped, ReadingRaises, VerifyResultEvent, AsRead, Ending
<1>11. p = q
  BY <1>1, <1>8, <1>9, <1>10 DEF KeepUpInv, ChainEnds
<1> QED
  BY <1>3, <1>7, <1>8, <1>11

(***************************************************************************)
(* op_status is never behind what the relay held when it was called: for   *)
(* any number of events and calls, delivered in any order, among forged    *)
(* ones.                                                                   *)
(***************************************************************************)
THEOREM StatusNeverBehind == Spec => StatusKeepsUp
<1> DEFINE KeepsUp ==
      \A c \in Call :
        ServerKeyKnown /\ Pending(c) /\ answer'[c] \in Phases =>
          ~\E p \in owed[c] : SaysOutcome(p)
<1>1. Init => KeepUpInv
  BY KeepUpInit
<1>2. Truth /\ KeepUpInv /\ [Next]_vars => KeepUpInv'
  BY KeepUpNext
<1>3. Truth /\ KeepUpInv /\ [Next]_vars => [KeepsUp]_vars
  <2> SUFFICES ASSUME Truth, KeepUpInv, [Next]_vars, ServerKeyKnown,
                      NEW c \in Call, Pending(c), answer'[c] \in Phases,
                      NEW p \in owed[c], SaysOutcome(p)
               PROVE  FALSE
    OBVIOUS
  <2>1. TypeOK /\ answer[c] = "none"
    BY DEF Truth, KeepUpInv, StreamInv, Pending
  <2>2. answer'[c] # answer[c]
    BY <2>1 DEF Phases
  <2>3. PICK d \in Call : CallStep(d)
    <3>1. UNCHANGED answer \/ answer' = [x \in Call |-> "none"]
            \/ \E d \in Call : CallStep(d)
      BY DEF Next, Plane, AdminAdded, Restart, callVars, promiseVars, vars
    <3> QED
      BY <2>1, <2>2, <3>1
  <2>4. ASSUME NEW a, Returns(d, a), Pending(d)
        PROVE  d = c /\ a = answer'[c]
    BY <2>1, <2>2, <2>4 DEF Returns, TypeOK
  <2>5. AnswerInterim(c)
    <3>1. CASE \E o \in Operation : CallOperation(d, o) \/ CallStatus(d, o)
      BY <2>1, <2>2, <3>1 DEF CallOperation, CallStatus, Enters, TypeOK
    <3>2. CASE Publish(d) \/ StreamOperation(d)
      BY <2>2, <3>2 DEF Publish, StreamOperation, promiseVars
    <3>3. CASE Deliver(d) \/ EndStream(d) \/ BreakOff(d)
      BY <2>2, <3>3
         DEF Deliver, EndStream, BreakOff, Promise!Deliver, Promise!End
    <3>4. CASE SubmitFails(d) \/ Boundary(d) \/ Cancel(d)
      BY <2>4, <3>4 DEF SubmitFails, Boundary, Cancel, Pending, Phases
    <3>5. CASE AnswerOutcome(d)
      BY <2>4, <3>5 DEF AnswerOutcome, Pending, Phases, Outcomes
    <3>6. CASE AnswerInterim(d)
      BY <2>4, <3>6 DEF AnswerInterim, Pending
    <3> QED
      BY <2>3, <3>1, <3>2, <3>3, <3>4, <3>5, <3>6 DEF CallStep, Streams
  <2>6. PICK a : Promise!SaysInterim(c, a)
    BY <2>5 DEF AnswerInterim
  <2> QED
    BY <2>5, <2>6, PhaseMissesNothing DEF AnswerInterim
<1> QED
  BY <1>1, <1>2, <1>3, TruthInvariant, PTL DEF Spec, StatusKeepsUp
=============================================================================
