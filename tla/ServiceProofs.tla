--------------------------- MODULE ServiceProofs ---------------------------
(***************************************************************************)
(* Adapter implements OperationService, for any number of operations,      *)
(* calls and faults and whatever is forged; and what holds of the service  *)
(* holds of the adapter.                                                   *)
(***************************************************************************)
EXTENDS AdapterProofs

(***************************************************************************)
(* A poll is made with the id of its operation, so some call that asked    *)
(* for the operation, or a poll of one that had it, has been answered.     *)
(***************************************************************************)
PollsHaveIds ==
  \A c \in Call : Pending(c) /\ asks[c] = "status" => HasId(op[c])

LEMMA PollsInit == Init => PollsHaveIds
  BY DEF Init, PollsHaveIds, Pending

(* What has been told is not untold.                                       *)
LEMMA ToldGrows ==
  ASSUME TypeOK, [Next]_vars, NEW o \in Operation
  PROVE  told[o] \subseteq told'[o]
<1>1. CASE UNCHANGED told
  BY <1>1
<1>2. ASSUME NEW c \in Call, NEW a, Returns(c, a)
      PROVE  told[o] \subseteq told'[o]
  BY <1>2 DEF Returns, TypeOK
<1>3. CASE UNCHANGED vars
  BY <1>1, <1>3 DEF vars, clientVars
<1>4. CASE Plane \/ Restart \/ \E k \in Key : AdminAdded(k)
  BY <1>1, <1>4 DEF Plane, Restart, AdminAdded, clientVars
<1>5. ASSUME NEW c \in Call, CallStep(c)
      PROVE  told[o] \subseteq told'[o]
  BY <1>1, <1>2, <1>5
     DEF CallStep, Streams, CallOperation, CallStatus, Enters, Publish,
         SubmitFails, Boundary, StreamOperation, Deliver, EndStream,
         AnswerOutcome, AnswerInterim, BreakOff, Cancel, clientVars
<1> QED
  BY <1>3, <1>4, <1>5 DEF Next

LEMMA PollsNext ==
  TypeOK /\ TypeOK' /\ PollsHaveIds /\ [Next]_vars => PollsHaveIds'
<1> SUFFICES ASSUME TypeOK, TypeOK', PollsHaveIds, [Next]_vars,
                    NEW c \in Call, Pending(c)', asks'[c] = "status"
             PROVE  HasId(op[c])'
  BY DEF PollsHaveIds
<1>1. ASSUME Pending(c), asks[c] = "status", op'[c] = op[c]
      PROVE  HasId(op[c])'
  BY <1>1, ToldGrows DEF PollsHaveIds, HasId, TypeOK, Pending
<1>2. CASE UNCHANGED <<asks, op, stage>>
  BY <1>1, <1>2 DEF Pending
<1>3. ASSUME NEW d \in Call, CallStep(d)
      PROVE  HasId(op[c])'
  <2>1. ASSUME NEW o \in Operation, CallOperation(d, o)
        PROVE  HasId(op[c])'
    BY <1>1, <2>1 DEF CallOperation, Enters, TypeOK, Pending
  <2>2. ASSUME NEW o \in Operation, CallStatus(d, o)
        PROVE  HasId(op[c])'
    BY <1>1, <2>2
       DEF CallStatus, Enters, TypeOK, Pending, HasId, clientVars
  <2>3. ASSUME NEW a, Returns(d, a)
        PROVE  HasId(op[c])'
    BY <1>1, <2>3 DEF Returns, TypeOK, Pending
  <2>4. CASE Publish(d) \/ StreamOperation(d)
    BY <1>1, <2>4 DEF Publish, StreamOperation, TypeOK, Pending
  <2>5. CASE Deliver(d) \/ EndStream(d) \/ BreakOff(d)
    BY <1>2, <2>5 DEF Deliver, EndStream, BreakOff
  <2> QED
    BY <1>3, <2>1, <2>2, <2>3, <2>4, <2>5
       DEF CallStep, Streams, SubmitFails, Boundary, AnswerOutcome,
           AnswerInterim, Cancel
<1>4. CASE UNCHANGED vars
  BY <1>2, <1>4 DEF vars, callVars
<1>5. CASE Plane \/ \E k \in Key : AdminAdded(k)
  BY <1>2, <1>5 DEF Plane, AdminAdded, callVars
<1>6. CASE Restart
  BY <1>6 DEF Restart, Pending
<1> QED
  BY <1>3, <1>4, <1>5, <1>6 DEF Next

-----------------------------------------------------------------------------
(* How the state of an operation maps to its fate.                         *)
LEMMA SameAnswers ==
  /\ Service!NamingAnswers = NamingAnswers
  /\ Service!Phases = Phases
  /\ Answers = Service!NamingAnswers \cup Service!Phases
  BY DEF Service!NamingAnswers, Service!Outcomes, Service!Phases,
         NamingAnswers, Outcomes, Phases, Answers

LEMMA ServiceInit == Init => Service!Init
  BY DEF Init, PlaneInit, Service!Init, FateOf

LEMMA ServiceStutters ==
  ASSUME UNCHANGED <<state, told>>
  PROVE  [Service!Next]_(Service!vars)
  BY DEF Service!vars

LEMMA ServiceAdvances ==
  ASSUME TypeOK, NEW o \in Operation, NEW t, Advances(state[o], t),
         state' = [state EXCEPT ![o] = t], UNCHANGED told
  PROVE  [Service!Next]_(Service!vars)
<1> DEFINE fate == [x \in Operation |-> FateOf(state[x])]
<1>1. state \in [Operation -> States]
  BY DEF TypeOK, PlaneTypeOK
<1>2. fate' = [fate EXCEPT ![o] = FateOf(t)]
  BY <1>1
<1>3. fate[o] = FateOf(state[o])
  OBVIOUS
<1>4. Service!Becomes(o, FateOf(state[o]), FateOf(t))
  BY <1>2, <1>3 DEF Service!Becomes
<1>5. CASE state[o] = "none" /\ t = "requested"
  BY <1>4, <1>5 DEF FateOf, Service!Ask, Service!Next
<1>6. CASE state[o] = "requested" /\ t = "approved"
  <2>1. fate' = fate
    BY <1>1, <1>2, <1>6 DEF FateOf
  <2> QED
    BY <2>1 DEF Service!vars
<1>7. CASE state[o] = "requested" /\ t \in {"failed", "rejected"}
  BY <1>4, <1>7 DEF FateOf, Service!Refuse, Service!Next
<1>8. CASE state[o] = "approved" /\ t = "executing"
  BY <1>4, <1>8 DEF FateOf, Service!Run, Service!Next
<1>9. CASE state[o] = "executing" /\ t \in {"succeeded", "failed"}
  BY <1>4, <1>9 DEF FateOf, Service!Complete, Service!Next
<1> QED
  BY <1>5, <1>6, <1>7, <1>8, <1>9 DEF Advances

(* A call that returns tells the client what is so, or nothing.            *)
LEMMA ServiceTells ==
  ASSUME Truth, Truth', PollsHaveIds, NEW c \in Call, Pending(c),
         NEW a \in Answers \cup NoAnswers, Returns(c, a),
         a \in NoAnswers \/ state[op[c]] # "none",
         a \in Phases => asks[c] = "status"
  PROVE  [Service!Next]_(Service!vars)
<1> DEFINE o == op[c]
<1>1. o \in Operation /\ UNCHANGED state
  BY DEF Truth, TypeOK, Pending, Returns, planeVars
<1>2. CASE a \in NoAnswers
  <2>1. told' = told
    BY <1>1, <1>2 DEF Returns, Truth, TypeOK
  <2> QED
    BY <1>1, <2>1, ServiceStutters
<1>3. CASE a \notin NoAnswers
  <2>1. told' = [told EXCEPT ![o] = @ \cup {a}]
    <3>1. {a} \ NoAnswers = {a}
      BY <1>3
    <3> QED
      BY <3>1 DEF Returns
  <2>2. TrueAnswer(a, state[o])
    BY <1>1, <2>1 DEF Truth, TypeOK, ToldIsTrue
  <2>3. Service!SaysSo(a, o)
    BY <1>1, <1>3, <2>2 DEF Service!SaysSo, TrueAnswer, FateOf
  <2>4. a \in Service!Phases => Service!Named(o)
    BY SameAnswers DEF PollsHaveIds, HasId, Service!Named
  <2>5. Service!Tell(o, a)
    BY <1>1, <2>1, <2>3, <2>4 DEF Service!Tell
  <2>6. a \in Service!NamingAnswers \cup Service!Phases
    BY <1>3, SameAnswers
  <2> QED
    BY <1>1, <2>5, <2>6 DEF Service!Next
<1> QED
  BY <1>2, <1>3

LEMMA ServiceNext ==
  Truth /\ PollsHaveIds /\ [Next]_vars => [Service!Next]_(Service!vars)
<1> SUFFICES ASSUME Truth, PollsHaveIds, [Next]_vars
             PROVE  [Service!Next]_(Service!vars)
  OBVIOUS
<1>1. TypeOK /\ Truth'
  BY TruthNext DEF Truth
<1>2. CASE UNCHANGED vars
  BY <1>2, ServiceStutters DEF vars, planeVars, clientVars
<1>3. CASE Plane
  <2>1. ASSUME NEW o \in Operation, Executes(o) \/ Decides(o)
        PROVE  [Service!Next]_(Service!vars)
    <3>1. OpStep(o) /\ UNCHANGED told
      BY <1>1, <1>3, <2>1, OpSteps DEF TypeOK, Plane, clientVars
    <3> QED
      BY <1>1, <3>1, ServiceStutters, ServiceAdvances DEF OpStep
  <2>2. CASE UNCHANGED <<state, told>>
    BY <2>2, ServiceStutters
  <2> QED
    BY <1>3, <2>1, <2>2 DEF Plane, Forge, Upgrade, clientVars
<1>4. CASE Restart \/ \E k \in Key : AdminAdded(k)
  BY <1>4, ServiceStutters
     DEF Restart, AdminAdded, AddAdmin, planeVars, clientVars
<1>5. ASSUME NEW c \in Call, CallStep(c)
      PROVE  [Service!Next]_(Service!vars)
  <2>1. CASE UNCHANGED <<state, told>>
    BY <2>1, ServiceStutters
  <2>2. CASE Publish(c)
    <3>1. /\ op[c] \in Operation /\ UNCHANGED told
          /\ Advances(state[op[c]], "requested")
          /\ state' = [state EXCEPT ![op[c]] = "requested"]
      BY <1>1, <2>2
         DEF Publish, Request, Moves, Advances, TypeOK, clientVars
    <3> QED
      BY <1>1, <3>1, ServiceAdvances
  <2>3. CASE SubmitFails(c) \/ Cancel(c)
    BY <1>1, <2>3, ServiceTells
       DEF SubmitFails, Cancel, Pending, NoAnswers, Phases
  <2>4. CASE Boundary(c)
    BY <1>1, <2>4, ServiceTells
       DEF Boundary, Pending, Answers, NamingAnswers, Phases, Truth, StageInv
  <2>5. CASE AnswerOutcome(c)
    BY <1>1, <2>5, ServiceTells
       DEF AnswerOutcome, Pending, Answers, NamingAnswers, Phases, Outcomes,
           Truth, StageInv
  <2>6. CASE AnswerInterim(c)
    BY <1>1, <2>6, ServiceTells
       DEF AnswerInterim, Pending, Answers, NamingAnswers, Phases, Truth,
           StageInv, TypeOK
  <2> QED
    BY <1>5, <2>1, <2>2, <2>3, <2>4, <2>5, <2>6
       DEF CallStep, Streams, CallOperation, CallStatus, Enters,
           StreamOperation, Deliver, EndStream, BreakOff, planeVars, clientVars
<1> QED
  BY <1>2, <1>3, <1>4, <1>5 DEF Next

(* The adapter, the relay and the daemon together, through faults and      *)
(* forgeries (client.py:78-98, server.py:101-255), are the service that    *)
(* OperationService states.                                                *)
THEOREM ImplementsService == Spec => KeepsService
<1>1. Init => Service!Init /\ PollsHaveIds
  BY ServiceInit, PollsInit
<1>2. Truth /\ Truth' /\ PollsHaveIds /\ [Next]_vars => PollsHaveIds'
  BY PollsNext DEF Truth
<1>3. Truth /\ PollsHaveIds /\ [Next]_vars => [Service!Next]_(Service!vars)
  BY ServiceNext
<1> QED
  BY <1>1, <1>2, <1>3, TruthInvariant, PTL
     DEF Spec, KeepsService, Service!Spec

-----------------------------------------------------------------------------
(* No two clients are ever told different outcomes of one operation, not   *)
(* by a call and a poll of it either (server.py:218-229, 247-255): the     *)
(* daemon signs a boolean for ok, on which the two agree.                  *)
THEOREM OutcomesAgree == Spec => []Service!OneOutcome
<1>1. AnswersAreTrue => Service!OneOutcome
  BY DEF AnswersAreTrue, Service!OneOutcome, Service!Outcomes
<1> QED
  BY <1>1, AnswersTrue, PTL
=============================================================================
