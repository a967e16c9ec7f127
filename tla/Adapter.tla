------------------------------ MODULE Adapter ------------------------------
(***************************************************************************)
(* The adapter between its clients and the control plane: tool calls that  *)
(* keep CallPromise, the operations they ask for, clients that poll        *)
(* op_status, and an adapter that restarts while catalogue and admins go   *)
(* on changing.                                                            *)
(*                                                                         *)
(* How a call comes to its answer is ToolCalls' matter, which implements   *)
(* CallPromise; here each call takes CallPromise's steps, on the events    *)
(* the relay holds about its operation.                                    *)
(*                                                                         *)
(* A client that has the id of an operation may ask op_status for it at    *)
(* any time, also from another call than the one that got the id.          *)
(***************************************************************************)
EXTENDS ControlPlane

CONSTANTS
  Call,          \* calls in progress or just answered; a slot is used again
  NoOperation,
  Forgeable,     \* what a local process may publish as the server's
  MaxFaults      \* bound: restarts, cancelled calls and broken streams

ASSUME AdapterAssumption ==
  /\ NoOperation \notin Operation
  /\ Forgeable \subseteq Publications
  /\ MaxFaults \in Nat

VARIABLES
  log, over, answer,   \* as in CallPromise
  asks,      \* what the call in a slot asks for
  op,        \* the operation it is about
  stage,     \* how far it has got, "idle" once it is answered
  owed,      \* what the stream has to yield: the events the relay held when
             \* it began, none once the relay has failed it
  told,      \* the answers clients have got about each operation
  lost,      \* operations whose call ended without an answer that names them
  known,     \* Config.admin_pubkeys and the catalogue, as read at start
  drifted,   \* operations that awaited approval under other admins than known
  faults

promiseVars == <<log, over, answer>>
callVars == <<promiseVars, asks, op, stage, owed>>
clientVars == <<told, lost>>
adapterVars == <<known, faults>>
vars == <<planeVars, callVars, clientVars, adapterVars, drifted>>

Promise == INSTANCE CallPromise WITH Event <- Events

(* The answers that carry the operation's id; op_status gives the others.  *)
NamingAnswers == Outcomes \cup {"PENDING", "approval_required"}

Phases == {"REQUESTED", "EXECUTING"}

Answers == NamingAnswers \cup Phases

(* What a call may come to instead of an answer.                           *)
NoAnswers == {"tool_error", "cancelled"}

TypeOK ==
  /\ PlaneTypeOK
  /\ log \in [Call -> Seq(Events)]
  /\ over \in [Call -> BOOLEAN]
  /\ answer \in [Call -> Answers \cup NoAnswers \cup {"none"}]
  /\ asks \in [Call -> {"operation", "status"}]
  /\ op \in [Call -> Operation \cup {NoOperation}]
  /\ stage \in [Call -> {"idle", "submitting", "published", "streaming"}]
  /\ \A c \in Call : stage[c] # "idle" => op[c] \in Operation
  /\ owed \in [Call -> SUBSET Publications]
  /\ told \in [Operation -> SUBSET Answers]
  /\ lost \subseteq Operation
  /\ known \in [admins : SUBSET Key, catalogue : 0..MaxCatalogue]
  /\ drifted \subseteq Operation
  /\ faults \in 0..MaxFaults

Init ==
  /\ PlaneInit
  /\ Promise!Init
  /\ asks = [c \in Call |-> "status"]
  /\ op = [c \in Call |-> NoOperation]
  /\ stage = [c \in Call |-> "idle"]
  /\ owed = [c \in Call |-> {}]
  /\ told = [o \in Operation |-> {}]
  /\ lost = {}
  /\ known = [admins |-> admins, catalogue |-> catalogue]
  /\ drifted = {}
  /\ faults = 0

-----------------------------------------------------------------------------
Pending(c) == stage[c] # "idle"

Fault ==
  /\ faults < MaxFaults
  /\ faults' = faults + 1

(* A call enters a free slot.                                              *)
Enters(c, what, o, where, events) ==
  /\ ~Pending(c)
  /\ answer' = [answer EXCEPT ![c] = "none"]
  /\ asks' = [asks EXCEPT ![c] = what]
  /\ op' = [op EXCEPT ![c] = o]
  /\ stage' = [stage EXCEPT ![c] = where]
  /\ owed' = [owed EXCEPT ![c] = events]
  /\ UNCHANGED <<planeVars, log, over, clientVars, adapterVars, drifted>>

(* A client calls a generated tool; each call asks for an operation of its *)
(* own.                                                                    *)
CallOperation(c, o) ==
  /\ state[o] = "none" /\ told[o] = {} /\ o \notin lost
  /\ \A d \in Call : Pending(d) => op[d] # o
  /\ Enters(c, "operation", o, "submitting", {})

(* A client that has the operation's id calls op_status.  (The slips: an   *)
(* op_status that takes any text for an id, and one that knows only the    *)
(* operations approval_required named.)                                    *)
HasId(o) == told[o] \cap NamingAnswers # {}

CallStatusOfAnything(c, o) ==
  Enters(c, "status", NoOperation, "streaming", {})

CallStatusOfGated(c, o) ==
  /\ "approval_required" \in told[o]
  /\ Enters(c, "status", o, "streaming", chain[o])

CallStatus(c, o) ==
  /\ HasId(o)
  /\ Enters(c, "status", o, "streaming", chain[o])

-----------------------------------------------------------------------------
(* submit publishes the request.                                           *)
Publish(c) ==
  /\ stage[c] = "submitting"
  /\ stage' = [stage EXCEPT ![c] = "published"]
  /\ Request(op[c])
  /\ drifted' = IF known.admins = admins THEN drifted ELSE drifted \cup {op[c]}
  /\ UNCHANGED <<promiseVars, asks, op, owed, clientVars, adapterVars>>

(* A call is over, with an answer that its client is told or without, and  *)
(* its slot is free again.                                                 *)
Returns(c, a) ==
  /\ answer' = [answer EXCEPT ![c] = a]
  /\ stage' = [stage EXCEPT ![c] = "idle"]
  /\ log' = [log EXCEPT ![c] = <<>>]
  /\ over' = [over EXCEPT ![c] = FALSE]
  /\ owed' = [owed EXCEPT ![c] = {}]
  /\ told' = [told EXCEPT ![op[c]] = @ \cup ({a} \ NoAnswers)]
  /\ UNCHANGED <<planeVars, asks, op, known, drifted>>

(* The operations that calls of tools in these slots ask for.              *)
Asked(calls) == {op[c] : c \in {d \in calls : asks[d] = "operation"}}

(* submit raises, possibly after publishing, or names no request.          *)
SubmitFails(c) ==
  /\ stage[c] \in {"submitting", "published"}
  /\ Returns(c, "tool_error")
  /\ lost' = lost \cup {op[c]}
  /\ UNCHANGED faults

(* _actor_is_admin, by the admins read at start.                           *)
ActorIsAdmin(o) == Actor[o] \in known.admins

(* The approval boundary.  (The slip: without the test for an admin.)      *)
BoundaryForAll(c) ==
  /\ stage[c] = "published"
  /\ Floor[op[c]] # "none"
  /\ Returns(c, "approval_required")
  /\ UNCHANGED <<lost, faults>>

Boundary(c) ==
  /\ stage[c] = "published"
  /\ Floor[op[c]] # "none" /\ ~ActorIsAdmin(op[c])
  /\ Returns(c, "approval_required")
  /\ UNCHANGED <<lost, faults>>

StreamOperation(c) ==
  /\ stage[c] = "published"
  /\ Floor[op[c]] = "none" \/ ActorIsAdmin(op[c])
  /\ stage' = [stage EXCEPT ![c] = "streaming"]
  /\ owed' = [owed EXCEPT ![c] = chain[op[c]]]
  /\ UNCHANGED <<planeVars, promiseVars, asks, op, clientVars, adapterVars,
                 drifted>>

-----------------------------------------------------------------------------
(* A result under another catalogue than the adapter's does not parse.     *)
AsRead(p) ==
  [kind |-> p.kind, signed |-> p.signed,
   body |-> IF p.kind = "result" /\ p.catalogue # known.catalogue
            THEN "stale" ELSE p.body]

Read(c) == {log[c][i] : i \in 1..Len(log[c])}

Settled(c) == \E e \in Read(c) : Settles(e)

(* The relay yields the events it holds and those that come in meanwhile,  *)
(* in any order; after the one that settles the call none is read.         *)
Deliver(c) ==
  /\ stage[c] = "streaming"
  /\ ~Settled(c)
  /\ \E p \in chain[op[c]] : /\ AsRead(p) \notin Read(c)
                            /\ Promise!Deliver(c, AsRead(p))
  /\ UNCHANGED <<planeVars, asks, op, stage, owed, clientVars, adapterVars,
                 drifted>>

(* event_timeout, with all that was held yielded; or the call is settled.  *)
EndStream(c) ==
  /\ stage[c] = "streaming" /\ ~over[c]
  /\ Settled(c) \/ \A p \in owed[c] : AsRead(p) \in Read(c)
  /\ Promise!End(c)
  /\ UNCHANGED <<planeVars, asks, op, stage, owed, clientVars, adapterVars,
                 drifted>>

(* The relay iterator raises.                                              *)
BreakOff(c) ==
  /\ stage[c] = "streaming" /\ ~over[c]
  /\ Fault
  /\ owed' = [owed EXCEPT ![c] = {}]
  /\ Promise!End(c)
  /\ UNCHANGED <<planeVars, asks, op, stage, clientVars, known, drifted>>

AnswerOutcome(c) ==
  /\ stage[c] = "streaming"
  /\ \E a \in Outcomes :
       Promise!SaysOutcome(asks[c] = "status", c, a) /\ Returns(c, a)
  /\ UNCHANGED <<lost, faults>>

(* No outcome: a tool answers PENDING, op_status the phase.  (The slip: a  *)
(* tool that raises an error instead.)                                     *)
AnswerInterimOrRaise(c) ==
  /\ stage[c] = "streaming"
  /\ \E a \in {"tool_error", "EXECUTING", "REQUESTED"} :
       /\ Promise!SaysInterim(c, IF a = "tool_error" THEN "PENDING" ELSE a)
       /\ a = "tool_error" <=> asks[c] = "operation"
       /\ Returns(c, a)
  /\ UNCHANGED <<lost, faults>>

AnswerInterim(c) ==
  /\ stage[c] = "streaming"
  /\ \E a \in {"PENDING", "EXECUTING", "REQUESTED"} :
       /\ Promise!SaysInterim(c, a)
       /\ a = "PENDING" <=> asks[c] = "operation"
       /\ Returns(c, a)
  /\ UNCHANGED <<lost, faults>>

(* The client cancels, or reporting progress to it fails.                  *)
Cancel(c) ==
  /\ Pending(c)
  /\ Fault
  /\ Returns(c, "cancelled")
  /\ lost' = lost \cup Asked({c})

(* The adapter is stopped and started: nothing it was doing is persisted,  *)
(* and it reads catalogue and admins anew.                                 *)
Restart ==
  /\ Fault
  /\ log' = [c \in Call |-> <<>>]
  /\ over' = [c \in Call |-> FALSE]
  /\ answer' = [c \in Call |-> "none"]
  /\ stage' = [c \in Call |-> "idle"]
  /\ owed' = [c \in Call |-> {}]
  /\ lost' = lost \cup Asked({c \in Call : Pending(c)})
  /\ known' = [admins |-> admins, catalogue |-> catalogue]
  /\ UNCHANGED <<planeVars, asks, op, told, drifted>>

-----------------------------------------------------------------------------
(* Which admins "an administrator" refers to is in doubt for an operation  *)
(* that awaits approval while the adapter has others than the daemon.      *)
AdminAdded(k) ==
  /\ AddAdmin(k)
  /\ drifted' = drifted \cup {o \in Operation : state[o] = "requested"}
  /\ UNCHANGED <<callVars, clientVars, adapterVars>>

Plane ==
  /\ \/ \E o \in Operation : Executes(o) \/ Decides(o)
     \/ \E o \in Operation, p \in Forgeable : Forge(o, p)
     \/ Upgrade
  /\ UNCHANGED <<callVars, clientVars, adapterVars, drifted>>

Streams(c) ==
  Deliver(c) \/ EndStream(c) \/ AnswerOutcome(c) \/ AnswerInterim(c)

CallStep(c) ==
  \/ \E o \in Operation : CallOperation(c, o) \/ CallStatus(c, o)
  \/ Publish(c) \/ SubmitFails(c) \/ Boundary(c) \/ StreamOperation(c)
  \/ Streams(c) \/ BreakOff(c) \/ Cancel(c)

Next ==
  \/ Plane
  \/ \E k \in Key : AdminAdded(k)
  \/ Restart
  \/ \E c \in Call : CallStep(c)

Spec == Init /\ [][Next]_vars

(***************************************************************************)
(* Fairness.  A call that reads a stream gets the events held, the         *)
(* iterator is finite and the event loop runs the call (ToolCalls).  A     *)
(* client that has the id goes on polling until it is told an outcome, as  *)
(* poll_terminal does and the server's instructions ask for; a slot taken  *)
(* by another call makes it try again.  Nobody has to ask for an           *)
(* operation, approve it, run it, cancel a call or restart anything.       *)
(***************************************************************************)
Poll(c, o) == told[o] \cap Outcomes = {} /\ CallStatus(c, o)

Fairness ==
  /\ \A c \in Call : WF_vars(Streams(c))
  /\ \A o \in Operation : SF_vars(\E c \in Call : Poll(c, o))

FairSpec == Spec /\ Fairness

-----------------------------------------------------------------------------
(***************************************************************************)
(* Whatever is delivered in whatever order, published by whomever, to      *)
(* however many calls, before and after restarts: what clients have been   *)
(* told of an operation is true of it.  So no two clients are told         *)
(* different outcomes of one operation.                                    *)
(***************************************************************************)
AnswersAreTrue ==
  \A o \in Operation :
    /\ "SUCCEEDED" \in told[o] => state[o] = "succeeded"
    /\ "FAILED" \in told[o] => state[o] = "failed"
    /\ "REJECTED" \in told[o] => state[o] = "rejected"
    /\ "EXECUTING" \in told[o] =>
         state[o] \in {"executing", "succeeded", "failed"}
    /\ HasId(o) => state[o] # "none"

(***************************************************************************)
(* OperationService is what the two are to their clients: an operation     *)
(* that awaits its start has been asked for, and nothing of calls, chains, *)
(* catalogues, admins and faults shows but in what is told.                *)
(***************************************************************************)
FateOf(s) == IF s \in {"requested", "approved"} THEN "asked"
             ELSE IF s = "executing" THEN "running" ELSE s

Service ==
  INSTANCE OperationService WITH fate <- [o \in Operation |-> FateOf(state[o])]

(* The adapter, the relay and the daemon implement OperationService.       *)
KeepsService == Service!Spec

(***************************************************************************)
(* "reporting approval_required for it would be false" (server.py:124-125):*)
(* an operation a client was told awaits an approval was not approved      *)
(* automatically, unless the adapter and the daemon had different admins   *)
(* while it waited.                                                        *)
(***************************************************************************)
BoundaryIsTrue ==
  \A o \in Operation \ drifted :
    "approval_required" \in told[o] => o \notin automatic

(***************************************************************************)
(* op_status is not behind: when it reports REQUESTED or EXECUTING, the    *)
(* relay held no genuine rejection and no result under the adapter's       *)
(* catalogue when the call began, unless the relay failed it.              *)
(***************************************************************************)
SaysOutcome(p) ==
  /\ p.signed
  /\ \/ p.kind = "rejection" /\ p.body # "not_object"
     \/ /\ p.kind = "result" /\ p.body \in {"ok", "truthy", "failed"}
        /\ p.catalogue = known.catalogue

StatusKeepsUp ==
  [][\A c \in Call :
       ServerKeyKnown /\ Pending(c) /\ answer'[c] \in Phases =>
         ~\E p \in owed[c] : SaysOutcome(p)]_vars

(***************************************************************************)
(* No operation is on its way without anybody to ask for it: its call is   *)
(* in progress or a client has its id, unless that call failed at submit,  *)
(* was cancelled, or the adapter was stopped in it.                        *)
(***************************************************************************)
InProgress(o) ==
  \E c \in Call : Pending(c) /\ asks[c] = "operation" /\ op[c] = o

OrphansNeedLoss ==
  \A o \in Operation \ lost :
    state[o] # "none" => HasId(o) \/ InProgress(o)

(***************************************************************************)
(* A client that has the id and keeps polling learns of the outcome,       *)
(* through broken streams, cancelled polls, restarts of the adapter and    *)
(* forged events; unless from then on for ever the server's own result is  *)
(* of another catalogue than the adapter's.                                *)
(***************************************************************************)
Unreadable(o) ==
  \E p \in chain[o] : /\ p.kind = "result" /\ p.signed
                      /\ p.catalogue # known.catalogue

PollingLearns ==
  ServerKeyKnown =>
    \A o \in Operation :
      (Decided(o) /\ HasId(o)) ~>
        (told[o] \cap Outcomes # {} \/ []Unreadable(o))
=============================================================================
