-------------------------- MODULE OperationService --------------------------
(***************************************************************************)
(* What an adapter and the node behind it are to their clients, with no    *)
(* calls, events, restarts or forgeries: operations are asked for, run and *)
(* come to an outcome, and clients are told of them what is so.            *)
(***************************************************************************)
CONSTANT Operation

VARIABLES
  fate,   \* what has become of each operation
  told    \* what clients have been told of it

vars == <<fate, told>>

Init ==
  /\ fate = [o \in Operation |-> "none"]
  /\ told = [o \in Operation |-> {}]

Becomes(o, from, to) ==
  /\ fate[o] = from
  /\ fate' = [fate EXCEPT ![o] = to]
  /\ UNCHANGED told

Ask(o) == Becomes(o, "none", "asked")

Run(o) == Becomes(o, "asked", "running")

Refuse(o) == Becomes(o, "asked", "rejected") \/ Becomes(o, "asked", "failed")

Complete(o) ==
  Becomes(o, "running", "succeeded") \/ Becomes(o, "running", "failed")

(* The answers of the call that asked name the operation; any of them is   *)
(* the id with which its progress may be asked for.                        *)
Outcomes == {"SUCCEEDED", "FAILED", "REJECTED"}

NamingAnswers == Outcomes \cup {"PENDING", "approval_required"}

Phases == {"REQUESTED", "EXECUTING"}

Named(o) == told[o] \cap NamingAnswers # {}

(* What an answer says of an operation.                                    *)
SaysSo(a, o) ==
  /\ fate[o] # "none"
  /\ a = "SUCCEEDED" => fate[o] = "succeeded"
  /\ a = "FAILED" => fate[o] = "failed"
  /\ a = "REJECTED" => fate[o] = "rejected"
  /\ a = "EXECUTING" => fate[o] \in {"running", "succeeded", "failed"}

Tell(o, a) ==
  /\ SaysSo(a, o)
  /\ a \in Phases => Named(o)
  /\ told' = [told EXCEPT ![o] = @ \cup {a}]
  /\ UNCHANGED fate

Next ==
  \E o \in Operation :
    \/ Ask(o) \/ Run(o) \/ Refuse(o) \/ Complete(o)
    \/ \E a \in NamingAnswers \cup Phases : Tell(o, a)

Spec == Init /\ [][Next]_vars

-----------------------------------------------------------------------------
(* An operation has one outcome for all who are told one.                  *)
OneOutcome ==
  \A o \in Operation : \A a, b \in told[o] \cap Outcomes : a = b
=============================================================================
