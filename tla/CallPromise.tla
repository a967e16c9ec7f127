---------------------------- MODULE CallPromise ----------------------------
(***************************************************************************)
(* What a tool call promises its client, with no threads, queue or event   *)
(* loop: the control plane publishes a log of events to the call until the *)
(* stream is over, and the answer is read off that log.                    *)
(***************************************************************************)
EXTENDS ChainEvents

CONSTANTS Call, Event

VARIABLES
  log,      \* the events the relay has yielded to the call
  over,     \* the relay yields no more
  answer    \* what the client was told, "none" before

vars == <<log, over, answer>>

Init ==
  /\ log = [c \in Call |-> <<>>]
  /\ over = [c \in Call |-> FALSE]
  /\ answer = [c \in Call |-> "none"]

Deliver(c, e) ==
  /\ ~over[c]
  /\ log' = [log EXCEPT ![c] = Append(@, e)]
  /\ UNCHANGED <<over, answer>>

End(c) ==
  /\ over' = [over EXCEPT ![c] = TRUE]
  /\ UNCHANGED <<log, answer>>

(* A call is answered once and for all.                                    *)
Answer(c, a) ==
  /\ answer[c] = "none"
  /\ answer' = [answer EXCEPT ![c] = a]
  /\ UNCHANGED <<log, over>>

(* With the outcome that the first settling event states, to a poll or to  *)
(* the call that asked for the operation.                                  *)
SaysOutcome(polled, c, a) ==
  \E i \in 1..Len(log[c]) :
    /\ SettledAt(log[c], i)
    /\ Terminal(log[c][i])
    /\ a = Outcome(log[c][i], polled)

AnswerOutcome(c) ==
  \E a \in Outcomes, polled \in BOOLEAN :
    SaysOutcome(polled, c, a) /\ Answer(c, a)

(* With the state so far, and only when the whole log holds no outcome     *)
(* that could be read.                                                     *)
SaysInterim(c, a) ==
  /\ over[c]
  /\ \A i \in 1..Len(log[c]) : SettledAt(log[c], i) => Breaks(log[c][i])
  /\ a \in {"PENDING",
            IF ShownExecuting(log[c]) THEN "EXECUTING" ELSE "REQUESTED"}

AnswerInterim(c) ==
  \E a \in {"PENDING", "EXECUTING", "REQUESTED"} :
    SaysInterim(c, a) /\ Answer(c, a)

(* Before any event: the boundary, a local answer, an error.               *)
AnswerEarly(c) ==
  /\ log[c] = <<>>
  /\ \E a \in {"approval_required", "local", "tool_error"} : Answer(c, a)

(* Or the call is cut short.                                               *)
Cut(c) == \E a \in {"cancelled", "raised"} : Answer(c, a)

Next ==
  \E c \in Call :
    \/ \E e \in Event : Deliver(c, e)
    \/ End(c)
    \/ AnswerOutcome(c) \/ AnswerInterim(c) \/ AnswerEarly(c) \/ Cut(c)

Spec == Init /\ [][Next]_vars
=============================================================================
