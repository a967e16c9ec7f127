----------------------------- MODULE ToolCalls -----------------------------
(***************************************************************************)
(* The tool calls of one adapter process (server.py): coroutines that      *)
(* share one event loop, each with the worker thread that does its         *)
(* blocking relay work.                                                    *)
(*                                                                         *)
(* A call of a generated tool first runs OperationClient.submit on a       *)
(* worker thread.  Then it either returns approval_required or reads the   *)
(* operation's chain; op_status reads a chain straight away.  Reading is   *)
(* the asynchronous generator _typed_events: a second worker thread pumps  *)
(* the blocking relay iterator into a queue, the coroutine gets from the   *)
(* queue, and leaving the generator waits for the thread.                  *)
(*                                                                         *)
(* The queue is kept whole: log[c] is every event the thread has put in,   *)
(* head[c] how many of them the coroutine has got, sentinel[c] whether the *)
(* thread has put in the final `finished' object.                          *)
(***************************************************************************)
EXTENDS ChainEvents

CONSTANTS
  Call,        \* the calls the process may be handling
  Event,       \* the events a relay iterator may yield
  MaxEvents,   \* bound: events one iterator yields before it must end
  NoCall       \* the value of `stalled' while the event loop runs

ASSUME CallAssumption ==
  /\ Event \subseteq Events
  /\ MaxEvents \in Nat
  /\ NoCall \notin Call

VARIABLES
  pc,         \* where the call's coroutine is suspended
  tool,       \* what was called
  worker,     \* the call's worker thread
  submitted,  \* what submit returned, or "none" before it has
  log, head, sentinel,
  latest,     \* op_status: the last non-terminal phase seen
  answer,     \* what the client was told, "none" before
  closing,    \* an abandoned generator is being closed by a task of its own
  stalled     \* the call whose executor.shutdown is blocking the event loop

vars == <<pc, tool, worker, submitted, log, head, sentinel, latest, answer,
          closing, stalled>>

-----------------------------------------------------------------------------
(* The coroutine of a call is not started, waits for submit, for the       *)
(* queue, for report_progress, for the producer after the generator ended  *)
(* by itself ("drain") or for a thread while a CancelledError propagates   *)
(* ("unwind"), or is over.                                                 *)
PC == {"idle", "submit", "get", "report", "drain", "unwind", "done"}

Tool == {"read", "gated", "op_status", "local"}

Worker == {"none", "submitting", "pumping", "finished"}

InterimAnswers == {"PENDING", "REQUESTED", "EXECUTING"}

CutAnswers == {"cancelled", "raised"}

Answers == Outcomes \cup InterimAnswers \cup CutAnswers
             \cup {"none", "approval_required", "tool_error", "local"}

TypeOK ==
  /\ pc \in [Call -> PC]
  /\ tool \in [Call -> Tool]
  /\ worker \in [Call -> Worker]
  /\ submitted \in [Call -> {"none", "accepted", "refused"}]
  /\ log \in [Call -> Seq(Event)]
  /\ head \in [Call -> Nat]
  /\ sentinel \in [Call -> BOOLEAN]
  /\ latest \in [Call -> {"REQUESTED", "EXECUTING"}]
  /\ answer \in [Call -> Answers]
  /\ closing \in [Call -> BOOLEAN]
  /\ stalled \in Call \cup {NoCall}

Init ==
  /\ pc = [c \in Call |-> "idle"]
  /\ tool = [c \in Call |-> "local"]
  /\ worker = [c \in Call |-> "none"]
  /\ submitted = [c \in Call |-> "none"]
  /\ log = [c \in Call |-> <<>>]
  /\ head = [c \in Call |-> 0]
  /\ sentinel = [c \in Call |-> FALSE]
  /\ latest = [c \in Call |-> "REQUESTED"]
  /\ answer = [c \in Call |-> "none"]
  /\ closing = [c \in Call |-> FALSE]
  /\ stalled = NoCall

-----------------------------------------------------------------------------
(* Every step of a coroutine needs the event loop; a worker thread's does  *)
(* not.                                                                    *)
LoopFree == stalled = NoCall

Suspended(c, where) == LoopFree /\ pc[c] = where

Finish(c, a) ==
  /\ pc' = [pc EXCEPT ![c] = "done"]
  /\ answer' = [answer EXCEPT ![c] = a]

(* _typed_events begins: the producer task starts the pump thread.         *)
StartStream(c) ==
  /\ pc' = [pc EXCEPT ![c] = "get"]
  /\ worker' = [worker EXCEPT ![c] = "pumping"]

(* A call answered in call_tool itself: mcp_status, which reads only the   *)
(* configuration, and the two argument errors (no such tool, an            *)
(* operation_id that is not 64 hex digits).                                *)
CallLocal(c) ==
  /\ Suspended(c, "idle")
  /\ \E a \in {"local", "tool_error"} : Finish(c, a)
  /\ UNCHANGED <<tool, worker, submitted, log, head, sentinel, latest,
                 closing, stalled>>

CallOpStatus(c) ==
  /\ Suspended(c, "idle")
  /\ tool' = [tool EXCEPT ![c] = "op_status"]
  /\ StartStream(c)
  /\ UNCHANGED <<submitted, log, head, sentinel, latest, answer, closing,
                 stalled>>

(* A generated tool: hand submit to a fresh one-thread executor.           *)
CallOperation(c, t) ==
  /\ Suspended(c, "idle")
  /\ t \in {"read", "gated"}
  /\ tool' = [tool EXCEPT ![c] = t]
  /\ pc' = [pc EXCEPT ![c] = "submit"]
  /\ worker' = [worker EXCEPT ![c] = "submitting"]
  /\ UNCHANGED <<submitted, log, head, sentinel, latest, answer, closing,
                 stalled>>

(* The worker's submit returns a request id, or raises or returns none.    *)
SubmitReturns(c, r) ==
  /\ worker[c] = "submitting"
  /\ r \in {"accepted", "refused"}
  /\ worker' = [worker EXCEPT ![c] = "finished"]
  /\ submitted' = [submitted EXCEPT ![c] = r]
  /\ UNCHANGED <<pc, tool, log, head, sentinel, latest, answer, closing,
                 stalled>>

(* call_tool resumes after submit: a failure is a ToolError, a gated tool  *)
(* of a caller who is not an admin stops at the approval boundary, and     *)
(* every other call streams the chain to its result.                       *)
ResumeAfterSubmit(c, isAdmin) ==
  /\ Suspended(c, "submit")
  /\ worker[c] = "finished"
  /\ \/ /\ submitted[c] = "refused"
        /\ Finish(c, "tool_error")
        /\ UNCHANGED worker
     \/ /\ submitted[c] = "accepted"
        /\ tool[c] = "gated" /\ ~isAdmin
        /\ Finish(c, "approval_required")
        /\ UNCHANGED worker
     \/ /\ submitted[c] = "accepted"
        /\ tool[c] = "read" \/ isAdmin
        /\ StartStream(c)
        /\ UNCHANGED answer
  /\ UNCHANGED <<tool, submitted, log, head, sentinel, latest, closing,
                 stalled>>

-----------------------------------------------------------------------------
(* The pump thread.  Its finally clause puts the sentinel in whether the   *)
(* iterator was exhausted (terminal event or timeout) or raised.           *)
PumpEvent(c, e) ==
  /\ worker[c] = "pumping"
  /\ Len(log[c]) < MaxEvents
  /\ log' = [log EXCEPT ![c] = Append(@, e)]
  /\ UNCHANGED <<pc, tool, worker, submitted, head, sentinel, latest, answer,
                 closing, stalled>>

(* Slips of PumpEnds, for the mutation runs: the sentinel put in outside a *)
(* finally clause; a queue of bounded size, whose put blocks for ever once *)
(* nobody gets from it; a put that is run on the loop and waited for.      *)
PumpEndsWithoutSentinel(c) ==
  /\ worker[c] = "pumping"
  /\ worker' = [worker EXCEPT ![c] = "finished"]
  /\ \E raised \in BOOLEAN : sentinel' = [sentinel EXCEPT ![c] = ~raised]
  /\ UNCHANGED <<pc, tool, submitted, log, head, latest, answer, closing,
                 stalled>>

PumpEndsIfRead(c) ==
  /\ worker[c] = "pumping"
  /\ pc[c] # "done"
  /\ worker' = [worker EXCEPT ![c] = "finished"]
  /\ sentinel' = [sentinel EXCEPT ![c] = TRUE]
  /\ UNCHANGED <<pc, tool, submitted, log, head, latest, answer, closing,
                 stalled>>

PumpEndsOnLoop(c) ==
  /\ worker[c] = "pumping"
  /\ LoopFree
  /\ worker' = [worker EXCEPT ![c] = "finished"]
  /\ sentinel' = [sentinel EXCEPT ![c] = TRUE]
  /\ UNCHANGED <<pc, tool, submitted, log, head, latest, answer, closing,
                 stalled>>

PumpEnds(c) ==
  /\ worker[c] = "pumping"
  /\ worker' = [worker EXCEPT ![c] = "finished"]
  /\ sentinel' = [sentinel EXCEPT ![c] = TRUE]
  /\ UNCHANGED <<pc, tool, submitted, log, head, latest, answer, closing,
                 stalled>>

-----------------------------------------------------------------------------
(* The coroutine gets the next item of the queue.                          *)
Gets(c) ==
  /\ Suspended(c, "get")
  /\ head[c] < Len(log[c])
  /\ head' = [head EXCEPT ![c] = @ + 1]
  /\ UNCHANGED <<tool, worker, submitted, log, sentinel, stalled>>

NextItem(c) == log[c][head[c] + 1]

Polls(c) == tool[c] = "op_status"

GetSkipped(c) ==
  /\ Gets(c)
  /\ Skipped(NextItem(c))
  /\ UNCHANGED <<pc, latest, answer, closing>>

(* Reading raises: the generator swallows the exception and ends.  (The    *)
(* slip: the try statement inside the loop, so that it goes on.)           *)
GetBreaksAndGoesOn(c) ==
  /\ Gets(c)
  /\ Breaks(NextItem(c))
  /\ UNCHANGED <<pc, latest, answer, closing>>

GetBreaks(c) ==
  /\ Gets(c)
  /\ Breaks(NextItem(c))
  /\ pc' = [pc EXCEPT ![c] = "drain"]
  /\ UNCHANGED <<latest, answer, closing>>

(* A started or progress event.                                            *)
GetsInterim(c) ==
  /\ Gets(c)
  /\ Yielded(NextItem(c)) /\ ~Terminal(NextItem(c))
  /\ UNCHANGED <<answer, closing>>

(* A streaming call awaits report_progress when there is a progress body   *)
(* to report and the client gave it a context.                             *)
StreamInterim(c) ==
  /\ GetsInterim(c)
  /\ tool[c] # "op_status"
  /\ \/ /\ NextItem(c).kind = "progress" /\ NextItem(c).body = "full"
        /\ pc' = [pc EXCEPT ![c] = "report"]
     \/ UNCHANGED pc
  /\ UNCHANGED latest

(* op_status notes the phase.  (The slip: without its test for a body.)    *)
StatusInterimAnyBody(c) ==
  /\ GetsInterim(c)
  /\ tool[c] = "op_status"
  /\ latest' = [latest EXCEPT ![c] = "EXECUTING"]
  /\ UNCHANGED pc

StatusInterim(c) ==
  /\ GetsInterim(c)
  /\ tool[c] = "op_status"
  /\ latest' = [latest EXCEPT ![c] =
                   IF ShowsExecution(NextItem(c)) THEN "EXECUTING" ELSE @]
  /\ UNCHANGED pc

(* A terminal event: the caller leaves the loop and answers at once.  The  *)
(* generator is abandoned at its yield and closed by a task of its own.    *)
(* (The slips: closing it before answering, which waits for the thread;    *)
(* leaving it to itself.)                                                  *)
GetTerminalAndCloses(c) ==
  /\ Gets(c)
  /\ Terminal(NextItem(c))
  /\ pc' = [pc EXCEPT ![c] = "drain"]
  /\ UNCHANGED <<latest, answer, closing>>

GetTerminalAndLeaves(c) ==
  /\ Gets(c)
  /\ Terminal(NextItem(c))
  /\ Finish(c, Outcome(NextItem(c), Polls(c)))
  /\ UNCHANGED <<latest, closing>>

GetTerminal(c) ==
  /\ Gets(c)
  /\ Terminal(NextItem(c))
  /\ Finish(c, Outcome(NextItem(c), Polls(c)))
  /\ closing' = [closing EXCEPT ![c] = TRUE]
  /\ UNCHANGED latest

(* The sentinel is behind every event.  (The slip: an empty queue taken    *)
(* for the end of the stream.)                                             *)
GetSentinelOrNothing(c) ==
  /\ Suspended(c, "get")
  /\ head[c] = Len(log[c])
  /\ pc' = [pc EXCEPT ![c] = "drain"]
  /\ UNCHANGED <<tool, worker, submitted, log, head, sentinel, latest, answer,
                 closing, stalled>>

GetSentinel(c) ==
  /\ Suspended(c, "get")
  /\ head[c] = Len(log[c])
  /\ sentinel[c]
  /\ pc' = [pc EXCEPT ![c] = "drain"]
  /\ UNCHANGED <<tool, worker, submitted, log, head, sentinel, latest, answer,
                 closing, stalled>>

(* report_progress returns, or raises something other than the TypeError   *)
(* and ValueError that _run_to_result expects.                             *)
Reported(c) ==
  /\ Suspended(c, "report")
  /\ pc' = [pc EXCEPT ![c] = "get"]
  /\ UNCHANGED <<tool, worker, submitted, log, head, sentinel, latest, answer,
                 closing, stalled>>

ReportRaises(c) ==
  /\ Suspended(c, "report")
  /\ Finish(c, "raised")
  /\ closing' = [closing EXCEPT ![c] = TRUE]
  /\ UNCHANGED <<tool, worker, submitted, log, head, sentinel, latest, stalled>>

(* The generator's finally clause has its producer: the loop over the      *)
(* generator ends, and the call answers with what it has.                  *)
Interim(c) == IF tool[c] = "op_status" THEN latest[c] ELSE "PENDING"

(* (The slip: reading the chain again instead, until it has an outcome.)   *)
DrainedAndReadsAgain(c) ==
  /\ Suspended(c, "drain")
  /\ worker[c] = "finished"
  /\ StartStream(c)
  /\ UNCHANGED <<tool, submitted, log, head, sentinel, latest, answer, closing,
                 stalled>>

Drained(c) ==
  /\ Suspended(c, "drain")
  /\ worker[c] = "finished"
  /\ Finish(c, Interim(c))
  /\ UNCHANGED <<tool, worker, submitted, log, head, sentinel, latest,
                 closing, stalled>>

(* The task that closes an abandoned generator has its producer.           *)
Closed(c) ==
  /\ LoopFree
  /\ closing[c] /\ worker[c] = "finished"
  /\ closing' = [closing EXCEPT ![c] = FALSE]
  /\ UNCHANGED <<pc, tool, worker, submitted, log, head, sentinel, latest,
                 answer, stalled>>

-----------------------------------------------------------------------------
(***************************************************************************)
(* Cancellation of a call (the client cancels its request or goes away) at *)
(* each place its coroutine may be suspended.                              *)
(*   - at the queue, the generator's finally clause still awaits the       *)
(*     producer;                                                           *)
(*   - at that await, or at submit, the CancelledError reaches             *)
(*     _run_blocking, whose finally clause calls                           *)
(*     executor.shutdown(wait=True): the event loop itself waits for the   *)
(*     thread (a call that is unwinding already is cancelled again at that *)
(*     await, as cancel scopes do until their task is over);               *)
(*   - at report_progress, the generator is abandoned.                     *)
(***************************************************************************)
CancelAtQueue(c) ==
  /\ Suspended(c, "get")
  /\ pc' = [pc EXCEPT ![c] = "unwind"]
  /\ UNCHANGED <<tool, worker, submitted, log, head, sentinel, latest, answer,
                 closing, stalled>>

CancelAtThread(c) ==
  /\ LoopFree
  /\ \/ pc[c] \in {"submit", "drain"}
     \/ pc[c] = "unwind" /\ worker[c] # "finished"
  /\ pc' = [pc EXCEPT ![c] = "unwind"]
  /\ stalled' = c
  /\ UNCHANGED <<tool, worker, submitted, log, head, sentinel, latest, answer,
                 closing>>

CancelAtReport(c) ==
  /\ Suspended(c, "report")
  /\ Finish(c, "cancelled")
  /\ closing' = [closing EXCEPT ![c] = TRUE]
  /\ UNCHANGED <<tool, worker, submitted, log, head, sentinel, latest, stalled>>

(* executor.shutdown returns: the thread is over, the loop runs again.     *)
ShutdownReturns(c) ==
  /\ stalled = c
  /\ worker[c] = "finished"
  /\ stalled' = NoCall
  /\ UNCHANGED <<pc, tool, worker, submitted, log, head, sentinel, latest,
                 answer, closing>>

(* No thread is left to wait for: the CancelledError leaves the call.      *)
Unwound(c) ==
  /\ Suspended(c, "unwind")
  /\ worker[c] = "finished"
  /\ Finish(c, "cancelled")
  /\ UNCHANGED <<tool, worker, submitted, log, head, sentinel, latest,
                 closing, stalled>>

-----------------------------------------------------------------------------
Cancel(c) == CancelAtQueue(c) \/ CancelAtThread(c) \/ CancelAtReport(c)

Begin(c) ==
  \/ CallLocal(c)
  \/ CallOpStatus(c)
  \/ \E t \in Tool : CallOperation(c, t)

(* The steps a call takes of its own accord once it has begun.             *)
Coroutine(c) ==
  \/ \E isAdmin \in BOOLEAN : ResumeAfterSubmit(c, isAdmin)
  \/ GetSkipped(c) \/ GetBreaks(c) \/ StreamInterim(c) \/ StatusInterim(c)
  \/ GetTerminal(c) \/ GetSentinel(c)
  \/ Reported(c) \/ ReportRaises(c)
  \/ Drained(c) \/ Unwound(c) \/ ShutdownReturns(c)

Submit(c) == \E r \in {"accepted", "refused"} : SubmitReturns(c, r)

Pump(c) == \E e \in Event : PumpEvent(c, e)

Step(c) ==
  \/ Begin(c) \/ Coroutine(c) \/ Closed(c) \/ Cancel(c)
  \/ Submit(c) \/ Pump(c) \/ PumpEnds(c)

Next == \E c \in Call : Step(c)

Spec == Init /\ [][Next]_vars

(***************************************************************************)
(* Fairness.  The event loop runs every ready task, the operating system   *)
(* runs every thread, publishing one event to the loopback relay returns,  *)
(* and the relay iterator is finite (a terminal event or event_timeout).   *)
(* Nobody has to call, to cancel, or to publish an event.                  *)
(***************************************************************************)
LoopFairness == \A c \in Call : WF_vars(Coroutine(c)) /\ WF_vars(Closed(c))

ThreadFairness == \A c \in Call : WF_vars(Submit(c)) /\ WF_vars(PumpEnds(c))

FairSpec == Spec /\ LoopFairness /\ ThreadFairness

(* The same without the contract that the relay iterator ends.             *)
EndlessIteratorSpec == Spec /\ LoopFairness

-----------------------------------------------------------------------------
(***************************************************************************)
(* What a call answers is decided by the events its iterator yielded, in   *)
(* the order it yielded them, and by nothing else: not by when the threads *)
(* ran.  An outcome is the outcome of the first event that settles the     *)
(* call; "no result yet" is only said once the iterator is over, when no   *)
(* outcome was there to be read; and the phase op_status reports is the    *)
(* one the events read before show.                                        *)
(***************************************************************************)
AnsweredFromLog(c) ==
  /\ answer[c] \in Outcomes =>
       \E i \in 1..Len(log[c]) : /\ SettledAt(log[c], i)
                                 /\ Terminal(log[c][i])
                                 /\ answer[c] = Outcome(log[c][i], Polls(c))
  /\ answer[c] \in InterimAnswers =>
       /\ worker[c] = "finished"
       /\ \A i \in 1..Len(log[c]) : SettledAt(log[c], i) => Breaks(log[c][i])
  /\ answer[c] \in {"REQUESTED", "EXECUTING"} =>
       (answer[c] = "EXECUTING" <=> ShownExecuting(log[c]))

AnswerFollowsLog == \A c \in Call : AnsweredFromLog(c)

(***************************************************************************)
(* What one call has been answered, no other takes back: a call or a poll  *)
(* whose iterator yielded the same events, and perhaps more, gives the     *)
(* same outcome, and does not report an operation that showed execution as *)
(* one only requested; however they are scheduled.  A call and a poll only *)
(* disagree about a result whose ok counts as true and is not: op_status   *)
(* looks at its truth (server.py:251), the call at its identity            *)
(* (server.py:292,302).                                                    *)
(***************************************************************************)
FromStream(c) == answer[c] \in Outcomes \cup InterimAnswers

ReadsOn(c, d) ==
  /\ Len(log[c]) <= Len(log[d])
  /\ \A i \in 1..Len(log[c]) : log[d][i] = log[c][i]

TakenDifferently(c, d) ==
  /\ Polls(c) # Polls(d)
  /\ \E i \in 1..Len(log[c]) :
       SettledAt(log[c], i) /\ log[c][i].body = "truthy"

NoAnswerTakenBack ==
  \A c, d \in Call :
    FromStream(c) /\ FromStream(d) /\ ReadsOn(c, d) =>
      /\ answer[c] \in Outcomes =>
           answer[d] = answer[c]
             \/ (TakenDifferently(c, d) /\ answer[d] \in {"SUCCEEDED", "FAILED"})
      /\ answer[c] = "EXECUTING" => answer[d] # "REQUESTED"

-----------------------------------------------------------------------------
(***************************************************************************)
(* The inductive invariant behind TypeOK, AnswerFollowsLog and             *)
(* KeepsPromise: how far a call has read, and what it knows by then, at    *)
(* each place it may be suspended.                                         *)
(***************************************************************************)
ReadSoFar(c) == 1..head[c]

Unsettled(c) == \A i \in ReadSoFar(c) : ~Settles(log[c][i])

(* The thread, the queue and the sentinel: head is within the log, and the *)
(* sentinel goes in once, as the pump thread ends.                         *)
QueueInv(c) ==
  /\ head[c] \in 0..Len(log[c])
  /\ sentinel[c] => worker[c] = "finished"
  /\ worker[c] = "pumping" => pc[c] \notin {"idle", "submit"}
  /\ pc[c] \in {"get", "report", "drain"} => worker[c] = "pumping" \/ sentinel[c]

(* Nothing has been read before the stream starts.                         *)
FreshInv(c) ==
  pc[c] \in {"idle", "submit"} =>
    /\ log[c] = <<>> /\ ~sentinel[c] /\ latest[c] = "REQUESTED"
    /\ pc[c] = "idle" => worker[c] = "none"

(* While the stream is read nothing has settled the call; it is left with  *)
(* everything read, or at an event that could not be read.                 *)
ReadingInv(c) ==
  /\ pc[c] \in {"get", "report"} => Unsettled(c)
  /\ pc[c] = "drain" =>
       \/ sentinel[c] /\ head[c] = Len(log[c]) /\ Unsettled(c)
       \/ SettledAt(log[c], head[c]) /\ Breaks(log[c][head[c]])

(* op_status's phase is the one the events read so far show.               *)
LatestInv(c) ==
  tool[c] = "op_status" /\ pc[c] \in {"get", "drain"} =>
    (latest[c] = "EXECUTING"
       <=> \E i \in ReadSoFar(c) : ShowsExecution(log[c][i]))

AnsweredInv(c) ==
  /\ answer[c] = "none" <=> pc[c] # "done"
  /\ pc[c] = "report" => tool[c] # "op_status"

CallInv(c) ==
  QueueInv(c) /\ FreshInv(c) /\ ReadingInv(c) /\ LatestInv(c) /\ AnsweredInv(c)

IInv ==
  /\ TypeOK
  /\ \A c \in Call : CallInv(c)
  /\ AnswerFollowsLog

(* CallPromise is what the calls promise; the stream is over for the       *)
(* client when the thread has put the sentinel in.                         *)
Promise == INSTANCE CallPromise WITH over <- sentinel

(* The threads, the queue and the loop implement CallPromise.              *)
KeepsPromise == Promise!Spec

(***************************************************************************)
(* Nobody waits in vain: a coroutine, the task that closes a generator and *)
(* a stalled event loop each wait for something that is there already or   *)
(* for a thread that runs, which needs neither of them in order to end.    *)
(***************************************************************************)
ThreadRuns(c) == worker[c] \in {"submitting", "pumping"}

NobodyWaitsInVain ==
  \A c \in Call :
    /\ pc[c] = "submit" =>
         worker[c] = "submitting"
           \/ (worker[c] = "finished" /\ submitted[c] # "none")
    /\ pc[c] = "get" /\ head[c] = Len(log[c]) =>
         worker[c] = "pumping" \/ sentinel[c]
    /\ pc[c] \in {"drain", "unwind"} \/ closing[c] \/ stalled = c =>
         ThreadRuns(c) \/ worker[c] = "finished"
    /\ stalled = c => pc[c] = "unwind"

(***************************************************************************)
(* No thread is unattended: as long as it runs, its call waits for it or   *)
(* the task does that closes the generator the call has abandoned.         *)
(***************************************************************************)
NoThreadUnattended ==
  \A c \in Call :
    /\ worker[c] = "submitting" => pc[c] \in {"submit", "unwind"}
    /\ worker[c] = "pumping" =>
         pc[c] \in {"get", "report", "drain", "unwind"} \/ closing[c]

(***************************************************************************)
(* A call cannot go round in circles: every step, of its coroutine, of its *)
(* thread or of the client that cancels it, leaves it less to do, and the  *)
(* other calls no more than they had.  What is left counts the places to   *)
(* come, the events to be read, those to be yielded, and the waits of the  *)
(* thread, the closing task and executor.shutdown.                         *)
(***************************************************************************)
PlacesLeft == [idle |-> 9, submit |-> 7, report |-> 6, get |-> 5, drain |-> 4,
               unwind |-> 1, done |-> 0]

ThreadLeft(c) == IF ThreadRuns(c) THEN 1 ELSE 0

ClosingLeft(c) == IF closing[c] THEN 1 ELSE 0

ShutdownsLeft(c) ==
  IF stalled = c THEN 1 ELSE IF pc[c] = "unwind" /\ ThreadRuns(c) THEN 2 ELSE 0

WaitsLeft(c) ==
  PlacesLeft[pc[c]] + ThreadLeft(c) + ClosingLeft(c) + ShutdownsLeft(c)

EventsLeft(c) == 2 * (MaxEvents - head[c]) + (MaxEvents - Len(log[c]))

Left(c) == WaitsLeft(c) + EventsLeft(c)

Progress ==
  \E c \in Call : /\ Left(c)' \in 0..(Left(c) - 1)
                  /\ \A d \in Call \ {c} : Left(d)' = Left(d)

EveryStepIsProgress == [][Progress]_vars

(***************************************************************************)
(* A call that has begun ends (it is never idle again), whatever it and    *)
(* the others go through: events that cannot be read, cancellation at any  *)
(* point, a stalled loop.                                                  *)
(***************************************************************************)
EveryCallEnds == \A c \in Call : []<>(pc[c] \in {"idle", "done"})

(* Nothing outlives the calls: in the end no thread runs and no abandoned  *)
(* generator is still being closed.                                        *)
NothingLeftRunning ==
  <>[]\A c \in Call : worker[c] \in {"none", "finished"} /\ ~closing[c]

(* A stalled event loop runs again: the thread it waits for never needs    *)
(* the loop in order to end.                                               *)
LoopRecovers == []<>LoopFree

(***************************************************************************)
(* A call answers as soon as its outcome is queued ("reporting the         *)
(* rejection immediately", server.py:219-222): even if the relay iterator  *)
(* never ends.  Excepted are a call that is being cancelled, and a loop    *)
(* that a cancellation has stalled.                                        *)
(***************************************************************************)
OutcomeQueued(c) ==
  /\ pc[c] \in {"get", "report"}
  /\ \E i \in 1..Len(log[c]) : SettledAt(log[c], i) /\ Terminal(log[c][i])

AnswersWithoutDelay ==
  \A c \in Call :
    OutcomeQueued(c) ~> (pc[c] \in {"done", "unwind"} \/ ~LoopFree)
=============================================================================
