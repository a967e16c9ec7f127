-------------------------- MODULE ToolCallsProofs --------------------------
(***************************************************************************)
(* For any number of calls, any set of events, any length of stream and    *)
(* either value of ServerKeyKnown: the types of ToolCalls, its inductive   *)
(* invariant, AnswerFollowsLog, and that ToolCalls implements CallPromise. *)
(***************************************************************************)
EXTENDS ToolCalls, TLAPS

(* An outcome is one of the three; no event is more than one thing.        *)
LEMMA OutcomeType ==
  ASSUME NEW e, NEW polled PROVE Outcome(e, polled) \in Outcomes
  BY DEF Outcome, Outcomes

LEMMA EventClasses ==
  ASSUME NEW e
  PROVE  /\ Skipped(e) \/ Breaks(e) \/ Yielded(e)
         /\ Terminal(e) => Settles(e) /\ ~Breaks(e)
         /\ Breaks(e) => Settles(e)
         /\ Skipped(e) => ~Settles(e) /\ ~ShowsExecution(e)
         /\ ShowsExecution(e) => ~Settles(e)
  BY DEF Skipped, Breaks, Yielded, Terminal, Settles, ShowsExecution

-----------------------------------------------------------------------------
(* The types are kept by every step.                                       *)
LEMMA TypeInit == Init => TypeOK
  BY CallAssumption DEF Init, TypeOK, PC, Tool, Worker, Answers

LEMMA TypeNext == TypeOK /\ [Next]_vars => TypeOK'
<1> SUFFICES ASSUME TypeOK, [Next]_vars PROVE TypeOK'
  OBVIOUS
<1> USE DEF TypeOK, PC, Tool, Worker, Answers
<1>1. CASE UNCHANGED vars
  BY <1>1 DEF vars
<1>2. CASE Next
  <2>0. PICK c \in Call : Step(c)
    BY <1>2 DEF Next
  <2>1. CASE CallLocal(c)
    BY <2>1 DEF CallLocal, Finish
  <2>2. CASE CallOpStatus(c)
    BY <2>2 DEF CallOpStatus, StartStream
  <2>3. ASSUME NEW t \in Tool, CallOperation(c, t) PROVE TypeOK'
    BY <2>3 DEF CallOperation
  <2>4. ASSUME NEW isAdmin \in BOOLEAN, ResumeAfterSubmit(c, isAdmin)
        PROVE TypeOK'
    BY <2>4 DEF ResumeAfterSubmit, Finish, StartStream
  <2>5. ASSUME NEW r \in {"accepted", "refused"}, SubmitReturns(c, r)
        PROVE TypeOK'
    BY <2>5 DEF SubmitReturns
  <2>6. ASSUME NEW e \in Event, PumpEvent(c, e) PROVE TypeOK'
    BY <2>6 DEF PumpEvent
  <2>7. CASE PumpEnds(c)
    BY <2>7 DEF PumpEnds
  <2>8. CASE GetSkipped(c)
    BY <2>8 DEF GetSkipped, Gets
  <2>9. CASE GetBreaks(c)
    BY <2>9 DEF GetBreaks, Gets
  <2>10. CASE StreamInterim(c)
    BY <2>10 DEF StreamInterim, Gets, GetsInterim
  <2>11. CASE StatusInterim(c)
    BY <2>11 DEF StatusInterim, Gets, GetsInterim
  <2>12. CASE GetTerminal(c)
    BY <2>12, OutcomeType DEF GetTerminal, Finish, Gets
  <2>13. CASE GetSentinel(c)
    BY <2>13 DEF GetSentinel
  <2>14. CASE Reported(c)
    BY <2>14 DEF Reported
  <2>15. CASE ReportRaises(c)
    BY <2>15 DEF ReportRaises, Finish, CutAnswers
  <2>16. CASE Drained(c)
    BY <2>16 DEF Drained, Finish, Interim, InterimAnswers
  <2>17. CASE Closed(c)
    BY <2>17 DEF Closed
  <2>18. CASE CancelAtQueue(c)
    BY <2>18 DEF CancelAtQueue
  <2>19. CASE CancelAtThread(c)
    BY <2>19 DEF CancelAtThread
  <2>20. CASE CancelAtReport(c)
    BY <2>20 DEF CancelAtReport, Finish, CutAnswers
  <2>21. CASE ShutdownReturns(c)
    BY <2>21 DEF ShutdownReturns
  <2>22. CASE Unwound(c)
    BY <2>22 DEF Unwound, Finish, CutAnswers
  <2> QED
    BY <2>0, <2>1, <2>2, <2>3, <2>4, <2>5, <2>6, <2>7, <2>8, <2>9, <2>10,
       <2>11, <2>12, <2>13, <2>14, <2>15, <2>16, <2>17,
       <2>18, <2>19, <2>20, <2>21, <2>22
    DEF Step, Begin, Coroutine, Cancel, Submit, Pump
<1> QED
  BY <1>1, <1>2

(* Every variable has its type in every state.                             *)
THEOREM TypeCorrect == Spec => []TypeOK
  BY TypeInit, TypeNext, PTL DEF Spec
-----------------------------------------------------------------------------
(* What the invariant says of a call depends on the call's own state only. *)
Same(d) ==
  /\ pc'[d] = pc[d] /\ tool'[d] = tool[d] /\ worker'[d] = worker[d]
  /\ log'[d] = log[d] /\ head'[d] = head[d] /\ sentinel'[d] = sentinel[d]
  /\ latest'[d] = latest[d] /\ answer'[d] = answer[d]

LEMMA Frame ==
  ASSUME NEW d \in Call, CallInv(d), AnsweredFromLog(d), Same(d)
  PROVE  CallInv(d)' /\ AnsweredFromLog(d)'
  BY DEF Same, CallInv, QueueInv, FreshInv, ReadingInv, LatestInv, AnsweredInv,
         ReadSoFar, Unsettled, SettledAt, ShownExecuting, AnsweredFromLog,
         Polls

LEMMA OneCall ==
  ASSUME IInv, TypeOK', NEW c \in Call,
         \A d \in Call \ {c} : Same(d),
         CallInv(c)', AnsweredFromLog(c)'
  PROVE  IInv'
<1>1. \A d \in Call : CallInv(d)' /\ AnsweredFromLog(d)'
  BY Frame DEF IInv, AnswerFollowsLog
<1> QED
  BY <1>1 DEF IInv, AnswerFollowsLog

(* A log that grows keeps the event that settles the call.                 *)
LEMMA SettledStays ==
  ASSUME NEW s \in Seq(Event), NEW e \in Event, NEW i, SettledAt(s, i)
  PROVE  SettledAt(Append(s, e), i) /\ Append(s, e)[i] = s[i]
  BY DEF SettledAt

(* Before its answer, and with one that reports nothing read from the log, *)
(* a call has nothing to follow.                                           *)
LEMMA NothingToFollow ==
  ASSUME NEW c \in Call, answer'[c] \notin Outcomes \cup InterimAnswers
  PROVE  AnsweredFromLog(c)'
  BY DEF AnsweredFromLog, Polls, InterimAnswers

LEMMA InvInit == Init => IInv
<1> SUFFICES ASSUME Init PROVE IInv
  OBVIOUS
<1>1. TypeOK
  BY TypeInit
<1>2. ASSUME NEW c \in Call PROVE CallInv(c) /\ AnsweredFromLog(c)
  BY DEF Init, CallInv, QueueInv, FreshInv, ReadingInv, LatestInv, AnsweredInv,
         AnsweredFromLog, Polls, Outcomes, InterimAnswers
<1> QED
  BY <1>1, <1>2 DEF IInv, AnswerFollowsLog

LEMMA InvNext == IInv /\ [Next]_vars => IInv'
<1> SUFFICES ASSUME IInv, [Next]_vars PROVE IInv'
  OBVIOUS
<1>1. TypeOK /\ TypeOK'
  BY TypeNext DEF IInv
<1>2. CASE UNCHANGED vars
  <2>1. \A d \in Call : Same(d)
    BY <1>2 DEF vars, Same
  <2>2. \A d \in Call : CallInv(d)' /\ AnsweredFromLog(d)'
    BY <2>1, Frame DEF IInv, AnswerFollowsLog
  <2> QED
    BY <1>1, <2>2 DEF IInv, AnswerFollowsLog
<1>3. CASE Next
  <2>0. PICK c \in Call : Step(c)
    BY <1>3 DEF Next
  <2>a. CallInv(c) /\ AnsweredFromLog(c)
    BY DEF IInv, AnswerFollowsLog
  <2>1. CASE CallLocal(c)
    <3>1. \A d \in Call \ {c} : Same(d)
      BY <2>1 DEF Same, CallLocal, Finish
    <3>2. CallInv(c)'
      BY <1>1, <2>a, <2>1
         DEF TypeOK, CallInv, QueueInv, FreshInv, ReadingInv, LatestInv,
             AnsweredInv, CallLocal, Finish
    <3>3. AnsweredFromLog(c)'
      BY <1>1, <2>1, NothingToFollow
         DEF TypeOK, Outcomes, InterimAnswers, CallLocal, Finish
    <3> QED
      BY <1>1, <3>1, <3>2, <3>3, OneCall
  <2>2. CASE CallOpStatus(c)
    <3>1. \A d \in Call \ {c} : Same(d)
      BY <2>2 DEF Same, CallOpStatus, StartStream
    <3>2. CallInv(c)'
      BY <1>1, <2>a, <2>2
         DEF TypeOK, CallInv, QueueInv, FreshInv, ReadingInv, LatestInv,
             AnsweredInv, ReadSoFar, Unsettled, Suspended, CallOpStatus,
             StartStream
    <3>3. AnsweredFromLog(c)'
      BY <2>a, <2>2, NothingToFollow
         DEF Outcomes, InterimAnswers, CallInv, AnsweredInv, Suspended,
             CallOpStatus
    <3> QED
      BY <1>1, <3>1, <3>2, <3>3, OneCall
  <2>3. ASSUME NEW t \in Tool, CallOperation(c, t) PROVE IInv'
    <3>1. \A d \in Call \ {c} : Same(d)
      BY <1>1, <2>3 DEF Same, TypeOK, CallOperation
    <3>2. CallInv(c)'
      BY <1>1, <2>a, <2>3
         DEF TypeOK, CallInv, QueueInv, FreshInv, ReadingInv, LatestInv,
             AnsweredInv, Suspended, CallOperation
    <3>3. AnsweredFromLog(c)'
      BY <2>a, <2>3, NothingToFollow
         DEF Outcomes, InterimAnswers, CallInv, AnsweredInv, Suspended,
             CallOperation
    <3> QED
      BY <1>1, <3>1, <3>2, <3>3, OneCall
  <2>4. ASSUME NEW isAdmin \in BOOLEAN, ResumeAfterSubmit(c, isAdmin)
        PROVE IInv'
    <3>1. \A d \in Call \ {c} : Same(d)
      BY <1>1, <2>4 DEF Same, TypeOK, ResumeAfterSubmit, Finish, StartStream
    <3>2. CallInv(c)'
      BY <1>1, <2>a, <2>4
         DEF TypeOK, CallInv, QueueInv, FreshInv, ReadingInv, LatestInv,
             AnsweredInv, ReadSoFar, Unsettled, Suspended, ResumeAfterSubmit,
             Finish, StartStream
    <3>3. AnsweredFromLog(c)'
      BY <1>1, <2>a, <2>4, NothingToFollow
         DEF TypeOK, Outcomes, InterimAnswers, CallInv, AnsweredInv,
             ResumeAfterSubmit, Suspended, Finish, StartStream
    <3> QED
      BY <1>1, <3>1, <3>2, <3>3, OneCall
  <2>5. ASSUME NEW r \in {"accepted", "refused"}, SubmitReturns(c, r)
        PROVE IInv'
    <3>1. \A d \in Call \ {c} : Same(d)
      BY <1>1, <2>5 DEF Same, TypeOK, SubmitReturns
    <3>2. CallInv(c)'
      BY <2>a, <2>5
         DEF CallInv, QueueInv, FreshInv, ReadingInv, LatestInv, AnsweredInv,
             SubmitReturns
    <3>3. AnsweredFromLog(c)'
      BY <2>a, <2>5 DEF AnsweredFromLog, Polls, SubmitReturns
    <3> QED
      BY <1>1, <3>1, <3>2, <3>3, OneCall
  <2>6. ASSUME NEW e \in Event, PumpEvent(c, e) PROVE IInv'
    <3>1. \A d \in Call \ {c} : Same(d)
      BY <1>1, <2>6 DEF Same, TypeOK, PumpEvent
    <3>2. CallInv(c)'
      BY <2>a, <2>6
         DEF CallInv, QueueInv, FreshInv, ReadingInv, LatestInv, AnsweredInv,
             ReadSoFar, Unsettled, SettledAt, PumpEvent
    <3>3. AnsweredFromLog(c)'
      <4>1. /\ worker'[c] = "pumping" /\ answer'[c] = answer[c]
            /\ log'[c] = Append(log[c], e) /\ log[c] \in Seq(Event)
        BY <1>1, <2>6 DEF TypeOK, PumpEvent
      <4>2. answer[c] \notin InterimAnswers
        BY <2>a, <2>6 DEF PumpEvent, AnsweredFromLog, Polls
      <4>3. ASSUME answer[c] \in Outcomes
            PROVE  \E i \in 1..Len(log'[c]) :
                      /\ SettledAt(log'[c], i)
                      /\ Terminal(log'[c][i])
                      /\ answer'[c] = Outcome(log'[c][i], Polls(c)')
        <5>1. PICK i \in 1..Len(log[c]) :
                /\ SettledAt(log[c], i)
                /\ Terminal(log[c][i])
                /\ answer[c] = Outcome(log[c][i], Polls(c))
          BY <2>a, <4>3 DEF AnsweredFromLog, Polls
        <5>2. SettledAt(log'[c], i) /\ log'[c][i] = log[c][i]
          BY <4>1, <5>1, SettledStays
        <5>3. tool'[c] = tool[c]
          BY <2>6 DEF PumpEvent
        <5> QED
          BY <4>1, <5>1, <5>2, <5>3 DEF SettledAt, Polls
      <4>4. /\ answer'[c] \notin InterimAnswers
            /\ answer'[c] \notin {"REQUESTED", "EXECUTING"}
        BY <4>1, <4>2 DEF InterimAnswers
      <4> QED
        BY <4>1, <4>3, <4>4 DEF AnsweredFromLog
    <3> QED
      BY <1>1, <3>1, <3>2, <3>3, OneCall
  <2>7. CASE PumpEnds(c)
    <3>1. \A d \in Call \ {c} : Same(d)
      BY <1>1, <2>7 DEF Same, TypeOK, PumpEnds
    <3>2. CallInv(c)'
      BY <1>1, <2>a, <2>7
         DEF TypeOK, CallInv, QueueInv, FreshInv, ReadingInv, LatestInv,
             AnsweredInv, ReadSoFar, Unsettled, PumpEnds
    <3>3. AnsweredFromLog(c)'
      BY <2>a, <2>7 DEF AnsweredFromLog, Polls, PumpEnds
    <3> QED
      BY <1>1, <3>1, <3>2, <3>3, OneCall
  <2>8. CASE GetSkipped(c)
    <3>1. \A d \in Call \ {c} : Same(d)
      BY <2>8 DEF Same, GetSkipped, Gets
    <3>2. CallInv(c)'
      BY <2>a, <2>8, EventClasses
         DEF CallInv, QueueInv, FreshInv, ReadingInv, LatestInv, AnsweredInv,
             ReadSoFar, Unsettled, Suspended, GetSkipped, Gets, NextItem
    <3>3. AnsweredFromLog(c)'
      BY <2>a, <2>8, NothingToFollow
         DEF Outcomes, InterimAnswers, CallInv, AnsweredInv, Suspended,
             GetSkipped, Gets
    <3> QED
      BY <1>1, <3>1, <3>2, <3>3, OneCall
  <2>9. CASE GetBreaks(c)
    <3>1. \A d \in Call \ {c} : Same(d)
      BY <2>9 DEF Same, GetBreaks, Gets
    <3>2. CallInv(c)'
      BY <1>1, <2>a, <2>9, EventClasses
         DEF TypeOK, CallInv, QueueInv, FreshInv, ReadingInv, LatestInv,
             AnsweredInv, ReadSoFar, Unsettled, SettledAt, Suspended, GetBreaks,
             Gets, NextItem
    <3>3. AnsweredFromLog(c)'
      BY <2>a, <2>9, NothingToFollow
         DEF Outcomes, InterimAnswers, CallInv, AnsweredInv, Suspended,
             GetBreaks, Gets
    <3> QED
      BY <1>1, <3>1, <3>2, <3>3, OneCall
  <2>10. CASE StreamInterim(c)
    <3>1. \A d \in Call \ {c} : Same(d)
      BY <1>1, <2>10 DEF Same, TypeOK, StreamInterim, Gets, GetsInterim
    <3>2. CallInv(c)'
      <4> DEFINE item == NextItem(c)
      <4>1. /\ pc[c] = "get" /\ pc'[c] \in {"get", "report"}
            /\ tool[c] # "op_status" /\ tool'[c] = tool[c]
        BY <1>1, <2>10 DEF TypeOK, StreamInterim, GetsInterim, Gets, Suspended
      <4>2. /\ head[c] \in 0..(Len(log[c]) - 1) /\ head'[c] = head[c] + 1
            /\ log[c] \in Seq(Event) /\ Len(log[c]) \in Nat /\ head[c] \in Nat
            /\ item = log[c][head'[c]]
        BY <1>1, <2>10 DEF TypeOK, StreamInterim, GetsInterim, Gets, NextItem
      <4>3. ~Settles(item)
        BY <2>10 DEF StreamInterim, GetsInterim, Yielded, Breaks, Settles
      <4>4. /\ worker'[c] = worker[c] /\ log'[c] = log[c]
            /\ sentinel'[c] = sentinel[c] /\ answer'[c] = answer[c]
        BY <2>10 DEF StreamInterim, GetsInterim, Gets
      <4>5. QueueInv(c)' /\ FreshInv(c)' /\ AnsweredInv(c)'
        BY <2>a, <4>1, <4>2, <4>4 DEF CallInv, QueueInv, FreshInv, AnsweredInv
      <4>6. ReadingInv(c)'
        BY <2>a, <4>1, <4>2, <4>3, <4>4
           DEF CallInv, ReadingInv, Unsettled, ReadSoFar
      <4>7. LatestInv(c)'
        BY <4>1 DEF LatestInv
      <4> QED
        BY <4>5, <4>6, <4>7 DEF CallInv
    <3>3. AnsweredFromLog(c)'
      BY <2>a, <2>10, NothingToFollow
         DEF Outcomes, InterimAnswers, CallInv, AnsweredInv, Suspended,
             StreamInterim, GetsInterim, Gets
    <3> QED
      BY <1>1, <3>1, <3>2, <3>3, OneCall
  <2>11. CASE StatusInterim(c)
    <3>1. \A d \in Call \ {c} : Same(d)
      BY <2>11 DEF Same, StatusInterim, Gets, GetsInterim
    <3>2. CallInv(c)'
      <4> DEFINE item == NextItem(c)
      <4>1. /\ pc[c] = "get" /\ pc'[c] = "get"
            /\ tool[c] = "op_status" /\ tool'[c] = tool[c]
        BY <2>11 DEF StatusInterim, GetsInterim, Gets, Suspended
      <4>2. /\ head[c] \in 0..(Len(log[c]) - 1) /\ head'[c] = head[c] + 1
            /\ log[c] \in Seq(Event) /\ Len(log[c]) \in Nat /\ head[c] \in Nat
            /\ item = log[c][head'[c]]
        BY <1>1, <2>11 DEF TypeOK, StatusInterim, GetsInterim, Gets, NextItem
      <4>3. ~Settles(item)
        BY <2>11 DEF StatusInterim, GetsInterim, Yielded, Breaks, Settles
      <4>4. /\ worker'[c] = worker[c] /\ log'[c] = log[c]
            /\ sentinel'[c] = sentinel[c] /\ answer'[c] = answer[c]
        BY <2>11 DEF StatusInterim, GetsInterim, Gets
      <4>5. QueueInv(c)' /\ FreshInv(c)' /\ AnsweredInv(c)'
        BY <2>a, <4>1, <4>2, <4>4 DEF CallInv, QueueInv, FreshInv, AnsweredInv
      <4>6. ReadingInv(c)'
        BY <2>a, <4>1, <4>2, <4>3, <4>4
           DEF CallInv, ReadingInv, Unsettled, ReadSoFar
      <4>7. LatestInv(c)'
        <5>1. latest'[c] = IF ShowsExecution(item) THEN "EXECUTING"
                                                   ELSE latest[c]
          BY <1>1, <2>11 DEF TypeOK, StatusInterim
        <5>2. latest[c] = "EXECUTING"
                <=> \E i \in 1..head[c] : ShowsExecution(log[c][i])
          BY <2>a, <4>1 DEF CallInv, LatestInv, ReadSoFar
        <5>3. (\E i \in 1..head'[c] : ShowsExecution(log[c][i]))
                <=> \/ \E i \in 1..head[c] : ShowsExecution(log[c][i])
                    \/ ShowsExecution(item)
          <6>1. \A i : i \in 1..head'[c] <=> i \in 1..head[c] \/ i = head'[c]
            BY <4>2
          <6>2. item = log[c][head'[c]]
            BY <4>2
          <6> QED
            BY <6>1, <6>2
        <5> QED
          BY <4>4, <5>1, <5>2, <5>3 DEF LatestInv, ReadSoFar
      <4> QED
        BY <4>5, <4>6, <4>7 DEF CallInv
    <3>3. AnsweredFromLog(c)'
      BY <2>a, <2>11, NothingToFollow
         DEF Outcomes, InterimAnswers, CallInv, AnsweredInv, Suspended,
             StatusInterim, GetsInterim, Gets
    <3> QED
      BY <1>1, <3>1, <3>2, <3>3, OneCall
  <2>12. CASE GetTerminal(c)
    <3>1. \A d \in Call \ {c} : Same(d)
      BY <2>12 DEF Same, GetTerminal, Finish, Gets
    <3>2. CallInv(c)'
      <4>1. /\ pc'[c] = "done"
            /\ answer'[c] = Outcome(log[c][head[c] + 1], Polls(c))
            /\ head[c] \in 0..(Len(log[c]) - 1) /\ head'[c] = head[c] + 1
            /\ tool'[c] = tool[c] /\ worker'[c] = worker[c] /\ log'[c] = log[c]
            /\ sentinel'[c] = sentinel[c] /\ Len(log[c]) \in Nat
            /\ Terminal(log[c][head[c] + 1]) /\ Unsettled(c)
        BY <1>1, <2>a, <2>12
           DEF TypeOK, GetTerminal, Finish, Gets, NextItem, Suspended, CallInv,
               ReadingInv
      <4>2. answer'[c] \in Outcomes
        BY <4>1, OutcomeType
      <4> QED
        BY <2>a, <4>1, <4>2
           DEF CallInv, QueueInv, FreshInv, ReadingInv, LatestInv, AnsweredInv,
               Outcomes
    <3>3. AnsweredFromLog(c)'
      <4>1. /\ pc'[c] = "done"
            /\ answer'[c] = Outcome(log[c][head[c] + 1], Polls(c))
            /\ head[c] \in 0..(Len(log[c]) - 1) /\ head'[c] = head[c] + 1
            /\ tool'[c] = tool[c] /\ worker'[c] = worker[c] /\ log'[c] = log[c]
            /\ sentinel'[c] = sentinel[c] /\ Len(log[c]) \in Nat
            /\ Terminal(log[c][head[c] + 1]) /\ Unsettled(c)
        BY <1>1, <2>a, <2>12
           DEF TypeOK, GetTerminal, Finish, Gets, NextItem, Suspended, CallInv,
               ReadingInv
      <4>2. answer'[c] \in Outcomes
        BY <4>1, OutcomeType
      <4>3. SettledAt(log[c], head[c] + 1)
        BY <4>1, EventClasses DEF SettledAt, Unsettled, ReadSoFar
      <4> QED
        BY <4>1, <4>2, <4>3 DEF AnsweredFromLog, Polls, Outcomes, InterimAnswers
    <3> QED
      BY <1>1, <3>1, <3>2, <3>3, OneCall
  <2>13. CASE GetSentinel(c)
    <3>1. \A d \in Call \ {c} : Same(d)
      BY <1>1, <2>13 DEF Same, TypeOK, GetSentinel
    <3>2. CallInv(c)'
      BY <2>a, <2>13
         DEF CallInv, QueueInv, FreshInv, ReadingInv, LatestInv, AnsweredInv,
             ReadSoFar, Unsettled, Suspended, GetSentinel
    <3>3. AnsweredFromLog(c)'
      BY <2>a, <2>13, NothingToFollow
         DEF Outcomes, InterimAnswers, CallInv, AnsweredInv, Suspended,
             GetSentinel
    <3> QED
      BY <1>1, <3>1, <3>2, <3>3, OneCall
  <2>14. CASE Reported(c)
    <3>1. \A d \in Call \ {c} : Same(d)
      BY <1>1, <2>14 DEF Same, TypeOK, Reported
    <3>2. CallInv(c)'
      BY <2>a, <2>14
         DEF CallInv, QueueInv, FreshInv, ReadingInv, LatestInv, AnsweredInv,
             ReadSoFar, Unsettled, Suspended, Reported
    <3>3. AnsweredFromLog(c)'
      BY <2>a, <2>14, NothingToFollow
         DEF Outcomes, InterimAnswers, CallInv, AnsweredInv, Suspended, Reported
    <3> QED
      BY <1>1, <3>1, <3>2, <3>3, OneCall
  <2>15. CASE ReportRaises(c)
    <3>1. \A d \in Call \ {c} : Same(d)
      BY <2>15 DEF Same, ReportRaises, Finish
    <3>2. CallInv(c)'
      BY <1>1, <2>a, <2>15
         DEF TypeOK, CallInv, QueueInv, FreshInv, ReadingInv, LatestInv,
             AnsweredInv, ReportRaises, Finish
    <3>3. AnsweredFromLog(c)'
      BY <1>1, <2>15, NothingToFollow
         DEF TypeOK, Outcomes, InterimAnswers, ReportRaises, Finish
    <3> QED
      BY <1>1, <3>1, <3>2, <3>3, OneCall
  <2>16. CASE Drained(c)
    <3>1. \A d \in Call \ {c} : Same(d)
      BY <2>16 DEF Same, Drained, Finish
    <3>2. CallInv(c)'
      BY <1>1, <2>a, <2>16
         DEF TypeOK, CallInv, QueueInv, FreshInv, ReadingInv, LatestInv,
             AnsweredInv, Suspended, Drained, Interim, Finish
    <3>3. AnsweredFromLog(c)'
      <4>1. /\ pc[c] = "drain" /\ worker'[c] = "finished" /\ log'[c] = log[c]
            /\ answer'[c] = IF tool[c] = "op_status" THEN latest[c] ELSE "PENDING"
            /\ latest[c] \in {"REQUESTED", "EXECUTING"}
            /\ head[c] \in Nat /\ Len(log[c]) \in Nat
        BY <1>1, <2>16 DEF TypeOK, Drained, Interim, Finish, Suspended
      <4>2. \/ sentinel[c] /\ head[c] = Len(log[c]) /\ Unsettled(c)
            \/ SettledAt(log[c], head[c]) /\ Breaks(log[c][head[c]])
        BY <2>a, <4>1 DEF CallInv, ReadingInv
      <4>3. ASSUME NEW i \in 1..Len(log[c]), SettledAt(log[c], i)
            PROVE  Breaks(log[c][i])
        BY <4>2, <4>3 DEF SettledAt, Unsettled, ReadSoFar
      <4>4. (\E i \in 1..head[c] : ShowsExecution(log[c][i]))
              <=> ShownExecuting(log[c])
        <5>1. CASE head[c] = Len(log[c]) /\ Unsettled(c)
          BY <4>1, <5>1 DEF ShownExecuting, Unsettled, ReadSoFar
        <5>2. CASE SettledAt(log[c], head[c]) /\ Breaks(log[c][head[c]])
          <6>1. ~ShowsExecution(log[c][head[c]]) /\ Settles(log[c][head[c]])
            BY <5>2, EventClasses
          <6> QED
            BY <4>1, <5>2, <6>1 DEF ShownExecuting, SettledAt
        <5> QED
          BY <4>2, <5>1, <5>2
      <4>5. tool[c] = "op_status" =>
              (latest[c] = "EXECUTING" <=> ShownExecuting(log[c]))
        BY <2>a, <4>1, <4>4 DEF CallInv, LatestInv, ReadSoFar
      <4> QED
        BY <4>1, <4>3, <4>5 DEF AnsweredFromLog, Polls, Outcomes
    <3> QED
      BY <1>1, <3>1, <3>2, <3>3, OneCall
  <2>17. CASE Closed(c)
    <3>1. \A d \in Call \ {c} : Same(d)
      BY <1>1, <2>17 DEF Same, TypeOK, Closed
    <3>2. CallInv(c)'
      BY <2>a, <2>17
         DEF CallInv, QueueInv, FreshInv, ReadingInv, LatestInv, AnsweredInv,
             ReadSoFar, Unsettled, Closed
    <3>3. AnsweredFromLog(c)'
      BY <2>a, <2>17 DEF AnsweredFromLog, Polls, Closed
    <3> QED
      BY <1>1, <3>1, <3>2, <3>3, OneCall
  <2>18. CASE CancelAtQueue(c)
    <3>1. \A d \in Call \ {c} : Same(d)
      BY <1>1, <2>18 DEF Same, TypeOK, CancelAtQueue
    <3>2. CallInv(c)'
      BY <1>1, <2>a, <2>18
         DEF TypeOK, CallInv, QueueInv, FreshInv, ReadingInv, LatestInv,
             AnsweredInv, Suspended, CancelAtQueue
    <3>3. AnsweredFromLog(c)'
      BY <2>a, <2>18, NothingToFollow
         DEF Outcomes, InterimAnswers, CallInv, AnsweredInv, Suspended,
             CancelAtQueue
    <3> QED
      BY <1>1, <3>1, <3>2, <3>3, OneCall
  <2>19. CASE CancelAtThread(c)
    <3>1. \A d \in Call \ {c} : Same(d)
      BY <1>1, <2>19 DEF Same, TypeOK, CancelAtThread
    <3>2. CallInv(c)'
      BY <1>1, <2>a, <2>19
         DEF TypeOK, CallInv, QueueInv, FreshInv, ReadingInv, LatestInv,
             AnsweredInv, CancelAtThread
    <3>3. AnsweredFromLog(c)'
      BY <2>a, <2>19, NothingToFollow
         DEF Outcomes, InterimAnswers, CallInv, AnsweredInv, CancelAtThread
    <3> QED
      BY <1>1, <3>1, <3>2, <3>3, OneCall
  <2>20. CASE CancelAtReport(c)
    <3>1. \A d \in Call \ {c} : Same(d)
      BY <2>20 DEF Same, CancelAtReport, Finish
    <3>2. CallInv(c)'
      BY <1>1, <2>a, <2>20
         DEF TypeOK, CallInv, QueueInv, FreshInv, ReadingInv, LatestInv,
             AnsweredInv, CancelAtReport, Finish
    <3>3. AnsweredFromLog(c)'
      BY <1>1, <2>20, NothingToFollow
         DEF TypeOK, Outcomes, InterimAnswers, CancelAtReport, Finish
    <3> QED
      BY <1>1, <3>1, <3>2, <3>3, OneCall
  <2>21. CASE ShutdownReturns(c)
    <3>1. \A d \in Call \ {c} : Same(d)
      BY <1>1, <2>21 DEF Same, TypeOK, ShutdownReturns
    <3>2. CallInv(c)'
      BY <2>a, <2>21
         DEF CallInv, QueueInv, FreshInv, ReadingInv, LatestInv, AnsweredInv,
             ReadSoFar, Unsettled, ShutdownReturns
    <3>3. AnsweredFromLog(c)'
      BY <2>a, <2>21 DEF AnsweredFromLog, Polls, ShutdownReturns
    <3> QED
      BY <1>1, <3>1, <3>2, <3>3, OneCall
  <2>22. CASE Unwound(c)
    <3>1. \A d \in Call \ {c} : Same(d)
      BY <2>22 DEF Same, Unwound, Finish
    <3>2. CallInv(c)'
      BY <1>1, <2>a, <2>22
         DEF TypeOK, CallInv, QueueInv, FreshInv, ReadingInv, LatestInv,
             AnsweredInv, Unwound, Finish
    <3>3. AnsweredFromLog(c)'
      BY <1>1, <2>22, NothingToFollow
         DEF TypeOK, Outcomes, InterimAnswers, Unwound, Finish
    <3> QED
      BY <1>1, <3>1, <3>2, <3>3, OneCall
  <2> QED
    BY <2>0, <2>1, <2>2, <2>3, <2>4, <2>5, <2>6, <2>7, <2>8, <2>9, <2>10, 
       <2>11, <2>12, <2>13, <2>14, <2>15, <2>16, <2>17,
       <2>18, <2>19, <2>20, <2>21, <2>22
    DEF Step, Begin, Coroutine, Cancel, Submit, Pump
<1> QED
  BY <1>2, <1>3

(* How far each call has read its log, and what it has made of what it     *)
(* read (server.py:176-255), in every interleaving.                        *)
THEOREM Invariance == Spec => []IInv
  BY InvInit, InvNext, PTL DEF Spec

(* What every call answers is decided by the log of its events, whatever   *)
(* the interleaving of the event loop, the threads and the cancellations.  *)
THEOREM AnswersFollowLogs == Spec => []AnswerFollowsLog
<1>1. IInv => AnswerFollowsLog
  BY DEF IInv
<1> QED
  BY Invariance, <1>1, PTL

(* A log has one first event that settles the call.                        *)
LEMMA FirstSettles ==
  ASSUME NEW events \in Seq(Event), NEW i, NEW k,
         SettledAt(events, i), SettledAt(events, k)
  PROVE  i = k
<1>1. i \in 1..Len(events) /\ k \in 1..Len(events) /\ Len(events) \in Nat
  BY DEF SettledAt
<1>2. ~(i < k) /\ ~(k < i)
  BY <1>1 DEF SettledAt
<1> QED
  BY <1>1, <1>2

(* What settles a log, and what it shows, stays so in a longer one.        *)
LEMMA LongerLogs ==
  ASSUME TypeOK, NEW c \in Call, NEW d \in Call, ReadsOn(c, d)
  PROVE  /\ \A i \in 1..Len(log[c]) :
              SettledAt(log[c], i) => SettledAt(log[d], i)
         /\ ShownExecuting(log[c]) => ShownExecuting(log[d])
<1>1. Len(log[c]) \in Nat /\ Len(log[d]) \in Nat
  BY DEF TypeOK
<1>2. \A i \in 1..Len(log[c]) : i \in 1..Len(log[d]) /\ log[d][i] = log[c][i]
  BY <1>1 DEF ReadsOn
<1>3. \A i \in 1..Len(log[c]) : \A j \in 1..(i - 1) : j \in 1..Len(log[c])
  BY <1>1
<1> QED
  BY <1>2, <1>3 DEF SettledAt, ShownExecuting

LEMMA AnswersDecided == IInv => NoAnswerTakenBack
<1> DEFINE Agree(c, d) ==
             answer[d] = answer[c]
               \/ (TakenDifferently(c, d) /\ answer[d] \in {"SUCCEEDED", "FAILED"})
<1> SUFFICES ASSUME IInv, NEW c \in Call, NEW d \in Call,
                    FromStream(c), FromStream(d), ReadsOn(c, d)
             PROVE  /\ answer[c] \in Outcomes => Agree(c, d)
                    /\ answer[c] = "EXECUTING" => answer[d] # "REQUESTED"
  BY DEF NoAnswerTakenBack
<1>1. TypeOK /\ AnsweredFromLog(c) /\ AnsweredFromLog(d)
  BY DEF IInv, AnswerFollowsLog
<1>2. ASSUME answer[c] \in Outcomes
      PROVE  Agree(c, d)
  <2>1. PICK i \in 1..Len(log[c]) :
          /\ SettledAt(log[c], i)
          /\ Terminal(log[c][i])
          /\ answer[c] = Outcome(log[c][i], Polls(c))
    BY <1>1, <1>2 DEF AnsweredFromLog, Polls
  <2>2. SettledAt(log[d], i) /\ log[d][i] = log[c][i]
    BY <1>1, <2>1, LongerLogs DEF ReadsOn
  <2>3. i \in 1..Len(log[d]) /\ ~Breaks(log[d][i])
    BY <2>1, <2>2 DEF SettledAt, Terminal, Yielded, Breaks
  <2>4. answer[d] \in Outcomes
    BY <1>1, <2>2, <2>3 DEF FromStream, AnsweredFromLog, Polls
  <2>5. PICK k \in 1..Len(log[d]) :
          /\ SettledAt(log[d], k)
          /\ answer[d] = Outcome(log[d][k], Polls(d))
    BY <1>1, <2>4 DEF AnsweredFromLog, Polls
  <2>6. log[d] \in Seq(Event)
    BY <1>1 DEF TypeOK
  <2>7. i = k
    BY <2>2, <2>5, <2>6, FirstSettles
  <2>8. /\ answer[c] = Outcome(log[c][i], Polls(c))
        /\ answer[d] = Outcome(log[c][i], Polls(d))
    BY <2>1, <2>2, <2>5, <2>7
  <2>9. CASE Polls(c) = Polls(d) \/ log[c][i].kind = "rejection"
    BY <2>8, <2>9 DEF Outcome
  <2>10. CASE Polls(c) # Polls(d) /\ log[c][i].kind # "rejection"
    <3>1. answer[d] \in {"SUCCEEDED", "FAILED"}
      BY <2>8, <2>10 DEF Outcome
    <3>2. log[c][i].body = "truthy" \/ answer[d] = answer[c]
      BY <2>8, <2>10 DEF Outcome, Success, Polls
    <3> QED
      BY <2>1, <2>10, <3>1, <3>2 DEF TakenDifferently
  <2> QED
    BY <2>9, <2>10
<1>3. answer[c] = "EXECUTING" => answer[d] # "REQUESTED"
  BY <1>1, LongerLogs DEF AnsweredFromLog, Polls
<1> QED
  BY <1>2, <1>3

(* A call and a poll that saw the same events, one of them perhaps more,   *)
(* do not contradict each other (server.py:205-255).                       *)
THEOREM AnswersStand == Spec => []NoAnswerTakenBack
<1>1. IInv => NoAnswerTakenBack
  BY AnswersDecided
<1> QED
  BY Invariance, <1>1, PTL

-----------------------------------------------------------------------------
(* ToolCalls implements CallPromise: a step of the pump thread delivers or *)
(* ends, a step that answers answers as the promise allows, every other    *)
(* step leaves log, sentinel and answer alone.                             *)
LEMMA PromiseInit == Init => Promise!Init
  BY DEF Init, Promise!Init

(* Promise! names its own copies of the definitions of ChainEvents.        *)
LEMMA SameReading ==
  /\ \A e : /\ Promise!Terminal(e) <=> Terminal(e)
            /\ Promise!Breaks(e) <=> Breaks(e)
            /\ \A polled : Promise!Outcome(e, polled) = Outcome(e, polled)
            /\ Promise!Settles(e) <=> Settles(e)
            /\ Promise!ShowsExecution(e) <=> ShowsExecution(e)
  /\ \A s, i : Promise!SettledAt(s, i) <=> SettledAt(s, i)
  /\ \A s : Promise!ShownExecuting(s) <=> ShownExecuting(s)
<1>1. ASSUME NEW e
      PROVE  /\ Promise!Terminal(e) <=> Terminal(e)
             /\ Promise!Breaks(e) <=> Breaks(e)
             /\ \A polled : Promise!Outcome(e, polled) = Outcome(e, polled)
             /\ Promise!Settles(e) <=> Settles(e)
             /\ Promise!ShowsExecution(e) <=> ShowsExecution(e)
  BY DEF Promise!Terminal, Promise!Breaks, Promise!Outcome, Promise!Success,
         Success, Promise!Settles, Promise!ShowsExecution,
         Promise!Yielded, Promise!Skipped,
         Promise!ReadingRaises, Promise!VerifyResultEvent,
         Terminal, Breaks, Outcome, Settles, ShowsExecution, Yielded, Skipped,
         ReadingRaises, VerifyResultEvent
<1> QED
  BY <1>1 DEF Promise!SettledAt, Promise!ShownExecuting, SettledAt,
              ShownExecuting

LEMMA PromiseNext == IInv /\ [Next]_vars => [Promise!Next]_(Promise!vars)
<1> SUFFICES ASSUME IInv, [Next]_vars PROVE [Promise!Next]_(Promise!vars)
  OBVIOUS
<1>1. TypeOK
  BY DEF IInv
<1>2. CASE UNCHANGED vars
  BY <1>2 DEF vars, Promise!vars
<1>3. CASE Next
  <2>0. PICK c \in Call : Step(c)
    BY <1>3 DEF Next
  <2>a. CallInv(c) /\ AnsweredFromLog(c)
    BY DEF IInv, AnswerFollowsLog
  <2>1. CASE CallLocal(c)
    <3>1. Promise!AnswerEarly(c)
      BY <2>1, <2>a
         DEF Promise!AnswerEarly, Promise!Answer, CallLocal, Finish, Suspended,
             CallInv, AnsweredInv, FreshInv
    <3> QED
      BY <3>1 DEF Promise!Next
  <2>2. CASE CallOpStatus(c)
    BY <2>2 DEF Promise!vars, CallOpStatus, StartStream
  <2>3. ASSUME NEW t \in Tool, CallOperation(c, t)
        PROVE  [Promise!Next]_(Promise!vars)
    BY <2>3 DEF Promise!vars, CallOperation
  <2>4. ASSUME NEW isAdmin \in BOOLEAN, ResumeAfterSubmit(c, isAdmin)
        PROVE  [Promise!Next]_(Promise!vars)
    <3>1. CASE Finish(c, "tool_error") \/ Finish(c, "approval_required")
      <4>1. Promise!AnswerEarly(c)
        BY <2>4, <2>a, <3>1
           DEF Promise!AnswerEarly, Promise!Answer, ResumeAfterSubmit, Finish,
               Suspended,
               CallInv, AnsweredInv, FreshInv
      <4> QED
        BY <4>1 DEF Promise!Next
    <3>2. CASE UNCHANGED answer
      BY <2>4, <3>2 DEF Promise!vars, ResumeAfterSubmit
    <3> QED
      BY <2>4, <3>1, <3>2 DEF ResumeAfterSubmit
  <2>5. ASSUME NEW r \in {"accepted", "refused"}, SubmitReturns(c, r)
        PROVE  [Promise!Next]_(Promise!vars)
    BY <2>5 DEF Promise!vars, SubmitReturns
  <2>6. ASSUME NEW e \in Event, PumpEvent(c, e)
        PROVE  [Promise!Next]_(Promise!vars)
    <3>1. Promise!Deliver(c, e)
      BY <2>6, <2>a DEF Promise!Deliver, PumpEvent, CallInv, QueueInv
    <3> QED
      BY <3>1 DEF Promise!Next
  <2>7. CASE PumpEnds(c)
    <3>1. Promise!End(c)
      BY <2>7 DEF Promise!End, PumpEnds
    <3> QED
      BY <3>1 DEF Promise!Next
  <2>8. CASE GetSkipped(c)
    BY <2>8 DEF Promise!vars, GetSkipped, Gets
  <2>9. CASE GetBreaks(c)
    BY <2>9 DEF Promise!vars, GetBreaks, Gets
  <2>10. CASE StreamInterim(c)
    BY <2>10 DEF Promise!vars, StreamInterim, Gets, GetsInterim
  <2>11. CASE StatusInterim(c)
    BY <2>11 DEF Promise!vars, StatusInterim, Gets, GetsInterim
  <2>12. CASE GetTerminal(c)
    <3>1. /\ pc[c] = "get" /\ head[c] + 1 \in 1..Len(log[c])
          /\ Terminal(log[c][head[c] + 1]) /\ Unsettled(c)
          /\ answer' =
               [answer EXCEPT ![c] = Outcome(log[c][head[c] + 1], Polls(c))]
          /\ UNCHANGED <<log, sentinel>> /\ Len(log[c]) \in Nat /\ head[c] \in Nat
      BY <1>1, <2>a, <2>12
         DEF TypeOK, GetTerminal, Finish, Gets, NextItem, Suspended, CallInv,
             ReadingInv
    <3>2. SettledAt(log[c], head[c] + 1)
      BY <3>1, EventClasses DEF SettledAt, Unsettled, ReadSoFar
    <3>3. answer[c] = "none"
      BY <2>a, <3>1 DEF CallInv, AnsweredInv
    <3> DEFINE a == Outcome(log[c][head[c] + 1], Polls(c))
    <3>4. /\ Promise!SaysOutcome(Polls(c), c, a)
          /\ Promise!Answer(c, a)
          /\ a \in Promise!Outcomes /\ Polls(c) \in BOOLEAN
      BY <3>1, <3>2, <3>3, SameReading
         DEF Promise!SaysOutcome, Promise!Answer, SettledAt, Outcome,
             Promise!Outcomes, Polls
    <3>5. Promise!AnswerOutcome(c)
      BY ONLY <3>4 DEF Promise!AnswerOutcome
    <3> QED
      BY <3>5 DEF Promise!Next
  <2>13. CASE GetSentinel(c)
    BY <2>13 DEF Promise!vars, GetSentinel
  <2>14. CASE Reported(c)
    BY <2>14 DEF Promise!vars, Reported
  <2>15. CASE ReportRaises(c)
    <3>1. Promise!Cut(c)
      BY <2>15, <2>a
         DEF Promise!Cut, Promise!Answer, ReportRaises, Finish, Suspended,
             CallInv, AnsweredInv
    <3> QED
      BY <3>1 DEF Promise!Next
  <2>16. CASE Drained(c)
    <3>1. /\ pc[c] = "drain" /\ worker[c] = "finished"
          /\ answer' = [answer EXCEPT ![c] = answer'[c]]
          /\ answer'[c] = IF tool[c] = "op_status" THEN latest[c] ELSE "PENDING"
          /\ latest[c] \in {"REQUESTED", "EXECUTING"}
          /\ UNCHANGED <<log, sentinel, worker>>
      BY <1>1, <2>16 DEF TypeOK, Drained, Interim, Finish, Suspended
    <3>2. answer[c] = "none" /\ sentinel[c]
      BY <2>a, <3>1 DEF CallInv, AnsweredInv, QueueInv
    <3>3. AnsweredFromLog(c)'
      BY InvNext DEF IInv, AnswerFollowsLog
    <3>4. /\ \A j \in 1..Len(log[c]) : SettledAt(log[c], j) => Breaks(log[c][j])
          /\ answer'[c] \in {"REQUESTED", "EXECUTING"} =>
               (answer'[c] = "EXECUTING" <=> ShownExecuting(log[c]))
      BY <3>1, <3>3
         DEF AnsweredFromLog, Polls, InterimAnswers, SettledAt, ShownExecuting
    <3>5. \/ answer'[c] = "PENDING"
          \/ answer'[c] = IF ShownExecuting(log[c]) THEN "EXECUTING" ELSE "REQUESTED"
      BY <3>1, <3>4
    <3>6. Promise!SaysInterim(c, answer'[c]) /\ Promise!Answer(c, answer'[c])
      BY <3>1, <3>2, <3>4, <3>5, SameReading
         DEF Promise!SaysInterim, Promise!Answer
    <3>7. answer'[c] \in {"PENDING", "EXECUTING", "REQUESTED"}
      BY <3>5
    <3>8. Promise!AnswerInterim(c)
      BY <3>6, <3>7 DEF Promise!AnswerInterim
    <3> QED
      BY <3>8 DEF Promise!Next
  <2>17. CASE Closed(c)
    BY <2>17 DEF Promise!vars, Closed
  <2>18. CASE CancelAtQueue(c)
    BY <2>18 DEF Promise!vars, CancelAtQueue
  <2>19. CASE CancelAtThread(c)
    BY <2>19 DEF Promise!vars, CancelAtThread
  <2>20. CASE CancelAtReport(c)
    <3>1. Promise!Cut(c)
      BY <2>20, <2>a
         DEF Promise!Cut, Promise!Answer, CancelAtReport, Finish, Suspended,
             CallInv, AnsweredInv
    <3> QED
      BY <3>1 DEF Promise!Next
  <2>21. CASE ShutdownReturns(c)
    BY <2>21 DEF Promise!vars, ShutdownReturns
  <2>22. CASE Unwound(c)
    <3>1. Promise!Cut(c)
      BY <2>22, <2>a
         DEF Promise!Cut, Promise!Answer, Unwound, Finish, Suspended, CallInv,
             AnsweredInv
    <3> QED
      BY <3>1 DEF Promise!Next
  <2> QED
    BY <2>0, <2>1, <2>2, <2>3, <2>4, <2>5, <2>6, <2>7, <2>8, <2>9, <2>10,
       <2>11, <2>12, <2>13, <2>14, <2>15, <2>16, <2>17,
       <2>18, <2>19, <2>20, <2>21, <2>22
    DEF Step, Begin, Coroutine, Cancel, Submit, Pump
<1> QED
  BY <1>2, <1>3

(* The event loop, the worker threads, the queue and the cancellations     *)
(* together keep the promise a client relies on.                           *)
THEOREM ImplementsPromise == Spec => KeepsPromise
  BY PromiseInit, PromiseNext, Invariance, PTL
     DEF Spec, KeepsPromise, Promise!Spec
=============================================================================
