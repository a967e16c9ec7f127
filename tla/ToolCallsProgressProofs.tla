---------------------- MODULE ToolCallsProgressProofs ----------------------
(***************************************************************************)
(* For any number of calls, any set of events and any bound on a stream:   *)
(* nobody waits in vain, no thread is unattended, and every step leaves a  *)
(* call less to do.  They are what EveryCallEnds, NothingLeftRunning and   *)
(* LoopRecovers rest on beside the fairness of loop and threads.           *)
(***************************************************************************)
EXTENDS ToolCallsProofs, Integers

(* What the three say of one call, and the bound on its stream.            *)
WaitInv(c) ==
  /\ pc[c] = "submit" =>
       worker[c] = "submitting"
         \/ (worker[c] = "finished" /\ submitted[c] # "none")
  /\ pc[c] = "get" /\ head[c] = Len(log[c]) =>
       worker[c] = "pumping" \/ sentinel[c]
  /\ pc[c] \in {"drain", "unwind"} \/ closing[c] \/ stalled = c =>
       ThreadRuns(c) \/ worker[c] = "finished"
  /\ stalled = c => pc[c] = "unwind"
  /\ worker[c] = "submitting" => pc[c] \in {"submit", "unwind"}
  /\ worker[c] = "pumping" =>
       pc[c] \in {"get", "report", "drain", "unwind"} \/ closing[c]
  /\ Len(log[c]) <= MaxEvents

PInv == IInv /\ \A c \in Call : WaitInv(c)

-----------------------------------------------------------------------------
(* What is left to do, counted.                                            *)
LEMMA WaitsCount ==
  ASSUME TypeOK, TypeOK', NEW c \in Call
  PROVE  WaitsLeft(c) \in Nat /\ WaitsLeft(c)' \in Nat
<1>1. /\ PlacesLeft[pc[c]] \in Nat /\ ThreadLeft(c) \in Nat
      /\ ClosingLeft(c) \in Nat /\ ShutdownsLeft(c) \in Nat
  BY DEF TypeOK, PC, PlacesLeft, ThreadLeft, ClosingLeft, ShutdownsLeft
<1>2. /\ PlacesLeft[pc'[c]] \in Nat /\ ThreadLeft(c)' \in Nat
      /\ ClosingLeft(c)' \in Nat /\ ShutdownsLeft(c)' \in Nat
  BY DEF TypeOK, PC, PlacesLeft, ThreadLeft, ClosingLeft, ShutdownsLeft
<1>3. WaitsLeft(c) \in Nat
  BY <1>1 DEF WaitsLeft
<1>4. WaitsLeft(c)' \in Nat
  BY <1>2 DEF WaitsLeft
<1> QED
  BY <1>3, <1>4

LEMMA EventsCount ==
  ASSUME TypeOK, TypeOK', NEW c \in Call
  PROVE  /\ EventsLeft(c) \in Int
         /\ head'[c] = head[c] /\ log'[c] = log[c] =>
              EventsLeft(c)' = EventsLeft(c)
         /\ head'[c] = head[c] + 1 /\ log'[c] = log[c] =>
              EventsLeft(c)' = EventsLeft(c) - 2
         /\ head'[c] = head[c] /\ Len(log'[c]) = Len(log[c]) + 1 =>
              EventsLeft(c)' = EventsLeft(c) - 1
         /\ head'[c] <= Len(log'[c]) /\ Len(log'[c]) <= MaxEvents =>
              EventsLeft(c)' >= 0
<1> DEFINE m == MaxEvents - head[c]
           n == MaxEvents - Len(log[c])
<1>1. /\ head[c] \in Nat /\ head'[c] \in Nat /\ MaxEvents \in Nat
      /\ Len(log[c]) \in Nat /\ Len(log'[c]) \in Nat
  BY CallAssumption DEF TypeOK
<1>2. m \in Int /\ n \in Int /\ m' \in Int /\ n' \in Int
  BY <1>1
<1>3. EventsLeft(c) = 2 * m + n /\ EventsLeft(c)' = 2 * m' + n'
  BY DEF EventsLeft
<1>4. /\ head'[c] = head[c] + 1 => m' = m - 1
      /\ head'[c] = head[c] => m' = m
  BY <1>1
<1>5. /\ Len(log'[c]) = Len(log[c]) + 1 => n' = n - 1
      /\ log'[c] = log[c] => n' = n
  BY <1>1
<1>6. head'[c] <= Len(log'[c]) /\ Len(log'[c]) <= MaxEvents =>
        m' >= 0 /\ n' >= 0
  BY <1>1
<1>7. \A x, y \in Int : /\ 2 * x + y \in Int
                        /\ 2 * (x - 1) + y = (2 * x + y) - 2
                        /\ 2 * x + (y - 1) = (2 * x + y) - 1
                        /\ x >= 0 /\ y >= 0 => 2 * x + y >= 0
  OBVIOUS
<1> HIDE DEF m, n
<1>8. EventsLeft(c) \in Int
  BY <1>2, <1>3, <1>7
<1>9. head'[c] = head[c] /\ log'[c] = log[c] => EventsLeft(c)' = EventsLeft(c)
  BY <1>3, <1>4, <1>5
<1>10. head'[c] = head[c] + 1 /\ log'[c] = log[c] =>
         EventsLeft(c)' = EventsLeft(c) - 2
  BY <1>2, <1>3, <1>4, <1>5, <1>7
<1>11. head'[c] = head[c] /\ Len(log'[c]) = Len(log[c]) + 1 =>
         EventsLeft(c)' = EventsLeft(c) - 1
  BY <1>2, <1>3, <1>4, <1>5, <1>7
<1>12. head'[c] <= Len(log'[c]) /\ Len(log'[c]) <= MaxEvents =>
         EventsLeft(c)' >= 0
  BY <1>2, <1>3, <1>6, <1>7
<1> QED
  BY <1>8, <1>9, <1>10, <1>11, <1>12

-----------------------------------------------------------------------------
(* A step of one call leaves what the others are in, and have left, alone. *)
SameAll(d) ==
  /\ pc'[d] = pc[d] /\ worker'[d] = worker[d] /\ submitted'[d] = submitted[d]
  /\ log'[d] = log[d] /\ head'[d] = head[d] /\ sentinel'[d] = sentinel[d]
  /\ closing'[d] = closing[d] /\ (stalled' = d <=> stalled = d)

LEMMA OthersAlone ==
  ASSUME NEW d \in Call, WaitInv(d), SameAll(d)
  PROVE  WaitInv(d)' /\ Left(d)' = Left(d)
<1>1. WaitInv(d)'
  BY DEF SameAll, WaitInv, ThreadRuns
<1>2. WaitsLeft(d)' = WaitsLeft(d)
  BY DEF SameAll, WaitsLeft, ThreadLeft, ClosingLeft, ShutdownsLeft, ThreadRuns
<1>3. EventsLeft(d)' = EventsLeft(d)
  BY DEF SameAll, EventsLeft
<1> QED
  BY <1>1, <1>2, <1>3 DEF Left

LEMMA OneStep ==
  ASSUME PInv, IInv', NEW c \in Call,
         \A d \in Call \ {c} : SameAll(d),
         WaitInv(c)',
         \/ /\ EventsLeft(c)' = EventsLeft(c)
            /\ WaitsLeft(c)' < WaitsLeft(c)
         \/ /\ EventsLeft(c)' = EventsLeft(c) - 1
            /\ WaitsLeft(c)' = WaitsLeft(c)
         \/ /\ EventsLeft(c)' = EventsLeft(c) - 2
            /\ WaitsLeft(c)' < WaitsLeft(c) + 2
  PROVE  PInv' /\ Progress
<1>1. TypeOK /\ TypeOK'
  BY DEF PInv, IInv
<1>2. \A d \in Call \ {c} : WaitInv(d)' /\ Left(d)' = Left(d)
  BY OthersAlone DEF PInv
<1>3. /\ EventsLeft(c) \in Int /\ EventsLeft(c)' >= 0
      /\ WaitsLeft(c) \in Nat /\ WaitsLeft(c)' \in Nat
  <2>1. head'[c] <= Len(log'[c]) /\ Len(log'[c]) <= MaxEvents
    BY <1>1 DEF TypeOK, IInv, CallInv, QueueInv, WaitInv
  <2> QED
    BY <1>1, <2>1, WaitsCount, EventsCount
<1>4. Left(c)' \in 0..(Left(c) - 1)
  BY <1>3 DEF Left
<1> QED
  BY <1>2, <1>4 DEF PInv, Progress

LEMMA StepProgresses == PInv /\ Next => PInv' /\ Progress
<1> SUFFICES ASSUME PInv, Next PROVE PInv' /\ Progress
  OBVIOUS
<1>a. PInv /\ IInv' /\ TypeOK /\ TypeOK'
  BY InvNext DEF PInv, IInv
<1>c. PICK c \in Call : Step(c)
  BY DEF Next
<1>b. CallInv(c) /\ WaitInv(c)
  BY DEF PInv, IInv
<1>1. CASE CallLocal(c)
  <2>1. \A d \in Call \ {c} : SameAll(d)
    BY <1>1 DEF SameAll, CallLocal, Finish
  <2>2. WaitInv(c)'
    BY <1>b, <1>1 DEF WaitInv, ThreadRuns, CallLocal, Suspended, Finish
  <2>3. EventsLeft(c)' = EventsLeft(c)
    <3>1. head'[c] = head[c] /\ log'[c] = log[c]
      BY <1>1 DEF CallLocal
    <3> QED
      BY <1>a, <3>1, EventsCount
  <2>4. WaitsLeft(c)' < WaitsLeft(c)
    BY <1>a, <1>1
    DEF TypeOK, WaitsLeft, PlacesLeft, ThreadLeft, ClosingLeft,
        ShutdownsLeft, CallLocal, Suspended, Finish
  <2> QED
    BY <1>a, <2>1, <2>2, <2>3, <2>4, OneStep
<1>2. CASE CallOpStatus(c)
  <2>1. \A d \in Call \ {c} : SameAll(d)
    BY <1>2 DEF SameAll, CallOpStatus, StartStream
  <2>2. WaitInv(c)'
    BY <1>a, <1>b, <1>2
    DEF TypeOK, WaitInv, ThreadRuns, CallOpStatus, Suspended, StartStream
  <2>3. EventsLeft(c)' = EventsLeft(c)
    <3>1. head'[c] = head[c] /\ log'[c] = log[c]
      BY <1>2 DEF CallOpStatus
    <3> QED
      BY <1>a, <3>1, EventsCount
  <2>4. WaitsLeft(c)' < WaitsLeft(c)
    BY <1>a, <1>2
    DEF TypeOK, WaitsLeft, PlacesLeft, ThreadLeft, ClosingLeft,
        ShutdownsLeft, CallOpStatus, Suspended, StartStream
  <2> QED
    BY <1>a, <2>1, <2>2, <2>3, <2>4, OneStep
<1>3. ASSUME NEW t \in Tool, CallOperation(c, t)
      PROVE  PInv' /\ Progress
  <2>1. \A d \in Call \ {c} : SameAll(d)
    BY <1>3 DEF SameAll, CallOperation
  <2>2. WaitInv(c)'
    BY <1>a, <1>b, <1>3
    DEF TypeOK, WaitInv, ThreadRuns, CallOperation, Suspended
  <2>3. EventsLeft(c)' = EventsLeft(c)
    <3>1. head'[c] = head[c] /\ log'[c] = log[c]
      BY <1>3 DEF CallOperation
    <3> QED
      BY <1>a, <3>1, EventsCount
  <2>4. WaitsLeft(c)' < WaitsLeft(c)
    BY <1>a, <1>3
    DEF TypeOK, WaitsLeft, PlacesLeft, ThreadLeft, ClosingLeft,
        ShutdownsLeft, CallOperation, Suspended
  <2> QED
    BY <1>a, <2>1, <2>2, <2>3, <2>4, OneStep
<1>4. ASSUME NEW isAdmin \in BOOLEAN, ResumeAfterSubmit(c, isAdmin)
      PROVE  PInv' /\ Progress
  <2>1. \A d \in Call \ {c} : SameAll(d)
    BY <1>a, <1>4 DEF TypeOK, SameAll, ResumeAfterSubmit, Finish, StartStream
  <2>2. WaitInv(c)'
    BY <1>a, <1>b, <1>4
    DEF TypeOK, WaitInv, ThreadRuns, ResumeAfterSubmit, Suspended, Finish,
        StartStream
  <2>3. EventsLeft(c)' = EventsLeft(c)
    <3>1. head'[c] = head[c] /\ log'[c] = log[c]
      BY <1>4 DEF ResumeAfterSubmit
    <3> QED
      BY <1>a, <3>1, EventsCount
  <2>4. WaitsLeft(c)' < WaitsLeft(c)
    BY <1>a, <1>4
    DEF TypeOK, WaitsLeft, PlacesLeft, ThreadLeft, ClosingLeft,
        ShutdownsLeft, ResumeAfterSubmit, Suspended, Finish, StartStream
  <2> QED
    BY <1>a, <2>1, <2>2, <2>3, <2>4, OneStep
<1>5. ASSUME NEW r \in {"accepted", "refused"}, SubmitReturns(c, r)
      PROVE  PInv' /\ Progress
  <2>1. \A d \in Call \ {c} : SameAll(d)
    BY <1>5 DEF SameAll, SubmitReturns
  <2>2. WaitInv(c)'
    BY <1>a, <1>b, <1>5 DEF TypeOK, WaitInv, SubmitReturns
  <2>3. EventsLeft(c)' = EventsLeft(c)
    <3>1. head'[c] = head[c] /\ log'[c] = log[c]
      BY <1>5 DEF SubmitReturns
    <3> QED
      BY <1>a, <3>1, EventsCount
  <2>4. WaitsLeft(c)' < WaitsLeft(c)
    BY <1>a, <1>5
    DEF TypeOK, PC, WaitsLeft, PlacesLeft, ThreadLeft, ClosingLeft,
        ThreadRuns, ShutdownsLeft, SubmitReturns
  <2> QED
    BY <1>a, <2>1, <2>2, <2>3, <2>4, OneStep
<1>6. ASSUME NEW e \in Event, PumpEvent(c, e)
      PROVE  PInv' /\ Progress
  <2>1. \A d \in Call \ {c} : SameAll(d)
    BY <1>6 DEF SameAll, PumpEvent
  <2>2. WaitInv(c)'
    BY <1>b, <1>6, CallAssumption DEF WaitInv, ThreadRuns, PumpEvent
  <2>3. EventsLeft(c)' = EventsLeft(c) - 1
    <3>1. head'[c] = head[c] /\ Len(log'[c]) = Len(log[c]) + 1
      BY <1>a, <1>6 DEF TypeOK, PumpEvent
    <3> QED
      BY <1>a, <3>1, EventsCount
  <2>4. WaitsLeft(c)' = WaitsLeft(c)
    BY <1>6
    DEF WaitsLeft, ThreadLeft, ClosingLeft, ThreadRuns, ShutdownsLeft,
        PumpEvent
  <2> QED
    BY <1>a, <2>1, <2>2, <2>3, <2>4, OneStep
<1>7. CASE PumpEnds(c)
  <2>1. \A d \in Call \ {c} : SameAll(d)
    BY <1>7 DEF SameAll, PumpEnds
  <2>2. WaitInv(c)'
    BY <1>a, <1>b, <1>7 DEF TypeOK, WaitInv, PumpEnds
  <2>3. EventsLeft(c)' = EventsLeft(c)
    <3>1. head'[c] = head[c] /\ log'[c] = log[c]
      BY <1>7 DEF PumpEnds
    <3> QED
      BY <1>a, <3>1, EventsCount
  <2>4. WaitsLeft(c)' < WaitsLeft(c)
    BY <1>a, <1>7
    DEF TypeOK, PC, WaitsLeft, PlacesLeft, ThreadLeft, ClosingLeft,
        ThreadRuns, ShutdownsLeft, PumpEnds
  <2> QED
    BY <1>a, <2>1, <2>2, <2>3, <2>4, OneStep
<1>8. CASE GetSkipped(c)
  <2>1. \A d \in Call \ {c} : SameAll(d)
    BY <1>8 DEF SameAll, GetSkipped, Gets
  <2>2. WaitInv(c)'
    BY <1>b, <1>8 DEF WaitInv, ThreadRuns, CallInv, QueueInv, GetSkipped, Gets
  <2>3. EventsLeft(c)' = EventsLeft(c) - 2
    <3>1. head'[c] = head[c] + 1 /\ log'[c] = log[c]
      BY <1>a, <1>8 DEF TypeOK, GetSkipped, Gets
    <3> QED
      BY <1>a, <3>1, EventsCount
  <2>4. WaitsLeft(c)' < WaitsLeft(c) + 2
    BY <1>8
    DEF WaitsLeft, PlacesLeft, ThreadLeft, ClosingLeft, ShutdownsLeft,
        GetSkipped, Gets, Suspended
  <2> QED
    BY <1>a, <2>1, <2>2, <2>3, <2>4, OneStep
<1>9. CASE GetBreaks(c)
  <2>1. \A d \in Call \ {c} : SameAll(d)
    BY <1>9 DEF SameAll, GetBreaks, Gets
  <2>2. WaitInv(c)'
    BY <1>b, <1>9
    DEF WaitInv, ThreadRuns, CallInv, QueueInv, GetBreaks, Gets, Suspended
  <2>3. EventsLeft(c)' = EventsLeft(c) - 2
    <3>1. head'[c] = head[c] + 1 /\ log'[c] = log[c]
      BY <1>a, <1>9 DEF TypeOK, GetBreaks, Gets
    <3> QED
      BY <1>a, <3>1, EventsCount
  <2>4. WaitsLeft(c)' < WaitsLeft(c) + 2
    BY <1>9
    DEF WaitsLeft, PlacesLeft, ThreadLeft, ClosingLeft, ShutdownsLeft,
        GetBreaks, Gets, Suspended
  <2> QED
    BY <1>a, <2>1, <2>2, <2>3, <2>4, OneStep
<1>10. CASE StreamInterim(c)
  <2>1. \A d \in Call \ {c} : SameAll(d)
    BY <1>a, <1>10 DEF TypeOK, SameAll, StreamInterim, GetsInterim, Gets
  <2>2. WaitInv(c)'
    BY <1>a, <1>b, <1>10
    DEF TypeOK, WaitInv, ThreadRuns, CallInv, QueueInv, StreamInterim,
        GetsInterim, Gets, Suspended
  <2>3. EventsLeft(c)' = EventsLeft(c) - 2
    <3>1. head'[c] = head[c] + 1 /\ log'[c] = log[c]
      BY <1>a, <1>10 DEF TypeOK, StreamInterim, GetsInterim, Gets
    <3> QED
      BY <1>a, <3>1, EventsCount
  <2>4. WaitsLeft(c)' < WaitsLeft(c) + 2
    BY <1>a, <1>10
    DEF TypeOK, WaitsLeft, PlacesLeft, ThreadLeft, ClosingLeft, ThreadRuns,
        ShutdownsLeft, StreamInterim, GetsInterim, Gets, Suspended
  <2> QED
    BY <1>a, <2>1, <2>2, <2>3, <2>4, OneStep
<1>11. CASE StatusInterim(c)
  <2>1. \A d \in Call \ {c} : SameAll(d)
    BY <1>11 DEF SameAll, StatusInterim, GetsInterim, Gets
  <2>2. WaitInv(c)'
    BY <1>b, <1>11
    DEF WaitInv, ThreadRuns, CallInv, QueueInv, StatusInterim, GetsInterim,
        Gets
  <2>3. EventsLeft(c)' = EventsLeft(c) - 2
    <3>1. head'[c] = head[c] + 1 /\ log'[c] = log[c]
      BY <1>a, <1>11 DEF TypeOK, StatusInterim, GetsInterim, Gets
    <3> QED
      BY <1>a, <3>1, EventsCount
  <2>4. WaitsLeft(c)' < WaitsLeft(c) + 2
    BY <1>11
    DEF WaitsLeft, PlacesLeft, ThreadLeft, ClosingLeft, ShutdownsLeft,
        StatusInterim, GetsInterim, Gets, Suspended
  <2> QED
    BY <1>a, <2>1, <2>2, <2>3, <2>4, OneStep
<1>12. CASE GetTerminal(c)
  <2>1. \A d \in Call \ {c} : SameAll(d)
    BY <1>12 DEF SameAll, GetTerminal, Finish, Gets
  <2>2. WaitInv(c)'
    BY <1>a, <1>b, <1>12
    DEF TypeOK, WaitInv, ThreadRuns, CallInv, QueueInv, GetTerminal, Finish,
        Gets, Suspended
  <2>3. EventsLeft(c)' = EventsLeft(c) - 2
    <3>1. head'[c] = head[c] + 1 /\ log'[c] = log[c]
      BY <1>a, <1>12 DEF TypeOK, GetTerminal, Gets
    <3> QED
      BY <1>a, <3>1, EventsCount
  <2>4. WaitsLeft(c)' < WaitsLeft(c) + 2
    BY <1>12
    DEF WaitsLeft, PlacesLeft, ThreadLeft, ClosingLeft, ThreadRuns,
        ShutdownsLeft, GetTerminal, Finish, Gets, Suspended
  <2> QED
    BY <1>a, <2>1, <2>2, <2>3, <2>4, OneStep
<1>13. CASE GetSentinel(c)
  <2>1. \A d \in Call \ {c} : SameAll(d)
    BY <1>13 DEF SameAll, GetSentinel
  <2>2. WaitInv(c)'
    BY <1>b, <1>13 DEF WaitInv, CallInv, QueueInv, GetSentinel, Suspended
  <2>3. EventsLeft(c)' = EventsLeft(c)
    <3>1. head'[c] = head[c] /\ log'[c] = log[c]
      BY <1>13 DEF GetSentinel
    <3> QED
      BY <1>a, <3>1, EventsCount
  <2>4. WaitsLeft(c)' < WaitsLeft(c)
    BY <1>a, <1>13
    DEF TypeOK, WaitsLeft, PlacesLeft, ThreadLeft, ClosingLeft, ThreadRuns,
        ShutdownsLeft, GetSentinel, Suspended
  <2> QED
    BY <1>a, <2>1, <2>2, <2>3, <2>4, OneStep
<1>14. CASE Reported(c)
  <2>1. \A d \in Call \ {c} : SameAll(d)
    BY <1>14 DEF SameAll, Reported
  <2>2. WaitInv(c)'
    BY <1>b, <1>14
    DEF WaitInv, ThreadRuns, CallInv, QueueInv, Reported, Suspended
  <2>3. EventsLeft(c)' = EventsLeft(c)
    <3>1. head'[c] = head[c] /\ log'[c] = log[c]
      BY <1>14 DEF Reported
    <3> QED
      BY <1>a, <3>1, EventsCount
  <2>4. WaitsLeft(c)' < WaitsLeft(c)
    BY <1>a, <1>14
    DEF TypeOK, WaitsLeft, PlacesLeft, ThreadLeft, ClosingLeft, ThreadRuns,
        ShutdownsLeft, Reported, Suspended
  <2> QED
    BY <1>a, <2>1, <2>2, <2>3, <2>4, OneStep
<1>15. CASE ReportRaises(c)
  <2>1. \A d \in Call \ {c} : SameAll(d)
    BY <1>15 DEF SameAll, ReportRaises, Finish
  <2>2. WaitInv(c)'
    BY <1>a, <1>b, <1>15
    DEF TypeOK, WaitInv, ThreadRuns, CallInv, QueueInv, ReportRaises, Finish,
        Suspended
  <2>3. EventsLeft(c)' = EventsLeft(c)
    <3>1. head'[c] = head[c] /\ log'[c] = log[c]
      BY <1>15 DEF ReportRaises
    <3> QED
      BY <1>a, <3>1, EventsCount
  <2>4. WaitsLeft(c)' < WaitsLeft(c)
    BY <1>a, <1>15
    DEF TypeOK, WaitsLeft, PlacesLeft, ThreadLeft, ClosingLeft,
        ShutdownsLeft, ReportRaises, Finish, Suspended
  <2> QED
    BY <1>a, <2>1, <2>2, <2>3, <2>4, OneStep
<1>16. CASE Drained(c)
  <2>1. \A d \in Call \ {c} : SameAll(d)
    BY <1>16 DEF SameAll, Drained, Finish
  <2>2. WaitInv(c)'
    BY <1>b, <1>16 DEF WaitInv, Drained, Finish, Suspended
  <2>3. EventsLeft(c)' = EventsLeft(c)
    <3>1. head'[c] = head[c] /\ log'[c] = log[c]
      BY <1>16 DEF Drained
    <3> QED
      BY <1>a, <3>1, EventsCount
  <2>4. WaitsLeft(c)' < WaitsLeft(c)
    BY <1>a, <1>16
    DEF TypeOK, WaitsLeft, PlacesLeft, ThreadLeft, ClosingLeft,
        ShutdownsLeft, Drained, Finish, Suspended
  <2> QED
    BY <1>a, <2>1, <2>2, <2>3, <2>4, OneStep
<1>17. CASE Closed(c)
  <2>1. \A d \in Call \ {c} : SameAll(d)
    BY <1>17 DEF SameAll, Closed
  <2>2. WaitInv(c)'
    BY <1>b, <1>17 DEF WaitInv, Closed
  <2>3. EventsLeft(c)' = EventsLeft(c)
    <3>1. head'[c] = head[c] /\ log'[c] = log[c]
      BY <1>17 DEF Closed
    <3> QED
      BY <1>a, <3>1, EventsCount
  <2>4. WaitsLeft(c)' < WaitsLeft(c)
    BY <1>a, <1>17
    DEF TypeOK, PC, WaitsLeft, PlacesLeft, ThreadLeft, ClosingLeft,
        ThreadRuns, ShutdownsLeft, Closed
  <2> QED
    BY <1>a, <2>1, <2>2, <2>3, <2>4, OneStep
<1>18. CASE CancelAtQueue(c)
  <2>1. \A d \in Call \ {c} : SameAll(d)
    BY <1>18 DEF SameAll, CancelAtQueue
  <2>2. WaitInv(c)'
    BY <1>b, <1>18
    DEF WaitInv, ThreadRuns, CallInv, QueueInv, CancelAtQueue, Suspended
  <2>3. EventsLeft(c)' = EventsLeft(c)
    <3>1. head'[c] = head[c] /\ log'[c] = log[c]
      BY <1>18 DEF CancelAtQueue
    <3> QED
      BY <1>a, <3>1, EventsCount
  <2>4. WaitsLeft(c)' < WaitsLeft(c)
    BY <1>a, <1>18
    DEF TypeOK, WaitsLeft, PlacesLeft, ThreadLeft, ClosingLeft,
        ShutdownsLeft, CancelAtQueue, Suspended
  <2> QED
    BY <1>a, <2>1, <2>2, <2>3, <2>4, OneStep
<1>19. CASE CancelAtThread(c)
  <2>1. \A d \in Call \ {c} : SameAll(d)
    BY <1>19, CallAssumption DEF SameAll, LoopFree, CancelAtThread
  <2>2. WaitInv(c)'
    BY <1>a, <1>b, <1>19 DEF TypeOK, WaitInv, ThreadRuns, CancelAtThread
  <2>3. EventsLeft(c)' = EventsLeft(c)
    <3>1. head'[c] = head[c] /\ log'[c] = log[c]
      BY <1>19 DEF CancelAtThread
    <3> QED
      BY <1>a, <3>1, EventsCount
  <2>4. WaitsLeft(c)' < WaitsLeft(c)
    BY <1>a, <1>b, <1>19, CallAssumption
    DEF TypeOK, WaitInv, LoopFree, WaitsLeft, PlacesLeft, ThreadLeft,
        ClosingLeft, ShutdownsLeft, CancelAtThread
  <2> QED
    BY <1>a, <2>1, <2>2, <2>3, <2>4, OneStep
<1>20. CASE CancelAtReport(c)
  <2>1. \A d \in Call \ {c} : SameAll(d)
    BY <1>20 DEF SameAll, CancelAtReport, Finish
  <2>2. WaitInv(c)'
    BY <1>a, <1>b, <1>20
    DEF TypeOK, WaitInv, ThreadRuns, CallInv, QueueInv, CancelAtReport,
        Finish, Suspended
  <2>3. EventsLeft(c)' = EventsLeft(c)
    <3>1. head'[c] = head[c] /\ log'[c] = log[c]
      BY <1>20 DEF CancelAtReport
    <3> QED
      BY <1>a, <3>1, EventsCount
  <2>4. WaitsLeft(c)' < WaitsLeft(c)
    BY <1>a, <1>20
    DEF TypeOK, WaitsLeft, PlacesLeft, ThreadLeft, ClosingLeft,
        ShutdownsLeft, CancelAtReport, Finish, Suspended
  <2> QED
    BY <1>a, <2>1, <2>2, <2>3, <2>4, OneStep
<1>21. CASE ShutdownReturns(c)
  <2>1. \A d \in Call \ {c} : SameAll(d)
    BY <1>21, CallAssumption DEF SameAll, ShutdownReturns
  <2>2. WaitInv(c)'
    BY <1>b, <1>21 DEF WaitInv, ShutdownReturns
  <2>3. EventsLeft(c)' = EventsLeft(c)
    <3>1. head'[c] = head[c] /\ log'[c] = log[c]
      BY <1>21 DEF ShutdownReturns
    <3> QED
      BY <1>a, <3>1, EventsCount
  <2>4. WaitsLeft(c)' < WaitsLeft(c)
    BY <1>b, <1>21, CallAssumption
    DEF WaitInv, WaitsLeft, PlacesLeft, ThreadLeft, ClosingLeft, ThreadRuns,
        ShutdownsLeft, ShutdownReturns
  <2> QED
    BY <1>a, <2>1, <2>2, <2>3, <2>4, OneStep
<1>22. CASE Unwound(c)
  <2>1. \A d \in Call \ {c} : SameAll(d)
    BY <1>22 DEF SameAll, Unwound, Finish
  <2>2. WaitInv(c)'
    BY <1>b, <1>22, CallAssumption
    DEF WaitInv, LoopFree, Unwound, Finish, Suspended
  <2>3. EventsLeft(c)' = EventsLeft(c)
    <3>1. head'[c] = head[c] /\ log'[c] = log[c]
      BY <1>22 DEF Unwound
    <3> QED
      BY <1>a, <3>1, EventsCount
  <2>4. WaitsLeft(c)' < WaitsLeft(c)
    BY <1>a, <1>22
    DEF TypeOK, WaitsLeft, PlacesLeft, ThreadLeft, ClosingLeft, ThreadRuns,
        ShutdownsLeft, Unwound, Finish, Suspended
  <2> QED
    BY <1>a, <2>1, <2>2, <2>3, <2>4, OneStep
<1> QED
  BY <1>c, <1>1, <1>2, <1>3, <1>4, <1>5, <1>6, <1>7, <1>8, <1>9, <1>10, 
     <1>11, <1>12, <1>13, <1>14, <1>15, <1>16, <1>17,
     <1>18, <1>19, <1>20, <1>21, <1>22
  DEF Step, Begin, Coroutine, Cancel, Submit, Pump

-----------------------------------------------------------------------------
LEMMA PInit == Init => PInv
<1> SUFFICES ASSUME Init PROVE PInv
  OBVIOUS
<1>1. \A c \in Call : WaitInv(c)
  BY CallAssumption DEF Init, WaitInv
<1> QED
  BY <1>1, InvInit DEF PInv

LEMMA PNext == PInv /\ [Next]_vars => PInv'
<1> SUFFICES ASSUME PInv, [Next]_vars PROVE PInv'
  OBVIOUS
<1>1. CASE UNCHANGED vars
  BY <1>1, InvNext DEF vars, PInv, WaitInv, ThreadRuns
<1> QED
  BY <1>1, StepProgresses

(* Who waits for whom, with how much of the log there can be.              *)
THEOREM WaitInvariance == Spec => []PInv
  BY PInit, PNext, PTL DEF Spec

(* Every await of a coroutine, of the task that closes a generator and of  *)
(* executor.shutdown (server.py:43-50, 166-255) is for something that is   *)
(* there or for a thread that runs.                                        *)
THEOREM WaitsAreNotInVain == Spec => []NobodyWaitsInVain
<1>1. PInv => NobodyWaitsInVain
  BY DEF PInv, WaitInv, NobodyWaitsInVain
<1> QED
  BY WaitInvariance, <1>1, PTL

(* A worker thread that runs has a call or a closing task that awaits it.  *)
THEOREM ThreadsAreAttended == Spec => []NoThreadUnattended
<1>1. PInv => NoThreadUnattended
  BY DEF PInv, WaitInv, NoThreadUnattended
<1> QED
  BY WaitInvariance, <1>1, PTL

(* Every step leaves the call that takes it less to do: whatever is        *)
(* scheduled, delivered or cancelled, a call takes finitely many.          *)
THEOREM StepsAreProgress == Spec => EveryStepIsProgress
<1>1. PInv /\ [Next]_vars => [Progress]_vars
  BY StepProgresses
<1> QED
  BY WaitInvariance, <1>1, PTL DEF Spec, EveryStepIsProgress
=============================================================================
