-------------------------- MODULE DocumentedCalls --------------------------
(***************************************************************************)
(* What the repository says of its tool calls where the code does          *)
(* otherwise.  Each property below is violated by ToolCalls; the run that  *)
(* shows it has the behaviour.                                             *)
(***************************************************************************)
EXTENDS ToolCalls

(* The verified events of kind k among those the call has read.            *)
Read(c, k) ==
  {i \in ReadSoFar(c) : VerifyResultEvent(log[c][i]) /\ log[c][i].kind = k}

(***************************************************************************)
(* README.md:38-41: mcp_status answers locally and "still works even if    *)
(* the control relay or executor is down".  It runs on the event loop, so  *)
(* the loop must never wait for a thread that is at the relay.             *)
(***************************************************************************)
LoopNeverWaitsForRelay == ~LoopFree => worker[stalled] = "finished"

(***************************************************************************)
(* tests/test_server.py:256: a rejected operation "must be reported as     *)
(* such, not run to timeout": no call that has read the rejection answers  *)
(* that the result is pending.                                             *)
(***************************************************************************)
RejectionReported ==
  \A c \in Call : answer[c] = "PENDING" => Read(c, "rejection") = {}

(***************************************************************************)
(* registry.py:74: op_status "returns the result when terminal": it never  *)
(* answers with a phase that is not terminal after it has read the result. *)
(***************************************************************************)
StatusReturnsResultWhenTerminal ==
  \A c \in Call :
    answer[c] \in {"REQUESTED", "EXECUTING"} => Read(c, "result") = {}
=============================================================================
