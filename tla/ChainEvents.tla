---------------------------- MODULE ChainEvents ----------------------------
(***************************************************************************)
(* The events of one operation's chain (kinds 2202 rejection, 2203         *)
(* started, 2204 result, 2205 progress) as the adapter reads them: which   *)
(* ones it believes, which ones it can read, and what each one means.      *)
(*                                                                         *)
(* An event is abstracted to the three things the adapter tells apart: its *)
(* kind, whether it carries a valid signature of the key it claims to be   *)
(* verified against, and the shape of its content.                         *)
(***************************************************************************)
EXTENDS Naturals, Sequences

CONSTANT
  ServerKeyKnown   \* Config.server_pubkey is set (flag, environment or fork config)

ASSUME ServerKeyAssumption == ServerKeyKnown \in BOOLEAN

(***************************************************************************)
(* Content shapes.  A result that is an object and carries this adapter's  *)
(* catalogue digest is "ok" when its ok is true, "truthy" when it is       *)
(* something else that counts as true (1, "yes"), else "failed"; it is     *)
(* "stale" when it carries another digest, "malformed" when it is not a    *)
(* JSON object.  A rejection is an object, text that is not JSON, or JSON  *)
(* that is not an object.  A progress event is "full" or, when unreadable  *)
(* or {}, "empty".                                                         *)
(***************************************************************************)
Bodies == [started   |-> {"empty"},
           progress  |-> {"full", "empty"},
           rejection |-> {"object", "not_json", "not_object"},
           result    |-> {"ok", "truthy", "failed", "stale", "malformed"},
           other     |-> {"empty"}]

Kinds == DOMAIN Bodies

Events ==
  UNION {[kind: {k}, signed: BOOLEAN, body: Bodies[k]] : k \in Kinds}

-----------------------------------------------------------------------------
(* OperationClient.verify_result_event: fails closed without a server key. *)
(* (The slip: an event that only claims to be the server's will do.)       *)
VerifyClaimedAuthor(e) == ServerKeyKnown

VerifyResultEvent(e) == ServerKeyKnown /\ e.signed

(***************************************************************************)
(* Contents on which reading the event raises: parse_result_event refuses  *)
(* a result that is not an object or has another digest; the rejection     *)
(* branch calls .get on whatever truthy JSON it finds and only guards      *)
(* against text that is not JSON.                                          *)
(***************************************************************************)
ReadingRaises(e) ==
  \/ e.kind = "result" /\ e.body \in {"stale", "malformed"}
  \/ e.kind = "rejection" /\ e.body = "not_object"

(* The events _typed_events drops and goes on: unverified or unknown kind. *)
Skipped(e) == ~VerifyResultEvent(e) \/ e.kind = "other"

(* The events whose reading raises inside _typed_events and ends it.       *)
Breaks(e) == ~Skipped(e) /\ ReadingRaises(e)

(* The events _typed_events hands to its caller.                           *)
Yielded(e) == ~Skipped(e) /\ ~ReadingRaises(e)

(* The yielded events at which both callers stop reading and answer.  (The *)
(* slip: at results only, as the code once did, server.py:219-222.)        *)
TerminalResult(e) == Yielded(e) /\ e.kind = "result"

Terminal(e) == Yielded(e) /\ e.kind \in {"rejection", "result"}

(* The yielded events that make op_status report the EXECUTING phase.      *)
ShowsExecution(e) ==
  /\ Yielded(e)
  /\ e.kind = "started" \/ (e.kind = "progress" /\ e.body = "full")

(* What a terminal event says of the operation: op_status takes any result *)
(* for a success whose ok counts as true, a call only one whose ok is true *)
(* (it is an error otherwise).  (The slips, for the mutation runs: handing *)
(* on what the body calls it; not looking at ok.)                          *)
OutcomeAsWritten(e, polled) == e.body

OutcomeOfAnyResult(e, polled) == IF e.kind = "rejection" THEN "REJECTED"
                                 ELSE "SUCCEEDED"

Success(polled) == IF polled THEN {"ok", "truthy"} ELSE {"ok"}

Outcome(e, polled) == IF e.kind = "rejection" THEN "REJECTED"
                      ELSE IF e.body \in Success(polled) THEN "SUCCEEDED"
                      ELSE "FAILED"

Outcomes == {"SUCCEEDED", "FAILED", "REJECTED"}

(* The events that settle a call: it answers with one, or cannot read it.  *)
Settles(e) == Terminal(e) \/ Breaks(e)

(* Position i of an event log is the first that settles the call.          *)
SettledAt(events, i) ==
  /\ i \in 1..Len(events)
  /\ Settles(events[i])
  /\ \A j \in 1..(i - 1) : ~Settles(events[j])

(* Execution shows in the part of the log read before the call is settled. *)
ShownExecuting(events) ==
  \E i \in 1..Len(events) :
    /\ ShowsExecution(events[i])
    /\ \A j \in 1..(i - 1) : ~Settles(events[j])
=============================================================================
