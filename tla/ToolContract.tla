---------------------------- MODULE ToolContract ----------------------------
(***************************************************************************)
(* From the operation catalogue to a tool's reply (registry.py, the result *)
(* translation of server.py, redaction.py): which tools a server serves,   *)
(* what each advertises, and what is left of an operation's result in the  *)
(* reply a client gets.                                                    *)
(*                                                                         *)
(* A JSON value is abstracted to the kinds of leaf found anywhere in it: a *)
(* secret-shaped value, a string under one of the four keys of untrusted   *)
(* nsite text, the marker that replaces one, or anything else.             *)
(***************************************************************************)
EXTENDS Naturals

CONSTANTS
  Name,              \* operation names
  Document,          \* what the fork's operation_catalog() may return
  Unstated,          \* the approval floor of an entry that states none
  None,
  PolicyInstalled    \* nostrhost_policy can be imported

Helper == {"op_status", "mcp_status"}

Leaf == {"secret", "freeText", "marker", "plain"}

(* Catalogue entries: the approval floor, whether the name begins with     *)
(* "nsite.", whether an input schema is given.                             *)
Entries == [minimum : {"none", "admin", Unstated}, nsite : BOOLEAN,
            input : BOOLEAN]

(* A reply: the tool it is about, what gave it (a tool's call, op_status   *)
(* or an error raised before there was anything to report of an operation) *)
(* and the CallToolResult.                                                 *)
Replies ==
  [tool : Name \cup Helper, by : {"call", "status", "error"},
   text : SUBSET Leaf, structured : {None} \cup SUBSET Leaf,
   isError : BOOLEAN]

ASSUME ContractAssumption ==
  /\ Document \subseteq
       [version : Nat, wellFormed : BOOLEAN,
        operations : UNION {[S -> Entries] : S \in SUBSET Name}]
  /\ Unstated \notin {"none", "admin"}
  /\ \A value \in SUBSET Leaf : value # None
  /\ Name \cap Helper = {}
  /\ None # "success" /\ None \notin Replies
  /\ PolicyInstalled \in BOOLEAN

VARIABLES
  pc,        \* the server is not built, failed to be, or serves
  document,  \* the catalogue it was built from
  tools,     \* what list_tools answers: a tool's schemas by name
  reply      \* the last reply to a tool call, None before

vars == <<pc, document, tools, reply>>

TypeOK ==
  /\ pc \in {"down", "failed", "serving"}
  /\ document \in Document
  /\ DOMAIN tools \subseteq Name \cup Helper
  /\ \A n \in DOMAIN tools :
       tools[n] \in [input : {"given", "default"}, output : {"success", None}]
  /\ reply \in {None} \cup Replies

Init ==
  /\ pc = "down"
  /\ document \in Document
  /\ tools = [n \in {} |-> None]
  /\ reply = None

-----------------------------------------------------------------------------
(* The floor tool_meta goes by.                                            *)
AdvertisedFloor(entry) ==
  IF entry.minimum = Unstated THEN "none" ELSE entry.minimum

(* What list_tools says of an entry: the schema of its success only where  *)
(* a call waits for it.  (The slip: no default for an entry without an     *)
(* input schema.)                                                          *)
AdvertisedBare(entry) ==
  [input |-> IF entry.input THEN "given" ELSE None,
   output |-> IF AdvertisedFloor(entry) = "none" THEN "success" ELSE None]

Advertised(entry) ==
  [input |-> IF entry.input THEN "given" ELSE "default",
   output |-> IF AdvertisedFloor(entry) = "none" THEN "success" ELSE None]

(* The adapter's own tools.                                                *)
HelperTool == [input |-> "given", output |-> None]

(* load_catalog refuses the document, or the server generates its tools.   *)
Refused(d) == d.version # 2 \/ ~d.wellFormed

Served(d) == DOMAIN d.operations \cup Helper

Build ==
  /\ pc = "down"
  /\ \/ Refused(document) /\ pc' = "failed" /\ UNCHANGED tools
     \/ /\ ~Refused(document)
        /\ pc' = "serving"
        /\ tools' = [n \in Served(document) |->
                       IF n \in Helper THEN HelperTool
                       ELSE Advertised(document.operations[n])]
  /\ UNCHANGED <<document, reply>>

-----------------------------------------------------------------------------
(* redact is a no-op where the policy package is missing; nostrhost_policy *)
(* replaces every secret-shaped value.                                     *)
Mark(value, kind) == (value \ {kind}) \cup (IF kind \in value THEN {"marker"}
                                                             ELSE {})

Redact(value) == IF PolicyInstalled THEN Mark(value, "secret") ELSE value

RedactNsite(value) == Mark(value, "freeText")

(* (The slip: either redaction, not both.)                                 *)
RedactEither(value, entry) ==
  IF entry.nsite THEN RedactNsite(value) ELSE Redact(value)

RedactPayload(value, entry) ==
  IF entry.nsite THEN RedactNsite(Redact(value)) ELSE Redact(value)

(***************************************************************************)
(* The body of an outcome, or of no outcome yet: whether its "ok" is True, *)
(* whether it has an object for a result, the leaves of the result and     *)
(* those of all the rest (its error, the reason of a rejection, the last   *)
(* progress).  Nothing ties what was signed to the catalogue's schema.     *)
(***************************************************************************)
Bodies ==
  [ok : BOOLEAN, object : BOOLEAN, result : SUBSET Leaf, rest : SUBSET Leaf]

Reply(n, by, text, structured, isError) ==
  reply' = [tool |-> n, by |-> by, text |-> text, structured |-> structured,
            isError |-> isError]

(* A ToolError, or what else submit may raise: its text goes out as it is. *)
ToolError(n, text) == Reply(n, "error", text, None, TRUE)

(* (The slip: structured content taken from the body as it came.)          *)
ResultContentRaw(n, body) ==
  Reply(n, "call",
        RedactPayload(body.result \cup body.rest, document.operations[n]),
        IF body.ok /\ body.object THEN body.result ELSE None,
        ~body.ok)

ResultContent(n, body) ==
  LET entry == document.operations[n] IN
  Reply(n, "call",
        RedactPayload(body.result \cup body.rest, entry),
        IF body.ok /\ body.object THEN RedactPayload(body.result, entry)
                                  ELSE None,
        ~body.ok)

(* The approval boundary: the entry's scopes and risk, nothing else.       *)
ApprovalRequired(n) == Reply(n, "call", {"plain"}, None, FALSE)

(* call_tool looks the floor up once more, and an entry that states none   *)
(* is gated.                                                               *)
Gated(entry) == entry.minimum # "none"

CallTool(n, isAdmin) ==
  /\ pc = "serving"
  /\ \/ \* no such tool
        n \notin DOMAIN document.operations /\ ToolError(n, {"plain"})
     \/ \* submit raises, whatever it has to say, or returns no request id
        /\ n \in DOMAIN document.operations
        /\ \E text \in SUBSET Leaf : ToolError(n, text)
     \/ /\ n \in DOMAIN document.operations
        /\ Gated(document.operations[n]) /\ ~isAdmin
        /\ ApprovalRequired(n)
     \/ /\ n \in DOMAIN document.operations
        /\ ~Gated(document.operations[n]) \/ isAdmin
        /\ \E body \in Bodies : ResultContent(n, body)
  /\ UNCHANGED <<pc, document, tools>>

(* op_status of an operation of tool n: an interim phase with the last     *)
(* progress, or the whole body of the outcome.  It knows no tool, so it    *)
(* does not look whether it is an nsite's.  (The slip: no redaction.)      *)
OpStatusRaw(n) ==
  /\ pc = "serving"
  /\ n \in DOMAIN document.operations
  /\ \E body \in Bodies :
       Reply(n, "status", body.result \cup body.rest, None, FALSE)
  /\ UNCHANGED <<pc, document, tools>>

OpStatus(n) ==
  /\ pc = "serving"
  /\ n \in DOMAIN document.operations
  /\ \E body \in Bodies :
       Reply(n, "status", Redact(body.result \cup body.rest), None, FALSE)
  /\ UNCHANGED <<pc, document, tools>>

(* op_status of what is no operation id.                                   *)
OpStatusOfNothing ==
  /\ pc = "serving"
  /\ ToolError("op_status", {"plain"})
  /\ UNCHANGED <<pc, document, tools>>

(* mcp_status answers from the configuration, which holds no secret that   *)
(* it shows.                                                               *)
McpStatus ==
  /\ pc = "serving"
  /\ Reply("mcp_status", "call", {"plain"}, None, FALSE)
  /\ UNCHANGED <<pc, document, tools>>

-----------------------------------------------------------------------------
Next ==
  \/ Build
  \/ McpStatus \/ OpStatusOfNothing
  \/ \E n \in Name :
       \/ \E isAdmin \in BOOLEAN : CallTool(n, isAdmin)
       \/ OpStatus(n)

Spec == Init /\ [][Next]_vars

-----------------------------------------------------------------------------
(* The reply reports on an operation of the catalogue.                     *)
Replied == reply # None /\ reply.by # "error" /\ reply.tool \in Name

Entry(r) == document.operations[r.tool]

Shown(r) == r.text \cup (IF r.structured = None THEN {} ELSE r.structured)

(***************************************************************************)
(* README.md:45: redaction "strips secret-shaped values from results".  No *)
(* such value of what was published about an operation (its result, error, *)
(* rejection or progress) reaches a client, in the text or in the          *)
(* structured content, by the tool's call or by op_status, where the       *)
(* redaction package is there.  Of a ToolError's text it says nothing:     *)
(* that goes out as it is (server.py:111).                                 *)
(***************************************************************************)
SecretsRedacted ==
  Replied /\ PolicyInstalled => "secret" \notin Shown(reply)

(***************************************************************************)
(* The untrusted text of an nsite's operation is in no report on it that   *)
(* the call of its tool gives.                                             *)
(***************************************************************************)
NsiteCallsRedacted ==
  Replied /\ reply.by = "call" /\ Entry(reply).nsite =>
    "freeText" \notin Shown(reply)

(***************************************************************************)
(* server.py:314-318: manifest content and titles "are replaced with a     *)
(* marker before they can reach an MCP client's context".                  *)
(***************************************************************************)
NsiteTextNeverReachesClient ==
  Replied /\ Entry(reply).nsite => "freeText" \notin Shown(reply)
=============================================================================
