------------------------- MODULE ToolContractProofs -------------------------
(* Proofs about ToolContract, for any catalogue and operation names.       *)
EXTENDS ToolContract, TLAPS

(***************************************************************************)
(* The inductive invariant: a server serves what it generated from its     *)
(* catalogue, and the last reply was made by a server that serves, about a *)
(* tool it has unless it is an error.                                      *)
(***************************************************************************)
ServedInv ==
  /\ pc = "serving" =>
       tools = [n \in Served(document) |->
                  IF n \in Helper THEN HelperTool
                  ELSE Advertised(document.operations[n])]
  /\ reply # None => pc = "serving"
  /\ reply # None /\ reply.by # "error" => reply.tool \in Served(document)

ContractInv == TypeOK /\ ServedInv /\ SecretsRedacted /\ NsiteCallsRedacted

-----------------------------------------------------------------------------
(* The entries of a catalogue have the type of an entry.                   *)
LEMMA EntryType ==
  ASSUME document \in Document, NEW n \in DOMAIN document.operations
  PROVE  n \in Name /\ document.operations[n] \in Entries
BY ContractAssumption

(* Redaction keeps a value one, and takes out what it is there to take out.*)
LEMMA MarkRemoves ==
  ASSUME NEW value \in SUBSET Leaf, NEW kind \in {"secret", "freeText"}
  PROVE  /\ Mark(value, kind) \in SUBSET Leaf
         /\ kind \notin Mark(value, kind)
         /\ \A other \in {"secret", "freeText"} :
              other \notin value => other \notin Mark(value, kind)
BY DEF Mark, Leaf

LEMMA RedactType ==
  ASSUME NEW value \in SUBSET Leaf
  PROVE  /\ Redact(value) \in SUBSET Leaf
         /\ PolicyInstalled => "secret" \notin Redact(value)
BY MarkRemoves DEF Redact

LEMMA PayloadRedacted ==
  ASSUME NEW value \in SUBSET Leaf, NEW entry \in Entries
  PROVE  /\ RedactPayload(value, entry) \in SUBSET Leaf
         /\ PolicyInstalled => "secret" \notin RedactPayload(value, entry)
         /\ entry.nsite => "freeText" \notin RedactPayload(value, entry)
BY MarkRemoves, RedactType DEF RedactPayload, RedactNsite

-----------------------------------------------------------------------------
(* What any reply must be for the invariant to hold after it.              *)
GoodReply(r) ==
  /\ r \in Replies
  /\ r.by # "error" =>
       /\ r.tool \in Served(document)
       /\ PolicyInstalled => "secret" \notin Shown(r)
  /\ r.by = "call" /\ r.tool \in Name
     /\ document.operations[r.tool].nsite => "freeText" \notin Shown(r)

LEMMA ErrorsAreReplies ==
  ASSUME NEW n \in Name \cup Helper, NEW text \in SUBSET Leaf,
         ToolError(n, text)
  PROVE  GoodReply(reply')
BY DEF ToolError, Reply, GoodReply, Replies

LEMMA RepliesAreGood ==
  ASSUME TypeOK, ServedInv, pc = "serving",
         UNCHANGED <<pc, document, tools>>, GoodReply(reply')
  PROVE  ContractInv'
<1> USE ContractAssumption
<1>1. reply' # None
  BY DEF GoodReply
<1>2. TypeOK' /\ ServedInv'
  BY <1>1 DEF TypeOK, ServedInv, GoodReply
<1>3. SecretsRedacted' /\ NsiteCallsRedacted'
  BY <1>1 DEF SecretsRedacted, NsiteCallsRedacted, GoodReply, Replied, Entry,
              Shown
<1> QED
  BY <1>2, <1>3 DEF ContractInv

LEMMA ContractInvNext == ContractInv /\ [Next]_vars => ContractInv'
<1> SUFFICES ASSUME ContractInv, [Next]_vars PROVE ContractInv'
  OBVIOUS
<1> USE ContractAssumption
<1>1. CASE Build
  <2>1. reply = None
    BY <1>1 DEF Build, ContractInv, ServedInv
  <2>2. \A n \in DOMAIN document.operations :
          Advertised(document.operations[n])
            \in [input : {"given", "default"}, output : {"success", None}]
    BY DEF Advertised
  <2>3. TypeOK'
    BY <1>1, <2>1, <2>2, EntryType
       DEF Build, ContractInv, TypeOK, Served, HelperTool
  <2> QED
    BY <1>1, <2>1, <2>3
       DEF Build, ContractInv, ServedInv, SecretsRedacted,
           NsiteCallsRedacted, Replied
<1>2. CASE McpStatus
  <2>1. GoodReply(reply')
    BY <1>2 DEF McpStatus, Reply, GoodReply, Replies, Served, Helper, Leaf, Shown
  <2> QED
    BY <1>2, <2>1, RepliesAreGood DEF McpStatus, ContractInv
<1>3. ASSUME NEW n \in Name, NEW isAdmin \in BOOLEAN, CallTool(n, isAdmin)
      PROVE  ContractInv'
  <2> DEFINE entry == document.operations[n]
  <2>1. n \in DOMAIN document.operations =>
          n \in Served(document) /\ entry \in Entries
    BY EntryType DEF Served, ContractInv, TypeOK
  <2>2. ASSUME n \in DOMAIN document.operations, ApprovalRequired(n)
        PROVE  GoodReply(reply')
    <3>1. reply' = [tool |-> n, by |-> "call", text |-> {"plain"},
                    structured |-> None, isError |-> FALSE]
      BY <2>2 DEF ApprovalRequired, Reply
    <3>2. reply' \in Replies
      BY <3>1 DEF Replies, Leaf
    <3> QED
      BY <2>1, <2>2, <3>1, <3>2 DEF GoodReply, Shown
  <2>3. ASSUME n \in DOMAIN document.operations,
               NEW body \in Bodies, ResultContent(n, body)
        PROVE  GoodReply(reply')
    <3>1. body.result \in SUBSET Leaf /\ body.rest \in SUBSET Leaf
      BY DEF Bodies
    <3>2. body.ok \in BOOLEAN
      BY DEF Bodies
    <3> DEFINE text == RedactPayload(body.result \cup body.rest, entry)
               content == RedactPayload(body.result, entry)
    <3>3. /\ text \in SUBSET Leaf
          /\ PolicyInstalled => "secret" \notin text
          /\ entry.nsite => "freeText" \notin text
      BY <2>1, <2>3, <3>1, PayloadRedacted
    <3>4. /\ content \in SUBSET Leaf
          /\ PolicyInstalled => "secret" \notin content
          /\ entry.nsite => "freeText" \notin content
      BY <2>1, <2>3, <3>1, PayloadRedacted
    <3>5. reply' = [tool |-> n, by |-> "call", text |-> text,
                    structured |-> IF body.ok /\ body.object THEN content
                                                             ELSE None,
                    isError |-> ~body.ok]
      BY <2>3 DEF ResultContent, Reply
    <3> HIDE DEF text, content
    <3> QED
      BY <2>1, <2>3, <3>2, <3>3, <3>4, <3>5 DEF GoodReply, Replies, Shown
  <2>4. ASSUME NEW text \in SUBSET Leaf, ToolError(n, text)
        PROVE  GoodReply(reply')
    BY <2>4, ErrorsAreReplies
  <2>5. GoodReply(reply')
    BY <1>3, <2>2, <2>3, <2>4 DEF CallTool, Leaf
  <2> QED
    BY <1>3, <2>5, RepliesAreGood DEF CallTool, ContractInv
<1>4. ASSUME NEW n \in Name, OpStatus(n)
      PROVE  ContractInv'
  <2>1. n \in Served(document)
    BY <1>4 DEF OpStatus, Served
  <2>2. PICK body \in Bodies :
          Reply(n, "status", Redact(body.result \cup body.rest), None, FALSE)
    BY <1>4 DEF OpStatus
  <2>3. body.result \cup body.rest \in SUBSET Leaf
    BY DEF Bodies
  <2>4. GoodReply(reply')
    BY <2>1, <2>2, <2>3, RedactType DEF Reply, GoodReply, Replies, Shown
  <2> QED
    BY <1>4, <2>4, RepliesAreGood DEF OpStatus, ContractInv
<1>5. CASE OpStatusOfNothing
  <2>1. GoodReply(reply')
    BY <1>5, ErrorsAreReplies DEF OpStatusOfNothing, Helper, Leaf
  <2> QED
    BY <1>5, <2>1, RepliesAreGood DEF OpStatusOfNothing, ContractInv
<1>6. CASE UNCHANGED vars
  BY <1>6
     DEF vars, ContractInv, TypeOK, ServedInv, SecretsRedacted,
         NsiteCallsRedacted, Replied, Entry, Shown
<1> QED
  BY <1>1, <1>2, <1>3, <1>4, <1>5, <1>6 DEF Next

LEMMA ContractInvariant == Spec => []ContractInv
<1>1. Init => ContractInv
  BY ContractAssumption
     DEF Init, ContractInv, TypeOK, ServedInv, SecretsRedacted,
         NsiteCallsRedacted, Replied
<1> QED
  BY <1>1, ContractInvNext, PTL DEF Spec

-----------------------------------------------------------------------------
(* Every variable keeps its type: every tool is served with an input       *)
(* schema, and every reply is a CallToolResult (registry.py:58).           *)
THEOREM ContractTypeCorrect == Spec => []TypeOK
BY ContractInvariant, PTL DEF ContractInv

(* Redaction (server.py:255, 290, 306-311) leaves no secret in a report on *)
(* an operation, of its call or of op_status, in its text or its           *)
(* structured content.                                                     *)
THEOREM SecretsStay == Spec => []SecretsRedacted
BY ContractInvariant, PTL DEF ContractInv

(* Nor any untrusted text of an nsite in what the call of its tool reports *)
(* (server.py:306-335).                                                    *)
THEOREM NsiteTextStays == Spec => []NsiteCallsRedacted
BY ContractInvariant, PTL DEF ContractInv
=============================================================================
