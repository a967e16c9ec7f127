--------------------------- MODULE HttpTransport ---------------------------
(***************************************************************************)
(* The streamable-HTTP transport (http.py, auth.py): requests of many      *)
(* clients, each in a task of its own on one event loop.  A task takes in  *)
(* the body chunk by chunk, verifies the NIP-98 credential of the whole,   *)
(* binds the signer to its context and runs the MCP app, in which a tool   *)
(* call reads the actor back (server.py:107, 267).                         *)
(*                                                                         *)
(* A body is abstracted to its length, so a credential "signs" a length.   *)
(***************************************************************************)
EXTENDS Naturals

CONSTANTS
  Request,
  Credential,    \* fresh, signed NIP-98 events
  Key,           \* client identities
  SignerOf,      \* the key that signed a credential
  SignedLength,  \* the body a credential was signed for
  Length,        \* lengths one chunk may have
  MaxBody,       \* MAX_REQUEST_BODY_BYTES
  Configured,    \* Config.actor_pubkey, or NoKey
  NoCredential,  \* no header, or one that is no fresh NIP-98 event
  NoKey, NoMessage, NoRequest

ASSUME HttpAssumption ==
  /\ SignerOf \in [Credential -> Key]
  /\ SignedLength \in [Credential -> Nat]
  /\ Length \subseteq Nat
  /\ MaxBody \in Nat
  /\ Configured \in Key \cup {NoKey}
  /\ NoKey \notin Key
  /\ NoCredential \notin Credential
  /\ NoMessage \notin [length : Length, more : BOOLEAN]
  /\ NoRequest \notin Request

VARIABLES
  phase,     \* where the request's task is
  header,    \* the credential in its Authorization header
  pending,   \* the chunk the client has sent and the task not yet received
  complete,  \* the client has sent its last chunk
  gone,      \* the client has closed the connection
  size,      \* bytes received
  kept,      \* bytes kept for the app
  status,    \* the HTTP status sent, 0 before
  ensured,   \* verifier and replay cache have been created: "no", "yes", or
             \* "missing" when nostrhost-auth cannot be imported
  used,      \* the credentials in the replay cache
  context,   \* the actor contextvar of the request's task
  actor,     \* whom the request's tool call acted for, NoKey before
  spinning   \* the request whose task never yields the event loop again

vars == <<phase, header, pending, complete, gone, size, kept, status, ensured,
          used, context, actor, spinning>>

Phase == {"idle", "reading", "app", "calling", "done"}

Messages == [length : Length, more : BOOLEAN]

TypeOK ==
  /\ phase \in [Request -> Phase]
  /\ header \in [Request -> Credential \cup {NoCredential}]
  /\ pending \in [Request -> Messages \cup {NoMessage}]
  /\ complete \in [Request -> BOOLEAN]
  /\ gone \in [Request -> BOOLEAN]
  /\ size \in [Request -> Nat]
  /\ kept \in [Request -> Nat]
  /\ status \in [Request -> {0, 200, 401, 413}]
  /\ ensured \in {"no", "yes", "missing"}
  /\ used \subseteq Credential
  /\ context \in [Request -> Key \cup {NoKey}]
  /\ actor \in [Request -> Key \cup {NoKey}]
  /\ spinning \in Request \cup {NoRequest}

Init ==
  /\ phase = [r \in Request |-> "idle"]
  /\ header = [r \in Request |-> NoCredential]
  /\ pending = [r \in Request |-> NoMessage]
  /\ complete = [r \in Request |-> FALSE]
  /\ gone = [r \in Request |-> FALSE]
  /\ size = [r \in Request |-> 0]
  /\ kept = [r \in Request |-> 0]
  /\ status = [r \in Request |-> 0]
  /\ ensured \in {"no", "missing"}
  /\ used = {}
  /\ context = [r \in Request |-> NoKey]
  /\ actor = [r \in Request |-> NoKey]
  /\ spinning = NoRequest

-----------------------------------------------------------------------------
(* The client: a request with or without a credential, its body in chunks, *)
(* and possibly its disappearance.                                         *)
Arrive(r, h) ==
  /\ phase[r] = "idle"
  /\ phase' = [phase EXCEPT ![r] = "reading"]
  /\ header' = [header EXCEPT ![r] = h]
  /\ UNCHANGED <<pending, complete, gone, size, kept, status, ensured, used,
                 context, actor, spinning>>

Send(r, message) ==
  /\ phase[r] = "reading"
  /\ pending[r] = NoMessage /\ ~complete[r] /\ ~gone[r]
  /\ pending' = [pending EXCEPT ![r] = message]
  /\ complete' = [complete EXCEPT ![r] = ~message.more]
  /\ UNCHANGED <<phase, header, gone, size, kept, status, ensured, used,
                 context, actor, spinning>>

Disconnect(r) ==
  /\ phase[r] \notin {"idle", "done"}
  /\ ~gone[r]
  /\ gone' = [gone EXCEPT ![r] = TRUE]
  /\ UNCHANGED <<phase, header, pending, complete, size, kept, status,
                 ensured, used, context, actor, spinning>>

-----------------------------------------------------------------------------
(* Nip98Auth._ensure keeps the replay cache it once created.  (The slip: a *)
(* new cache for every verification.)                                      *)
EnsuredAnew == {}

Ensured == IF ensured = "yes" THEN used ELSE {}

(* Without nostrhost-auth _ensure raises, now and every time.              *)
Ensure == ensured' = IF ensured = "missing" THEN "missing" ELSE "yes"

(* Nip98Auth.verify: a credential, for this body, not seen before.         *)
Verifies(h, total) ==
  /\ ensured # "missing"
  /\ h # NoCredential
  /\ SignedLength[h] = total
  /\ h \notin Ensured

LoopFree == spinning = NoRequest

(* receive() returns a chunk of the body.                                  *)
Receives(r) ==
  /\ LoopFree
  /\ phase[r] = "reading"
  /\ pending[r] # NoMessage /\ ~gone[r]
  /\ size' = [size EXCEPT ![r] = @ + pending[r].length]
  /\ pending' = [pending EXCEPT ![r] = NoMessage]
  /\ UNCHANGED <<header, complete, gone, actor, spinning>>

(* (The slip: returning without having sent a response.)                   *)
RefuseSilently(r, code) ==
  /\ phase' = [phase EXCEPT ![r] = "done"]
  /\ UNCHANGED status

Refuse(r, code) ==
  /\ phase' = [phase EXCEPT ![r] = "done"]
  /\ status' = [status EXCEPT ![r] = code]

(* (The slip of the size guard: the chunk counted after it is compared.)   *)
WithinCapSoFar(r) == size[r] <= MaxBody

WithinCap(r) == size[r] + pending[r].length <= MaxBody

Keep(r) == kept' = [kept EXCEPT ![r] = @ + pending[r].length]

ReceiveTooMuch(r) ==
  /\ Receives(r)
  /\ ~WithinCap(r)
  /\ Refuse(r, 413)
  /\ UNCHANGED <<kept, ensured, used, context>>

(* (The slip: reading on whatever a chunk says.)                           *)
ReceiveAnyPart(r) ==
  /\ Receives(r)
  /\ WithinCap(r)
  /\ Keep(r)
  /\ UNCHANGED <<phase, status, ensured, used, context>>

ReceivePart(r) ==
  /\ Receives(r)
  /\ WithinCap(r)
  /\ pending[r].more
  /\ Keep(r)
  /\ UNCHANGED <<phase, status, ensured, used, context>>

(* The contextvar of a task is its own.  (The slips: binding the identity  *)
(* as verified and not its key; a variable of the module.)                 *)
BindIdentity(r, h) == context' = [context EXCEPT ![r] = h]

BindGlobally(r, h) == context' = [s \in Request |-> SignerOf[h]]

Bind(r, h) == context' = [context EXCEPT ![r] = SignerOf[h]]

(* The last chunk: verification, with the replay cache, and what follows   *)
(* it up to the app's first await are one step of the loop.                *)
ReceiveLast(r) ==
  /\ Receives(r)
  /\ WithinCap(r)
  /\ ~pending[r].more
  /\ Keep(r)
  /\ Ensure

Admit(r) ==
  /\ ReceiveLast(r)
  /\ Verifies(header[r], kept'[r])
  /\ used' = Ensured \cup {header[r]}
  /\ Bind(r, header[r])
  /\ phase' = [phase EXCEPT ![r] = "app"]
  /\ UNCHANGED status

(* A credential that does not verify may have been recorded all the same,  *)
(* if there is a replay cache.                                             *)
(* (The slip: a loop that reads one chunk only.)                           *)
RefuseAfterOneChunk(r) ==
  /\ Receives(r)
  /\ WithinCap(r)
  /\ Keep(r)
  /\ ~Verifies(header[r], kept'[r])
  /\ Ensure
  /\ used' = Ensured
  /\ Refuse(r, 401)
  /\ UNCHANGED context

Recordable(h) == IF ensured = "missing" THEN {} ELSE {h} \ {NoCredential}

RefuseCredential(r) ==
  /\ ReceiveLast(r)
  /\ ~Verifies(header[r], kept'[r])
  /\ used' \in {Ensured, Ensured \cup Recordable(header[r])}
  /\ Refuse(r, 401)
  /\ UNCHANGED context

(* receive() returns http.disconnect, at once and every time it is called  *)
(* again: the loop goes round without ever suspending.                     *)
ReceiveDisconnect(r) ==
  /\ LoopFree
  /\ phase[r] = "reading"
  /\ gone[r]
  /\ spinning' = r
  /\ UNCHANGED <<phase, header, pending, complete, gone, size, kept, status,
                 ensured, used, context, actor>>

-----------------------------------------------------------------------------
(* The app runs a tool call, which reads its actor from the context.       *)
Call(r) ==
  /\ LoopFree
  /\ phase[r] = "app"
  /\ phase' = [phase EXCEPT ![r] = "calling"]
  /\ actor' = [actor EXCEPT ![r] =
                 IF context[r] = NoKey THEN Configured ELSE context[r]]
  /\ UNCHANGED <<header, pending, complete, gone, size, kept, status, ensured,
                 used, context, spinning>>

(* The app returns or raises; the contextvar is reset either way.          *)
Return(r) ==
  /\ LoopFree
  /\ phase[r] \in {"app", "calling"}
  /\ phase' = [phase EXCEPT ![r] = "done"]
  /\ status' = [status EXCEPT ![r] = 200]
  /\ context' = [context EXCEPT ![r] = NoKey]
  /\ UNCHANGED <<header, pending, complete, gone, size, kept, ensured, used,
                 actor, spinning>>

-----------------------------------------------------------------------------
Client(r) ==
  \/ \E h \in Credential \cup {NoCredential} : Arrive(r, h)
  \/ \E message \in Messages : Send(r, message)
  \/ Disconnect(r)

Task(r) ==
  \/ ReceiveTooMuch(r) \/ ReceivePart(r) \/ Admit(r) \/ RefuseCredential(r)
  \/ ReceiveDisconnect(r)
  \/ Call(r) \/ Return(r)

Next == \E r \in Request : Client(r) \/ Task(r)

Spec == Init /\ [][Next]_vars

(* The event loop runs every ready task; clients owe nothing.              *)
FairSpec == Spec /\ \A r \in Request : WF_vars(Task(r))

-----------------------------------------------------------------------------
Admitted(r) == phase[r] \in {"app", "calling"} \/ status[r] = 200

(***************************************************************************)
(* A credential admits one request, however the requests that carry it     *)
(* interleave (auth.py: "replay-protected").                               *)
(***************************************************************************)
AdmittedOnce ==
  \A r, s \in Request :
    Admitted(r) /\ Admitted(s) /\ header[r] = header[s] => r = s

(***************************************************************************)
(* A tool call acts for the key that signed its own request, never for a   *)
(* key of another request in flight nor for the configured actor.          *)
(***************************************************************************)
ActsForSigner ==
  \A r \in Request :
    actor[r] # NoKey => /\ header[r] # NoCredential
                        /\ actor[r] = SignerOf[header[r]]

(***************************************************************************)
(* A request is refused for a cause: a body over the cap; no credential, a *)
(* credential for another body than the client sent whole, or one that     *)
(* another request presented too; or the verifier is not installed, and    *)
(* then nobody is admitted (auth.py:29-33).                                *)
(***************************************************************************)
RefusedForCause ==
  /\ \A r \in Request :
       /\ status[r] = 413 => size[r] > MaxBody
       /\ status[r] = 401 =>
            /\ complete[r]
            /\ \/ header[r] = NoCredential
               \/ SignedLength[header[r]] # size[r]
               \/ \E s \in Request \ {r} : header[s] = header[r]
               \/ ensured = "missing"
  /\ ensured = "missing" => \A r \in Request : ~Admitted(r)

(***************************************************************************)
(* What is buffered stays within the cap at every moment, also of a body   *)
(* whose last chunk is the one too much; and what the app is given is what *)
(* the credential was signed for.                                          *)
(***************************************************************************)
BodyWithinCapAndSigned ==
  \A r \in Request :
    /\ kept[r] <= MaxBody
    /\ Admitted(r) => complete[r] /\ kept[r] = SignedLength[header[r]]

(***************************************************************************)
(* The inductive invariant behind the four properties above.  A request    *)
(* that is being read has kept what it received and done nothing else; one *)
(* that has been admitted runs under its signer's key; and the replay      *)
(* cache holds every credential that was admitted and only such as some    *)
(* request that is no longer being read presented.                         *)
(***************************************************************************)
ReadingInv(r) ==
  /\ phase[r] = "idle" =>
       header[r] = NoCredential /\ ~complete[r] /\ pending[r] = NoMessage
  /\ phase[r] \in {"idle", "reading"} =>
       /\ status[r] = 0 /\ actor[r] = NoKey
       /\ kept[r] = size[r] /\ kept[r] <= MaxBody
       /\ complete[r] => pending[r] = NoMessage \/ ~pending[r].more
  /\ pending[r] # NoMessage /\ ~pending[r].more => complete[r]

AdmittedInv(r) ==
  /\ phase[r] \in {"app", "calling"} => context[r] = SignerOf[header[r]]
  /\ Admitted(r) =>
       header[r] \in Credential /\ ensured = "yes" /\ header[r] \in used

CacheInv ==
  \A h \in used : \E r \in Request :
    header[r] = h /\ phase[r] \notin {"idle", "reading"}

IInv ==
  /\ TypeOK
  /\ \A r \in Request : ReadingInv(r) /\ AdmittedInv(r)
  /\ CacheInv
  /\ AdmittedOnce /\ ActsForSigner /\ RefusedForCause /\ BodyWithinCapAndSigned

(***************************************************************************)
(* Admission is what the transport promises.  The verdict on a request is  *)
(* in where its task is and in the status sent.                            *)
(***************************************************************************)
Verdict(r) == IF Admitted(r) THEN "admitted"
              ELSE IF status[r] = 0 THEN "none" ELSE "refused"

Promise ==
  INSTANCE Admission WITH
    verdict <- [r \in Request |-> Verdict(r)],
    by <- [r \in Request |-> IF Admitted(r) THEN header[r] ELSE NoCredential],
    acts <- actor

(* Reading, replay cache, context and app implement Admission.             *)
KeepsAdmission == Promise!Spec

(***************************************************************************)
(* Nothing but a client that goes away keeps a request from its answer:    *)
(* while its body, sent whole, is unread the last chunk waits to be        *)
(* received; when it has been received a response is sent or the app runs; *)
(* and the loop only stops for a client gone in the middle of its body.    *)
(***************************************************************************)
NothingElseStops ==
  /\ \A r \in Request :
       /\ complete[r] /\ phase[r] = "reading" =>
            pending[r] # NoMessage /\ ~pending[r].more
       /\ phase[r] = "done" => status[r] # 0
  /\ ~LoopFree => gone[spinning] /\ phase[spinning] = "reading"

(***************************************************************************)
(* A request whose body has been sent whole is answered, unless some       *)
(* client went away in the middle of its body.                             *)
(***************************************************************************)
AnsweredUnlessSpinning ==
  \A r \in Request : complete[r] ~> (status[r] # 0 \/ ~LoopFree)

(***************************************************************************)
(* What http.py:3 says, that it "verifies each request's" header: every    *)
(* request sent whole, by a client that stays, is answered.  A client of   *)
(* another request that goes away in the middle of its body prevents it.   *)
(***************************************************************************)
EachRequestVerified ==
  \A r \in Request : complete[r] ~> (status[r] # 0 \/ gone[r])
=============================================================================
