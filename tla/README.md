# A TLA+ development of nostrhost-mcp

`nostrhost-mcp` is a thin adapter between MCP clients (over stdio or streamable
HTTP) and the NostrHost operation model: a tool call becomes a signed kind-2200
request on the loopback control relay, and the answer is read off the chain of
events (2202 rejection, 2203 started, 2205 progress, 2204 result) that the
operations daemon publishes about it. This directory models the adapter, checks the
models with TLC and proves its main results with TLAPS.

## Inventory

| component | code | state | operations | modules |
|---|---|---|---|---|
| chain events | `client.py:23-34,75-107`, `server.py:180-197` | none (`Config.server_pubkey`, catalogue digest read at start) | verify, parse, classify an event | `ChainEvents` |
| tool calls | `server.py:43-50,99-117,143-255`, `client.py:63-73` | one coroutine, one or two worker threads and a queue per call; one event loop for all | call, submit, pump, get, answer, report progress, cancel, close | `ToolCalls`, `CallPromise` |
| HTTP transport | `http.py`, `auth.py` | buffered body, replay cache, actor contextvar | receive, authenticate, run the app, refuse | `HttpTransport`, `Admission` |
| launch configuration | `config.py`, `cli.py:15-51` | frozen `Config`; `operator.toml`, which others edit | launch, read each field, fail | `LaunchConfig` |
| registry and result translation | `registry.py`, `server.py:56-141,257-335` | the tool list, built once | load, advertise, gate, translate | `ToolContract` |
| secret and nsite redaction | `redaction.py`, `server.py:305-335` | none | redact | `ToolContract`; what is secret-shaped is an external package's matter |
| composition | `server.py`, `client.py`, `scripts/e2e_approval_proof.py`, `scripts/e2e_mutations_proof.py` | calls in progress, what clients know, admins and catalogue as read at start | call, poll, answer, cancel, restart | `Adapter`, `OperationService` |
| control plane | not in the repository (`yunohost.*`, relay, daemon) | operations, their chains, the admin set, the catalogue | request, approve, reject, execute, publish | `ControlPlane`, external |
| scripts | `scripts/` | none | drive a live node | as clients of `Adapter` and hands on `ControlPlane`; the rest is not modelled |

How they interact: `cli._build_server` loads a `Config`, builds one
`OperationClient` and one `NostrHostServer`. The transport calls `call_tool` as a
task per request. `call_tool` runs `OperationClient.submit` on a worker thread, and
`_typed_events` runs the blocking relay iterator on another one; the threads talk to
the coroutine through `loop.call_soon_threadsafe(queue.put_nowait, ...)`.
`_typed_events` filters with `verify_result_event`, and `_run_to_result` or
`_call_op_status` turn what is left into an answer.

What is hard: threads and coroutines interleave; the generator's `finally` waits for
a thread on the way out; a call is cancelled while it is suspended at any of its
awaits; the relay iterator may yield forged, unreadable, reordered events, end
early, or raise; catalogue, admin set and keys are read once while the daemon's
change. `PROJECT.json` lists these hazards at their lines.

What makes each component correct:

* chain events - only what the server signed is believed, with no server key nothing is;
* tool calls - an answer is decided by the events and not by scheduling; every
  call ends; nothing is left running; a call does not hold up another; a known
  outcome is reported at once;
* HTTP transport - a tool call acts for the key that signed its request; a
  credential is used once; the body that was signed is the body that is run; memory is bounded;
* launch configuration - explicit beats environment beats fork; a network-facing
  process never holds the operator key; a launch fails for a cause;
* registry and redaction - a tool's calls return what it advertises; no secret and no
  untrusted text of a result reaches a client by any way there is;
* composition - what a client is told of an operation is what the control plane did
  with it; nobody's operation is forgotten; who keeps polling learns of the outcome.

## Plan

1. `ChainEvents`, `ToolCalls`, `CallPromise` and their proofs (done).
2. `HttpTransport` - requests on one event loop, the replay cache, the actor
   contextvar - and its proofs (done).
3. `LaunchConfig` - one launch while `operator.toml` may change - and its proofs (done).
4. `ToolContract` - catalogue entry, advertised schema, approval gate, structured
   content and redaction - and its proofs (done).
5. `ControlPlane` (external) and `Adapter`, which composes it with calls that keep
   `CallPromise`, and its proofs (done).
6. `Admission` and `OperationService`, what the transport and the composition
   promise with nothing of how, and the proofs that they are implemented (done).
7. The proofs that no call waits in vain or runs for ever (done).

What could follow: the replay cache across a restart, were `nostrhost-auth`'s
eviction part of the repository; two calls at once in `adapter`, beyond TLC's reach
here and covered by the proofs for safety.

## Modules

**`ChainEvents`** is the reading of one event: `VerifyResultEvent` is
`OperationClient.verify_result_event`; `Skipped`, `Breaks` and `Yielded` are what
`_typed_events` does with an event (drops it, ends on an exception it swallows,
hands it on); `Terminal`, `ShowsExecution` and `Outcome` what its two callers do. An
event is a kind, whether its signature verifies, and the shape of its content.
What is a success is decided twice in the code, by truthiness in op_status
(`server.py:251`) and by `is True` in a call (`server.py:292,302`): `Outcome` takes
whether the call polls, and a body whose ok is 1 or "yes" is "truthy".

**`ToolCalls`** is the machine. Per call: `pc` (where the coroutine is suspended:
`submit` and `drain` are awaits on a thread, `get` is `queue.get`, `report` is
`report_progress`, `unwind` is a `CancelledError` on its way out), `worker` (the
thread of `_run_blocking`), `log`/`head`/`sentinel` (the queue, kept whole),
`latest` (op_status), `answer`, `closing` (the task that closes an abandoned
generator). `stalled` is the call whose `executor.shutdown(wait=True)` holds the
event loop; while it is set no coroutine takes a step.

| action | code |
|---|---|
| `CallLocal`, `CallOpStatus`, `CallOperation` | `call_tool`, `_call_op_status` up to their first await |
| `SubmitReturns` / `ResumeAfterSubmit` | the worker's `submit` / `call_tool` from line 110 on |
| `PumpEvent`, `PumpEnds` | the thread's `pump`, with its `finally` |
| `GetSkipped`, `GetBreaks`, `StreamInterim`, `StatusInterim`, `GetTerminal`, `GetSentinel` | one turn of `_typed_events` and of the loop over it |
| `Reported`, `ReportRaises` | `report_progress` returns or raises |
| `Drained`, `Closed` | the generator's `finally`, in the call or in its own task |
| `CancelAt...`, `ShutdownReturns`, `Unwound` | cancellation |

Three facts of asyncio are modelled as they are: leaving `async for` by `return`
does not run the generator's `finally` in the call but in a task of its own; a
cancelled `queue.get` still runs that `finally`, which awaits the producer; and a
`CancelledError` inside `_run_blocking` blocks the loop in `shutdown`.

**`CallPromise`** is the abstract specification: a log per call, whether it is over,
and one answer, read off the log. `Adapter` is built from its steps, and in turn
implements `OperationService`. **`DocumentedCalls`** holds statements of the
repository that the code does not keep.

**`HttpTransport`** is the middleware. Per request: `phase` (its task is taking in
the body, in the app, in a tool call, done), `header` (the credential it carries),
`pending`/`complete`/`gone` (what its client has sent or done), `size`/`kept` (bytes
counted and bytes appended to `chunks`), `status`, `context` (the contextvar of its
task), `actor` (whom its tool call acted for). Shared: `ensured` and `used`, the
lazily created replay cache, or the lack of `nostrhost-auth` ("missing", as long as the
process lives: then `_ensure` raises every time), and `spinning`, the request whose task has taken the
event loop for good. A body is its length, a credential the key and the length it
was signed for; method, URL and time are part of whether a credential verifies at
all.

| action | code |
|---|---|
| `Arrive`, `Send`, `Disconnect` | the client, through the ASGI server |
| `ReceivePart`, `ReceiveTooMuch` | one turn of the loop at `http.py:37-48`; the 413 |
| `Admit`, `RefuseCredential` | the last chunk: no await stands between it and the app's first, so `Nip98Auth.verify` and `actor_context.set` are one step |
| `ReceiveDisconnect` | `http.py:39-40` on a client that went away |
| `Call` | `actor_context.get() or actor_pubkey` (`server.py:107`, `267-275`) |
| `Return` | the app returns or raises; `actor_context.reset` |

External and assumed: the MCP application runs a request's tool call in a copy of
the context the request reached it with, as the comment at `server.py:38-39` relies
on; the verifier records the credentials it accepts, and may record one it refuses;
the ASGI server answers `http.disconnect` without suspending once the client is
gone.

**`Admission`** is the abstract specification of the transport: a request is given
one verdict, a credential admits one request, and an admitted request acts for the
key that signed the credential. It has no chunks, no cache and no context; the
refinement mapping (`Promise` in `HttpTransport`) reads the verdict off `phase` and
`status`, the credential off `header`.

**`LaunchConfig`** is one launch after another of a unit with given flags and
environment, on a host with a given fork. `pc` is the field that `load_config` is
about to settle, or "building"; `config` what it has settled, `file` what
`operator.toml` holds, `seen` all it could be read as while `load_config` ran (a
history variable), `daemon` what the operations daemon runs with. `ReadKey`,
`ReadServerKey` and `ReadAdmins` are the three places where the file may be read;
`Edit` and `RestartDaemon` are others' doing and may come between them. `Build` is
`cli.py:28-29`: client and server load the fork and its catalogue, which may be
absent or unfit although `load_config`, given key and relay, did without. A fork
that is a source tree cannot be read through by `load_config`, since the alias for it
is made by the client (`AsRead`), and serves `Build` all the same.

**`ToolContract`** is a server from its catalogue to its replies. `document` is what
`operation_catalog()` returned, `tools` what `list_tools` answers, `reply` the last
`CallToolResult`. A JSON value is the set of the kinds of leaf found anywhere in it:
a secret-shaped value, a string under one of the four keys of untrusted nsite text,
the marker that replaces one, or anything else. Redaction visits every leaf of dicts
and lists, so nothing else of a value matters to it.

| action | code |
|---|---|
| `Build` | `load_catalog` refuses the document, or `_rebuild_tools` (`tool_meta`, `local_helper_tools`) |
| `CallTool` | `call_tool`: a `ToolError` for an unknown tool, a submit that raises or one without a request id; `_approval_required`; or `_result_content` of any body `_run_to_result` may hand it |
| `OpStatus`, `OpStatusOfNothing`, `McpStatus` | the reply of `_call_op_status`, its error, and the reply of `_call_mcp_status` |

Nothing ties a signed body to the catalogue's schema: a result that is ok need not be
an object, and its reply then has no structured content. A tool error goes out as
submit worded it, without redaction (`server.py:111`).

**`ControlPlane`** is external: what becomes of an operation (`state`), the events the
relay holds about it (`chain`), who administers (`admins`), which catalogue the
daemon has. `Request` to `Finish` are the daemon's, `Approve` and `Reject` are
`nostr-opctl`'s (an approval of an owner-gated operation by another administrator is
ignored, as `e2e_approval_proof.py:332-345` checks), `Deny` is the failure of an
actor without the scope (`e2e_mutations_proof.py:131-140`), `AddAdmin` is
`ensure_second_admin`, `Upgrade` another catalogue digest, `Forge` a local process.
It publishes no unreadable event of its own, and a boolean for ok; other events are
`ToolCalls`' matter.

**`Adapter`** composes the two. Each slot of `Call` holds a call in progress or just
answered, and is used again. `stage` is how far `call_tool` has got, `log`, `over`
and `answer` are `CallPromise`'s, stepped by its `Deliver` and `End`. `told` is what
clients have been told of each operation, `lost` the operations whose call ended
without an answer that names them, `known` the admins and catalogue read at start.
`owed` and `drifted` are history: what the relay held when a call's stream began,
and the operations that awaited approval while adapter and daemon had other admins.

| action | code |
|---|---|
| `CallOperation`, `Publish`, `SubmitFails` | `call_tool` up to line 114; a submit may raise before or after it published |
| `Boundary`, `StreamOperation` | `call_tool:115-117`, `_actor_is_admin` |
| `CallStatus` | a client that has the id calls `op_status`, as `poll_terminal` does |
| `Deliver`, `EndStream`, `BreakOff` | the relay iterator: held and new events in any order, its timeout, an exception |
| `AnswerOutcome`, `AnswerInterim` | what `CallPromise` lets the call say, which `ToolCalls` implements |
| `Cancel`, `Restart` | the call is cut short; the process is stopped and started, and reads admins and catalogue anew |

That a `Deliver` yields each event once, and all that was held before the timeout, is
what `NostrMCPAdapter.events` is relied on for; `BreakOff` is where it fails.

**`OperationService`** is the abstract specification of the composition, with no
chains, calls or polls: an operation meets one fate, and a client is told an outcome
only when it is the operation's. Its `told` is `Adapter`'s; its `fate` is read off
the control plane's `state` (`FateOf`).

## Runs

| run | question | bounds |
|---|---|---|
| `tool_calls` | do two calls, in every interleaving with their threads and with cancellation, answer what their own logs say, and never contradict each other? is `IInv` invariant? does anyone wait in vain, is a thread unattended, does every step bring a call nearer to its end? does every call end, leaving nothing behind? | 2 calls, 4 event classes, 2 events each |
| `one_call` | does one call implement `CallPromise` on events of every class? is a queued outcome answered even if the iterator never ends? | 1 call, 11 event classes, 3 events |
| `doc_loop`, `doc_rejection`, `doc_status` | the disagreements below | 1 or 2 calls, 2 events |
| `http_transport` | who is admitted, refused and acted for? is `IInv` invariant? does this implement `Admission`? what can stop a request, and is every one that was sent whole answered? | 2 requests, 2 credentials of 2 keys, chunks of 1 or 2 bytes, cap 2 |
| `launch_config` | what does a process run with, and why does a launch fail? | 5184 combinations of what is given, four kinds of fork among it, 3 states of the file |
| `doc_http`, `doc_drift` | the disagreements below | as above |
| `tool_contract` | is what a tool reports on an operation redacted, by whatever way? | 1 or 2 tools, 3 approval floors, 4 kinds of leaf, every body |
| `doc_nsite` | the disagreement below | as above |
| `adapter` | are answers true and not behind, is approval_required true, which operations are orphaned, do calls, polls and restarts implement `OperationService`, who learns of the outcome? | 1 operation gated on an admin, 1 slot, 2 keys, 1 upgrade, 1 fault, 1 forged result |

Two calls suffice for interleaving: calls share nothing but the loop, so a third
adds nothing that one other call cannot do. Two events are one that the call reads
and one that comes after it; three let two interim events precede the one that
settles it. `MaxEvents` bounds the length of a stream and nothing else. Two requests
are the one that is harmed and the one that harms it, by its credential, its context
or its disconnection; chunks of 1 and 2 reach a cap of 2 exactly, pass it by one on
the last chunk or an earlier one, and fall short of it. An operator's file before
and after an edit, and no file, are all that a field read can tell apart. No run uses
symmetry. The catalogue of `tool_contract` has an nsite's tool under every floor,
without an input schema, and one of another kind with one.

`adapter` has one slot, and calls follow each other in it: the call that asks for the
operation, and any number of polls. A second slot makes the state space more than ten times as
large; calls in different slots share nothing but what clients were told and the
operation itself, and the safety properties are proved for any number of operations
and slots. `MaxFaults` counts restarts, cancelled calls and broken streams, one of
which is enough to lose an answer or to miss an event; `MaxCatalogue` allows one
upgrade, after which adapter and daemon differ until a restart; the operation's
actor is a key that may become an admin at any time, in the daemon first. An
operation with no floor is one whose actor is an admin from the start, as far as the
adapter is concerned: both are streamed.

Fairness: `LoopFairness` - asyncio runs every ready callback, and a client takes its
progress notifications; `ThreadFairness` - a submit to the loopback relay returns
and the relay iterator ends ("contractually finite", `server.py:201-202`). Nobody
must call, cancel or publish. `EndlessIteratorSpec` drops `ThreadFairness`.
`FairSpec` of `HttpTransport` is the event loop alone: each task that can step does,
clients owe nothing. `FairSpec` of `Adapter`: a call that streams goes on (what
`EveryCallEnds` shows), and a client that has the id polls until it is told an
outcome, as `poll_terminal` does and the server's instructions ask for
(`server.py:62-69`); strongly fair, since a poll waits for a slot. Nobody has to
ask, approve, reject, execute, cancel or restart. `CHECK_DEADLOCK FALSE`: the
system stops when all calls or requests are over, a task spins, no catalogue could
be loaded, or nobody asks for anything.

What is excepted in the properties, and why: `BoundaryIsTrue` leaves out the
operations in `drifted`, `PollingLearns` those of which, from some time on for good,
the adapter has genuine results that it cannot read, made under another catalogue
than its own; both are disagreements listed below. `NoAnswerTakenBack` lets a call
and a poll part on a success and a failure where a result's ok is truthy and not
True. `SecretsRedacted` speaks of reports on an operation, and so not of a
`ToolError`: the repository's README (45) speaks of results. `FailsForCause` ends with
the server that `_build_server` returns: that a port is free is no part of it.

`EveryCallEnds` says that each call is idle or over again and again; since a call that
has begun is never idle again, that is to say that it ends.

Disagreements the runs show (`findings` in `PROJECT.json`): a cancelled call stalls
the event loop while its thread is at the relay (`doc_loop`); a rejection whose
content is not an object is answered as pending (`doc_rejection`); op_status never
returns a result made under another catalogue (`doc_status`); a client that goes
away in the middle of its body stops the event loop, and no other request is
verified any more (`doc_http`; `AnsweredUnlessSpinning` shows that nothing else does
that); the running adapter's admins drift from the daemon's once `operator.toml` is edited and
the daemon restarted (`doc_drift`); the untrusted text
of an nsite, redacted in the reply to its tool, reaches the client that collects the
result through op_status (`doc_nsite`).

More have no run of their own:

* an event of an unknown kind does not end iteration, as `server.py:151-153` says it
  does (`Yielded`, `Breaks`);
* a launch that is given its keys but no relay fails where `operator.toml` cannot be
  read (`ForkFails`), although `cli.py:113` names a default;
* the unit serves HTTP, for which `load_config` raises unless an agent key is given
  (`config.py:96`, `AgentKeyMissing`), although the repository's README (94-95) says
  that it reads `operator.toml` for its key;
* `nostrhost-mcp list-tools` (the repository's README, 72-73) iterates over the keys
  of the catalogue document (`cli.py:36`), and `tool_meta` raises TypeError on one;
* `tool_meta` takes an entry without an approval floor for "none" (`registry.py:60`),
  `call_tool` for a gate (`server.py:115`): it advertises a schema that the boundary's
  reply does not keep (`AdvertisedFloor`, `Gated`), which `server.py:86-88` would
  avoid. The fork's catalogue is expected to state one (`tests/test_registry.py:174`);
* with the fork only a source tree at `NOSTRHOST_FORK_SRC` (`registry.py:22-24`),
  `load_config` finds no `operator.toml`: the alias is made after it (`AsRead`);
* a signed result whose ok is 1 is SUCCEEDED by op_status and an error by the call
  (`Outcome`);
* op_status's description (`registry.py:74`) lists a phase APPROVED that it never
  reports, and not REJECTED, which it does; an operation that does not exist, and
  one whose stream failed, are both REQUESTED.

## Proofs

`ToolCallsProofs` proves, for any set of calls and events and any `MaxEvents`:

* `TypeCorrect`: `Spec => []TypeOK`;
* `AnswersFollowLogs`: `Spec => []AnswerFollowsLog`;
* `AnswersStand`: `Spec => []NoAnswerTakenBack`. Two calls of any tools whose
  iterators yielded the same events, one of them perhaps more, do not contradict
  each other, but for a call and a poll of a truthy ok: the first event that settles a log stays the first (`LongerLogs`), and
  there is one (`FirstSettles`);
* `ImplementsPromise`: `Spec => KeepsPromise`.

They rest on `CallAssumption` only. `AnswerFollowsLog` is not inductive: that the
answer a call gives is right depends on what it has read before. `IInv` adds, per
call, how far it has read (`QueueInv`, `FreshInv`), that nothing it has read settled
it while it is still reading (`ReadingInv`), that op_status's phase is the one read
so far (`LatestInv`), and that a call answers once (`AnsweredInv`). `InvNext` has
one step per action; `Frame` disposes of the other calls. `PromiseNext` maps the
pump's steps to `Deliver` and `End`, the answering steps to one of the promise's
answers, and all others to stuttering.

`ToolCallsProgressProofs` proves what a call's end rests on, short of fairness, for
any set of calls and any `MaxEvents`:

* `WaitsAreNotInVain`: `Spec => []NobodyWaitsInVain`. Whatever a coroutine, the task
  that closes a generator or a stalled event loop waits for is there already, or a
  thread that runs will bring it; and a running thread waits for neither;
* `ThreadsAreAttended`: `Spec => []NoThreadUnattended`;
* `StepsAreProgress`: `Spec => EveryStepIsProgress`. `Left` is a variant: the awaits,
  the thread and the closing task a call has before it (`WaitsLeft`), and the events
  still to be published and read (`EventsLeft`). Every step lowers one call's by at
  least one, never below zero, and leaves the others' alone.

Together: a call takes finitely many steps and never stands where no step can come,
so it ends as long as threads and loop go on running; `EveryCallEnds` adds no more
than that fairness, and is left to TLC. The two invariants hold by one `PInv`: what
the coroutine waits for, the thread and its sentinel agree, per call (`WaitInv`). It
is inductive with `IInv`, from which it takes that a suspended call has not
answered yet. `StepProgresses` has one step per action; `OneStep` disposes of the other
calls.

`HttpTransportProofs` proves, for any requests, credentials, chunk lengths and cap,
from `HttpAssumption`: `HttpTypeCorrect`, `CredentialsAdmitOnce` (`AdmittedOnce`),
`CallsActForSigner` (`ActsForSigner`), `RefusalsHaveCauses` (`RefusedForCause`) and
`BodiesAreSigned` (`BodyWithinCapAndSigned`). Each needs the others' groundwork, hence one `IInv`: a
request that is still being read has done nothing but keep what it received
(`ReadingInv`); one in the app runs under its signer's key, and its credential is in
the cache (`AdmittedInv`), which is why a second request with it is refused; and
what is in the cache was presented by a request no longer being read (`CacheInv`),
which is why a refusal has a cause.

On that `IInv` rest two more. `OnlyDisconnectsStop` proves `[]NothingElseStops`, with
`NotYetActed` (a request before its tool call has acted for nobody) in one `StopInv`. `ImplementsAdmission` proves `Spec => KeepsAdmission`: taking in the last
chunk maps to `Admit` or `Refuse`, the chunk over the cap to `Refuse`, a tool call to
`Act`, and all else to stuttering (`AdmissionNext`). That `Admit` may not use a
credential twice is where the cache is needed; that `Act` acts for the credential's
signer, the context.

`LaunchConfigProofs` proves, for any launch, keys and file contents, from
`LaunchAssumption`: `LaunchTypeCorrect`, `HttpHoldsAgentKey`
(`NoOperatorKeyOverHttp`), `FieldsSettled` (`FieldsFromFirstSource`) and
`FailuresHaveCauses` (`FailsForCause`). The invariant says, per field already
settled, what the file was read as for it (`SettledInv`); `FirstOfTwo` to `FirstOfFour`
relate a chain of Python's `or` to the first source given.

`ToolContractProofs` proves, for any catalogue, from `ContractAssumption`:
`ContractTypeCorrect`, `SecretsStay` (`SecretsRedacted`) and `NsiteTextStays`
(`NsiteCallsRedacted`). The invariant says that the tools served are those of the
document, and that whatever is not a tool error is about one of them; `PayloadRedacted` is the lemma on what the two redactions
leave, one of which could have undone the other.

`AdapterProofs` proves, for any operations, slots, keys, floors, forged events and
bounds, from `ControlPlaneAssumption`, `AdapterAssumption` and `ServerKeyAssumption`:

* `AdapterTypeCorrect`: `Spec => []TypeOK`;
* `AnswersTrue`: `Spec => []AnswersAreTrue`. `Truth` is inductive: every genuine event
  the relay holds, every one a call has read and every answer given says what is so
  of the operation (`ChainIsTrue`, `LogIsTrue`, `ToldIsTrue`), and stays so however
  it moves on (`TruthStays`);
* `BoundaryTrue`: `Spec => []BoundaryIsTrue`. `BoundaryInv` relates the approval, the
  answer and the call between them by the two admin sets;
* `NoOtherOrphans`: `Spec => []OrphansNeedLoss`, inductive beside `Truth`;
* `StatusNeverBehind`: `Spec => StatusKeepsUp`. `KeepUpInv` adds that the relay holds
  at most one genuine event that ends an operation and that nothing is read after
  one that settles the call; so a call that says it has read no outcome has read all
  that was held (`PhaseMissesNothing`).

`ServiceProofs` proves `ImplementsService`: `Spec => KeepsService`, under the same
assumptions. The daemon's steps map to those of a fate, an answer that names an
outcome to `Tell`, which may say only what is so: that is `Truth`. It needs one
invariant more (`PollsHaveIds`): who polls has been told the operation's id. From
the abstract specification's own `OneOutcome` follows `OutcomesAgree`: no two
clients, by whatever call, are told different outcomes of an operation, since the
daemon signs a boolean for ok.

`OpSteps` and `TruthOpStep` treat the daemon's steps alike, so that the invariants'
proofs have one case for them all.

Only model-checked: liveness, since fairness and ENABLED are beyond the prover -
`EveryCallEnds`, `NothingLeftRunning`, `LoopRecovers`, `AnswersWithoutDelay`,
`AnsweredUnlessSpinning`, `PollingLearns`. Of the first three and of
`AnsweredUnlessSpinning`, all but the fairness is proved (`EveryStepIsProgress`,
`NobodyWaitsInVain`, `NothingElseStops`). The disagreements are shown by TLC alone: one
behaviour is enough for each. No safety property that a passing run checks is
without a theorem.

## Not modelled

The wording and layout of answers; the MCP SDK's own session handling; the signature
scheme; process exit; the argument parser and the Host allow-list handed to the SDK
(`cli.py:54-128`); the relay's value and the event timeout; which values are secret-shaped; a restart that
forgets the replay cache, whose eviction is `nostrhost-auth`'s. Of the scripts, what
prepares a node and prints a report; `nip86_allow.py`, one signed request to the
relay's administration. Of the control plane, scopes and grants: an actor without the
scope is the choice of `Deny`.
