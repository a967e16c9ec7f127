---------------------------- MODULE ControlPlane ----------------------------
(***************************************************************************)
(* The control plane the adapter talks to: the operations daemon and the   *)
(* control relay, which are not part of the repository.  They are modelled *)
(* from what the adapter relies on and what the scripts do to them and     *)
(* check of them: what becomes of a requested operation, which events are  *)
(* published about it, and who decides.                                    *)
(*                                                                         *)
(* An operation is identified with the request that asks for it.           *)
(***************************************************************************)
EXTENDS ChainEvents

CONSTANTS
  Operation,
  Key,           \* actors and administrators
  Owner,         \* the node's owner, always an administrator
  Actor,         \* on whose behalf an operation is requested
  Floor,         \* its approval floor
  MaxCatalogue   \* bound: upgrades of the daemon's catalogue

ASSUME ControlPlaneAssumption ==
  /\ Owner \in Key
  /\ Actor \in [Operation -> Key]
  /\ Floor \in [Operation -> {"none", "admin", "owner"}]
  /\ MaxCatalogue \in Nat

VARIABLES
  state,      \* what has become of each operation
  chain,      \* the events the relay holds about it
  automatic,  \* the operations approved without anybody's approval
  admins,     \* the administrators of operator.toml, as the daemon has them
  catalogue   \* the version of the daemon's catalogue

planeVars == <<state, chain, automatic, admins, catalogue>>

States == {"none", "requested", "approved", "executing",
           "succeeded", "failed", "rejected"}

(* An event; a result with the catalogue it was made under.                *)
Publications ==
  {p \in [kind : Kinds, signed : BOOLEAN,
          body : UNION {Bodies[k] : k \in Kinds},
          catalogue : 0..MaxCatalogue] : p.body \in Bodies[p.kind]}

PlaneTypeOK ==
  /\ state \in [Operation -> States]
  /\ chain \in [Operation -> SUBSET Publications]
  /\ automatic \subseteq Operation
  /\ admins \subseteq Key
  /\ catalogue \in 0..MaxCatalogue

PlaneInit ==
  /\ state = [o \in Operation |-> "none"]
  /\ chain = [o \in Operation |-> {}]
  /\ automatic = {}
  /\ admins \in {S \in SUBSET Key : Owner \in S}
  /\ catalogue = 0

-----------------------------------------------------------------------------
(* The operation moves, and the server publishes what there is to say.     *)
Moves(o, from, to) ==
  /\ state[o] = from
  /\ state' = [state EXCEPT ![o] = to]

Publication(k, b) ==
  [kind |-> k, signed |-> TRUE, body |-> b,
   catalogue |-> IF k = "result" THEN catalogue ELSE 0]

Publishes(o, k, b) ==
  chain' = [chain EXCEPT ![o] = @ \cup {Publication(k, b)}]

(* A request on the relay is taken up.                                     *)
Request(o) ==
  /\ Moves(o, "none", "requested")
  /\ UNCHANGED <<chain, automatic, admins, catalogue>>

(* The actor lacks the scope: an operation that fails without having run.  *)
Deny(o) ==
  /\ Moves(o, "requested", "failed")
  /\ Publishes(o, "result", "failed")
  /\ UNCHANGED <<automatic, admins, catalogue>>

(* Nothing to approve, or the actor's own authority is the approval.       *)
Ungated(o) == Floor[o] = "none" \/ Actor[o] \in admins

ApproveAutomatically(o) ==
  /\ Moves(o, "requested", "approved")
  /\ Ungated(o)
  /\ automatic' = automatic \cup {o}
  /\ UNCHANGED <<chain, admins, catalogue>>

(* nostr-opctl approve: of an operation gated on the owner's signature, an *)
(* approval signed by another administrator is ignored.                    *)
Approve(o, k) ==
  /\ Moves(o, "requested", "approved")
  /\ k \in admins
  /\ Floor[o] = "owner" => k = Owner
  /\ UNCHANGED <<chain, automatic, admins, catalogue>>

(* nostr-opctl reject.                                                     *)
Reject(o) ==
  /\ Moves(o, "requested", "rejected")
  /\ Publishes(o, "rejection", "object")
  /\ UNCHANGED <<automatic, admins, catalogue>>

Start(o) ==
  /\ Moves(o, "approved", "executing")
  /\ Publishes(o, "started", "empty")
  /\ UNCHANGED <<automatic, admins, catalogue>>

Report(o) ==
  /\ state[o] = "executing"
  /\ Publishes(o, "progress", "full")
  /\ UNCHANGED <<state, automatic, admins, catalogue>>

Finish(o, ok) ==
  /\ Moves(o, "executing", IF ok THEN "succeeded" ELSE "failed")
  /\ Publishes(o, "result", IF ok THEN "ok" ELSE "failed")
  /\ UNCHANGED <<automatic, admins, catalogue>>

(* Loopback is not a trust boundary (client.py:78-79): a local process     *)
(* publishes an event that only claims to be the server's.                 *)
Forge(o, p) ==
  /\ ~p.signed
  /\ chain' = [chain EXCEPT ![o] = @ \cup {p}]
  /\ UNCHANGED <<state, automatic, admins, catalogue>>

(* The file is edited and the daemon restarted; or it is upgraded.         *)
AddAdmin(k) ==
  /\ k \notin admins
  /\ admins' = admins \cup {k}
  /\ UNCHANGED <<state, chain, automatic, catalogue>>

Upgrade ==
  /\ catalogue < MaxCatalogue
  /\ catalogue' = catalogue + 1
  /\ UNCHANGED <<state, chain, automatic, admins>>

(* What the daemon does of its own accord with a requested operation.      *)
Executes(o) ==
  \/ ApproveAutomatically(o)
  \/ Start(o) \/ Report(o)
  \/ \E ok \in BOOLEAN : Finish(o, ok)

(* What others decide.                                                     *)
Decides(o) ==
  Deny(o) \/ Reject(o) \/ \E k \in Key : Approve(o, k)

Decided(o) == state[o] \in {"succeeded", "failed", "rejected"}
=============================================================================
