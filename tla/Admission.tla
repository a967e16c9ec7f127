----------------------------- MODULE Admission -----------------------------
(***************************************************************************)
(* What the HTTP transport promises of who may act for whom, with no       *)
(* chunks, replay cache or contextvars: a request is given one verdict,    *)
(* once and for all; a credential admits one request; and an admitted      *)
(* request acts for the key that signed the credential it came with, on    *)
(* the body that was signed.                                               *)
(***************************************************************************)
EXTENDS Naturals

CONSTANTS Request, Credential, SignerOf, SignedLength, MaxBody,
          NoKey, NoCredential

VARIABLES
  verdict,   \* on each request
  by,        \* the credential it was admitted by
  acts       \* the key it has acted for

vars == <<verdict, by, acts>>

Init ==
  /\ verdict = [r \in Request |-> "none"]
  /\ by = [r \in Request |-> NoCredential]
  /\ acts = [r \in Request |-> NoKey]

Admit(r, h) ==
  /\ verdict[r] = "none"
  /\ \A s \in Request : by[s] # h
  /\ SignedLength[h] <= MaxBody
  /\ verdict' = [verdict EXCEPT ![r] = "admitted"]
  /\ by' = [by EXCEPT ![r] = h]
  /\ UNCHANGED acts

Refuse(r) ==
  /\ verdict[r] = "none"
  /\ verdict' = [verdict EXCEPT ![r] = "refused"]
  /\ UNCHANGED <<by, acts>>

Act(r) ==
  /\ verdict[r] = "admitted"
  /\ acts[r] = NoKey
  /\ acts' = [acts EXCEPT ![r] = SignerOf[by[r]]]
  /\ UNCHANGED <<verdict, by>>

Next ==
  \E r \in Request :
    \/ \E h \in Credential : Admit(r, h)
    \/ Refuse(r) \/ Act(r)

Spec == Init /\ [][Next]_vars
=============================================================================
