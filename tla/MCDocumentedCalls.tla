------------------------- MODULE MCDocumentedCalls -------------------------
(* Instances of DocumentedCalls for TLC. *)
EXTENDS DocumentedCalls

CONSTANTS c1, c2

MCCall == {c1, c2}

MCOneCall == {c1}

MCEvents ==
  {e \in Events : e.signed /\ e.body \in {"empty", "not_object", "stale", "ok"}}
=============================================================================
