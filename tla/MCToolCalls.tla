---------------------------- MODULE MCToolCalls ----------------------------
(* Instances of ToolCalls for TLC. *)
EXTENDS ToolCalls

CONSTANTS c1, c2

MCCall == {c1, c2}

Signed(k, b) == [kind |-> k, signed |-> TRUE, body |-> b]

(* One event of every class the adapter tells apart, and a result somebody *)
(* other than the server wrote.                                            *)
MCEvents ==
  {Signed("started", "empty"), Signed("progress", "full"),
   Signed("progress", "empty"), Signed("rejection", "object"),
   Signed("rejection", "not_object"), Signed("result", "ok"),
   Signed("result", "truthy"), Signed("result", "failed"),
   Signed("result", "stale"), Signed("other", "empty"),
   [kind |-> "result", signed |-> FALSE, body |-> "ok"]}

(* The ways a stream may go, for the run with two calls: an interim event, *)
(* a result for the call and the poll alike, one the two take differently, *)
(* and one that cannot be read.                                            *)
MCLiveEvents ==
  {Signed("progress", "full"), Signed("result", "ok"),
   Signed("result", "truthy"), Signed("result", "stale")}

MCOneCall == {c1}
=============================================================================
