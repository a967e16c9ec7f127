-------------------------- MODULE MCHttpTransport --------------------------
(* Instances of HttpTransport for TLC. *)
EXTENDS HttpTransport, TLC

CONSTANTS r1, r2, r3, alice, bob, a1, b1

MCSignerOf == a1 :> alice @@ b1 :> bob

MCSignedLength == a1 :> 2 @@ b1 :> 1
=============================================================================
