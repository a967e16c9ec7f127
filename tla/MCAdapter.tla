----------------------------- MODULE MCAdapter -----------------------------
(* An operation gated on an admin, asked for by a key that may become one. *)
EXTENDS Adapter

MCActor == [o \in Operation |-> "alice"]
MCFloor == [o \in Operation |-> "admin"]

(* A forged success, under the first catalogue.                            *)
MCForgeable ==
  {[kind |-> "result", signed |-> FALSE, body |-> "ok", catalogue |-> 0]}
=============================================================================
