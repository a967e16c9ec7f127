--------------------------- MODULE MCToolContract ---------------------------
(* Instances of ToolContract for TLC. *)
EXTENDS ToolContract, TLC

CONSTANTS site, app

MCName == {site, app}

(* An nsite operation under every approval floor, with another one or      *)
(* alone, and the documents load_catalog refuses.                          *)
Site(minimum) ==
  site :> [minimum |-> minimum, nsite |-> TRUE, input |-> FALSE]

App == app :> [minimum |-> "admin", nsite |-> FALSE, input |-> TRUE]

MCDocument ==
  [version : {1, 2}, wellFormed : BOOLEAN,
   operations :
     UNION {{Site(m), Site(m) @@ App} : m \in {"none", "admin", Unstated}}]
=============================================================================
