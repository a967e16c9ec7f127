--------------------------- MODULE MCLaunchConfig ---------------------------
(* Instances of LaunchConfig for TLC. *)
EXTENDS LaunchConfig

CONSTANTS agent, other, operator, server, admin

(* Every source of every field given or not, the malformed ones included;  *)
(* NOSTRHOST_OPERATOR_SK, when set, holds the operator's key.              *)
MCGiven ==
  [http : BOOLEAN,
   fork : {"package", "tree", "unfit", "absent"},
   agentFlag : {agent, Absent, Malformed},
   agentEnv : {other, Absent},
   operatorEnv : {operator, Absent},
   relay : BOOLEAN,
   serverFlag : {server, Absent, Blank},
   serverEnv : {admin, Absent, Malformed},
   adminsEnv : {{}, {admin}, Absent}]

(* A file before and after an administrator is added and the server's key  *)
(* is lost.                                                                *)
MCFile ==
  {[sk |-> operator, server |-> server, admins |-> {}],
   [sk |-> operator, server |-> Blank, admins |-> {admin}]}
=============================================================================
