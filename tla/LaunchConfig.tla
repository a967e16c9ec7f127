---------------------------- MODULE LaunchConfig ----------------------------
(***************************************************************************)
(* A launch of the adapter (cli.py, config.py): load_config settles each   *)
(* field from flags, environment and the fork's operator.toml, and client  *)
(* and server are built on the fork's catalogue.  The file is read up to   *)
(* three times, once for the key, once for the server's key and once for   *)
(* the admins, while the operator may be editing it; what was read is kept *)
(* until the process ends.                                                 *)
(*                                                                         *)
(* The fork is an installed package, a source tree that only an alias made *)
(* after load_config leads to (registry.py:26-33), unfit (a package whose  *)
(* catalogue or modules the adapter cannot use) or absent.                 *)
(*                                                                         *)
(* Keys are abstracted to well-formed ones, Malformed (rejected by         *)
(* is_hex64 or the key parser) and Blank (empty once stripped), the relay  *)
(* to whether a flag or the environment names one.                         *)
(***************************************************************************)
EXTENDS Naturals, Sequences

CONSTANTS
  Secret, Pubkey,    \* well-formed keys
  Absent,            \* a flag or variable that is not given, or is empty
  Malformed, Blank,
  Unreadable,        \* operator.toml missing, unreadable, or no fork package
  Given,             \* what a launch may be given
  File               \* the readable contents operator.toml may have

ASSUME LaunchAssumption ==
  /\ Given \subseteq
       [http : BOOLEAN,
        fork : {"package", "tree", "unfit", "absent"},
        agentFlag : Secret \cup {Absent, Malformed},   \* --agent-sk
        agentEnv : Secret \cup {Absent, Malformed},    \* NOSTRHOST_AGENT_SK
        operatorEnv : Secret \cup {Absent, Malformed}, \* NOSTRHOST_OPERATOR_SK
        relay : BOOLEAN,
        serverFlag : Pubkey \cup {Absent, Blank, Malformed},
        serverEnv : Pubkey \cup {Absent, Blank, Malformed},
        adminsEnv : {Absent} \cup SUBSET Pubkey]
  /\ File \subseteq
       [sk : Secret, server : Pubkey \cup {Blank, Malformed},
        admins : SUBSET Pubkey]
  /\ {Absent, Malformed, Blank} \cap (Secret \cup Pubkey) = {}
  /\ Absent # Malformed /\ Absent # Blank /\ Malformed # Blank
  /\ \A admins \in SUBSET Pubkey : admins # Absent
  /\ Unreadable \notin File

VARIABLES
  pc,      \* where the launch is
  given,   \* what the unit or the user launches it with
  config,  \* the Config as far as it is settled
  file,    \* operator.toml
  seen,    \* what reading operator.toml could give while load_config ran
  daemon   \* the operator.toml the operations daemon runs with

vars == <<pc, given, config, file, seen, daemon>>

NoConfig == [sk |-> Blank, server |-> Blank, admins |-> {}]

Loading == {"key", "server", "admins"}

TypeOK ==
  /\ pc \in {"down", "building", "failed", "running"} \cup Loading
  /\ given \in Given
  /\ config \in [sk : Secret \cup {Blank}, server : Pubkey \cup {Blank},
                 admins : SUBSET Pubkey]
  /\ file \in File \cup {Unreadable}
  /\ seen \subseteq File \cup {Unreadable}
  /\ daemon \in File

Init ==
  /\ pc = "down"
  /\ given \in Given
  /\ config = NoConfig
  /\ file \in File
  /\ seen = {}
  /\ daemon = file

-----------------------------------------------------------------------------
(* What load_config finds in the file, which it reads through the fork.    *)
AsRead(contents) ==
  IF given.fork \in {"package", "unfit"} THEN contents ELSE Unreadable

(* The operator edits the file or takes it away; the daemon is restarted.  *)
Edit(contents) ==
  /\ file' = contents
  /\ seen' = IF pc \in Loading THEN seen \cup {AsRead(contents)} ELSE seen
  /\ UNCHANGED <<pc, given, config, daemon>>

RestartDaemon ==
  /\ file # Unreadable
  /\ daemon' = file
  /\ UNCHANGED <<pc, given, config, file, seen>>

-----------------------------------------------------------------------------
(* Python's `a or b`.                                                      *)
Or(a, b) == IF a = Absent THEN b ELSE a

NamedKey(g) == Or(g.agentFlag, Or(g.agentEnv, g.operatorEnv))

(* (The slip: any key that is named will do.)                              *)
AnyKeyMissing(g) == g.http /\ NamedKey(g) = Absent

AgentKeyMissing(g) == g.http /\ Or(g.agentFlag, g.agentEnv) = Absent

Launch ==
  /\ pc = "down"
  /\ pc' = IF AgentKeyMissing(given) THEN "failed" ELSE "key"
  /\ config' = NoConfig
  /\ seen' = {AsRead(file)}
  /\ UNCHANGED <<given, file, daemon>>

Fail == pc' = "failed" /\ UNCHANGED config

(* One step of load_config: a field settled, or the launch over.           *)
Settles(at, next, fails, field, value) ==
  /\ pc = at
  /\ \/ fails /\ Fail
     \/ /\ ~fails
        /\ config' = [config EXCEPT ![field] = value]
        /\ pc' = next
  /\ UNCHANGED <<given, file, seen, daemon>>

(* A key that is named and no relay: the file is read for the relay's sake.*)
(* (The slip: the file read whatever is named.)                            *)
KeyFailsUnread(g, f) == NamedKey(g) = Malformed \/ f = Unreadable

ForkFails(g, f) == (NamedKey(g) = Absent \/ ~g.relay) /\ f = Unreadable

KeyFails(g, f) == NamedKey(g) = Malformed \/ ForkFails(g, f)

KeyFrom(g, f) == IF NamedKey(g) = Absent THEN f.sk ELSE NamedKey(g)

ReadKey ==
  LET f == AsRead(file) IN
  Settles("key", "server", KeyFails(given, f), "sk", KeyFrom(given, f))

ForkServerKey(f) == IF f = Unreadable THEN Blank ELSE f.server

ServerKey(g, f) == Or(Or(g.serverFlag, g.serverEnv), ForkServerKey(f))

(* (The slip: the key taken as it is.)                                     *)
NeverMalformed(key) == FALSE

ServerKeyFails(key) == key = Malformed

ReadServerKey ==
  LET key == ServerKey(given, AsRead(file)) IN
  Settles("server", "admins", ServerKeyFails(key), "server", key)

ForkAdmins(f) == IF f = Unreadable THEN {} ELSE f.admins

(* (The slip: an empty NOSTRHOST_ADMIN_PUBKEYS taken for an absent one.)   *)
AdminsUnlessEmpty(g, f) ==
  IF g.adminsEnv = {} THEN ForkAdmins(f) ELSE Or(g.adminsEnv, ForkAdmins(f))

Admins(g, f) == Or(g.adminsEnv, ForkAdmins(f))

ReadAdmins ==
  Settles("admins", "building", FALSE, "admins", Admins(given, AsRead(file)))

(* OperationClient(config), then NostrHostServer: both load the catalogue. *)
Build ==
  /\ pc = "building"
  /\ pc' = IF given.fork \in {"package", "tree"} THEN "running" ELSE "failed"
  /\ UNCHANGED <<given, config, file, seen, daemon>>

(* The process ends; Restart=on-failure or its user launches it again.     *)
Ends ==
  /\ pc \in {"running", "failed"}
  /\ pc' = "down"
  /\ UNCHANGED <<given, config, file, seen, daemon>>

-----------------------------------------------------------------------------
Next ==
  \/ \E contents \in File \cup {Unreadable} : Edit(contents)
  \/ RestartDaemon
  \/ Launch \/ ReadKey \/ ReadServerKey \/ ReadAdmins \/ Build
  \/ Ends

Spec == Init /\ [][Next]_vars

-----------------------------------------------------------------------------
Running == pc = "running"

(***************************************************************************)
(* M6: a process that serves HTTP never holds a key it was not given as    *)
(* its agent key, be it the operator's in the environment or in the file.  *)
(***************************************************************************)
NoOperatorKeyOverHttp ==
  Running /\ given.http => config.sk \in {given.agentFlag, given.agentEnv}

(* The first of several sources that is given.                             *)
First(sources) ==
  sources[CHOOSE i \in DOMAIN sources :
            /\ sources[i] # Absent
            /\ \A j \in 1..i-1 : sources[j] = Absent]

ForkKey(f) == IF f = Unreadable THEN Blank ELSE f.sk

(***************************************************************************)
(* What a process runs with: each field from the first source that has it, *)
(* and where that is operator.toml, from something it could read there     *)
(* while it was loading, although not the same contents for all fields.    *)
(***************************************************************************)
FieldsFromFirstSource ==
  Running =>
    /\ config.sk \in Secret
    /\ \E f \in seen :
         config.sk = First(<<given.agentFlag, given.agentEnv,
                             given.operatorEnv, ForkKey(f)>>)
    /\ \E f \in seen :
         config.server = First(<<given.serverFlag, given.serverEnv,
                                 ForkServerKey(f)>>)
    /\ \E f \in seen :
         config.admins = First(<<given.adminsEnv, ForkAdmins(f)>>)

(***************************************************************************)
(* A launch fails for a cause: no agent key over HTTP, a malformed key, a  *)
(* file that could not be read when the key or the relay was to be read    *)
(* from it, or a fork that is not there or of no use.  (The launch is      *)
(* _build_server; that the port can be bound is not part of it.)           *)
(***************************************************************************)
FailsForCause ==
  pc = "failed" =>
    \/ given.fork \in {"unfit", "absent"}
    \/ given.http /\ given.agentFlag = Absent /\ given.agentEnv = Absent
    \/ Malformed \in {given.agentFlag, given.agentEnv, given.operatorEnv,
                      given.serverFlag, given.serverEnv}
    \/ \E f \in seen \ {Unreadable} : f.server = Malformed
    \/ Unreadable \in seen /\ (~given.relay \/ NamedKey(given) = Absent)

-----------------------------------------------------------------------------
(***************************************************************************)
(* config.py:127-129: the admin set is derived "from the same operator     *)
(* config the daemon reads so the two never drift": while an adapter runs  *)
(* that has the daemon's admins from the file, no step of anybody's makes  *)
(* them differ.                                                            *)
(***************************************************************************)
AdminsNeverDrift ==
  [][Running /\ given.adminsEnv = Absent /\ seen = {daemon}
       => config'.admins = daemon'.admins]_vars
=============================================================================
