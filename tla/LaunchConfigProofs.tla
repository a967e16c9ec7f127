------------------------- MODULE LaunchConfigProofs -------------------------
(* Proofs about LaunchConfig, for any keys, launches and file contents.    *)
EXTENDS LaunchConfig, TLAPS

(* Reading the file gives contents of a file or nothing.                   *)
LEMMA AsReadType ==
  ASSUME TypeOK, NEW f \in File \cup {Unreadable}
  PROVE  AsRead(f) \in File \cup {Unreadable}
BY DEF AsRead

LEMMA TypeNext == TypeOK /\ [Next]_vars => TypeOK'
<1> SUFFICES ASSUME TypeOK, [Next]_vars PROVE TypeOK'
  OBVIOUS
<1> USE LaunchAssumption
<1>0. AsRead(file) \in File \cup {Unreadable}
  BY AsReadType DEF TypeOK
<1>1. ASSUME NEW contents \in File \cup {Unreadable}, Edit(contents)
      PROVE  TypeOK'
  BY <1>1, AsReadType DEF TypeOK, Edit
<1>2. CASE RestartDaemon
  BY <1>2 DEF TypeOK, RestartDaemon
<1>3. CASE Launch
  BY <1>0, <1>3 DEF TypeOK, Launch, NoConfig, Loading
<1>4. CASE ReadKey
  <2>1. ~KeyFails(given, AsRead(file)) =>
          KeyFrom(given, AsRead(file)) \in Secret
    BY <1>0 DEF TypeOK, KeyFails, ForkFails, KeyFrom, NamedKey, Or
  <2> QED
    BY <1>4, <2>1 DEF TypeOK, ReadKey, Settles, Fail, Loading
<1>5. CASE ReadServerKey
  <2>1. ~ServerKeyFails(ServerKey(given, AsRead(file))) =>
          ServerKey(given, AsRead(file)) \in Pubkey \cup {Blank}
    BY <1>0 DEF TypeOK, ServerKeyFails, ServerKey, ForkServerKey, Or
  <2> QED
    BY <1>5, <2>1 DEF TypeOK, ReadServerKey, Settles, Fail, Loading
<1>6. CASE ReadAdmins
  <2>1. Admins(given, AsRead(file)) \in SUBSET Pubkey
    BY <1>0 DEF TypeOK, Admins, ForkAdmins, Or
  <2> QED
    BY <1>6, <2>1 DEF TypeOK, ReadAdmins, Settles, Fail, Loading
<1>7. CASE Build
  BY <1>7 DEF TypeOK, Build
<1>8. CASE Ends
  BY <1>8 DEF TypeOK, Ends
<1>9. CASE UNCHANGED vars
  BY <1>9 DEF TypeOK, vars
<1> QED
  BY <1>1, <1>2, <1>3, <1>4, <1>5, <1>6, <1>7, <1>8, <1>9 DEF Next

(***************************************************************************)
(* Every variable keeps its type; in particular no malformed key is ever   *)
(* part of a Config (config.py:108, 125).                                  *)
(***************************************************************************)
THEOREM LaunchTypeCorrect == Spec => []TypeOK
<1>1. Init => TypeOK
  BY LaunchAssumption DEF Init, TypeOK, NoConfig
<1> QED
  BY <1>1, TypeNext, PTL DEF Spec

-----------------------------------------------------------------------------
(***************************************************************************)
(* The inductive invariant: a field that has been settled was settled from *)
(* something the file could be read as while the process was loading.      *)
(***************************************************************************)
KeySettled ==
  /\ config.sk \in Secret
  /\ \E f \in seen : config.sk = Or(NamedKey(given), ForkKey(f))

ServerKeySettled == \E f \in seen : config.server = ServerKey(given, f)

AdminsSettled == \E f \in seen : config.admins = Admins(given, f)

SettledInv ==
  /\ pc \in Loading => AsRead(file) \in seen
  /\ pc \in Loading \cup {"building", "running"} => ~AgentKeyMissing(given)
  /\ pc \in {"server", "admins", "building", "running"} => KeySettled
  /\ pc \in {"admins", "building", "running"} => ServerKeySettled
  /\ pc \in {"building", "running"} => AdminsSettled

LaunchInv == TypeOK /\ SettledInv /\ FailsForCause

LEMMA LaunchInvInit == Init => LaunchInv
BY LaunchAssumption
   DEF Init, LaunchInv, TypeOK, NoConfig, SettledInv, FailsForCause, Loading

(* What a step that leaves the process and its Config alone preserves.     *)
LEMMA LaunchFrame ==
  ASSUME LaunchInv, UNCHANGED <<pc, given, config>>, seen \subseteq seen',
         pc = "failed" => seen' = seen,
         pc \in Loading => AsRead(file)' \in seen'
  PROVE  SettledInv' /\ FailsForCause'
<1>1. SettledInv'
  BY DEF LaunchInv, SettledInv, KeySettled, ServerKeySettled, AdminsSettled
<1>2. FailsForCause'
  BY DEF LaunchInv, FailsForCause
<1> QED
  BY <1>1, <1>2

LEMMA LaunchInvNext == LaunchInv /\ [Next]_vars => LaunchInv'
<1> SUFFICES ASSUME LaunchInv, [Next]_vars PROVE SettledInv' /\ FailsForCause'
  BY TypeNext DEF LaunchInv
<1> USE LaunchAssumption
<1>0. AsRead(file) \in File \cup {Unreadable}
  BY AsReadType DEF LaunchInv, TypeOK
<1>1. ASSUME NEW contents \in File \cup {Unreadable}, Edit(contents)
      PROVE  SettledInv' /\ FailsForCause'
  <2>1. pc \in Loading => AsRead(file)' \in seen'
    BY <1>1 DEF Edit, AsRead
  <2> QED
    BY <1>1, <2>1, LaunchFrame DEF Edit, Loading
<1>2. CASE RestartDaemon
  BY <1>2, LaunchFrame DEF RestartDaemon, LaunchInv, SettledInv, AsRead
<1>3. CASE Launch
  <2>1. SettledInv'
    BY <1>3 DEF Launch, SettledInv, Loading, AsRead
  <2>2. FailsForCause'
    BY <1>3 DEF Launch, FailsForCause, AgentKeyMissing, Or, LaunchInv, TypeOK
  <2> QED
    BY <2>1, <2>2
<1>4. CASE ReadKey
  <2>0. AsRead(file)' = AsRead(file)
    BY <1>4 DEF ReadKey, Settles, AsRead
  <2>1. CASE KeyFails(given, AsRead(file))
    BY <1>4, <2>1
       DEF ReadKey, Settles, Fail, LaunchInv, TypeOK, SettledInv, Loading,
           FailsForCause, KeyFails, ForkFails, NamedKey, Or
  <2>2. CASE ~KeyFails(given, AsRead(file))
    <3>1. KeySettled'
      BY <1>0, <1>4, <2>2
         DEF ReadKey, Settles, LaunchInv, TypeOK, SettledInv, Loading,
             KeyFails, ForkFails, KeyFrom, KeySettled, NamedKey, Or, ForkKey
    <3> QED
      BY <1>4, <2>0, <2>2, <3>1
         DEF ReadKey, Settles, LaunchInv, SettledInv, Loading, FailsForCause
  <2> QED
    BY <2>1, <2>2
<1>5. CASE ReadServerKey
  <2>1. KeySettled' /\ AsRead(file)' \in seen' /\ ~AgentKeyMissing(given)'
    BY <1>5
       DEF ReadServerKey, Settles, Fail, LaunchInv, TypeOK, SettledInv,
           Loading, KeySettled, AsRead
  <2>2. CASE ServerKeyFails(ServerKey(given, AsRead(file)))
    BY <1>0, <1>5, <2>2
       DEF ReadServerKey, Settles, Fail, LaunchInv, TypeOK, SettledInv,
           Loading, FailsForCause, ServerKeyFails, ServerKey, ForkServerKey, Or
  <2>3. CASE ~ServerKeyFails(ServerKey(given, AsRead(file)))
    <3>1. ServerKeySettled'
      BY <1>5, <2>3
         DEF ReadServerKey, Settles, LaunchInv, TypeOK, SettledInv, Loading,
             ServerKeySettled
    <3> QED
      BY <1>5, <2>1, <2>3, <3>1
         DEF ReadServerKey, Settles, SettledInv, Loading, FailsForCause
  <2> QED
    BY <2>2, <2>3
<1>6. CASE ReadAdmins
  <2>1. KeySettled' /\ ServerKeySettled' /\ ~AgentKeyMissing(given)'
    BY <1>6
       DEF ReadAdmins, Settles, LaunchInv, TypeOK, SettledInv, Loading,
           KeySettled, ServerKeySettled
  <2>2. AdminsSettled'
    BY <1>6
       DEF ReadAdmins, Settles, LaunchInv, TypeOK, SettledInv, Loading,
           AdminsSettled
  <2> QED
    BY <1>6, <2>1, <2>2
       DEF ReadAdmins, Settles, SettledInv, Loading, FailsForCause
<1>7. CASE Build
  <2>1. SettledInv'
    BY <1>7
       DEF Build, LaunchInv, SettledInv, Loading, KeySettled,
           ServerKeySettled, AdminsSettled
  <2>2. FailsForCause'
    BY <1>7 DEF Build, LaunchInv, TypeOK, FailsForCause
  <2> QED
    BY <2>1, <2>2
<1>8. CASE Ends
  BY <1>8 DEF Ends, SettledInv, FailsForCause, Loading
<1>9. CASE UNCHANGED vars
  BY <1>9, LaunchFrame DEF vars, LaunchInv, SettledInv, AsRead
<1> QED
  BY <1>1, <1>2, <1>3, <1>4, <1>5, <1>6, <1>7, <1>8, <1>9 DEF Next

LEMMA LaunchInvariance == Spec => []LaunchInv
<1> QED
  BY LaunchInvInit, LaunchInvNext, PTL DEF Spec

-----------------------------------------------------------------------------
(***************************************************************************)
(* A process that serves HTTP holds a key it was given as its agent key    *)
(* (config.py:96-105).                                                     *)
(***************************************************************************)
THEOREM HttpHoldsAgentKey == Spec => []NoOperatorKeyOverHttp
<1>1. LaunchInv => NoOperatorKeyOverHttp
  BY LaunchAssumption
     DEF LaunchInv, TypeOK, SettledInv, KeySettled, NoOperatorKeyOverHttp,
         Running, AgentKeyMissing, NamedKey, Or
<1> QED
  BY <1>1, LaunchInvariance, PTL

(* Python's chain of `or`s is the first source that is given.              *)
LEMMA FirstOfTwo ==
  ASSUME NEW a, NEW b, b # Absent
  PROVE  First(<<a, b>>) = Or(a, b)
<1> DEFINE s == <<a, b>>
           P(i) == /\ s[i] # Absent
                   /\ \A j \in 1..i-1 : s[j] = Absent
<1>1. DOMAIN s = 1..2 /\ s[1] = a /\ s[2] = b
  OBVIOUS
<1>2. \E i \in DOMAIN s : P(i) /\ s[i] = Or(a, b)
  BY <1>1 DEF Or
<1>3. \A i, j \in DOMAIN s : P(i) /\ P(j) => i = j
  BY <1>1
<1> QED
  BY <1>2, <1>3 DEF First

LEMMA FirstOfThree ==
  ASSUME NEW a, NEW b, NEW c, c # Absent
  PROVE  First(<<a, b, c>>) = Or(a, Or(b, c))
<1> DEFINE s == <<a, b, c>>
           P(i) == /\ s[i] # Absent
                   /\ \A j \in 1..i-1 : s[j] = Absent
<1>1. DOMAIN s = 1..3 /\ s[1] = a /\ s[2] = b /\ s[3] = c
  OBVIOUS
<1>2. \E i \in DOMAIN s : P(i) /\ s[i] = Or(a, Or(b, c))
  BY <1>1 DEF Or
<1>3. \A i, j \in DOMAIN s : P(i) /\ P(j) => i = j
  BY <1>1
<1> QED
  BY <1>2, <1>3 DEF First

LEMMA FirstOfFour ==
  ASSUME NEW a, NEW b, NEW c, NEW d, d # Absent
  PROVE  First(<<a, b, c, d>>) = Or(a, Or(b, Or(c, d)))
<1> DEFINE s == <<a, b, c, d>>
           P(i) == /\ s[i] # Absent
                   /\ \A j \in 1..i-1 : s[j] = Absent
<1>1. DOMAIN s = 1..4 /\ s[1] = a /\ s[2] = b /\ s[3] = c /\ s[4] = d
  OBVIOUS
<1>2. \E i \in DOMAIN s : P(i) /\ s[i] = Or(a, Or(b, Or(c, d)))
  BY <1>1 DEF Or
<1>3. \A i, j \in DOMAIN s : P(i) /\ P(j) => i = j
  BY <1>1
<1> QED
  BY <1>2, <1>3 DEF First

(***************************************************************************)
(* What a process runs with was settled source by source (config.py:       *)
(* 94-95, 119-124, 130-134), each field from something the file could be   *)
(* read as while the process was loading.                                  *)
(***************************************************************************)
THEOREM FieldsSettled == Spec => []FieldsFromFirstSource
<1>1. ASSUME LaunchInv, Running PROVE FieldsFromFirstSource
  <2> USE LaunchAssumption DEF LaunchInv, TypeOK, Running
  <2>1. PICK f \in seen : config.sk = Or(NamedKey(given), ForkKey(f))
    BY <1>1 DEF SettledInv, KeySettled
  <2>2. f \in File \cup {Unreadable} /\ ForkKey(f) # Absent
    BY <1>1 DEF ForkKey
  <2>3. config.sk = First(<<given.agentFlag, given.agentEnv,
                            given.operatorEnv, ForkKey(f)>>)
    BY <2>1, <2>2, FirstOfFour DEF NamedKey, Or
  <2>4. PICK g \in seen : config.server = ServerKey(given, g)
    BY <1>1 DEF SettledInv, ServerKeySettled
  <2>5. ForkServerKey(g) # Absent
    BY <1>1 DEF ForkServerKey
  <2>6. config.server = First(<<given.serverFlag, given.serverEnv,
                                ForkServerKey(g)>>)
    BY <2>4, <2>5, FirstOfThree DEF ServerKey, Or
  <2>7. PICK h \in seen : config.admins = Admins(given, h)
    BY <1>1 DEF SettledInv, AdminsSettled
  <2>8. ForkAdmins(h) # Absent
    BY <1>1 DEF ForkAdmins
  <2>9. config.admins = First(<<given.adminsEnv, ForkAdmins(h)>>)
    BY <2>7, <2>8, FirstOfTwo DEF Admins, ForkAdmins
  <2>10. config.sk \in Secret
    BY <1>1 DEF SettledInv, KeySettled
  <2> QED
    BY <2>3, <2>6, <2>9, <2>10 DEF FieldsFromFirstSource
<1>2. LaunchInv => FieldsFromFirstSource
  BY <1>1 DEF FieldsFromFirstSource
<1> QED
  BY <1>2, LaunchInvariance, PTL

(***************************************************************************)
(* A launch fails for a cause (config.py:96, 108, 112, 114, 125; cli.py:   *)
(* 28-29, where client and server load the fork and its catalogue).        *)
(***************************************************************************)
THEOREM FailuresHaveCauses == Spec => []FailsForCause
<1>1. LaunchInv => FailsForCause
  BY DEF LaunchInv
<1> QED
  BY <1>1, LaunchInvariance, PTL
=============================================================================
