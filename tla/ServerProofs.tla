---------------------------- MODULE ServerProofs ----------------------------
(***************************************************************************)
(* The guarantees of the migration runner and of the server process, for   *)
(* any number of servers, runners, files and faults.  Files are applied    *)
(* once and in order because of the version row of the transaction: the    *)
(* lock plays no part in that argument.  A step of the server is a step of *)
(* a migration runner or leaves the migrations alone, so MigrationInv      *)
(* carries over; what is added ties the phases of a server to it.          *)
(***************************************************************************)
EXTENDS Server, TLAPS

\* What schema_migrations says is what was applied: the first Len(applied) files.
Recorded == versions = 1 .. Len(applied)

\* A runner in the loop found every earlier file recorded or recorded it itself.
EarlierDone ==
    \A r \in Runners : pc[r] \in {"check", "exec", "insert", "commit"} =>
        1 .. file[r] - 1 \subseteq versions

\* A runner in the body of the loop is at a file.
AtFile ==
    \A r \in Runners : pc[r] \in {"exec", "insert", "commit"} => file[r] \in Files

\* An inserted version is recorded by no one and inserted by no one else.
VersionLocked ==
    \A r \in Runners : pc[r] = "commit" =>
        /\ file[r] \notin versions
        /\ \A s \in Runners : pc[s] = "commit" /\ s # r => file[s] # file[r]

OkDone == \A r \in Runners : result[r] = "ok" => versions = Files

MigrationInv ==
    /\ TypeOK /\ AppliedOnceInOrder
    /\ Recorded /\ EarlierDone /\ AtFile /\ VersionLocked /\ OkDone

LEMMA MigrationInvInit == Init => MigrationInv
  BY MigrationAssumption
     DEF Init, MigrationInv, TypeOK, Files, AppliedOnceInOrder, Recorded, EarlierDone,
         AtFile, VersionLocked, OkDone

\* A runner that commits is at the first file that is not applied.
LEMMA CommitIsNext ==
    ASSUME MigrationInv, NEW r \in Runners, pc[r] = "commit"
    PROVE  /\ file[r] = Len(applied) + 1 /\ file[r] \in Files /\ Len(applied) \in Nat
           /\ versions \cup {file[r]} = 1 .. Len(applied) + 1
<1>1. /\ file[r] \in Files /\ file[r] \notin versions
      /\ 1 .. file[r] - 1 \subseteq versions /\ versions = 1 .. Len(applied)
      /\ applied \in Seq(Files) /\ file[r] \in Nat /\ Len(applied) \in Nat
  BY DEF MigrationInv, TypeOK, Recorded, EarlierDone, AtFile, VersionLocked, Files
<1>2. file[r] = Len(applied) + 1
  <2>1. file[r] > Len(applied)
    BY <1>1, SMT DEF Files
  <2>2. file[r] - 1 > Len(applied) => Len(applied) + 1 \in 1 .. file[r] - 1
    BY <1>1, SMT
  <2>3. Len(applied) + 1 \notin versions
    BY <1>1, SMT
  <2> QED BY <1>1, <2>1, <2>2, <2>3, SMT
<1>3. 1 .. Len(applied) \cup {Len(applied) + 1} = 1 .. Len(applied) + 1
  BY <1>1, SMT
<1> QED BY <1>1, <1>2, <1>3

\* The effect of a commit on what is recorded and applied.
LEMMA CommitKeepsLog ==
    ASSUME MigrationInv, NEW r \in Runners, pc[r] = "commit", CommitEffect(r)
    PROVE  /\ AppliedOnceInOrder' /\ Recorded'
           /\ versions' \subseteq Files /\ applied' \in Seq(Files)
           /\ versions \subseteq versions'
           /\ versions' = versions \cup {file[r]}
           /\ versions = Files => versions' = Files
<1>1. /\ file[r] = Len(applied) + 1 /\ file[r] \in Files /\ Len(applied) \in Nat
      /\ versions \cup {file[r]} = 1 .. Len(applied) + 1
  BY CommitIsNext
<1>2. applied \in Seq(Files) /\ versions \subseteq Files
  BY DEF MigrationInv, TypeOK
<1>3. /\ applied' \in Seq(Files) /\ Len(applied') = Len(applied) + 1
      /\ \A i \in 1 .. Len(applied) : applied'[i] = applied[i]
      /\ applied'[Len(applied) + 1] = file[r]
  BY <1>1, <1>2 DEF CommitEffect
<1>4. AppliedOnceInOrder'
  <2>1. \A i \in 1 .. Len(applied') : i \in 1 .. Len(applied) \/ i = Len(applied) + 1
    BY <1>1, <1>3, SMT
  <2> QED BY <1>1, <1>3, <2>1 DEF MigrationInv, AppliedOnceInOrder
<1> QED BY <1>1, <1>2, <1>3, <1>4 DEF CommitEffect, Recorded

LEMMA MigrationInvStep == MigrationInv /\ [Next]_vars => MigrationInv'
<1> SUFFICES ASSUME MigrationInv, [Next]_vars
             PROVE  MigrationInv'
  OBVIOUS
<1> USE MigrationAssumption
<1>t. /\ NFiles \in Nat /\ Files = 1 .. NFiles
      /\ \A r \in Runners : file[r] \in Nat /\ file[r] \in 1 .. NFiles + 1
  BY DEF MigrationInv, TypeOK, Files
<1>1. ASSUME NEW r \in Runners,
             TryLock(r) \/ Unlock(r) \/ ClosePool(r) \/ ExecStatements(r)
      PROVE  MigrationInv'
  <2> USE <1>1 DEF TryLock, Unlock, ClosePool, ExecStatements, Goto, dbVars
  <2>1. TypeOK'
    BY DEF MigrationInv, TypeOK
  <2>2. AppliedOnceInOrder' /\ Recorded'
    BY DEF MigrationInv, AppliedOnceInOrder, Recorded
  <2>3. EarlierDone' /\ AtFile'
    BY DEF MigrationInv, TypeOK, EarlierDone, AtFile
  <2>4. VersionLocked' /\ OkDone'
    BY DEF MigrationInv, TypeOK, VersionLocked, OkDone
  <2> QED BY <2>1, <2>2, <2>3, <2>4 DEF MigrationInv
<1>2. ASSUME NEW r \in Runners, Bootstrap(r)
      PROVE  MigrationInv'
  <2> USE <1>2 DEF Bootstrap, Goto, dbVars
  <2>1. TypeOK'
    BY <1>t DEF MigrationInv, TypeOK
  <2>2. AppliedOnceInOrder' /\ Recorded'
    BY DEF MigrationInv, AppliedOnceInOrder, Recorded
  <2>3. EarlierDone' /\ AtFile'
    BY <1>t DEF MigrationInv, TypeOK, EarlierDone, AtFile
  <2>4. VersionLocked' /\ OkDone'
    BY DEF MigrationInv, TypeOK, VersionLocked, OkDone
  <2> QED BY <2>1, <2>2, <2>3, <2>4 DEF MigrationInv
<1>3. ASSUME NEW r \in Runners, Exists(r)
      PROVE  MigrationInv'
  <2> USE <1>3 DEF Exists, Goto, dbVars
  <2>0. file[r] \in 1 .. NFiles + 1 /\ file[r] + 1 \in 1 .. NFiles + 1
    BY <1>t
  <2>1. TypeOK'
    <3>1. file' \in [Runners -> 1 .. NFiles + 1]
      BY <2>0 DEF MigrationInv, TypeOK
    <3>2. pc' \in [Runners -> {"lock", "bootstrap", "check", "exec", "insert", "commit",
                               "unlock", "close", "done"}]
      BY DEF MigrationInv, TypeOK
    <3> QED BY <3>1, <3>2 DEF MigrationInv, TypeOK
  <2>2. AppliedOnceInOrder' /\ Recorded'
    BY DEF MigrationInv, AppliedOnceInOrder, Recorded
  <2>3. EarlierDone'
    <3>1. file[r] \in versions => 1 .. (file[r] + 1) - 1 \subseteq versions
      BY <1>t DEF MigrationInv, EarlierDone
    <3> QED BY <1>t, <3>1 DEF MigrationInv, TypeOK, EarlierDone
  <2>4. AtFile'
    BY <1>t DEF MigrationInv, TypeOK, AtFile
  <2>5. VersionLocked' /\ OkDone'
    BY DEF MigrationInv, TypeOK, VersionLocked, OkDone
  <2> QED BY <2>1, <2>2, <2>3, <2>4, <2>5 DEF MigrationInv
<1>4. ASSUME NEW r \in Runners, InsertVersion(r)
      PROVE  MigrationInv'
  <2> USE <1>4 DEF InsertVersion, ReturnWith, Goto, dbVars
  <2>1. TypeOK'
    BY DEF MigrationInv, TypeOK
  <2>2. AppliedOnceInOrder' /\ Recorded'
    BY DEF MigrationInv, AppliedOnceInOrder, Recorded
  <2>3. EarlierDone' /\ AtFile'
    BY DEF MigrationInv, TypeOK, EarlierDone, AtFile
  <2>4. VersionLocked'
    <3>1. \A s \in Runners : pc[s] = "commit" => file[s] # file[r]
      BY DEF Uncommitted
    <3> QED BY <3>1 DEF MigrationInv, TypeOK, VersionLocked
  <2>5. OkDone'
    BY DEF MigrationInv, TypeOK, OkDone
  <2> QED BY <2>1, <2>2, <2>3, <2>4, <2>5 DEF MigrationInv
<1>5. ASSUME NEW r \in Runners, Commit(r)
      PROVE  MigrationInv'
  <2>1. /\ pc[r] = "commit" /\ CommitEffect(r)
        /\ pc' = [pc EXCEPT ![r] = "check"] /\ file' = [file EXCEPT ![r] = @ + 1]
        /\ lock' = lock /\ result' = result /\ lost' = lost /\ faults' = faults
    BY <1>5 DEF Commit, Goto
  <2>2. /\ AppliedOnceInOrder' /\ Recorded' /\ versions' \subseteq Files
        /\ applied' \in Seq(Files) /\ versions \subseteq versions'
        /\ versions' = versions \cup {file[r]}
        /\ versions = Files => versions' = Files
    BY <2>1, CommitKeepsLog
  <2>3. file[r] \in Files
    BY <2>1, CommitIsNext
  <2>4. TypeOK'
    BY <1>t, <2>1, <2>2, <2>3 DEF MigrationInv, TypeOK
  <2>5. EarlierDone' /\ AtFile'
    <3>1. 1 .. file[r] - 1 \subseteq versions
      BY <2>1 DEF MigrationInv, EarlierDone
    <3>2. 1 .. (file[r] + 1) - 1 \subseteq versions'
      BY <1>t, <2>2, <3>1, SMT
    <3> QED BY <2>1, <2>2, <3>2 DEF MigrationInv, TypeOK, EarlierDone, AtFile
  <2>6. VersionLocked'
    <3>1. ASSUME NEW s \in Runners, pc'[s] = "commit"
          PROVE  s # r /\ pc[s] = "commit" /\ file'[s] = file[s]
      BY <2>1, <3>1 DEF MigrationInv, TypeOK
    <3>2. ASSUME NEW s \in Runners, pc'[s] = "commit"
          PROVE  file[s] \notin versions'
      BY <2>1, <2>2, <3>1, <3>2 DEF MigrationInv, VersionLocked
    <3> QED BY <3>1, <3>2 DEF MigrationInv, VersionLocked
  <2>7. OkDone'
    BY <2>1, <2>2 DEF MigrationInv, OkDone
  <2> QED BY <2>2, <2>4, <2>5, <2>6, <2>7 DEF MigrationInv
<1>6. ASSUME NEW r \in Runners, ReturnOk(r)
      PROVE  MigrationInv'
  <2> USE <1>6 DEF ReturnOk, ReturnWith, Goto, dbVars
  <2>1. TypeOK'
    BY DEF MigrationInv, TypeOK
  <2>2. AppliedOnceInOrder' /\ Recorded'
    BY DEF MigrationInv, AppliedOnceInOrder, Recorded
  <2>3. EarlierDone' /\ AtFile' /\ VersionLocked'
    BY DEF MigrationInv, TypeOK, EarlierDone, AtFile, VersionLocked
  <2>4. versions = Files
    <3>1. file[r] = NFiles + 1
      BY <1>t, SMT
    <3>2. 1 .. NFiles \subseteq versions
      <4>1. 1 .. file[r] - 1 \subseteq versions
        BY DEF MigrationInv, EarlierDone
      <4> QED BY <1>t, <3>1, <4>1, SMT
    <3> QED BY <1>t, <3>2 DEF MigrationInv, TypeOK
  <2>5. OkDone'
    BY <2>4 DEF MigrationInv, OkDone
  <2> QED BY <2>1, <2>2, <2>3, <2>5 DEF MigrationInv
<1>7. ASSUME NEW r \in Runners, RequestFails(r)
      PROVE  MigrationInv'
  <2>1. /\ file' = file /\ lost' = lost /\ faults' \in Nat
        /\ lock' \in {lock, r}
        /\ \E w \in {"unlock", "close"} : pc' = [pc EXCEPT ![r] = w]
        /\ result' = [result EXCEPT ![r] = "error"]
        /\ \/ UNCHANGED <<versions, applied>>
           \/ pc[r] = "commit" /\ CommitEffect(r)
    BY <1>7 DEF RequestFails, ReturnWith, Goto, dbVars, MigrationInv, TypeOK
  <2>2. /\ AppliedOnceInOrder' /\ Recorded' /\ versions' \subseteq Files
        /\ applied' \in Seq(Files) /\ versions \subseteq versions'
        /\ versions = Files => versions' = Files
    <3>1. CASE UNCHANGED <<versions, applied>>
      BY <3>1 DEF MigrationInv, TypeOK, AppliedOnceInOrder, Recorded
    <3>2. CASE pc[r] = "commit" /\ CommitEffect(r)
      BY <3>2, CommitKeepsLog
    <3> QED BY <2>1, <3>1, <3>2
  <2>3. TypeOK'
    BY <2>1, <2>2 DEF MigrationInv, TypeOK
  <2>4. ASSUME NEW s \in Runners, pc'[s] \in {"check", "exec", "insert", "commit"}
        PROVE  s # r /\ pc'[s] = pc[s]
    BY <2>1, <2>4 DEF MigrationInv, TypeOK
  <2>5. EarlierDone' /\ AtFile'
    BY <2>1, <2>2, <2>4 DEF MigrationInv, EarlierDone, AtFile
  <2>6. VersionLocked'
    <3>1. ASSUME NEW s \in Runners, pc'[s] = "commit"
          PROVE  file[s] \notin versions'
      BY <2>1, <2>4, <3>1 DEF MigrationInv, VersionLocked, CommitEffect
    <3> QED BY <2>1, <2>4, <3>1 DEF MigrationInv, VersionLocked
  <2>7. OkDone'
    BY <2>1, <2>2 DEF MigrationInv, TypeOK, OkDone
  <2> QED BY <2>2, <2>3, <2>5, <2>6, <2>7 DEF MigrationInv
<1>8. ASSUME NEW r \in Runners, SessionLost(r) \/ Restart(r)
      PROVE  MigrationInv'
  <2> USE <1>8 DEF SessionLost, Restart, Goto
  <2>1. TypeOK'
    <3>1. 1 \in 1 .. NFiles + 1
      BY <1>t
    <3>2. SessionLost(r) => TypeOK'
      BY DEF MigrationInv, TypeOK
    <3>3. ASSUME Restart(r) PROVE TypeOK'
      <4>1. /\ lock' \in Runners \cup {NoRunner} /\ faults' \in Nat /\ lost' \subseteq Runners
            /\ versions' \subseteq Files /\ applied' \in Seq(Files)
        BY <3>3 DEF MigrationInv, TypeOK
      <4>2. /\ pc' \in [Runners -> {"lock", "bootstrap", "check", "exec", "insert", "commit",
                                   "unlock", "close", "done"}]
            /\ result' \in [Runners -> {"none", "ok", "held", "error"}]
        BY <3>3 DEF MigrationInv, TypeOK
      <4>3. file' \in [Runners -> 1 .. NFiles + 1]
        BY <3>1, <3>3 DEF MigrationInv, TypeOK
      <4> QED BY <4>1, <4>2, <4>3 DEF TypeOK
    <3> QED BY <3>2, <3>3
  <2>2. AppliedOnceInOrder' /\ Recorded'
    BY DEF MigrationInv, AppliedOnceInOrder, Recorded
  <2>3. EarlierDone' /\ AtFile'
    BY DEF MigrationInv, TypeOK, EarlierDone, AtFile
  <2>4. VersionLocked' /\ OkDone'
    BY DEF MigrationInv, TypeOK, VersionLocked, OkDone
  <2> QED BY <2>1, <2>2, <2>3, <2>4 DEF MigrationInv
<1>9. CASE UNCHANGED vars
  BY <1>9 DEF vars, MigrationInv, TypeOK, AppliedOnceInOrder, Recorded, EarlierDone,
              AtFile, VersionLocked, OkDone
<1> QED BY <1>1, <1>2, <1>3, <1>4, <1>5, <1>6, <1>7, <1>8, <1>9 DEF Next, RunnerStep

LEMMA MigrationInvAlways == Spec => []MigrationInv
  BY MigrationInvInit, MigrationInvStep, PTL DEF Spec

\* runPostgres: every file is applied at most once and in order.
THEOREM MigratedOnceInOrder == Spec => []AppliedOnceInOrder
<1>1. MigrationInv => AppliedOnceInOrder
  BY DEF MigrationInv
<1> QED BY <1>1, MigrationInvAlways, PTL

\* runPostgres: a runner that returns nil left every file applied.
THEOREM OkIsMigrated == Spec => []OkMeansMigrated
<1>1. MigrationInv => OkMeansMigrated
  <2> SUFFICES ASSUME MigrationInv, NEW r \in Runners, result[r] = "ok"
               PROVE  versions = Files /\ Len(applied) = NFiles
    BY DEF OkMeansMigrated
  <2>1. versions = Files /\ versions = 1 .. Len(applied) /\ applied \in Seq(Files)
    BY DEF MigrationInv, TypeOK, Recorded, OkDone
  <2>2. Len(applied) \in Nat /\ NFiles \in Nat /\ 1 .. NFiles = 1 .. Len(applied)
    BY <2>1, MigrationAssumption DEF Files
  <2>3. ~(NFiles < Len(applied)) /\ ~(Len(applied) < NFiles)
    <3>1. NFiles < Len(applied) => Len(applied) \in 1 .. Len(applied) /\ Len(applied) \notin 1 .. NFiles
      BY <2>2, SMT
    <3>2. Len(applied) < NFiles => NFiles \in 1 .. NFiles /\ NFiles \notin 1 .. Len(applied)
      BY <2>2, SMT
    <3> QED BY <2>2, <3>1, <3>2
  <2> QED BY <2>1, <2>2, <2>3, SMT
<1> QED BY <1>1, MigrationInvAlways, PTL

----------------------------------------------------------------------------
\* Who is between lock and unlock owns the lock, unless it lost the session.
LockInv ==
    /\ \A r \in Holding : r \in lost \/ lock = r
    /\ \A r \in Runners : pc[r] = "done" => lock # r

\* After a Shutdown that did not time out no HTTP request is left.
Drained ==
    \A s \in Servers : Closed(s) => s \in timedOut \/ job[s]["http"] = "off"

ServerInv ==
    /\ MigrationInv /\ LockInv /\ ServerTypeOK
    /\ ServesOnMigratedSchema /\ Drained /\ DrainedBeforeClose

----------------------------------------------------------------------------
LEMMA LockInvStep ==
    ASSUME MigrationInv, LockInv, [Next]_vars
    PROVE  LockInv'
<1> USE MigrationAssumption
<1>1. ASSUME NEW r \in Runners, TryLock(r)
      PROVE  LockInv'
  <2>1. CASE lock = NoRunner
    <3>1. /\ lock' = r /\ pc' = [pc EXCEPT ![r] = "bootstrap"] /\ lost' = lost
      BY <1>1, <2>1 DEF TryLock, Goto
    <3>2. \A s \in Holding : s \in lost
      BY <2>1 DEF LockInv, Holding
    <3>3. Holding' = Holding \cup {r}
      BY <3>1 DEF Holding, MigrationInv, TypeOK
    <3>4. pc'[r] # "done"
      BY <3>1 DEF MigrationInv, TypeOK
    <3> QED BY <3>1, <3>2, <3>3, <3>4 DEF LockInv
  <2>2. CASE lock # NoRunner
    BY <1>1, <2>2 DEF TryLock, Goto, LockInv, Holding, MigrationInv, TypeOK
  <2> QED BY <2>1, <2>2
<1>2. ASSUME NEW r \in Runners,
             Bootstrap(r) \/ Exists(r) \/ ExecStatements(r) \/ InsertVersion(r) \/ Commit(r)
             \/ ReturnOk(r)
      PROVE  LockInv'
  <2>1. /\ lock' = lock /\ lost' = lost
        /\ \E w \in {"check", "exec", "insert", "commit", "unlock"} :
              pc' = [pc EXCEPT ![r] = w]
        /\ pc[r] \in {"bootstrap", "check", "exec", "insert", "commit"}
    BY <1>2 DEF Bootstrap, Exists, ExecStatements, InsertVersion, Commit, ReturnOk, ReturnWith,
                Goto, dbVars, MigrationInv, TypeOK
  <2> QED BY <2>1 DEF LockInv, Holding, MigrationInv, TypeOK
<1>3. ASSUME NEW r \in Runners, Unlock(r) \/ ClosePool(r)
      PROVE  LockInv'
  <2>1. /\ lock' = lock \/ (lock' = NoRunner /\ lock = r)
        /\ lost' = lost
        /\ pc[r] \in {"unlock", "close"}
        /\ \/ pc' = [pc EXCEPT ![r] = "close"]
           \/ pc' = [pc EXCEPT ![r] = "done"] /\ lock' # r
    BY <1>3 DEF Unlock, ClosePool, Goto
  <2>2. Holding' = Holding /\ r \notin Holding
    BY <2>1 DEF Holding, MigrationInv, TypeOK
  <2>3. \A s \in Runners : pc'[s] = "done" => lock' # s
    BY <2>1 DEF LockInv, MigrationInv, TypeOK
  <2> QED BY <2>1, <2>2, <2>3 DEF LockInv
<1>4. ASSUME NEW r \in Runners, RequestFails(r)
      PROVE  LockInv'
  <2>1. /\ lock' = lock \/ (lock' = r /\ lock = NoRunner)
        /\ lost' = lost
        /\ pc[r] # "done"
        /\ \E w \in {"unlock", "close"} : pc' = [pc EXCEPT ![r] = w]
    BY <1>4 DEF RequestFails, ReturnWith, Goto, dbVars
  <2>2. Holding' = Holding \ {r}
    BY <2>1 DEF Holding, MigrationInv, TypeOK
  <2>3. \A s \in Runners : pc'[s] = "done" => s # r /\ pc[s] = "done"
    BY <2>1 DEF MigrationInv, TypeOK
  <2> QED BY <2>1, <2>2, <2>3 DEF LockInv, Holding
<1>5. ASSUME NEW r \in Runners, SessionLost(r)
      PROVE  LockInv'
  BY <1>5 DEF SessionLost, LockInv, Holding
<1>6. ASSUME NEW r \in Runners, Restart(r)
      PROVE  LockInv'
  BY <1>6 DEF Restart, Goto, LockInv, Holding, MigrationInv, TypeOK
<1>7. CASE UNCHANGED vars
  BY <1>7 DEF vars, LockInv, Holding
<1> QED BY <1>1, <1>2, <1>3, <1>4, <1>5, <1>6, <1>7 DEF Next, RunnerStep

\* schema_migrations only grows, up to all files.
LEMMA VersionsGrow ==
    ASSUME MigrationInv, [Next]_vars, versions = Files
    PROVE  versions' = Files
<1>1. ASSUME NEW r \in Runners, pc[r] = "commit", CommitEffect(r)
      PROVE  versions' = Files
  BY <1>1, CommitKeepsLog
<1>2. ASSUME versions' # versions
      PROVE  \E r \in Runners : pc[r] = "commit" /\ CommitEffect(r)
  BY <1>2 DEF Next, RunnerStep, TryLock, Bootstrap, Exists, ExecStatements, InsertVersion,
              Commit, ReturnOk, Unlock, ClosePool, RequestFails, SessionLost, Restart, vars, dbVars
<1> QED BY <1>1, <1>2

----------------------------------------------------------------------------
LEMMA ServerInvInit == ServerInit => ServerInv
<1> SUFFICES ASSUME ServerInit PROVE ServerInv
  OBVIOUS
<1>1. MigrationInv /\ TypeOK
  BY MigrationInvInit DEF ServerInit, MigrationInv
<1>2. LockInv
  BY MigrationAssumption DEF ServerInit, Init, LockInv, Holding
<1>3. ServerTypeOK
  BY <1>1 DEF ServerInit, ServerTypeOK, Phases, FirstPhase, AllOff, Jobs
<1>4. ServesOnMigratedSchema
  BY ServerAssumption DEF ServerInit, ServesOnMigratedSchema, Started, FirstPhase
<1>5. Drained /\ DrainedBeforeClose
  BY DEF ServerInit, Drained, DrainedBeforeClose, Closed, FirstPhase
<1> QED BY <1>1, <1>2, <1>3, <1>4, <1>5 DEF ServerInv

\* What a step of one server does to its own state; the rest is frame.
LEMMA PhaseStepInv ==
    ASSUME ServerInv, NEW s \in Servers, NEW from \in Phases, NEW to \in Phases,
           PhaseStep(s, from, to),
           job' = job \/ job' = [job EXCEPT ![s] = AllOff]
                \/ job' = [job EXCEPT ![s]["relay"] = "idle"],
           s \in Runners /\ from \in {"migrate", "dead"} /\ to \notin {"migrate", "dead"}
               => versions = Files,
           to \in {"close_pool", "close_valkey"} => Closed(s) \/ job'[s]["http"] = "off"
    PROVE  ServerInv'
<1>1. /\ phase[s] = from /\ phase' = [phase EXCEPT ![s] = to]
      /\ vars' = vars /\ timedOut' = timedOut /\ onClosed' = onClosed
  BY DEF PhaseStep
<1>2. MigrationInv' /\ TypeOK'
  BY <1>1, MigrationInvStep DEF ServerInv, MigrationInv
<1>3. LockInv'
  BY <1>1, LockInvStep DEF ServerInv
<1>4. /\ job' \in [Servers -> [Jobs -> {"off", "idle", "query"}]]
      /\ \A t \in Servers : t # s => job'[t] = job[t]
      /\ job'[s]["http"] = job[s]["http"] \/ job'[s]["http"] = "off"
  BY DEF ServerInv, ServerTypeOK, AllOff, Jobs
<1>5. ServerTypeOK'
  BY <1>1, <1>2, <1>4 DEF ServerInv, ServerTypeOK
<1>6. ServesOnMigratedSchema'
  BY <1>1 DEF ServerInv, ServerTypeOK, ServesOnMigratedSchema, Started, vars, Files
<1>7. Drained'
  BY <1>1, <1>4 DEF ServerInv, ServerTypeOK, Drained, Closed
<1>8. DrainedBeforeClose'
  BY <1>1 DEF ServerInv, DrainedBeforeClose
<1> QED BY <1>2, <1>3, <1>5, <1>6, <1>7, <1>8 DEF ServerInv

LEMMA FatalInv ==
    ASSUME ServerInv, NEW s \in Servers, NEW from \in Phases, Fatal(s, from)
    PROVE  ServerInv'
<1>1. "dead" \in Phases
  BY DEF Phases
<1> QED BY <1>1, PhaseStepInv DEF Fatal

\* A job of a server goes on.
LEMMA JobStepInv ==
    ASSUME ServerInv, NEW s \in Servers, NEW j \in Jobs,
           NEW from \in {"off", "idle", "query"}, NEW to \in {"off", "idle", "query"},
           JobStep(s, j, from, to),
           j = "http" /\ from = "off" => ~Closed(s),
           onClosed' = onClosed
               \/ (onClosed' = onClosed \cup {<<s, j>>} /\ Closed(s) /\ from # "off")
    PROVE  ServerInv'
<1>1. /\ job[s][j] = from /\ job' = [job EXCEPT ![s][j] = to]
      /\ vars' = vars /\ phase' = phase /\ timedOut' = timedOut
  BY DEF JobStep
<1>2. MigrationInv' /\ TypeOK'
  BY <1>1, MigrationInvStep DEF ServerInv, MigrationInv
<1>3. LockInv'
  BY <1>1, LockInvStep DEF ServerInv
<1>4. ServerTypeOK'
  BY <1>1, <1>2 DEF ServerInv, ServerTypeOK
<1>5. ServesOnMigratedSchema'
  BY <1>1 DEF ServerInv, ServesOnMigratedSchema, Started, vars, Files
<1>6. ASSUME NEW t \in Servers, Closed(t)', t \notin timedOut'
      PROVE  job'[t]["http"] = "off"
  <2>1. Closed(t) /\ job[t]["http"] = "off"
    BY <1>1, <1>6 DEF ServerInv, Drained, Closed
  <2>2. CASE t = s /\ j = "http"
    BY <1>1, <2>1, <2>2
  <2>3. CASE t # s \/ j # "http"
    BY <1>1, <2>1, <2>3 DEF ServerInv, ServerTypeOK, Jobs
  <2> QED BY <2>2, <2>3
<1>7. Drained'
  BY <1>6 DEF Drained
<1>8. DrainedBeforeClose'
  BY <1>1 DEF ServerInv, Drained, DrainedBeforeClose
<1> QED BY <1>2, <1>3, <1>4, <1>5, <1>7, <1>8 DEF ServerInv

LEMMA ServerInvStep == ServerInv /\ [ServerNext]_allVars => ServerInv'
<1> SUFFICES ASSUME ServerInv, [ServerNext]_allVars
             PROVE  ServerInv'
  OBVIOUS
<1>p. /\ "migrate" \in Phases /\ "valkey" \in Phases /\ "pool" \in Phases /\ "workers" \in Phases
      /\ "listen" \in Phases /\ "serving" \in Phases /\ "draining" \in Phases
      /\ "close_pool" \in Phases /\ "close_valkey" \in Phases /\ "exited" \in Phases
  BY DEF Phases
<1>1. ASSUME NEW r \in Runners, MigrationStep(r)
      PROVE  ServerInv'
  <2>1. Next /\ UNCHANGED serverVars
    BY <1>1 DEF MigrationStep, Next
  <2>2. MigrationInv' /\ LockInv' /\ TypeOK' /\ (versions = Files => versions' = Files)
    BY <2>1, MigrationInvStep, LockInvStep, VersionsGrow DEF ServerInv, MigrationInv
  <2> QED BY <2>1, <2>2 DEF ServerInv, ServerTypeOK, ServesOnMigratedSchema, Started, Drained,
                            DrainedBeforeClose, Closed, serverVars, Files
<1>2. ASSUME NEW s \in Servers \cap Runners, RestartServer(s)
      PROVE  ServerInv'
  <2>1. /\ Next /\ phase' = [phase EXCEPT ![s] = "migrate"]
        /\ job' = [job EXCEPT ![s] = AllOff]
        /\ timedOut' = timedOut \ {s} /\ onClosed' = onClosed \ ({s} \X Jobs)
    BY <1>2 DEF RestartServer, Next
  <2>2. MigrationInv' /\ LockInv' /\ TypeOK' /\ (versions = Files => versions' = Files)
    BY <2>1, MigrationInvStep, LockInvStep, VersionsGrow DEF ServerInv, MigrationInv
  <2>3. ServerTypeOK'
    BY <1>p, <2>1, <2>2 DEF ServerInv, ServerTypeOK, AllOff
  <2>4. ServesOnMigratedSchema'
    BY <2>1, <2>2 DEF ServerInv, ServerTypeOK, ServesOnMigratedSchema, Started, Files
  <2>5. Drained'
    BY <2>1 DEF ServerInv, ServerTypeOK, Drained, Closed
  <2>6. DrainedBeforeClose'
    BY <2>1 DEF ServerInv, DrainedBeforeClose, Jobs
  <2> QED BY <2>2, <2>3, <2>4, <2>5, <2>6 DEF ServerInv
<1>3. ASSUME NEW s \in Servers, Migrated(s)
      PROVE  ServerInv'
  <2>1. result[s] = "ok" => versions = Files
    BY <1>3 DEF Migrated, ServerInv, MigrationInv, OkDone
  <2> QED BY <1>3, <1>p, <2>1, PhaseStepInv, FatalInv DEF Migrated
<1>4. ASSUME NEW s \in Servers, ConnectValkey(s) \/ ConnectPostgres(s) \/ Listen(s)
                               \/ FrontendFails(s) \/ Signal(s)
      PROVE  ServerInv'
  BY <1>4, <1>p, PhaseStepInv, FatalInv
     DEF ConnectValkey, ConnectPostgres, Listen, FrontendFails, Signal
<1>5. ASSUME NEW s \in Servers, StartWorkers(s)
      PROVE  ServerInv'
  BY <1>5, <1>p, PhaseStepInv, FatalInv DEF StartWorkers
<1>6. ASSUME NEW s \in Servers, Shutdown(s)
      PROVE  ServerInv'
  BY <1>6, <1>p, PhaseStepInv DEF Shutdown
<1>7. ASSUME NEW s \in Servers, ShutdownTimesOut(s)
      PROVE  ServerInv'
  <2>1. /\ phase[s] = "draining" /\ phase' = [phase EXCEPT ![s] = "close_pool"]
        /\ timedOut' = timedOut \cup {s} /\ vars' = vars /\ job' = job /\ onClosed' = onClosed
    BY <1>7 DEF ShutdownTimesOut
  <2>2. MigrationInv' /\ LockInv' /\ TypeOK'
    BY <2>1, MigrationInvStep, LockInvStep DEF ServerInv, MigrationInv
  <2>3. ServerTypeOK'
    BY <1>p, <2>1, <2>2 DEF ServerInv, ServerTypeOK
  <2>4. ServesOnMigratedSchema'
    BY <2>1 DEF ServerInv, ServerTypeOK, ServesOnMigratedSchema, Started, vars, Files
  <2>5. Drained' /\ DrainedBeforeClose'
    BY <2>1 DEF ServerInv, ServerTypeOK, Drained, DrainedBeforeClose, Closed
  <2> QED BY <2>2, <2>3, <2>4, <2>5 DEF ServerInv
<1>8. ASSUME NEW s \in Servers, ClosePostgres(s)
      PROVE  ServerInv'
  <2>1. Closed(s) /\ PhaseStep(s, "close_pool", "close_valkey") /\ job' = job
    BY <1>8 DEF ClosePostgres, PhaseStep, Closed
  <2> QED BY <1>p, <2>1, PhaseStepInv
<1>9. ASSUME NEW s \in Servers, CloseValkey(s)
      PROVE  ServerInv'
  BY <1>9, <1>p, PhaseStepInv DEF CloseValkey
<1>10. ASSUME NEW s \in Servers, NEW j \in Jobs,
              Accept(s, j) \/ Query(s, j) \/ QueryEnds(s, j) \/ Finish(s, j)
       PROVE  ServerInv'
  <2>1. Accept(s, j) => ~Closed(s)
    BY DEF Accept, Closed
  <2> QED BY <1>10, <2>1, JobStepInv DEF Accept, Query, QueryEnds, Finish
<1>11. CASE UNCHANGED allVars
  <2>1. UNCHANGED vars /\ UNCHANGED serverVars
    BY <1>11 DEF allVars
  <2>2. MigrationInv' /\ LockInv' /\ TypeOK'
    BY <2>1, MigrationInvStep, LockInvStep DEF ServerInv, MigrationInv
  <2> QED BY <2>1, <2>2 DEF ServerInv, ServerTypeOK, ServesOnMigratedSchema, Started, Drained,
                            DrainedBeforeClose, Closed, serverVars, vars, Files
<1> QED
  BY <1>1, <1>2, <1>3, <1>4, <1>5, <1>6, <1>7, <1>8, <1>9, <1>10, <1>11
     DEF ServerNext, StartStep, ShutdownStep

LEMMA ServerInvAlways == ServerSpec => []ServerInv
  BY ServerInvInit, ServerInvStep, PTL DEF ServerSpec

----------------------------------------------------------------------------
\* runServer: whatever the replicas and the migrate command do next to each other, and
\* whichever of them die, a server told to migrate is at its stores only when every file
\* has been applied.
THEOREM ServesMigrated == ServerSpec => []ServesOnMigratedSchema
<1>1. ServerInv => ServesOnMigratedSchema
  BY DEF ServerInv
<1> QED BY <1>1, ServerInvAlways, PTL

\* Shutdown: an HTTP request meets closed stores only after the shutdown timed out.
THEOREM ShutdownDrains == ServerSpec => []DrainedBeforeClose
<1>1. ServerInv => DrainedBeforeClose
  BY DEF ServerInv
<1> QED BY <1>1, ServerInvAlways, PTL

\* runPostgres in the running system: files are applied once and in order.
THEOREM ServersMigrateOnceInOrder == ServerSpec => []AppliedOnceInOrder
<1>1. ServerInv => AppliedOnceInOrder
  BY DEF ServerInv, MigrationInv
<1> QED BY <1>1, ServerInvAlways, PTL

\* pg_try_advisory_lock and the deferred unlock: runners overlap only after a lost
\* session, and one that is done has left the lock.
THEOREM LockIsExclusive == ServerSpec => []LockHeldByOne
<1>1. ServerInv => LockHeldByOne
  BY DEF ServerInv, LockInv, LockHeldByOne
<1> QED BY <1>1, ServerInvAlways, PTL

\* runPostgres: next to serving and stopping servers, too, overlapping runners apply each
\* file once and in order and do not share the lock without a lost session.
THEOREM RunnersStayApart == ServerSpec => []RunnersDoNotClash
<1>1. AppliedOnceInOrder /\ LockHeldByOne => RunnersDoNotClash
  BY DEF RunnersDoNotClash
<1> QED BY <1>1, ServersMigrateOnceInOrder, LockIsExclusive, PTL

----------------------------------------------------------------------------
\* What remains of termination when fairness is left aside: runners and servers only move
\* towards their ends.
LEMMA RunnerGetsOn ==
    ASSUME MigrationInv, NEW r \in Runners, RunnerStep(r)
    PROVE  /\ \A s \in Runners \ {r} : pc'[s] = pc[s] /\ file'[s] = file[s]
           /\ StepsLeft(r)' < StepsLeft(r)
<1>0. /\ NFiles \in Nat /\ file[r] \in 1 .. NFiles + 1
      /\ pc \in [Runners -> {"lock", "bootstrap", "check", "exec", "insert", "commit",
                             "unlock", "close", "done"}]
      /\ file \in [Runners -> 1 .. NFiles + 1]
      /\ pc[r] \in {"exec", "insert", "commit"} => file[r] \in 1 .. NFiles
  BY MigrationAssumption DEF MigrationInv, TypeOK, AtFile, Files
<1>1. \A s \in Runners \ {r} : pc'[s] = pc[s] /\ file'[s] = file[s]
  BY <1>0 DEF RunnerStep, TryLock, Bootstrap, Exists, ExecStatements, InsertVersion, Commit, ReturnOk,
              Unlock, ClosePool, ReturnWith, Goto
<1> DEFINE n == file[r]
           m == file'[r]
           p == pc[r]
           q == pc'[r]
<1>2. \/ p = "lock" /\ q \in {"bootstrap", "close"}
      \/ p = "bootstrap" /\ q = "check" /\ m = 1
      \/ p = "check" /\ n \in 1 .. NFiles /\ q = "check" /\ m = n + 1
      \/ p = "check" /\ n \in 1 .. NFiles /\ q = "exec" /\ m = n
      \/ p = "exec" /\ q = "insert" /\ m = n
      \/ p = "insert" /\ q = "commit" /\ m = n
      \/ p = "insert" /\ q = "unlock" /\ m = n
      \/ p = "commit" /\ q = "check" /\ m = n + 1
      \/ p = "check" /\ q = "unlock" /\ m = n
      \/ p = "unlock" /\ q = "close"
      \/ p = "close" /\ q = "done"
  BY <1>0 DEF RunnerStep, TryLock, Bootstrap, Exists, ExecStatements, InsertVersion, Commit, ReturnOk,
              Unlock, ClosePool, ReturnWith, Goto, Files
<1>3. /\ StepsLeft(r) = 4 * (IF p \in {"unlock", "close", "done"} THEN 0
                             ELSE IF p \in {"lock", "bootstrap"} THEN NFiles
                             ELSE NFiles + 1 - n) + PcRank[p]
      /\ StepsLeft(r)' = 4 * (IF q \in {"unlock", "close", "done"} THEN 0
                              ELSE IF q \in {"lock", "bootstrap"} THEN NFiles
                              ELSE NFiles + 1 - m) + PcRank[q]
  BY DEF StepsLeft, FilesLeft
<1>4. n \in 1 .. NFiles + 1 /\ (p \in {"exec", "insert", "commit"} => n \in 1 .. NFiles)
  BY <1>0
<1> HIDE DEF n, m, p, q
<1>5. StepsLeft(r)' < StepsLeft(r)
  BY <1>0, <1>2, <1>3, <1>4 DEF PcRank
<1> QED BY <1>1, <1>5

\* runPostgres next to servers that start, serve and stop: between two faults every step of
\* a runner brings it nearer to its return, for any number of runners and files.
LEMMA RunnersProgress ==
    ASSUME ServerInv, ServerNext, faults' = faults
    PROVE  RunnersGetOn
<1>1. ASSUME NEW r \in Runners, pc'[r] # pc[r] \/ file'[r] # file[r]
      PROVE  StepsLeft(r)' < StepsLeft(r)
  <2>0. vars' # vars
    BY <1>1 DEF vars
  <2>1. PICK s \in Runners : RunnerStep(s)
    <3>1. ASSUME NEW s \in Runners, MigrationStep(s) PROVE RunnerStep(s)
      <4>1. faults \in Nat
        BY DEF ServerInv, MigrationInv, TypeOK
      <4> QED BY <3>1, <4>1 DEF MigrationStep, RequestFails, SessionLost, Restart
    <3>2. ASSUME NEW s \in Servers, RestartServer(s) PROVE FALSE
      <4>1. faults \in Nat
        BY DEF ServerInv, MigrationInv, TypeOK
      <4> QED BY <3>2, <4>1 DEF RestartServer, Restart
    <3>3. \A s \in Servers : ~StartStep(s) /\ ~FrontendFails(s) /\ ~Signal(s) /\ ~ShutdownStep(s)
      BY <2>0 DEF StartStep, FrontendFails, Signal, ShutdownStep, Migrated, ConnectValkey,
             ConnectPostgres, StartWorkers, Listen, Fatal, Shutdown, ShutdownTimesOut,
             ClosePostgres, CloseValkey, QueryEnds, PhaseStep, JobStep
    <3>4. \A s \in Servers, j \in Jobs : ~Accept(s, j) /\ ~Query(s, j) /\ ~Finish(s, j)
      BY <2>0 DEF Accept, Query, Finish, JobStep
    <3> QED BY <3>1, <3>2, <3>3, <3>4 DEF ServerNext
  <2>2. /\ \A t \in Runners \ {s} : pc'[t] = pc[t] /\ file'[t] = file[t]
        /\ StepsLeft(s)' < StepsLeft(s)
    BY <2>1, RunnerGetsOn DEF ServerInv
  <2> QED BY <1>1, <2>2
<1> QED BY <1>1 DEF RunnersGetOn

\* The end of runServer: after the signal a server goes from phase to phase towards its exit,
\* and the pool it closes hands out no connection, whatever its handlers and its relay do.
LEMMA ShutdownProgress ==
    ASSUME ServerInv, ServerNext, faults' = faults
    PROVE  ShutdownGetsOn
<1> DEFINE On(s) == /\ phase'[s] = phase[s] \/ ShutdownRank[phase'[s]] < ShutdownRank[phase[s]]
                    /\ Closed(s) => \A j \in Jobs : job'[s][j] = "query" => job[s][j] = "query"
<1>1. ASSUME NEW s \in Servers, phase[s] \in DOMAIN ShutdownRank PROVE On(s)
  <2>0. /\ phase \in [Servers -> Phases] /\ job \in [Servers -> [Jobs -> {"off", "idle", "query"}]]
        /\ faults \in Nat
        /\ phase[s] \in {"draining", "close_pool", "close_valkey", "exited"}
    BY <1>1 DEF ServerInv, ServerTypeOK, TypeOK, ShutdownRank
  <2>1. ASSUME phase' = phase, job' = job PROVE On(s)
    BY <2>1
  <2>2. ASSUME NEW t \in Servers, t # s,
               StartStep(t) \/ FrontendFails(t) \/ Signal(t) \/ ShutdownStep(t)
        PROVE  On(s)
    <3>1. phase'[s] = phase[s] /\ job'[s] = job[s]
      BY <2>0, <2>2 DEF StartStep, FrontendFails, Signal, ShutdownStep, Migrated, ConnectValkey,
         ConnectPostgres, StartWorkers, Listen, Fatal, Shutdown, ShutdownTimesOut, ClosePostgres,
         CloseValkey, QueryEnds, PhaseStep, JobStep
    <3> QED BY <3>1
  <2>3. ASSUME NEW t \in Servers, t # s, NEW j \in Jobs, Accept(t, j) \/ Query(t, j) \/ Finish(t, j)
        PROVE  On(s)
    <3>1. phase'[s] = phase[s] /\ job'[s] = job[s]
      BY <2>0, <2>3 DEF Accept, Query, Finish, JobStep
    <3> QED BY <3>1
  <2>4. ~StartStep(s) /\ ~FrontendFails(s) /\ ~Signal(s)
    BY <2>0 DEF StartStep, FrontendFails, Signal, Migrated, ConnectValkey, ConnectPostgres,
                StartWorkers, Listen, Fatal, PhaseStep
  <2>5. CASE Shutdown(s) \/ ShutdownTimesOut(s) \/ ClosePostgres(s) \/ CloseValkey(s)
    <3>1. \/ phase[s] = "draining" /\ phase'[s] = "close_pool"
          \/ phase[s] = "close_pool" /\ phase'[s] = "close_valkey"
          \/ phase[s] = "close_valkey" /\ phase'[s] = "exited"
      BY <2>0, <2>5 DEF Shutdown, ShutdownTimesOut, ClosePostgres, CloseValkey, PhaseStep
    <3>2. job' = job \/ job' = [job EXCEPT ![s] = AllOff]
      BY <2>5 DEF Shutdown, ShutdownTimesOut, ClosePostgres, CloseValkey
    <3>3. \A j \in Jobs : job'[s][j] = "query" => job[s][j] = "query"
      BY <2>0, <3>2 DEF AllOff
    <3> QED BY <3>1, <3>3 DEF ShutdownRank
  <2>6. ASSUME NEW j \in Jobs, Accept(s, j) \/ Query(s, j) \/ QueryEnds(s, j) \/ Finish(s, j)
        PROVE  On(s)
    <3>1. phase' = phase
      BY <2>6 DEF Accept, Query, QueryEnds, Finish, JobStep
    <3>2. ASSUME Closed(s), NEW k \in Jobs, job'[s][k] = "query" PROVE job[s][k] = "query"
      <4>1. job' = [job EXCEPT ![s][j] = "idle"] \/ job' = [job EXCEPT ![s][j] = "off"]
        BY <2>6, <3>2 DEF Accept, Query, QueryEnds, Finish, JobStep, Closed
      <4> QED BY <2>0, <3>2, <4>1
    <3> QED BY <3>1, <3>2
  <2>7. ASSUME NEW r \in Runners, MigrationStep(r) PROVE On(s)
    BY <2>1, <2>7 DEF MigrationStep, serverVars
  <2>8. ASSUME NEW t \in Servers, RestartServer(t) PROVE FALSE
    BY <2>0, <2>8 DEF RestartServer, Restart
  <2> QED BY <2>2, <2>3, <2>4, <2>5, <2>6, <2>7, <2>8 DEF ServerNext, ShutdownStep
<1> QED BY <1>1 DEF ShutdownGetsOn

\* runPostgres and the end of runServer, for any number of servers, commands and files: between
\* two faults every step of a runner brings it nearer to its return, and a server that got the
\* signal goes from phase to phase to its exit.
THEOREM ServersComeToAnEnd == ServerSpec => ServerGetsOn
<1>1. ServerInv /\ [ServerNext]_allVars =>
        [faults' = faults => RunnersGetOn /\ ShutdownGetsOn]_allVars
  BY RunnersProgress, ShutdownProgress
<1> QED BY <1>1, ServerInvAlways, PTL DEF ServerSpec, ServerGetsOn
=============================================================================
