----------------------------- MODULE Migrations -----------------------------
(***************************************************************************)
(* The migration runner: replicas that start together and the migrate      *)
(* command run it against one Postgres.                                    *)
(*                                                                         *)
(* The advisory lock belongs to a session of the runner's connection pool. *)
(* The pool may lose that session and go on with another one; Postgres     *)
(* then releases the lock.  A transaction holds its version row until it   *)
(* ends, and another transaction that inserts the same version waits.      *)
(***************************************************************************)
EXTENDS Naturals, Sequences

CONSTANTS
    Runners,
    NFiles,     \* number of migration files; a file is its place in the sorted list
    MaxFaults,  \* bound on lost sessions, failed requests and crashes
    NoRunner

Files == 1 .. NFiles

ASSUME MigrationAssumption ==
    /\ NFiles \in Nat /\ MaxFaults \in Nat /\ NoRunner \notin Runners

VARIABLES
    lock,      \* the runner whose session holds the advisory lock
    versions,  \* schema_migrations
    applied,   \* the files whose statements were committed, in order
    pc,        \* where a runner is
    file,      \* the file it is at
    result,    \* "none", "ok", "held" or "error"
    lost,      \* runners whose lock session was lost while they ran
    faults

dbVars == <<lock, versions, applied>>
vars == <<lock, versions, applied, pc, file, result, lost, faults>>

Init ==
    /\ lock = NoRunner /\ versions = {} /\ applied = <<>>
    /\ pc = [r \in Runners |-> "lock"]
    /\ file = [r \in Runners |-> 1]
    /\ result = [r \in Runners |-> "none"]
    /\ lost = {} /\ faults = 0

Goto(r, where) == pc' = [pc EXCEPT ![r] = where]

\* The deferred calls still run: unlock, then close the pool.
ReturnWith(r, res) ==
    /\ Goto(r, "unlock")
    /\ result' = [result EXCEPT ![r] = res]

Uncommitted(v) == {r \in Runners : pc[r] = "commit" /\ file[r] = v}

Holding == {r \in Runners : pc[r] \in {"bootstrap", "check", "exec", "insert", "commit"}}

----------------------------------------------------------------------------
\* Faulty variant: the answer of pg_try_advisory_lock is not looked at.
TryLockIgnored(r) ==
    /\ pc[r] = "lock"
    /\ lock' = IF lock = NoRunner THEN r ELSE lock
    /\ Goto(r, "bootstrap")
    /\ UNCHANGED <<versions, applied, file, result, lost, faults>>

\* pg_try_advisory_lock does not wait.
TryLock(r) ==
    /\ pc[r] = "lock"
    /\ \/ /\ lock = NoRunner
          /\ lock' = r
          /\ Goto(r, "bootstrap")
          /\ UNCHANGED result
       \/ /\ lock # NoRunner
          /\ Goto(r, "close")
          /\ result' = [result EXCEPT ![r] = "held"]
          /\ UNCHANGED lock
    /\ UNCHANGED <<versions, applied, file, lost, faults>>

\* CREATE TABLE IF NOT EXISTS schema_migrations, and the sorted list of files.
Bootstrap(r) ==
    /\ pc[r] = "bootstrap"
    /\ Goto(r, "check")
    /\ file' = [file EXCEPT ![r] = 1]
    /\ UNCHANGED <<dbVars, result, lost, faults>>

\* Is the version recorded?
Exists(r) ==
    /\ pc[r] = "check" /\ file[r] \in Files
    /\ \/ /\ file[r] \in versions
          /\ file' = [file EXCEPT ![r] = @ + 1]
          /\ UNCHANGED pc
       \/ /\ file[r] \notin versions
          /\ Goto(r, "exec")
          /\ UNCHANGED file
    /\ UNCHANGED <<dbVars, result, lost, faults>>

\* loadStatements, BeginTx, and the statements of the file in the transaction.
ExecStatements(r) ==
    /\ pc[r] = "exec"
    /\ Goto(r, "insert")
    /\ UNCHANGED <<dbVars, file, result, lost, faults>>

\* Faulty variant: ON CONFLICT DO NOTHING.
InsertIgnored(r) ==
    /\ pc[r] = "insert"
    /\ Uncommitted(file[r]) = {}
    /\ Goto(r, "commit")
    /\ UNCHANGED <<dbVars, file, result, lost, faults>>

\* Faulty variant: the runner tries again when the version is there.
InsertRetried(r) ==
    /\ pc[r] = "insert"
    /\ Uncommitted(file[r]) = {} /\ file[r] \notin versions
    /\ Goto(r, "commit")
    /\ UNCHANGED <<dbVars, file, result, lost, faults>>

\* INSERT INTO schema_migrations: waits for a transaction that inserted the
\* same version, and fails if the version is there.
InsertVersion(r) ==
    /\ pc[r] = "insert"
    /\ Uncommitted(file[r]) = {}
    /\ \/ /\ file[r] \notin versions
          /\ Goto(r, "commit")
          /\ UNCHANGED result
       \/ /\ file[r] \in versions
          /\ ReturnWith(r, "error")
    /\ UNCHANGED <<dbVars, file, lost, faults>>

CommitEffect(r) ==
    /\ versions' = versions \cup {file[r]}
    /\ applied' = Append(applied, file[r])

\* Faulty variant: the list of files is read again after every file.
CommitAndReload(r) ==
    /\ pc[r] = "commit"
    /\ CommitEffect(r)
    /\ Goto(r, "bootstrap")
    /\ UNCHANGED <<lock, file, result, lost, faults>>

Commit(r) ==
    /\ pc[r] = "commit"
    /\ CommitEffect(r)
    /\ Goto(r, "check")
    /\ file' = [file EXCEPT ![r] = @ + 1]
    /\ UNCHANGED <<lock, result, lost, faults>>

\* All files are done.
ReturnOk(r) ==
    /\ pc[r] = "check" /\ file[r] \notin Files
    /\ ReturnWith(r, "ok")
    /\ UNCHANGED <<dbVars, file, lost, faults>>

\* pg_advisory_unlock on any connection of the pool: it releases the lock only
\* on the session that took it.
Unlock(r) ==
    /\ pc[r] = "unlock"
    /\ \/ lock = r /\ lock' = NoRunner
       \/ UNCHANGED lock
    /\ Goto(r, "close")
    /\ UNCHANGED <<versions, applied, file, result, lost, faults>>

\* pool.Close ends every session.
ClosePool(r) ==
    /\ pc[r] = "close"
    /\ lock' = IF lock = r THEN NoRunner ELSE lock
    /\ Goto(r, "done")
    /\ UNCHANGED <<versions, applied, file, result, lost, faults>>

----------------------------------------------------------------------------
\* A request fails; an open transaction is rolled back.  A failed attempt to
\* lock may have locked.
RequestFails(r) ==
    /\ faults < MaxFaults /\ faults' = faults + 1
    /\ \/ /\ pc[r] = "lock"
          /\ lock' \in {lock} \cup (IF lock = NoRunner THEN {r} ELSE {})
          /\ Goto(r, "close")
          /\ result' = [result EXCEPT ![r] = "error"]
          /\ UNCHANGED <<versions, applied>>
       \/ /\ pc[r] \in {"bootstrap", "check", "exec", "insert"}
          /\ pc[r] = "check" => file[r] \in Files
          /\ ReturnWith(r, "error")
          /\ UNCHANGED dbVars
       \/ /\ pc[r] = "commit"   \* before or after it took effect
          /\ CommitEffect(r) \/ UNCHANGED <<versions, applied>>
          /\ ReturnWith(r, "error")
          /\ UNCHANGED lock
    /\ UNCHANGED <<file, lost>>

\* The session with the lock ends while the runner goes on.
SessionLost(r) ==
    /\ faults < MaxFaults /\ faults' = faults + 1
    /\ lock = r /\ lock' = NoRunner
    /\ lost' = lost \cup {r}
    /\ UNCHANGED <<versions, applied, pc, file, result>>

\* The process dies and is started again: its sessions end, and with them its
\* transaction and its lock.
Restart(r) ==
    /\ faults < MaxFaults /\ faults' = faults + 1
    /\ lock' = IF lock = r THEN NoRunner ELSE lock
    /\ Goto(r, "lock")
    /\ file' = [file EXCEPT ![r] = 1]
    /\ result' = [result EXCEPT ![r] = "none"]
    /\ lost' = lost \ {r}
    /\ UNCHANGED <<versions, applied>>

RunnerStep(r) ==
    \/ TryLock(r) \/ Bootstrap(r) \/ Exists(r) \/ ExecStatements(r) \/ InsertVersion(r)
    \/ Commit(r) \/ ReturnOk(r) \/ Unlock(r) \/ ClosePool(r)

Next == \E r \in Runners : RunnerStep(r) \/ RequestFails(r) \/ SessionLost(r) \/ Restart(r)

Fairness == \A r \in Runners : WF_vars(RunnerStep(r))

Spec == Init /\ [][Next]_vars /\ Fairness

----------------------------------------------------------------------------
TypeOK ==
    /\ lock \in Runners \cup {NoRunner}
    /\ versions \subseteq Files
    /\ applied \in Seq(Files)
    /\ pc \in [Runners -> {"lock", "bootstrap", "check", "exec", "insert", "commit",
                           "unlock", "close", "done"}]
    /\ file \in [Runners -> 1 .. NFiles + 1]
    /\ result \in [Runners -> {"none", "ok", "held", "error"}]
    /\ lost \subseteq Runners
    /\ faults \in Nat

\* runPostgres: the statements of a file are committed once and in the order of
\* the file names, also when runners overlap because the lock was lost.
AppliedOnceInOrder ==
    \A i \in 1 .. Len(applied) : applied[i] = i

\* runPostgres: a runner that returns nil left every file applied.
OkMeansMigrated ==
    \A r \in Runners : result[r] = "ok" => versions = Files /\ Len(applied) = NFiles

\* The advisory lock: two runners are between lock and unlock together only if one of
\* them lost the session that held it, and no runner that is done keeps it, even when
\* the unlock went to another connection of the pool.
LockHeldByOne ==
    /\ \A r, s \in Holding : r # s => r \in lost \/ s \in lost
    /\ \A r \in Runners : pc[r] = "done" => lock # r

\* Runners that overlap do not spoil each other's work.
RunnersDoNotClash == AppliedOnceInOrder /\ LockHeldByOne

\* No runner waits forever, neither for another one's transaction nor for the lock.
EveryRunnerReturns ==
    \A r \in Runners : <>[](pc[r] = "done")

\* An upper bound on the steps a runner has to take until it is done.
PcRank == [lock |-> 5, bootstrap |-> 4, check |-> 3, exec |-> 2, insert |-> 1, commit |-> 0,
           unlock |-> 2, close |-> 1, done |-> 0]

FilesLeft(r) ==
    IF pc[r] \in {"unlock", "close", "done"} THEN 0
    ELSE IF pc[r] \in {"lock", "bootstrap"} THEN NFiles ELSE NFiles + 1 - file[r]

StepsLeft(r) == 4 * FilesLeft(r) + PcRank[pc[r]]

\* runPostgres: a runner gets nearer to its return with every step it takes, whatever the
\* other runners do to its lock, its files and its transaction.  Only an insert waits, for
\* a commit, and a commit waits for nobody.
RunnersGetOn ==
    \A r \in Runners : pc'[r] # pc[r] \/ file'[r] # file[r] => StepsLeft(r)' < StepsLeft(r)
=============================================================================
