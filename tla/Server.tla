------------------------------- MODULE Server -------------------------------
(***************************************************************************)
(* The server process from start to exit, for replicas that start together *)
(* with the migration runners of Migrations: configuration, startup        *)
(* migrations, connections, background workers, serving, and the shutdown  *)
(* that a signal begins.  log.Fatal ends the process at once, without the  *)
(* deferred calls.                                                         *)
(*                                                                         *)
(* A process runs three kinds of jobs that use the stores: HTTP requests,  *)
(* WebSocket handlers (their connections are hijacked, so Shutdown does    *)
(* not wait for them) and the outbox relay.  One of each is enough to race *)
(* with the shutdown.                                                      *)
(***************************************************************************)
EXTENDS Migrations

CONSTANTS
    Servers,
    Env    \* AELORA_RUN_MIGRATIONS_ON_START of each server, "" when it is not set

\* strconv.ParseBool, and the getenv functions of package config: a value that is
\* missing or does not parse is silently replaced by the fallback.
ParsesAsTrue == {"1", "t", "T", "true", "TRUE", "True"}
ParsesAsFalse == {"0", "f", "F", "false", "FALSE", "False"}
GetenvBool(v, fallback) == v \in ParsesAsTrue \/ (v \notin ParsesAsFalse /\ fallback)

RunMigrationsOnStart(s) == GetenvBool(Env[s], FALSE)

\* The other runners are the migrate command.
ASSUME ServerAssumption == \A s \in Servers : RunMigrationsOnStart(s) <=> s \in Runners

Jobs == {"http", "ws", "relay"}

VARIABLES
    phase,     \* where a server is in runServer
    job,       \* each job: "off", "idle" (between store calls) or "query"
    timedOut,  \* servers whose Shutdown timed out
    onClosed   \* <<server, job>> that called a closed store

serverVars == <<phase, job, timedOut, onClosed>>
allVars == <<vars, serverVars>>

AllOff == [j \in Jobs |-> "off"]
FirstPhase(s) == IF RunMigrationsOnStart(s) THEN "migrate" ELSE "valkey"

ServerInit ==
    /\ Init
    /\ phase = [s \in Servers |-> FirstPhase(s)]
    /\ job = [s \in Servers |-> AllOff]
    /\ timedOut = {} /\ onClosed = {}

PhaseStep(s, from, to) ==
    /\ phase[s] = from
    /\ phase' = [phase EXCEPT ![s] = to]
    /\ UNCHANGED <<vars, timedOut, onClosed>>

\* os.Exit: the goroutines end with the process.
Fatal(s, from) == PhaseStep(s, from, "dead") /\ job' = [job EXCEPT ![s] = AllOff]

Closed(s) == phase[s] \in {"close_pool", "close_valkey"}

----------------------------------------------------------------------------
\* Faulty variant: a lock that is held elsewhere is taken to mean "being migrated".
MigratedOrHeld(s) ==
    /\ s \in Runners /\ pc[s] = "done"
    /\ \/ result[s] \in {"ok", "held"} /\ PhaseStep(s, "migrate", "valkey") /\ UNCHANGED job
       \/ result[s] = "error" /\ Fatal(s, "migrate")

\* runMigrations returned.
Migrated(s) ==
    /\ s \in Runners /\ pc[s] = "done"
    /\ \/ result[s] = "ok" /\ PhaseStep(s, "migrate", "valkey") /\ UNCHANGED job
       \/ result[s] # "ok" /\ Fatal(s, "migrate")

ConnectValkey(s) ==
    (PhaseStep(s, "valkey", "pool") /\ UNCHANGED job) \/ Fatal(s, "valkey")

\* NewPool pings.
ConnectPostgres(s) ==
    (PhaseStep(s, "pool", "workers") /\ UNCHANGED job) \/ Fatal(s, "pool")

\* RunRealtime and the relay, then the sidecar's configuration.
StartWorkers(s) ==
    \/ /\ PhaseStep(s, "workers", "listen")
       /\ job' = [job EXCEPT ![s]["relay"] = "idle"]
    \/ Fatal(s, "workers")

Listen(s) ==
    (PhaseStep(s, "listen", "serving") /\ UNCHANGED job) \/ Fatal(s, "listen")

\* The sidecar's own listener fails.
FrontendFails(s) == Fatal(s, "serving")

----------------------------------------------------------------------------
JobStep(s, j, from, to) ==
    /\ job[s][j] = from
    /\ job' = [job EXCEPT ![s][j] = to]
    /\ UNCHANGED <<vars, phase, timedOut>>

\* A request or a connection arrives.
Accept(s, j) ==
    /\ phase[s] = "serving" /\ j # "relay"
    /\ JobStep(s, j, "off", "idle")
    /\ UNCHANGED onClosed

\* Faulty variant: a pool that is being closed still hands out connections.
QueryWhileClosing(s, j) == JobStep(s, j, "idle", "query") /\ UNCHANGED onClosed

\* A job takes a connection of the pool, or finds the pool closed.
Query(s, j) ==
    \/ ~Closed(s) /\ JobStep(s, j, "idle", "query") /\ UNCHANGED onClosed
    \/ /\ Closed(s) /\ JobStep(s, j, "idle", "idle")
       /\ onClosed' = onClosed \cup {<<s, j>>}

QueryEnds(s, j) == JobStep(s, j, "query", "idle") /\ UNCHANGED onClosed

Finish(s, j) == j # "relay" /\ JobStep(s, j, "idle", "off") /\ UNCHANGED onClosed

----------------------------------------------------------------------------
\* SIGINT or SIGTERM while main waits; before that it is a crash, see Restart.
Signal(s) == PhaseStep(s, "serving", "draining") /\ UNCHANGED job

\* Faulty variant: Close instead of Shutdown.
ShutdownAtOnce(s) == PhaseStep(s, "draining", "close_pool") /\ UNCHANGED job

\* Shutdown waits for HTTP requests only.
Shutdown(s) ==
    /\ job[s]["http"] = "off"
    /\ PhaseStep(s, "draining", "close_pool")
    /\ UNCHANGED job

\* After ten seconds; its error is ignored.
ShutdownTimesOut(s) ==
    /\ phase[s] = "draining" /\ job[s]["http"] # "off"
    /\ phase' = [phase EXCEPT ![s] = "close_pool"]
    /\ timedOut' = timedOut \cup {s}
    /\ UNCHANGED <<vars, job, onClosed>>

\* Faulty variant: Close waits for the jobs and not for their connections.
ClosePoolWhenIdle(s) ==
    /\ \A j \in Jobs : job[s][j] = "off"
    /\ PhaseStep(s, "close_pool", "close_valkey")
    /\ UNCHANGED job

\* pgRepo.Close and pool.Close, the deferred calls, wait for connections in use.
ClosePostgres(s) ==
    /\ \A j \in Jobs : job[s][j] # "query"
    /\ PhaseStep(s, "close_pool", "close_valkey")
    /\ UNCHANGED job

\* valkeyClient.Close, the cancel of main's context, and the end of main.
CloseValkey(s) ==
    /\ PhaseStep(s, "close_valkey", "exited")
    /\ job' = [job EXCEPT ![s] = AllOff]

----------------------------------------------------------------------------
StartStep(s) ==
    \/ Migrated(s) \/ ConnectValkey(s) \/ ConnectPostgres(s) \/ StartWorkers(s) \/ Listen(s)

ShutdownStep(s) ==
    \/ Shutdown(s) \/ ShutdownTimesOut(s) \/ ClosePostgres(s) \/ CloseValkey(s)
    \/ \E j \in Jobs : QueryEnds(s, j)

\* A process that died is started again, or killed and started again.
RestartServer(s) ==
    /\ Restart(s)
    /\ phase' = [phase EXCEPT ![s] = "migrate"]
    /\ job' = [job EXCEPT ![s] = AllOff]
    /\ timedOut' = timedOut \ {s}
    /\ onClosed' = onClosed \ ({s} \X Jobs)

MigrationStep(r) ==
    /\ \/ RunnerStep(r) \/ RequestFails(r) \/ SessionLost(r)
       \/ r \notin Servers /\ Restart(r)
    /\ UNCHANGED serverVars

ServerNext ==
    \/ \E r \in Runners : MigrationStep(r)
    \/ \E s \in Servers \cap Runners : RestartServer(s)
    \/ \E s \in Servers :
          \/ StartStep(s) \/ FrontendFails(s) \/ Signal(s) \/ ShutdownStep(s)
          \/ \E j \in Jobs : Accept(s, j) \/ Query(s, j) \/ Finish(s, j)

\* A running process goes on; a store call ends; the ten seconds of Shutdown pass.
ServerFairness ==
    /\ \A r \in Runners : WF_allVars(RunnerStep(r) /\ UNCHANGED serverVars)
    /\ \A s \in Servers :
          /\ WF_allVars(StartStep(s))
          /\ WF_allVars(Shutdown(s) \/ ShutdownTimesOut(s) \/ ClosePostgres(s) \/ CloseValkey(s))
          /\ \A j \in Jobs : WF_allVars(QueryEnds(s, j))

ServerSpec == ServerInit /\ [][ServerNext]_allVars /\ ServerFairness

----------------------------------------------------------------------------
Phases == {"migrate", "valkey", "pool", "workers", "listen", "serving", "draining",
           "close_pool", "close_valkey", "exited", "dead"}

ServerTypeOK ==
    /\ TypeOK
    /\ phase \in [Servers -> Phases]
    /\ job \in [Servers -> [Jobs -> {"off", "idle", "query"}]]
    /\ timedOut \subseteq Servers /\ onClosed \subseteq Servers \X Jobs

Started(s) == phase[s] \notin {"migrate", "dead"}

\* runServer: a server that is told to migrate on start reaches its stores, and serves,
\* only on a schema with every file applied, also when replicas start together and when
\* another one holds the lock or dies while it migrates.
ServesOnMigratedSchema ==
    \A s \in Servers \cap Runners : Started(s) => versions = Files

\* Graceful shutdown: an HTTP request meets closed stores only if it outlived the ten
\* seconds of Shutdown.
DrainedBeforeClose ==
    \A s \in Servers : <<s, "http">> \in onClosed => s \in timedOut

\* A server that got the signal exits: the close of the pool waits only for connections
\* in use, not for the WebSocket handlers and the relay, which nobody has told to stop.
SignalledServerExits ==
    \A s \in Servers : phase[s] = "draining" ~> phase[s] \in {"exited", "migrate"}

\* The end of runServer has no way back: the phases follow each other, and while the pool
\* waits for connections in use no job gets one of them any more, although handlers and
\* relay go on.
ShutdownRank == [draining |-> 3, close_pool |-> 2, close_valkey |-> 1, exited |-> 0]

ShutdownGetsOn ==
    \A s \in Servers : phase[s] \in DOMAIN ShutdownRank =>
        /\ phase'[s] = phase[s] \/ ShutdownRank[phase'[s]] < ShutdownRank[phase[s]]
        /\ Closed(s) => \A j \in Jobs : job'[s][j] = "query" => job[s][j] = "query"

\* Startup migrations and shutdown come to an end by themselves: runPostgres gets nearer to
\* its return with every step of a runner, and the end of runServer nearer to the exit.  Only
\* a fault, such as a restart of the process, begins anew.
ServerGetsOn == [][faults' = faults => RunnersGetOn /\ ShutdownGetsOn]_allVars
=============================================================================
