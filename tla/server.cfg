SPECIFICATION ServerSpec
CONSTANTS
    Runners = {r1, r2}
    Servers = {r1}
    Env <- MCEnv
    NFiles = 3
    MaxFaults = 3
    NoRunner = none
INVARIANTS RunnersDoNotClash ServesOnMigratedSchema DrainedBeforeClose
PROPERTIES ServerGetsOn EveryRunnerReturns SignalledServerExits
CHECK_DEADLOCK FALSE
