---------------------------- MODULE MCComponents ----------------------------
(***************************************************************************)
(* Small instances of the components that are checked alone.  They share   *)
(* no state, so a behaviour is one of them: part says which, and the       *)
(* variables of the others keep their first values.                        *)
(***************************************************************************)
EXTENDS RoomIds, RateLimiter, JwksCache, MessageIds, CircuitBreaker, RequestMetrics,
        PushTokens, HttpApi

\* 256 ids of eight binary digits, halves of four bits.
MCRound == [k \in 0 .. 5 |-> [x \in 0 .. 15 |-> (7 * x * x + 5 * k + 3) % 16]]

MCPlatformOf == [phone |-> "android", tablet |-> "ios"]

MCPushOp == [kind |-> "notify", device |-> "phone"]

VARIABLE part

componentVars == <<idVars, limiterVars, keyVars, messageIdVars, breakerVars, metricVars,
                   pushVars, apiVars>>

Parts == {"room ids", "limiter", "keys", "message ids", "breaker", "metrics", "push",
          "http"}

\* Inputs that are chosen at the start are fixed where they do not matter.
ComponentInit ==
    /\ part \in Parts
    /\ part # "breaker" => wrapped = RoomOps
    /\ part # "push" => pushOp = [c \in PushCalls |-> MCPushOp]
    /\ part # "http" => authEnabled = TRUE /\ kind = [r \in Requests |-> "live"]
    /\ RoomIdInit /\ LimiterInit /\ KeyInit /\ MessageIdInit /\ BreakerInit /\ MetricsInit
    /\ PushInit /\ Init

ComponentNext ==
    /\ \/ /\ part = "room ids" /\ RoomIdNext
          /\ UNCHANGED <<limiterVars, keyVars, messageIdVars, breakerVars, metricVars,
                         pushVars, apiVars>>
       \/ /\ part = "limiter" /\ LimiterNext
          /\ UNCHANGED <<idVars, keyVars, messageIdVars, breakerVars, metricVars, pushVars,
                         apiVars>>
       \/ /\ part = "keys" /\ KeyNext
          /\ UNCHANGED <<idVars, limiterVars, messageIdVars, breakerVars, metricVars,
                         pushVars, apiVars>>
       \/ /\ part = "message ids" /\ MessageIdNext
          /\ UNCHANGED <<idVars, limiterVars, keyVars, breakerVars, metricVars, pushVars,
                         apiVars>>
       \/ /\ part = "breaker" /\ BreakerNext
          /\ UNCHANGED <<idVars, limiterVars, keyVars, messageIdVars, metricVars, pushVars,
                         apiVars>>
       \/ /\ part = "metrics" /\ MetricsNext
          /\ UNCHANGED <<idVars, limiterVars, keyVars, messageIdVars, breakerVars,
                         pushVars, apiVars>>
       \/ /\ part = "push" /\ PushNext
          /\ UNCHANGED <<idVars, limiterVars, keyVars, messageIdVars, breakerVars,
                         metricVars, apiVars>>
       \/ /\ part = "http" /\ Next
          /\ UNCHANGED <<idVars, limiterVars, keyVars, messageIdVars, breakerVars,
                         metricVars, pushVars>>
    /\ UNCHANGED part

ComponentSpec == ComponentInit /\ [][ComponentNext]_<<part, componentVars>>
=============================================================================
