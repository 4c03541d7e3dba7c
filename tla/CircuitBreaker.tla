--------------------------- MODULE CircuitBreaker ---------------------------
(***************************************************************************)
(* The circuit breakers around the Valkey repositories, the Valkey client  *)
(* and the push notifier: one breaker of package gobreaker with its        *)
(* default settings, in front of one of them.  gobreaker counts every      *)
(* error as a failure, also those of a store that works: a room that does  *)
(* not exist, a malformed stream id, a push the service refuses, a request *)
(* whose context is cancelled.                                             *)
(*                                                                         *)
(* gobreaker is not part of the repository; its part is modelled from the  *)
(* settings the code passes to it.                                         *)
(***************************************************************************)
EXTENDS Naturals

CONSTANTS
    Callers,
    Threshold,   \* failures in a row that are tolerated, 5 by default
    MaxFlights   \* bound on the calls

ASSUME BreakerAssumption == Threshold \in Nat /\ MaxFlights \in Nat

RoomOps == {"Get", "Create", "AddMember", "ListMembers"}
AckOps == {"SetLastAck", "GetLastAck"}
PresenceOps == {"SetOnline", "SetOffline", "IsOnline"}
PushTokenOps == {"Upsert", "Delete", "ListByUser"}
StreamOps == {"AppendMessage", "ReadFrom", "PublishMessageCreated"}
RoomIdOps == {"Next"}
ClientOps == {"Ping"}
NotifierOps == {"NotifyMessage"}

Wrapped == {RoomOps, AckOps, PresenceOps, PushTokenOps, StreamOps, RoomIdOps, ClientOps,
            NotifierOps}

VARIABLES
    wrapped,     \* the operations behind the breaker
    state,       \* "closed", "open" or "half-open"
    generation,
    inARow,      \* consecutive failures of the generation
    requests,    \* calls of the generation let through
    flight,      \* a caller's call: its operation and generation, or no call
    flights,     \* calls so far
    subscribed,  \* callers with a subscription
    storeUp,     \* the store works
    fresh,       \* callers whose call began since the breaker last closed
    errors       \* errors in a row of such calls

breakerVars == <<wrapped, state, generation, inARow, requests, flight, flights, subscribed,
                 storeUp, fresh, errors>>
counts == <<inARow, requests>>
history == <<fresh, errors>>

NoFlight == [op |-> "none", gen |-> 0]

BreakerInit ==
    /\ wrapped \in Wrapped
    /\ state = "closed" /\ generation = 0
    /\ inARow = 0 /\ requests = 0
    /\ flight = [c \in Callers |-> NoFlight] /\ flights = 0
    /\ subscribed = {}
    /\ storeUp = TRUE
    /\ fresh = {} /\ errors = 0

SetState(s) ==
    /\ state' = s
    /\ generation' = generation + 1
    /\ inARow' = 0 /\ requests' = 0

----------------------------------------------------------------------------
\* beforeRequest; a call that is turned away changes nothing.
BeforeRequest(c) ==
    /\ flight[c] = NoFlight /\ flights < MaxFlights
    /\ state = "closed" \/ (state = "half-open" /\ requests < 1)
    /\ \E op \in wrapped : flight' = [flight EXCEPT ![c] = [op |-> op, gen |-> generation]]
    /\ requests' = requests + 1
    /\ flights' = flights + 1
    /\ fresh' = fresh \cup {c}
    /\ UNCHANGED <<wrapped, state, generation, inARow, subscribed, storeUp, errors>>

OnSuccess ==
    \/ state = "closed" /\ inARow' = 0 /\ UNCHANGED <<state, generation, requests>>
    \/ state = "half-open" /\ SetState("closed")

OnFailure ==
    \/ /\ state = "closed" /\ inARow < Threshold
       /\ inARow' = inARow + 1
       /\ UNCHANGED <<state, generation, requests>>
    \/ /\ state = "half-open" \/ (state = "closed" /\ inARow >= Threshold)
       /\ SetState("open")

\* Faulty variant: a late result counts as well.
AfterRequestOfAny(c, success) ==
    \/ state = "open" /\ UNCHANGED <<state, generation, counts>>
    \/ state # "open" /\ success /\ OnSuccess
    \/ state # "open" /\ ~success /\ OnFailure

\* afterRequest: the result of an older generation is dropped.
AfterRequest(c, success) ==
    IF flight[c].gen # generation THEN UNCHANGED <<state, generation, counts>>
    ELSE IF success THEN OnSuccess ELSE OnFailure

\* What the history notes of a result: while the breaker is closed, the errors in a row of
\* the calls begun since it closed.
Noted(c, success) ==
    \/ /\ state = "closed"
       /\ errors' = IF c \notin fresh THEN errors ELSE IF success THEN 0 ELSE errors + 1
       /\ fresh' = fresh \ {c}
    \/ /\ state # "closed" /\ state' # "closed"
       /\ fresh' = fresh \ {c} /\ UNCHANGED errors
    \/ /\ state # "closed" /\ state' = "closed"
       /\ fresh' = {} /\ errors' = 0

\* The inner call returns: nil if the store works, an error in any case.
Returns(c) ==
    /\ flight[c] # NoFlight
    /\ \E success \in {storeUp, FALSE} : AfterRequest(c, success) /\ Noted(c, success)
    /\ flight' = [flight EXCEPT ![c] = NoFlight]
    /\ UNCHANGED <<wrapped, flights, subscribed, storeUp>>

\* SubscribeMessageCreated goes around the breaker, whatever its state.
Subscribe(c) ==
    /\ wrapped = StreamOps /\ c \notin subscribed
    /\ subscribed' = subscribed \cup {c}
    /\ UNCHANGED <<wrapped, state, generation, counts, flight, flights, storeUp, history>>

\* The timeout of 60 seconds, noticed by the next call.
Timeout ==
    /\ state = "open"
    /\ SetState("half-open")
    /\ UNCHANGED <<wrapped, flight, flights, subscribed, storeUp, history>>

StoreFlips ==
    /\ storeUp' = ~storeUp
    /\ UNCHANGED <<wrapped, state, generation, counts, flight, flights, subscribed, history>>

BreakerNext ==
    \/ \E c \in Callers : BeforeRequest(c) \/ Returns(c) \/ Subscribe(c)
    \/ Timeout \/ StoreFlips

BreakerSpec == BreakerInit /\ [][BreakerNext]_breakerVars

----------------------------------------------------------------------------
BreakerTypeOK ==
    /\ wrapped \in Wrapped /\ state \in {"closed", "open", "half-open"}
    /\ generation \in Nat /\ inARow \in 0 .. Threshold /\ requests \in Nat
    /\ flight \in [Callers -> [op : {"none"} \cup UNION Wrapped, gen : Nat]]
    /\ subscribed \subseteq Callers /\ fresh \subseteq Callers /\ errors \in Nat

\* The decorators around the repositories: a breaker turns calls away only after more than
\* Threshold errors in a row of calls that began since it last closed.  The answer of a call
\* from before, however late it comes, counts for nothing.
CutOffOnlyByErrorsInARow == state # "closed" => errors > Threshold
=============================================================================
