-------------------------- MODULE MessagePipeline --------------------------
(***************************************************************************)
(* The message pipeline: any number of concurrent sends and the outbox     *)
(* relays of all replicas, over the same Postgres and Valkey.              *)
(***************************************************************************)
EXTENDS SendMessage, OutboxRelay

vars == <<postgres, valkey, budget, sendVars, relayVars>>

Init == StoresInit /\ SendInit /\ RelayInit

SenderNext ==
    \E r \in Requests :
        /\ SendStep(r) \/ SenderCrash(r)
        /\ UNCHANGED <<overruns, relayVars>>

RelayNext ==
    \E w \in Relays :
        /\ RelayStep(w) \/ RelayCrash(w)
        /\ UNCHANGED sendVars

LeaseNext ==
    \E m \in Requests :
        /\ ExpireUnattended(m) \/ ExpireInUse(m)
        /\ UNCHANGED sendVars

Next == SenderNext \/ RelayNext \/ LeaseNext

SafeSpec == Init /\ [][Next]_vars

\* A relay's goroutine keeps running and the clock keeps going.  Nothing is
\* asked of the senders: a request may stop anywhere.
Fairness ==
    /\ \A w \in Relays : WF_vars(RelayStep(w) /\ UNCHANGED sendVars)
    /\ \A m \in Requests : WF_vars(ExpireUnattended(m) /\ UNCHANGED sendVars)

Spec == SafeSpec /\ Fairness

\* The goroutine of a request that has started also keeps running.
LiveSpec ==
    /\ Spec
    /\ \A r \in Requests :
         WF_vars(pc[r] # "idle" /\ SendStep(r) /\ UNCHANGED <<overruns, relayVars>>)

----------------------------------------------------------------------------
\* Every variable holds a value of its table, stream or program counter.
TypeOK == StoresTypeOK /\ SendTypeOK /\ RelayTypeOK

\* However retries of one send interleave, between the duplicate check and
\* the insert of each, at most one message is stored per sender and client
\* message id.
OneMessagePerClientId ==
    \A m, n \in messages : KeyOf[m] = KeyOf[n] => m = n

\* No client sees a message the system of record lacks, in either stream or
\* by way of a relay, and a message announced to connected clients can be
\* found by SYNC.
VisibleIsStored ==
    \A m \in Requests :
        /\ roomStream[m] > 0 \/ InUse(m) => m \in messages
        /\ eventStream[m] > 0 => roomStream[m] > 0

\* A stored reply answers a message stored in the same room, although the
\* target is looked up long before the reply is saved.
ReplyTargetStored ==
    \A m \in messages \ Backlog :
        ReplyTo[m] # None => /\ ReplyTo[m] \in messages
                             /\ RoomOf[ReplyTo[m]] = RoomOf[m]

\* A sender told `sent' has a stored message that is in both streams or that
\* a pending outbox row will bring to the one it misses.
SentIsStreamedOrQueued ==
    \A r \in Requests : result[r] = "ok" =>
        /\ r \in messages
        /\ eventStream[r] > 0 \/ outbox[r].status = "pending"
        /\ roomStream[r] > 0 \/ (outbox[r].status = "pending" /\ ~outbox[r].appended)

\* A sender told `duplicate' did store that message, under another request.
DuplicateIsStored ==
    \A r \in Requests : result[r] = "duplicate" =>
        \E m \in messages \ {r} : KeyOf[m] = KeyOf[r]

\* What Execute and the relay leave in the stores fits together: one message per client
\* id, replies to stored messages, and nothing in a stream that is not stored.
MessagesConsistent == OneMessagePerClientId /\ ReplyTargetStored /\ VisibleIsStored

\* What Execute tells the sender, `sent' or `duplicate', is true from then on.
AnswersAreTrue == SentIsStreamedOrQueued /\ DuplicateIsStored

\* An outbox row is retired only when the message is in both streams, and its
\* StreamAppended flag never makes a relay skip an append that is missing,
\* whatever calls failed and whichever relays worked on the row.
DispatchedIsStreamed ==
    \A m \in Requests :
        /\ outbox[m].appended => roomStream[m] > 0
        /\ outbox[m].status = "dispatched" => roomStream[m] > 0 /\ eventStream[m] > 0

\* As long as no lease runs out under its relay, two relays never work on the
\* same message: not after failed calls, lost answers or crashes.
ExclusiveUnlessOverrun ==
    overruns = 0 =>
        \A v, w \in Relays : v # w => Held(v) \cap Held(w) = {}

\* Every further copy of a message in a stream is paid for by a failed call,
\* a crash or an overrun lease: without them each stream has it once.
CopiesBoundedByFaults ==
    \A m \in Requests :
        /\ roomStream[m] <= 1 + faults + overruns
        /\ eventStream[m] <= 1 + faults + overruns

Delivered(m) == roomStream[m] > 0 /\ eventStream[m] > 0

\* Execute between the save and its answer, and the relay: a stored message that is not in
\* both streams is never forgotten.  Its request is still at work on it or has queued it,
\* or its sender knows of the failure.
StoredHasCarrier ==
    \A m \in messages :
        \/ Delivered(m)
        \/ pc[m] \in {"append", "publish", "enqueue_unappended", "enqueue_appended"}
        \/ outbox[m].status = "pending"
        \/ result[m] = "error" \/ pc[m] = "crashed"

\* Execute and the relay together: nothing that is stored is forgotten, neither by its
\* request nor by the outbox, which retires a row only when it has done its work.
NothingIsForgotten == StoredHasCarrier /\ DispatchedIsStreamed

RelayRank ==
    [p \in RelayPCs |-> CASE p = "append"  -> 4
                          [] p = "mark"    -> 3
                          [] p = "publish" -> 2
                          [] p = "idle"    -> 0
                          [] OTHER         -> 1]

RelayAt(w) == <<rpc[w], batch[w], item[w]>>

\* Run: a relay never goes over its batch again.  Each of its steps shrinks what is left of
\* the batch or brings the item nearer its end, and an item is put down undispatched only
\* by a failure, at the latest after a call to release its claim.
BatchesRunOut ==
    [][\A w \in Relays : Held(w) # {} /\ RelayAt(w)' # RelayAt(w) =>
          /\ \/ batch'[w] # batch[w] /\ batch'[w] \subseteq batch[w]
             \/ batch'[w] = batch[w] /\ RelayRank[rpc'[w]] < RelayRank[rpc[w]]
          /\ rpc'[w] = "release" => faults' > faults
          /\ \A m \in Held(w) \ Held(w)' :
                \/ outbox'[m].status = "dispatched"
                \/ faults' > faults
                \/ rpc[w] = "release" /\ m = item[w]
      ]_vars

\* What is stored reaches both streams once the stores work again and some relay
\* keeps running, unless the sender was answered with an error or its process
\* stopped: no stored message is lost behind a good answer or without one.
StoredIsDeliveredOrReported ==
    \A m \in Requests :
        m \in messages ~> Delivered(m) \/ result[m] = "error" \/ pc[m] = "crashed"

\* docs/message_journey.md: when Valkey fails after the save, the outbox makes up for
\* it, so whatever is stored reaches both streams.
StoredIsDelivered == \A m \in Requests : m \in messages ~> Delivered(m)

----------------------------------------------------------------------------
Delivery ==
    INSTANCE MessageDelivery WITH
        stored    <- messages,
        streamed  <- {m \in Requests : roomStream[m] > 0},
        announced <- {m \in Requests : eventStream[m] > 0},
        accepted  <- {r \in Requests : result[r] = "ok"}

\* The pipeline implements the abstract promise: stored once per key, streamed
\* only when stored, announced only when streamed, and in the end announced
\* if its sender was told `sent'.
DeliverySpec == Delivery!Spec
============================================================================
