--------------------------- MODULE MessageStores ---------------------------
(***************************************************************************)
(* The shared state of the message pipeline and the repository calls that  *)
(* change it: Postgres (message_dedup, messages, message_outbox) and       *)
(* Valkey (the room streams and the event stream).                         *)
(*                                                                         *)
(* A message is named by the request that creates it: Execute takes a new  *)
(* message id for every call.  A key is a (sender, client_msg_id) pair,    *)
(* and a client's retry is another request with the same key.  Streams are *)
(* bags, since no property here depends on the order of their entries.     *)
(***************************************************************************)
EXTENDS Naturals, FiniteSets

CONSTANTS
    Requests,         \* calls of SendMessageUseCase.Execute, hence messages
    Keys,             \* (sender id, client message id) pairs
    KeyOf,            \* [Requests -> Keys]
    Rooms,
    RoomOf,           \* [Requests -> Rooms]
    ReplyTo,          \* [Requests -> Requests \cup {None}]
    Relays,           \* outbox relay processes, one per server replica
    Backlog,          \* messages an earlier deployment left in the outbox
    None,
    EnqueueAccepted,  \* whether Postgres accepts the statement of Enqueue
    FaultKinds,       \* what may fail: "postgres", "valkey", "crash"
    MaxFaults,        \* bound on failed calls and crashes
    MaxOverruns       \* bound on leases that run out while in use

ASSUME ConstantsAssumption ==
    /\ KeyOf \in [Requests -> Keys]
    /\ RoomOf \in [Requests -> Rooms]
    /\ ReplyTo \in [Requests -> Requests \cup {None}]
    /\ Backlog \subseteq Requests
    /\ \A m, n \in Backlog : KeyOf[m] = KeyOf[n] => m = n
    /\ None \notin Requests
    /\ None \notin Relays
    /\ EnqueueAccepted \in BOOLEAN
    /\ FaultKinds \subseteq {"postgres", "valkey", "crash"}
    /\ MaxFaults \in Nat
    /\ MaxOverruns \in Nat

VARIABLES
    dedup,        \* message_dedup: the message that holds a key, or None
    messages,     \* the messages table
    outbox,       \* message_outbox, one possible row per message
    roomStream,   \* number of entries a message has in its room's stream
    eventStream,  \* number of entries a message has in the event stream
    faults,       \* failed calls and crashes so far
    overruns      \* leases that ran out while their relay was at work

postgres == <<dedup, messages, outbox>>
valkey   == <<roomStream, eventStream>>
budget   == <<faults, overruns>>

OutboxRow ==
    [status    : {"absent", "pending", "dispatched"},
     appended  : BOOLEAN,
     claimedBy : Relays \cup {None},
     lease     : {"none", "live", "expired"}]

Row(status, appended) ==
    [status |-> status, appended |-> appended, claimedBy |-> None, lease |-> "none"]

StoresTypeOK ==
    /\ dedup \in [Keys -> Requests \cup {None}]
    /\ messages \subseteq Requests
    /\ outbox \in [Requests -> OutboxRow]
    /\ roomStream \in [Requests -> Nat]
    /\ eventStream \in [Requests -> Nat]
    /\ faults \in 0..MaxFaults
    /\ overruns \in 0..MaxOverruns

\* Rows of an earlier deployment: a payload of the old layout is a bare
\* message and decodes as already appended, one of the new layout says so.
StoresInit ==
    /\ messages = Backlog
    /\ dedup = [k \in Keys |->
                  IF \E m \in Backlog : KeyOf[m] = k
                  THEN CHOOSE m \in Backlog : KeyOf[m] = k
                  ELSE None]
    /\ \E appended \in [Backlog -> BOOLEAN] :
         /\ outbox = [m \in Requests |-> IF m \in Backlog
                                         THEN Row("pending", appended[m])
                                         ELSE Row("absent", FALSE)]
         /\ roomStream = [m \in Requests |->
                             IF m \in Backlog /\ appended[m] THEN 1 ELSE 0]
    /\ eventStream = [m \in Requests |-> 0]
    /\ faults = 0
    /\ overruns = 0

----------------------------------------------------------------------------
\* A call to a store, or the process making it, goes wrong.
Fault(kind) ==
    /\ kind \in FaultKinds
    /\ faults < MaxFaults
    /\ faults' = faults + 1

NoFault == faults' = faults

----------------------------------------------------------------------------
\* Postgres.

ExistsByClientMsgID(m) == dedup[KeyOf[m]] # None

GetByIDs(room, ids) == {m \in messages : m \in ids /\ RoomOf[m] = room}

\* One transaction: the dedup row and the message row, or neither.
Save(m) ==
    /\ dedup' = [dedup EXCEPT ![KeyOf[m]] = m]
    /\ messages' = messages \cup {m}
    /\ UNCHANGED outbox

\* INSERT ... ON CONFLICT (message_id) DO NOTHING.
Enqueue(m, appended) ==
    /\ outbox' = IF outbox[m].status = "absent"
                 THEN [outbox EXCEPT ![m] = Row("pending", appended)]
                 ELSE outbox
    /\ UNCHANGED <<dedup, messages>>

\* Faulty variant: the lease is not looked at.
ClaimableLeaseIgnored(m) == outbox[m].status = "pending"

\* Faulty variant: rows already dispatched are claimed again.
ClaimableDispatched(m) == outbox[m].status # "absent" /\ outbox[m].lease # "live"

Claimable(m) == outbox[m].status = "pending" /\ outbox[m].lease # "live"

ClaimPending(w, S) ==
    /\ outbox' = [m \in Requests |->
                    IF m \in S
                    THEN [outbox[m] EXCEPT !.claimedBy = w, !.lease = "live"]
                    ELSE outbox[m]]
    /\ UNCHANGED <<dedup, messages>>

MarkStreamAppended(m) ==
    /\ outbox' = [outbox EXCEPT ![m].appended = TRUE]
    /\ UNCHANGED <<dedup, messages>>

MarkDispatched(m) ==
    /\ outbox' = [outbox EXCEPT ![m] = Row("dispatched", outbox[m].appended)]
    /\ UNCHANGED <<dedup, messages>>

ReleaseClaim(w, m) ==
    /\ outbox' = IF outbox[m].claimedBy = w
                 THEN [outbox EXCEPT ![m] = Row(outbox[m].status, outbox[m].appended)]
                 ELSE outbox
    /\ UNCHANGED <<dedup, messages>>

----------------------------------------------------------------------------
\* Valkey.

AppendMessage(m) ==
    /\ roomStream' = [roomStream EXCEPT ![m] = @ + 1]
    /\ UNCHANGED eventStream

PublishMessageCreated(m) ==
    /\ eventStream' = [eventStream EXCEPT ![m] = @ + 1]
    /\ UNCHANGED roomStream
============================================================================
