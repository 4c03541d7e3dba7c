---------------------------- MODULE SyncMessages ----------------------------
(***************************************************************************)
(* Catching up with one room: SyncMessagesUseCase and AckMessageUseCase on *)
(* the room's Valkey stream, the ACK cursors and the messages table, while *)
(* senders store and append messages.  SYNC replays the stream after the   *)
(* cursor; when nothing comes back it reads the messages table instead and *)
(* appends what it finds to the stream again, one entry at a time.         *)
(*                                                                         *)
(* `now' is Valkey's clock in ticks, TicksPerMs of them in the millisecond *)
(* that a stream id keeps.  created_at keeps ticks and is the time of the  *)
(* sender's replica, whose clock may be up to MaxSkew ticks off.  A device *)
(* has one connection, whose requests are served one after the other. What *)
(* a member receives besides, over the live connection, is not counted as  *)
(* seen here.                                                              *)
(***************************************************************************)
EXTENDS Integers, Sequences, FiniteSets, FiniteSetsExt

CONSTANTS
    MaxMsg,      \* messages are 1 .. MaxMsg, numbered in the order of their ids
    Devices,
    Limit,       \* the page size of SYNC and of the history read
    RoomMaxLen,  \* MAXLEN of the room stream
    TicksPerMs,
    Skews,       \* by how many ticks replicas' clocks differ from Valkey's
    MaxSkew,     \* the most a clock is ahead or behind
    MaxTime,     \* bound on the clock
    MaxSyncs,    \* bound on the SYNC requests
    MaxFaults    \* bound on lost streams, expired cursors and failed calls

ASSUME SyncAssumption ==
    /\ MaxMsg \in Nat /\ MaxTime \in Nat /\ MaxSyncs \in Nat /\ MaxFaults \in Nat
    /\ MaxSkew \in Nat /\ Skews \subseteq -MaxSkew .. MaxSkew
    /\ Limit \in Nat \ {0} /\ RoomMaxLen \in Nat \ {0} /\ TicksPerMs \in Nat \ {0}

Msgs == 1 .. MaxMsg

VARIABLES
    now,        \* Valkey's clock
    created,    \* created_at of a composed message
    phase,      \* where a message is: "new", "composed", "stored", "appended"
    stream,     \* the room stream, entries [id, msg]
    lastId,     \* the last id Valkey gave out for the stream
    ack,        \* last_ack of a device, Zero when there is no key
    pc,         \* the next step of a device's SYNC
    cursor,     \* LastAck of the running SYNC
    history,    \* rows the running SYNC has still to append
    out,        \* the result the running SYNC has collected
    got,        \* the last stream id a device received
    seen,       \* messages a device received from SYNC
    known,      \* messages that were in the stream when the running SYNC started
    overtaken,  \* entries others appended during a device's backfills
    trimmed,    \* whether the stream has lost entries
    syncs,      \* SYNC requests so far
    faults

streamVars == <<stream, lastId, trimmed>>
deviceVars == <<ack, pc, cursor, history, out, got, seen, known, syncs>>
syncVars == <<now, created, phase, streamVars, deviceVars, overtaken, faults>>

\* Stream ids <<milliseconds, sequence>> in Valkey's order; Zero stands for "0".
Zero == <<0, 0>>
Before(i, j) == i[1] < j[1] \/ (i[1] = j[1] /\ i[2] < j[2])
AtOrBefore(i, j) == i = j \/ Before(i, j)

Entries == {stream[k] : k \in 1 .. Len(stream)}
Stored == {m \in Msgs : phase[m] \in {"stored", "appended"}}
Appended == {m \in Msgs : phase[m] = "appended"}

Init ==
    /\ now = TicksPerMs
    /\ created = [m \in Msgs |-> 0]
    /\ phase = [m \in Msgs |-> "new"]
    /\ stream = <<>> /\ lastId = Zero /\ trimmed = FALSE
    /\ ack = [d \in Devices |-> Zero]
    /\ pc = [d \in Devices |-> "idle"]
    /\ cursor = [d \in Devices |-> Zero]
    /\ history = [d \in Devices |-> {}]
    /\ out = [d \in Devices |-> <<>>]
    /\ got = [d \in Devices |-> Zero]
    /\ seen = [d \in Devices |-> {}]
    /\ known = [d \in Devices |-> {}]
    /\ overtaken = [d \in Devices |-> {}]
    /\ syncs = 0 /\ faults = 0

----------------------------------------------------------------------------
\* The stores.

Fault == faults < MaxFaults /\ faults' = faults + 1

\* XADD with id *: the millisecond of Valkey's clock, or the next number in the last one.
NextId ==
    IF now \div TicksPerMs > lastId[1] THEN <<now \div TicksPerMs, 0>>
                                      ELSE <<lastId[1], lastId[2] + 1>>

\* MAXLEN ~ may trim to the threshold or keep more.
AppendMessage(m) ==
    LET longer == Append(stream, [id |-> NextId, msg |-> m])
        excess == Len(longer) - RoomMaxLen
    IN /\ lastId' = NextId
       /\ \/ stream' = longer /\ UNCHANGED trimmed
          \/ /\ excess > 0
             /\ stream' = SubSeq(longer, excess + 1, Len(longer))
             /\ trimmed' = TRUE

\* The positions of the entries after an id.
Later(id) == {k \in 1 .. Len(stream) : Before(id, stream[k].id)}

\* Faulty variant: the page starts one entry late.
ReadFromSkipping(from) ==
    IF Later(from) = {} THEN <<>>
    ELSE LET first == Min(Later(from)) + 1
         IN SubSeq(stream, first, IF Len(stream) < first + Limit - 1 THEN Len(stream)
                                                                     ELSE first + Limit - 1)

\* XREAD COUNT: the first entries after the cursor.
ReadFrom(from) ==
    IF Later(from) = {} THEN <<>>
    ELSE LET first == Min(Later(from))
         IN SubSeq(stream, first, IF Len(stream) < first + Limit - 1 THEN Len(stream)
                                                                     ELSE first + Limit - 1)

\* ORDER BY created_at, message_id.
RowBefore(a, b) == created[a] < created[b] \/ (created[a] = created[b] /\ a < b)

\* The first rows after `since': the rows with less than Limit others before them.
ListByRoom(since) ==
    LET rows == {m \in Stored : created[m] > since}
    IN {m \in rows : Cardinality({n \in rows : RowBefore(n, m)}) < Limit}

\* Faulty variant: the cursor's time is ignored.
SinceStart(id) == -1 - MaxSkew

\* The cursor's millisecond as a time; "0" is before every created_at.
Since(id) == IF id = Zero THEN -1 - MaxSkew ELSE id[1] * TicksPerMs

Backfilling(d) == pc[d] \in {"recover", "backfill"}

\* An entry appended by actor overtakes the backfills of all other devices.
Overtake(actors) ==
    overtaken' = [d \in Devices |->
        IF Backfilling(d) /\ d \notin actors THEN overtaken[d] \cup {NextId}
                                              ELSE overtaken[d]]

----------------------------------------------------------------------------
\* Senders, and the environment.

\* The id and created_at come from the clock of the sender's replica.
Compose(m) ==
    /\ phase[m] = "new"
    /\ phase' = [phase EXCEPT ![m] = "composed"]
    /\ \E skew \in Skews : created' = [created EXCEPT ![m] = now + skew]
    /\ UNCHANGED <<now, streamVars, deviceVars, overtaken, faults>>

StoreMessage(m) ==
    /\ phase[m] = "composed"
    /\ phase' = [phase EXCEPT ![m] = "stored"]
    /\ UNCHANGED <<now, created, streamVars, deviceVars, overtaken, faults>>

\* By the sender or, later, by the relay.
SenderAppend(m) ==
    /\ phase[m] = "stored"
    /\ phase' = [phase EXCEPT ![m] = "appended"]
    /\ AppendMessage(m)
    /\ Overtake({})
    /\ UNCHANGED <<now, created, deviceVars, faults>>

Tick ==
    /\ now < MaxTime
    /\ now' = now + 1
    /\ UNCHANGED <<created, phase, streamVars, deviceVars, overtaken, faults>>

\* Valkey comes back without the stream, at least a millisecond later.
LoseStream ==
    /\ Fault
    /\ (now \div TicksPerMs + 1) * TicksPerMs <= MaxTime
    /\ now' = (now \div TicksPerMs + 1) * TicksPerMs
    /\ stream' = <<>> /\ lastId' = Zero /\ trimmed' = TRUE
    /\ UNCHANGED <<created, phase, deviceVars, overtaken>>

ExpireAck(d) ==
    /\ ack[d] # Zero
    /\ Fault
    /\ ack' = [ack EXCEPT ![d] = Zero]
    /\ UNCHANGED <<now, created, phase, streamVars, pc, cursor, history, out, got,
                   seen, known, syncs, overtaken>>

----------------------------------------------------------------------------
\* SYNC of device d, with the device's own position or with the stored one.

StartSync(d) ==
    /\ pc[d] = "idle"
    /\ syncs < MaxSyncs /\ syncs' = syncs + 1
    /\ \E from \in {ack[d], got[d]} : cursor' = [cursor EXCEPT ![d] = from]
    /\ known' = [known EXCEPT ![d] = Appended]
    /\ pc' = [pc EXCEPT ![d] = "read"]
    /\ UNCHANGED <<now, created, phase, streamVars, ack, history, out, got, seen,
                   overtaken, faults>>

SyncRead(d) ==
    /\ pc[d] = "read"
    /\ LET page == ReadFrom(cursor[d])
       IN /\ out' = [out EXCEPT ![d] = page]
          /\ pc' = [pc EXCEPT ![d] = IF page = <<>> THEN "recover" ELSE "reply"]
    /\ UNCHANGED <<now, created, phase, streamVars, ack, cursor, history, got, seen,
                   known, syncs, overtaken, faults>>

Recover(d) ==
    /\ pc[d] = "recover"
    /\ LET rows == ListByRoom(Since(cursor[d]))
       IN /\ history' = [history EXCEPT ![d] = rows]
          /\ pc' = [pc EXCEPT ![d] = IF rows = {} THEN "reply" ELSE "backfill"]
    /\ UNCHANGED <<now, created, phase, streamVars, ack, cursor, out, got, seen,
                   known, syncs, overtaken, faults>>

\* The rows in their order.
Backfill(d) ==
    /\ pc[d] = "backfill"
    /\ \E m \in history[d] :
          /\ \A n \in history[d] : ~RowBefore(n, m)
          /\ AppendMessage(m)
          /\ out' = [out EXCEPT ![d] = Append(@, [id |-> NextId, msg |-> m])]
          /\ history' = [history EXCEPT ![d] = @ \ {m}]
          /\ pc' = [pc EXCEPT ![d] = IF history[d] = {m} THEN "reply" ELSE "backfill"]
    /\ Overtake({d})
    /\ UNCHANGED <<now, created, phase, ack, cursor, got, seen, known, syncs, faults>>

Finish(d) ==
    /\ pc' = [pc EXCEPT ![d] = "idle"]
    /\ out' = [out EXCEPT ![d] = <<>>]
    /\ history' = [history EXCEPT ![d] = {}]
    /\ cursor' = [cursor EXCEPT ![d] = Zero]
    /\ known' = [known EXCEPT ![d] = {}]

\* The result reaches the device.
Reply(d) ==
    /\ pc[d] = "reply"
    /\ seen' = [seen EXCEPT ![d] = @ \cup {out[d][k].msg : k \in 1 .. Len(out[d])}]
    /\ got' = [got EXCEPT ![d] = IF out[d] = <<>> THEN @ ELSE out[d][Len(out[d])].id]
    /\ Finish(d)
    /\ UNCHANGED <<now, created, phase, streamVars, ack, syncs, overtaken, faults>>

\* Any read, an append or the reply lookup fails, or the result gets lost: what
\* a backfill has appended stays.
SyncFail(d) ==
    /\ pc[d] # "idle"
    /\ Fault
    /\ Finish(d)
    /\ UNCHANGED <<now, created, phase, streamVars, ack, got, seen, syncs, overtaken>>

\* The device acknowledges the end of the last page it received.
AckMessage(d) ==
    /\ pc[d] = "idle"
    /\ got[d] # Zero /\ ack[d] # got[d]
    /\ ack' = [ack EXCEPT ![d] = got[d]]
    /\ UNCHANGED <<now, created, phase, streamVars, pc, cursor, history, out, got,
                   seen, known, syncs, overtaken, faults>>

SyncStep(d) ==
    \/ StartSync(d) \/ SyncRead(d) \/ Recover(d) \/ Backfill(d) \/ Reply(d)
    \/ SyncFail(d) \/ AckMessage(d) \/ ExpireAck(d)

Next ==
    \/ \E m \in Msgs : Compose(m) \/ StoreMessage(m) \/ SenderAppend(m)
    \/ \E d \in Devices : SyncStep(d)
    \/ Tick
    \/ LoseStream

Spec == Init /\ [][Next]_syncVars

----------------------------------------------------------------------------
Ids == Nat \X Nat
EntryType == [id : Ids, msg : Msgs]

\* Types of the stores, the senders and the devices.
TypeOK ==
    /\ now \in Nat
    /\ created \in [Msgs -> Int]
    /\ phase \in [Msgs -> {"new", "composed", "stored", "appended"}]
    /\ stream \in Seq(EntryType) /\ lastId \in Ids /\ trimmed \in BOOLEAN
    /\ ack \in [Devices -> Ids] /\ cursor \in [Devices -> Ids] /\ got \in [Devices -> Ids]
    /\ pc \in [Devices -> {"idle", "read", "recover", "backfill", "reply"}]
    /\ history \in [Devices -> SUBSET Msgs] /\ out \in [Devices -> Seq(EntryType)]
    /\ \A d \in Devices : pc[d] = "backfill" => history[d] # {}
    /\ seen \in [Devices -> SUBSET Msgs] /\ known \in [Devices -> SUBSET Msgs]
    /\ overtaken \in [Devices -> SUBSET Ids]
    /\ syncs \in Nat /\ faults \in Nat

\* A device's position, acknowledged or its own, passes over an entry of the
\* stream it never received only if the entry was appended by someone else while
\* recoverAndBackfill was appending for that device: pages, retries, lost results,
\* expired cursors and a lost stream never open a gap.
GapOnlyWhileBackfilling ==
    \A d \in Devices : \A e \in Entries :
        AtOrBefore(e.id, got[d]) \/ AtOrBefore(e.id, ack[d])
            => e.msg \in seen[d] \/ e.id \in overtaken[d]

\* As long as the stream has lost nothing and nobody overtook the device's
\* backfills, a SYNC that answers with no message means that the device has every
\* message that was in the stream when it asked.
EmptySyncMeansCaughtUp ==
    \A d \in Devices :
        pc[d] = "reply" /\ out[d] = <<>> /\ ~trimmed /\ overtaken[d] = {}
            => known[d] \subseteq seen[d]

\* recoverAndBackfill appends a message again that is already in the stream at or
\* before the device's cursor only if it was created after the start of the cursor's
\* millisecond, by a clock that is less than the skew ahead of its end: what the stream id
\* rounds away and what the clocks of replica and Valkey differ in is all that is replayed.
ReplayOnlyWithinSkew ==
    \A d \in Devices : \A e \in Entries :
        e.msg \in history[d] /\ AtOrBefore(e.id, cursor[d]) =>
            /\ created[e.msg] > cursor[d][1] * TicksPerMs
            /\ created[e.msg] < (cursor[d][1] + 1) * TicksPerMs + MaxSkew

\* docs/guide.md tells clients to keep an ACK cursor per device and to run SYNC to
\* complete their timeline: no entry at or before the cursor may be unknown to them.
CursorCoversOnlySeen ==
    \A d \in Devices : \A e \in Entries :
        AtOrBefore(e.id, ack[d]) => e.msg \in seen[d]
=============================================================================
