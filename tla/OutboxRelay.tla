---------------------------- MODULE OutboxRelay ----------------------------
(***************************************************************************)
(* MessageOutboxRelay.Run: every tick a relay leases a batch of pending    *)
(* rows and brings each to both streams.  Every replica runs one.  Time is *)
(* left out: a lease is live until an Expire step, which may come while    *)
(* its relay is still at work (a batch of 200 rows against a lease of 30   *)
(* seconds) and must come when nobody works on the row any more.           *)
(***************************************************************************)
EXTENDS MessageStores

CONSTANT BatchSize

ASSUME BatchSizeAssumption == BatchSize \in Nat \ {0}

VARIABLES
    rpc,    \* the next call of a relay
    batch,  \* claimed items not yet taken up, as read at the claim
    item    \* the message the relay works on, or None

relayVars == <<rpc, batch, item>>

Items == [msg : Requests, appended : BOOLEAN]

RelayPCs == {"idle", "append", "mark", "publish", "dispatch", "release"}

RelayTypeOK ==
    /\ rpc \in [Relays -> RelayPCs]
    /\ batch \in [Relays -> SUBSET Items]
    /\ item \in [Relays -> Requests \cup {None}]

RelayInit ==
    /\ rpc = [w \in Relays |-> "idle"]
    /\ batch = [w \in Relays |-> {}]
    /\ item = [w \in Relays |-> None]

\* The messages a relay has claimed and not finished with.
Held(w) == {i.msg : i \in batch[w]} \cup ({item[w]} \ {None})

RelayGoto(w, label) ==
    /\ rpc' = [rpc EXCEPT ![w] = label]
    /\ UNCHANGED <<batch, item>>

\* `continue', or the end of the loop body.
NextItem(w) ==
    /\ rpc' = [rpc EXCEPT ![w] = "idle"]
    /\ item' = [item EXCEPT ![w] = None]
    /\ UNCHANGED batch

----------------------------------------------------------------------------
\* One statement claims the rows.  Rows locked by another transaction are
\* skipped, so any of the claimable rows may be missing.  When the call
\* fails after the commit the rows are leased and nobody works on them.
Claim(w) ==
    /\ rpc[w] = "idle"
    /\ item[w] = None
    /\ batch[w] = {}
    /\ \E S \in SUBSET {m \in Requests : Claimable(m)} :
         /\ Cardinality(S) <= BatchSize
         /\ ClaimPending(w, S)
         /\ \/ /\ NoFault
               /\ batch' = [batch EXCEPT ![w] =
                     {[msg |-> m, appended |-> outbox[m].appended] : m \in S}]
            \/ Fault("postgres") /\ UNCHANGED batch
    /\ UNCHANGED <<rpc, item, valkey, overruns>>

\* Faulty variant: StreamAppended is taken to be true.
TakeAsAppended(w) ==
    /\ rpc[w] = "idle"
    /\ item[w] = None
    /\ \E i \in batch[w] :
         /\ item' = [item EXCEPT ![w] = i.msg]
         /\ batch' = [batch EXCEPT ![w] = @ \ {i}]
    /\ rpc' = [rpc EXCEPT ![w] = "publish"]
    /\ UNCHANGED <<postgres, valkey, budget>>

\* The statement returns the rows in no particular order.
TakeItem(w) ==
    /\ rpc[w] = "idle"
    /\ item[w] = None
    /\ \E i \in batch[w] :
         /\ item' = [item EXCEPT ![w] = i.msg]
         /\ batch' = [batch EXCEPT ![w] = @ \ {i}]
         /\ rpc' = [rpc EXCEPT ![w] = IF i.appended THEN "publish" ELSE "append"]
    /\ UNCHANGED <<postgres, valkey, budget>>

RelayAppend(w) ==
    /\ rpc[w] = "append"
    /\ \/ AppendMessage(item[w]) /\ NoFault /\ RelayGoto(w, "mark")
       \/ /\ AppendMessage(item[w]) \/ UNCHANGED valkey
          /\ Fault("valkey")
          /\ RelayGoto(w, "release")
    /\ UNCHANGED <<postgres, overruns>>

RelayMark(w) ==
    /\ rpc[w] = "mark"
    /\ \/ MarkStreamAppended(item[w]) /\ NoFault /\ RelayGoto(w, "publish")
       \/ /\ MarkStreamAppended(item[w]) \/ UNCHANGED postgres
          /\ Fault("postgres")
          /\ RelayGoto(w, "release")
    /\ UNCHANGED <<valkey, overruns>>

\* Faulty variant: a failed publish does not keep the row pending.
PublishErrorIgnored(w) ==
    /\ rpc[w] = "publish"
    /\ \/ PublishMessageCreated(item[w]) /\ NoFault
       \/ UNCHANGED valkey /\ Fault("valkey")
    /\ RelayGoto(w, "dispatch")
    /\ UNCHANGED <<postgres, overruns>>

\* Faulty variant: a failed publish starts the item over in the same batch.
PublishRetried(w) ==
    /\ rpc[w] = "publish"
    /\ \/ PublishMessageCreated(item[w]) /\ NoFault /\ RelayGoto(w, "dispatch")
       \/ UNCHANGED valkey /\ Fault("valkey") /\ RelayGoto(w, "append")
    /\ UNCHANGED <<postgres, overruns>>

RelayPublish(w) ==
    /\ rpc[w] = "publish"
    /\ \/ PublishMessageCreated(item[w]) /\ NoFault /\ RelayGoto(w, "dispatch")
       \/ /\ PublishMessageCreated(item[w]) \/ UNCHANGED valkey
          /\ Fault("valkey")
          /\ RelayGoto(w, "release")
    /\ UNCHANGED <<postgres, overruns>>

\* A failure is only logged: the row stays leased until the lease runs out.
RelayDispatch(w) ==
    /\ rpc[w] = "dispatch"
    /\ \/ MarkDispatched(item[w]) /\ (NoFault \/ Fault("postgres"))
       \/ UNCHANGED postgres /\ Fault("postgres")
    /\ NextItem(w)
    /\ UNCHANGED <<valkey, overruns>>

RelayRelease(w) ==
    /\ rpc[w] = "release"
    /\ \/ ReleaseClaim(w, item[w]) /\ NoFault
       \/ UNCHANGED postgres /\ Fault("postgres")
    /\ NextItem(w)
    /\ UNCHANGED <<valkey, overruns>>

\* The process stops and starts again; what it had claimed is forgotten.
RelayCrash(w) ==
    /\ Held(w) # {}
    /\ Fault("crash")
    /\ rpc' = [rpc EXCEPT ![w] = "idle"]
    /\ item' = [item EXCEPT ![w] = None]
    /\ batch' = [batch EXCEPT ![w] = {}]
    /\ UNCHANGED <<postgres, valkey, overruns>>

Expire(m) ==
    /\ outbox[m].lease = "live"
    /\ outbox' = [outbox EXCEPT ![m].lease = "expired"]
    /\ UNCHANGED <<dedup, messages, valkey, faults, relayVars>>

InUse(m) == \E w \in Relays : m \in Held(w)

ExpireUnattended(m) ==
    /\ ~InUse(m)
    /\ Expire(m)
    /\ UNCHANGED overruns

ExpireInUse(m) ==
    /\ InUse(m)
    /\ overruns < MaxOverruns
    /\ overruns' = overruns + 1
    /\ Expire(m)

RelayStep(w) ==
    \/ Claim(w)
    \/ TakeItem(w)
    \/ RelayAppend(w)
    \/ RelayMark(w)
    \/ RelayPublish(w)
    \/ RelayDispatch(w)
    \/ RelayRelease(w)
============================================================================
