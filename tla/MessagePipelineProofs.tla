----------------------- MODULE MessagePipelineProofs -----------------------
(***************************************************************************)
(* Proofs about the message pipeline, for every set of requests, keys and  *)
(* relays, every batch size and every number of faults.                    *)
(***************************************************************************)
EXTENDS MessagePipeline, FiniteSetTheorems, TLAPS

LEMMA StoresOps ==
    ASSUME StoresTypeOK, NEW m \in Requests
    PROVE  /\ \A a \in BOOLEAN : \A s \in {"absent", "pending", "dispatched"} :
                Row(s, a) \in OutboxRow
           /\ Save(m) => /\ dedup' \in [Keys -> Requests \cup {None}]
                         /\ messages' \subseteq Requests
                         /\ outbox' \in [Requests -> OutboxRow]
           /\ AppendMessage(m) => /\ roomStream' \in [Requests -> Nat]
                                  /\ eventStream' \in [Requests -> Nat]
           /\ PublishMessageCreated(m) => /\ roomStream' \in [Requests -> Nat]
                                          /\ eventStream' \in [Requests -> Nat]
<1>1. \A a \in BOOLEAN : \A s \in {"absent", "pending", "dispatched"} : Row(s, a) \in OutboxRow
  BY DEF Row, OutboxRow
<1>2. KeyOf[m] \in Keys
  BY ConstantsAssumption DEF ConstantsAssumption
<1>3. Save(m) => /\ dedup' \in [Keys -> Requests \cup {None}]
                 /\ messages' \subseteq Requests
                 /\ outbox' \in [Requests -> OutboxRow]
  BY <1>2 DEF Save, StoresTypeOK
<1>4. AppendMessage(m) => /\ roomStream' \in [Requests -> Nat]
                          /\ eventStream' \in [Requests -> Nat]
  BY DEF AppendMessage, StoresTypeOK
<1>5. PublishMessageCreated(m) => /\ roomStream' \in [Requests -> Nat]
                                  /\ eventStream' \in [Requests -> Nat]
  BY DEF PublishMessageCreated, StoresTypeOK
<1>6. QED
  BY <1>1, <1>3, <1>4, <1>5

LEMMA OutboxOps ==
    ASSUME StoresTypeOK, NEW m \in Requests, NEW w \in Relays,
           NEW a \in BOOLEAN, NEW S \in SUBSET Requests,
           \/ Enqueue(m, a) \/ ClaimPending(w, S) \/ MarkStreamAppended(m)
           \/ MarkDispatched(m) \/ ReleaseClaim(w, m)
           \/ outbox' = [outbox EXCEPT ![m].lease = "expired"] /\ UNCHANGED <<dedup, messages>>
    PROVE  /\ outbox' \in [Requests -> OutboxRow]
           /\ dedup' = dedup
           /\ messages' = messages
<1>1. CASE Enqueue(m, a)
  BY <1>1 DEF Enqueue, StoresTypeOK, OutboxRow, Row
<1>2. CASE ClaimPending(w, S)
  BY <1>2 DEF ClaimPending, StoresTypeOK, OutboxRow
<1>3. CASE MarkStreamAppended(m)
  BY <1>3 DEF MarkStreamAppended, StoresTypeOK, OutboxRow
<1>4. CASE MarkDispatched(m)
  BY <1>4 DEF MarkDispatched, StoresTypeOK, OutboxRow, Row
<1>5. CASE ReleaseClaim(w, m)
  BY <1>5 DEF ReleaseClaim, StoresTypeOK, OutboxRow, Row
<1>6. CASE outbox' = [outbox EXCEPT ![m].lease = "expired"] /\ UNCHANGED <<dedup, messages>>
  BY <1>6 DEF StoresTypeOK, OutboxRow
<1>7. QED
  BY <1>1, <1>2, <1>3, <1>4, <1>5, <1>6

----------------------------------------------------------------------------
\* Type correctness.

LEMMA FaultType ==
    ASSUME faults \in 0..MaxFaults, NEW k
    PROVE  (Fault(k) \/ NoFault) => faults' \in 0..MaxFaults
BY ConstantsAssumption DEF ConstantsAssumption, Fault, NoFault

LEMMA SendType ==
    ASSUME TypeOK, NEW r \in Requests, SendStep(r) \/ SenderCrash(r),
           UNCHANGED <<overruns, relayVars>>
    PROVE  TypeOK'
<1> USE DEF TypeOK
<1>a. SendTypeOK'
  BY DEF SendTypeOK, SendPCs, Results, SendStep, Goto, Return, ReadFails, Admit,
         CheckDuplicate, CheckRoom, CheckReply, SaveMessage, SendAppend, SendPublish,
         EnqueueMessage, EnqueueUnappended, EnqueueAppended, SenderCrash
<1>b. RelayTypeOK'
  BY DEF RelayTypeOK, relayVars
<1>c. faults' \in 0..MaxFaults /\ overruns' \in 0..MaxOverruns
  BY FaultType
  DEF StoresTypeOK, SendStep, Reads, ReadFails, Admit,
      CheckDuplicate, CheckRoom, CheckReply, SaveMessage, SendAppend, SendPublish,
      EnqueueMessage, EnqueueUnappended, EnqueueAppended, SenderCrash
<1> DEFINE PostgresType == /\ dedup \in [Keys -> Requests \cup {None}]
                           /\ messages \subseteq Requests
                           /\ outbox \in [Requests -> OutboxRow]
<1>d. PostgresType'
  <2>1. CASE UNCHANGED postgres
    BY <2>1 DEF postgres, StoresTypeOK
  <2>2. CASE SaveMessage(r)
    BY <2>1, <2>2, StoresOps DEF SaveMessage
  <2>3. ASSUME NEW a \in BOOLEAN, EnqueueMessage(r, a)
        PROVE  PostgresType'
    <3>1. CASE Enqueue(r, a)
      BY <3>1, ConstantsAssumption
      DEF Enqueue, StoresTypeOK, OutboxRow, Row, ConstantsAssumption
    <3>2. QED
      BY <3>1, <2>1, <2>3 DEF EnqueueMessage
  <2>4. QED
    BY <2>1, <2>2, <2>3
    DEF SendStep, Reads, ReadFails, Admit, CheckDuplicate, CheckRoom, CheckReply,
        SendAppend, SendPublish, EnqueueUnappended, EnqueueAppended, SenderCrash
<1>e. roomStream' \in [Requests -> Nat] /\ eventStream' \in [Requests -> Nat]
  <2>1. CASE UNCHANGED valkey
    BY <2>1 DEF valkey, StoresTypeOK
  <2>2. CASE SendAppend(r) \/ SendPublish(r)
    BY <2>1, <2>2, StoresOps DEF SendAppend, SendPublish
  <2>3. QED
    BY <2>1, <2>2
    DEF SendStep, Reads, ReadFails, Admit, CheckDuplicate, CheckRoom, CheckReply,
        SaveMessage, EnqueueMessage, EnqueueUnappended, EnqueueAppended, SenderCrash
<1>f. QED
  BY <1>a, <1>b, <1>c, <1>d, <1>e DEF StoresTypeOK

\* A relay works on a message exactly when it is not between two items.
ItemInv == \A w \in Relays : rpc[w] = "idle" <=> item[w] = None

LEMMA RelayType ==
    ASSUME TypeOK, ItemInv, NEW w \in Relays, RelayStep(w) \/ RelayCrash(w),
           UNCHANGED sendVars
    PROVE  TypeOK' /\ ItemInv'
<1> USE DEF TypeOK
<1>i. rpc[w] # "idle" => item[w] \in Requests
  BY DEF ItemInv, RelayTypeOK
<1>a. SendTypeOK'
  BY DEF SendTypeOK, sendVars
<1>b. RelayTypeOK' /\ ItemInv'
  <2>1. CASE Claim(w)
    <3>1. \A m \in Requests : [msg |-> m, appended |-> outbox[m].appended] \in Items
      BY DEF StoresTypeOK, OutboxRow, Items
    <3>2. QED
      BY <2>1, <3>1 DEF Claim, RelayTypeOK, ItemInv
  <2>2. CASE TakeItem(w)
    <3>1. PICK i \in batch[w] :
            /\ item' = [item EXCEPT ![w] = i.msg]
            /\ batch' = [batch EXCEPT ![w] = @ \ {i}]
            /\ rpc' = [rpc EXCEPT ![w] = IF i.appended THEN "publish" ELSE "append"]
      BY <2>2 DEF TakeItem
    <3>2. i.msg \in Requests
      BY DEF RelayTypeOK, Items
    <3>3. QED
      BY <3>1, <3>2, ConstantsAssumption
      DEF RelayTypeOK, RelayPCs, ItemInv, ConstantsAssumption
  <2>3. CASE RelayAppend(w) \/ RelayMark(w) \/ RelayPublish(w)
    BY <2>3, <1>i
    DEF RelayAppend, RelayMark, RelayPublish, RelayGoto, RelayTypeOK, RelayPCs, ItemInv
  <2>4. CASE RelayDispatch(w) \/ RelayRelease(w) \/ RelayCrash(w)
    BY <2>4 DEF RelayDispatch, RelayRelease, RelayCrash, NextItem, RelayTypeOK, RelayPCs, ItemInv
  <2>5. QED
    BY <2>1, <2>2, <2>3, <2>4 DEF RelayStep
<1>c. faults' \in 0..MaxFaults /\ overruns' \in 0..MaxOverruns
  BY FaultType
  DEF StoresTypeOK, RelayStep, Claim, TakeItem, RelayAppend, RelayMark, RelayPublish,
      RelayDispatch, RelayRelease, RelayCrash, budget
<1> DEFINE PostgresType == /\ dedup \in [Keys -> Requests \cup {None}]
                           /\ messages \subseteq Requests
                           /\ outbox \in [Requests -> OutboxRow]
<1>d. PostgresType'
  <2>1. CASE UNCHANGED postgres
    BY <2>1 DEF postgres, StoresTypeOK
  <2>2. CASE Claim(w)
    <3>1. PICK S \in SUBSET Requests : ClaimPending(w, S)
      BY <2>2 DEF Claim
    <3>2. QED
      BY <3>1 DEF ClaimPending, StoresTypeOK, OutboxRow
  <2>3. CASE RelayMark(w) \/ RelayDispatch(w) \/ RelayRelease(w)
    <3>1. item[w] \in Requests
      BY <2>3, <1>i DEF RelayMark, RelayDispatch, RelayRelease
    <3>2. CASE MarkStreamAppended(item[w]) \/ MarkDispatched(item[w])
               \/ ReleaseClaim(w, item[w])
      BY <3>1, <3>2, OutboxOps DEF StoresTypeOK, PostgresType
    <3>3. QED
      BY <3>2, <2>1, <2>3 DEF RelayMark, RelayDispatch, RelayRelease
  <2>4. QED
    BY <2>1, <2>2, <2>3
    DEF RelayStep, TakeItem, RelayAppend, RelayPublish, RelayCrash
<1>e. roomStream' \in [Requests -> Nat] /\ eventStream' \in [Requests -> Nat]
  <2>1. CASE UNCHANGED valkey
    BY <2>1 DEF valkey, StoresTypeOK
  <2>2. CASE RelayAppend(w) \/ RelayPublish(w)
    BY <2>1, <2>2, <1>i, StoresOps DEF RelayAppend, RelayPublish
  <2>3. QED
    BY <2>1, <2>2
    DEF RelayStep, Claim, TakeItem, RelayMark, RelayDispatch, RelayRelease, RelayCrash
<1>f. QED
  BY <1>a, <1>b, <1>c, <1>d, <1>e DEF StoresTypeOK

LEMMA LeaseType ==
    ASSUME TypeOK, ItemInv, NEW m \in Requests, UNCHANGED sendVars,
           ExpireUnattended(m) \/ ExpireInUse(m)
    PROVE  TypeOK' /\ ItemInv'
<1>1. outbox' \in [Requests -> OutboxRow]
  BY DEF ExpireUnattended, ExpireInUse, Expire, TypeOK, StoresTypeOK, OutboxRow
<1>2. QED
  BY <1>1, ConstantsAssumption
  DEF ExpireUnattended, ExpireInUse, Expire, TypeOK, StoresTypeOK, SendTypeOK,
      RelayTypeOK, ItemInv, relayVars, sendVars, valkey, ConstantsAssumption

LEMMA InitType == Init => TypeOK /\ ItemInv
<1> SUFFICES ASSUME Init PROVE TypeOK /\ ItemInv
  OBVIOUS
<1>1. SendTypeOK /\ RelayTypeOK /\ ItemInv
  BY DEF Init, SendInit, RelayInit, SendTypeOK, RelayTypeOK, SendPCs, Results,
         RelayPCs, ItemInv
<1>2. dedup \in [Keys -> Requests \cup {None}]
  BY ConstantsAssumption DEF Init, StoresInit, ConstantsAssumption
<1>3. PICK appended \in [Backlog -> BOOLEAN] :
         /\ outbox = [m \in Requests |-> IF m \in Backlog
                                         THEN Row("pending", appended[m])
                                         ELSE Row("absent", FALSE)]
         /\ roomStream = [m \in Requests |->
                             IF m \in Backlog /\ appended[m] THEN 1 ELSE 0]
  BY DEF Init, StoresInit
<1>4. outbox \in [Requests -> OutboxRow]
  <2>1. \A a \in BOOLEAN : Row("pending", a) \in OutboxRow /\ Row("absent", a) \in OutboxRow
    BY DEF Row, OutboxRow
  <2>2. QED
    BY <1>3, <2>1
<1>5. roomStream \in [Requests -> Nat]
  BY <1>3
<1>6. /\ messages \subseteq Requests
      /\ eventStream \in [Requests -> Nat]
      /\ faults \in 0..MaxFaults
      /\ overruns \in 0..MaxOverruns
  BY ConstantsAssumption DEF Init, StoresInit, ConstantsAssumption
<1>7. QED
  BY <1>1, <1>2, <1>4, <1>5, <1>6 DEF TypeOK, StoresTypeOK

LEMMA NextType == TypeOK /\ ItemInv /\ [Next]_vars => TypeOK' /\ ItemInv'
<1> SUFFICES ASSUME TypeOK, ItemInv, [Next]_vars PROVE TypeOK' /\ ItemInv'
  OBVIOUS
<1>1. CASE SenderNext
  BY <1>1, SendType DEF SenderNext, ItemInv, relayVars
<1>2. CASE RelayNext
  BY <1>2, RelayType DEF RelayNext
<1>3. CASE LeaseNext
  BY <1>3, LeaseType DEF LeaseNext
<1>4. CASE UNCHANGED vars
  BY <1>4 DEF vars, postgres, valkey, budget, sendVars, relayVars, TypeOK, StoresTypeOK,
              SendTypeOK, RelayTypeOK, ItemInv
<1>5. QED
  BY <1>1, <1>2, <1>3, <1>4 DEF Next

\* Every reachable state is well typed.
THEOREM TypeCorrect == SafeSpec => []TypeOK
<1>1. Init => TypeOK /\ ItemInv
  BY InitType
<1>2. TypeOK /\ ItemInv /\ [Next]_vars => TypeOK' /\ ItemInv'
  BY NextType
<1>3. QED
  BY <1>1, <1>2, PTL DEF SafeSpec

----------------------------------------------------------------------------
(***************************************************************************)
(* The inductive invariant behind the safety properties.                   *)
(***************************************************************************)

\* message_dedup and messages name each other.
DedupInv ==
    /\ \A k \in Keys : dedup[k] # None => dedup[k] \in messages /\ KeyOf[dedup[k]] = k
    /\ \A m \in messages : dedup[KeyOf[m]] = m

\* What the streams and an outbox row say about a message.
StreamInv ==
    \A m \in Requests :
        /\ roomStream[m] > 0 \/ outbox[m].status # "absent" => m \in messages
        /\ eventStream[m] > 0 => roomStream[m] > 0
        /\ outbox[m].appended => roomStream[m] > 0
        /\ outbox[m].status = "dispatched" => eventStream[m] > 0

\* What a request knows by the time it makes its next call.
SenderInv ==
    \A r \in Requests :
        /\ pc[r] \in {"idle", "exists", "room", "reply", "save"} => r \notin messages
        /\ pc[r] \in {"append", "publish", "enqueue_unappended", "enqueue_appended"}
             => r \in messages
        /\ pc[r] \in {"publish", "enqueue_appended"} => roomStream[r] > 0
        /\ pc[r] = "save" /\ ReplyTo[r] # None
             => ReplyTo[r] \in messages /\ RoomOf[ReplyTo[r]] = RoomOf[r]

\* What a relay knows about the messages it has claimed.
RelayInv ==
    \A w \in Relays :
        /\ \A i \in batch[w] : /\ outbox[i.msg].status # "absent"
                               /\ i.appended => roomStream[i.msg] > 0
        /\ item[w] # None => outbox[item[w]].status # "absent"
        /\ rpc[w] \in {"mark", "publish", "dispatch"} => roomStream[item[w]] > 0
        /\ rpc[w] = "dispatch" => eventStream[item[w]] > 0

AnswerInv == SentIsStreamedOrQueued /\ DuplicateIsStored /\ ReplyTargetStored

PipelineInv ==
    /\ TypeOK /\ ItemInv
    /\ DedupInv /\ StreamInv /\ SenderInv /\ RelayInv /\ AnswerInv

LEMMA InitInv == Init => PipelineInv
<1> SUFFICES ASSUME Init PROVE PipelineInv
  OBVIOUS
<1>1. TypeOK /\ ItemInv
  BY InitType
<1>2. PICK appended \in [Backlog -> BOOLEAN] :
         /\ outbox = [m \in Requests |-> IF m \in Backlog
                                         THEN Row("pending", appended[m])
                                         ELSE Row("absent", FALSE)]
         /\ roomStream = [m \in Requests |->
                             IF m \in Backlog /\ appended[m] THEN 1 ELSE 0]
  BY DEF Init, StoresInit
<1>3. /\ messages = Backlog
      /\ Backlog \subseteq Requests
      /\ eventStream = [m \in Requests |-> 0]
      /\ \A m \in Requests : /\ outbox[m].status = (IF m \in Backlog THEN "pending" ELSE "absent")
                             /\ outbox[m].appended <=> roomStream[m] > 0
                             /\ roomStream[m] > 0 => m \in Backlog
  BY <1>2, ConstantsAssumption DEF Init, StoresInit, Row, ConstantsAssumption
<1>4. DedupInv
  <2>1. \A m \in Backlog : dedup[KeyOf[m]] = m
    BY ConstantsAssumption DEF ConstantsAssumption, Init, StoresInit
  <2>2. \A k \in Keys : dedup[k] # None => dedup[k] \in Backlog /\ KeyOf[dedup[k]] = k
    BY ConstantsAssumption DEF ConstantsAssumption, Init, StoresInit
  <2>3. QED
    BY <1>3, <2>1, <2>2 DEF DedupInv
<1>5. StreamInv
  BY <1>3 DEF StreamInv
<1>6. SenderInv
  BY <1>3 DEF SenderInv, Init, SendInit
<1>7. RelayInv
  BY DEF RelayInv, Init, RelayInit
<1>8. AnswerInv
  BY <1>3, NoneAssumption
  DEF NoneAssumption, Results, AnswerInv, SentIsStreamedOrQueued, DuplicateIsStored, ReplyTargetStored, Init, SendInit
<1>9. QED
  BY <1>1, <1>4, <1>5, <1>6, <1>7, <1>8 DEF PipelineInv

LEMMA SaveInv ==
    ASSUME PipelineInv, NEW r \in Requests, pc[r] = "save", ~ExistsByClientMsgID(r),
           Save(r), Goto(r, "append") \/ Return(r, "error"),
           UNCHANGED <<valkey, relayVars>>
    PROVE  DedupInv' /\ StreamInv' /\ SenderInv' /\ RelayInv' /\ AnswerInv'
<1> USE DEF PipelineInv, TypeOK
<1>1. KeyOf[r] \in Keys /\ r \notin messages /\ r # None
  BY ConstantsAssumption DEF ConstantsAssumption, SenderInv
<1>2. DedupInv'
  BY <1>1, ConstantsAssumption
  DEF DedupInv, Save, ExistsByClientMsgID, StoresTypeOK, ConstantsAssumption
<1>3. StreamInv'
  BY DEF StreamInv, Save, valkey
<1>4. SenderInv'
  BY DEF SenderInv, Save, Goto, Return, SendTypeOK, valkey
<1>5. RelayInv'
  BY DEF RelayInv, Save, valkey, relayVars
<1>6. AnswerInv'
  <2>1. SentIsStreamedOrQueued'
    BY DEF AnswerInv, SentIsStreamedOrQueued, Save, Goto, Return, SendTypeOK, valkey
  <2>2. DuplicateIsStored'
    BY DEF AnswerInv, DuplicateIsStored, Save, Goto, Return, SendTypeOK
  <2>3. ReplyTargetStored'
    BY DEF AnswerInv, ReplyTargetStored, SenderInv, Save
  <2>4. QED
    BY <2>1, <2>2, <2>3 DEF AnswerInv
<1>7. QED
  BY <1>2, <1>3, <1>4, <1>5, <1>6

\* A step that only reads, fails or returns: what the request learns is true.
LEMMA SendReadInv ==
    ASSUME PipelineInv, NEW r \in Requests, SendStep(r) \/ SenderCrash(r),
           UNCHANGED <<postgres, valkey, relayVars>>
    PROVE  DedupInv' /\ StreamInv' /\ SenderInv' /\ RelayInv' /\ AnswerInv'
<1> USE DEF PipelineInv, TypeOK, postgres, valkey
<1>1. DedupInv' /\ StreamInv' /\ RelayInv'
  BY DEF DedupInv, StreamInv, RelayInv, relayVars
<1>d. ExistsByClientMsgID(r) /\ pc[r] \in {"exists", "save"}
        => \E m \in messages \ {r} : KeyOf[m] = KeyOf[r]
  <2>1. KeyOf[r] \in Keys
    BY ConstantsAssumption DEF ConstantsAssumption
  <2>2. QED
    BY <2>1 DEF DedupInv, SenderInv, ExistsByClientMsgID
<1>e. \A m \in Requests : roomStream[m] \in Nat /\ eventStream[m] \in Nat
  BY DEF StoresTypeOK
<1>s. ASSUME SendAppend(r) \/ SendPublish(r) \/ EnqueueUnappended(r) \/ EnqueueAppended(r)
      PROVE  SenderInv' /\ AnswerInv'
  <2>1. CASE SendAppend(r)
    <3>1. Goto(r, "enqueue_unappended")
      BY <2>1, <1>e DEF SendAppend, AppendMessage, StoresTypeOK
    <3>2. QED
      BY <3>1, <2>1 DEF SendAppend, Goto, SenderInv, AnswerInv, SentIsStreamedOrQueued,
         DuplicateIsStored, ReplyTargetStored, SendTypeOK
  <2>2. CASE SendPublish(r)
    <3>1. Goto(r, "enqueue_appended")
      BY <2>2, <1>e DEF SendPublish, PublishMessageCreated, StoresTypeOK
    <3>2. QED
      BY <3>1, <2>2 DEF SendPublish, Goto, SenderInv, AnswerInv, SentIsStreamedOrQueued,
         DuplicateIsStored, ReplyTargetStored, SendTypeOK
  <2>3. ASSUME NEW a \in BOOLEAN, EnqueueMessage(r, a), r \in messages
        PROVE  SenderInv' /\ AnswerInv'
    <3>1. SenderInv'
      BY <2>3 DEF EnqueueMessage, Return, SenderInv, SendTypeOK
    <3>2. CASE Return(r, "error")
      BY <3>1, <3>2 DEF Return, AnswerInv, SentIsStreamedOrQueued,
         DuplicateIsStored, ReplyTargetStored, SendTypeOK
    <3>3. CASE Return(r, "ok") /\ Enqueue(r, a)
      <4>1. outbox[r].status \in {"pending", "dispatched"}
        BY <3>3 DEF Enqueue, Row, StoresTypeOK, OutboxRow
      <4>2. SentIsStreamedOrQueued'
        BY <3>3, <4>1, <2>3, <1>e DEF Return, AnswerInv, SentIsStreamedOrQueued, StreamInv, SendTypeOK
      <4>3. QED
        BY <4>2, <3>1, <3>3 DEF Return, AnswerInv, DuplicateIsStored, ReplyTargetStored, SendTypeOK
    <3>4. QED
      BY <2>3, <3>2, <3>3 DEF EnqueueMessage
  <2>4. QED
    BY <1>s, <2>1, <2>2, <2>3 DEF EnqueueUnappended, EnqueueAppended, SenderInv
<1>2. SenderInv'
  <2>1. CASE CheckReply(r)
    BY <2>1, ConstantsAssumption
    DEF CheckReply, GetByIDs, ReadFails, Goto, Return, SenderInv, SendTypeOK, ConstantsAssumption
  <2>2. CASE SaveMessage(r)
    <3>1. pc' = [pc EXCEPT ![r] = "done"]
      BY <2>2 DEF SaveMessage, Save, Return, SenderInv
    <3>2. QED
      BY <3>1 DEF SenderInv, SendTypeOK
  <2>3. CASE Admit(r) \/ CheckDuplicate(r) \/ CheckRoom(r) \/ SenderCrash(r)
    BY <2>3 DEF Admit, CheckDuplicate, CheckRoom, SenderCrash, ReadFails, Goto, Return,
                SenderInv, SendTypeOK
  <2>4. QED
    BY <1>s, <2>1, <2>2, <2>3 DEF SendStep
<1>3. AnswerInv'
  <2>1. CASE result' = result \/ \E a \in Results \ {"ok", "duplicate"} :
                                    result' = [result EXCEPT ![r] = a]
    BY <2>1 DEF AnswerInv, SentIsStreamedOrQueued, DuplicateIsStored, ReplyTargetStored, SendTypeOK
  <2>2. CASE result' = [result EXCEPT ![r] = "duplicate"] /\ ExistsByClientMsgID(r)
             /\ pc[r] \in {"exists", "save"}
    BY <2>2, <1>d
    DEF AnswerInv, SentIsStreamedOrQueued, DuplicateIsStored, ReplyTargetStored, SendTypeOK
  <2>3. CASE SaveMessage(r)
    BY <2>1, <2>2, <2>3 DEF SaveMessage, Save, Return, Goto, SenderInv, Results
  <2>4. CASE CheckDuplicate(r) \/ Admit(r) \/ CheckRoom(r) \/ CheckReply(r) \/ SenderCrash(r)
    BY <2>1, <2>2, <2>4
    DEF CheckDuplicate, Admit, CheckRoom, CheckReply, SenderCrash, ReadFails, Return, Goto, Results
  <2>5. QED
    BY <1>s, <2>3, <2>4 DEF SendStep
<1>4. QED
  BY <1>1, <1>2, <1>3

LEMMA SendStreamInv ==
    ASSUME PipelineInv, NEW r \in Requests, SendAppend(r) \/ SendPublish(r),
           AppendMessage(r) \/ PublishMessageCreated(r),
           UNCHANGED <<postgres, relayVars>>
    PROVE  DedupInv' /\ StreamInv' /\ SenderInv' /\ RelayInv' /\ AnswerInv'
<1> USE DEF PipelineInv, TypeOK, postgres
<1>1. /\ r \in messages
      /\ PublishMessageCreated(r) => roomStream[r] > 0
  BY DEF SenderInv, SendAppend, SendPublish, AppendMessage, PublishMessageCreated, StoresTypeOK, valkey
<1>2. \A m \in Requests : /\ roomStream[m] > 0 => roomStream'[m] > 0
                          /\ eventStream[m] > 0 => eventStream'[m] > 0
  BY DEF StoresTypeOK, AppendMessage, PublishMessageCreated
<1>3. DedupInv'
  BY DEF DedupInv
<1>4. StreamInv'
  BY <1>1 DEF StreamInv, StoresTypeOK, AppendMessage, PublishMessageCreated
<1>5. RelayInv'
  <2>1. \A w \in Relays : /\ \A i \in batch[w] : i.msg \in Requests
                          /\ rpc[w] # "idle" => item[w] \in Requests
    BY DEF RelayTypeOK, Items, ItemInv
  <2>2. QED
    BY <1>2, <2>1 DEF RelayInv, relayVars
<1>6. SenderInv'
  BY <1>1, <1>2 DEF SenderInv, SendAppend, SendPublish, Goto, Return, SendTypeOK,
     AppendMessage, PublishMessageCreated, StoresTypeOK
<1>7. AnswerInv'
  <2>1. SentIsStreamedOrQueued'
    BY <1>1, <1>2 DEF AnswerInv, SentIsStreamedOrQueued, SendAppend, SendPublish, Goto, Return,
       SendTypeOK, AppendMessage, PublishMessageCreated, StoresTypeOK
  <2>2. DuplicateIsStored' /\ ReplyTargetStored'
    BY DEF AnswerInv, DuplicateIsStored, ReplyTargetStored, SendAppend, SendPublish, Goto, Return, SendTypeOK
  <2>3. QED
    BY <2>1, <2>2 DEF AnswerInv
<1>8. QED
  BY <1>3, <1>4, <1>5, <1>6, <1>7

LEMMA EnqueueInv ==
    ASSUME PipelineInv, NEW r \in Requests, NEW a \in BOOLEAN,
           r \in messages, a => roomStream[r] > 0,
           Enqueue(r, a), Return(r, "ok") \/ Return(r, "error"),
           UNCHANGED <<valkey, relayVars>>
    PROVE  DedupInv' /\ StreamInv' /\ SenderInv' /\ RelayInv' /\ AnswerInv'
<1> USE DEF PipelineInv, TypeOK, valkey
<1>1. \A m \in Requests :
        /\ outbox[m].status # "absent" => outbox'[m] = outbox[m]
        /\ outbox[m].status = "absent"
             => outbox'[m] = outbox[m] \/ (m = r /\ outbox'[m] = Row("pending", a))
        /\ outbox'[r].status # "absent"
  BY DEF Enqueue, StoresTypeOK, Row
<1>2. Row("pending", a).status = "pending" /\ Row("pending", a).appended = a
  BY DEF Row
<1>3. DedupInv'
  BY DEF DedupInv, Enqueue
<1>4. StreamInv'
  BY <1>1, <1>2 DEF StreamInv, Enqueue
<1>5. SenderInv'
  BY DEF SenderInv, Enqueue, Return, SendTypeOK
<1>6. RelayInv'
  <2>1. \A w \in Relays : /\ \A i \in batch[w] : i.msg \in Requests
                          /\ item[w] # None => item[w] \in Requests
    BY DEF RelayTypeOK, Items
  <2>2. \A m \in Requests : outbox[m].status # "absent" => outbox'[m].status # "absent"
    BY <1>1
  <2>3. UNCHANGED <<rpc, batch, item, roomStream, eventStream>>
    BY DEF relayVars
  <2> SUFFICES ASSUME NEW w \in Relays
               PROVE  /\ \A i \in batch[w] : outbox'[i.msg].status # "absent"
                      /\ item[w] # None => outbox'[item[w]].status # "absent"
    BY <2>3 DEF RelayInv
  <2>4. QED
    BY <2>1, <2>2 DEF RelayInv
<1>7. SentIsStreamedOrQueued'
  <2>1. \A m \in Requests : outbox'[m].status # "absent" => outbox'[m].status \in {"pending", "dispatched"}
    BY <1>1, <1>2 DEF StoresTypeOK, OutboxRow
  <2>2. r \in messages' /\ (eventStream'[r] > 0 \/ outbox'[r].status = "pending")
                        /\ (roomStream'[r] > 0 \/ (outbox'[r].status = "pending" /\ ~outbox'[r].appended))
    <3>1. outbox'[r].status \in {"pending", "dispatched"}
      BY <1>1, <2>1
    <3>2. /\ outbox'[r].status = "dispatched" => eventStream'[r] > 0
          /\ eventStream'[r] > 0 => roomStream'[r] > 0
          /\ outbox'[r].appended => roomStream'[r] > 0
      BY <1>4 DEF StreamInv
    <3>3. QED
      BY <3>1, <3>2 DEF Enqueue
  <2>3. \A m \in Requests \ {r} : outbox'[m] = outbox[m] /\ result'[m] = result[m]
    BY <1>1 DEF Return, SendTypeOK
  <2>4. QED
    BY <2>2, <2>3 DEF AnswerInv, SentIsStreamedOrQueued, Enqueue
<1>8. DuplicateIsStored' /\ ReplyTargetStored'
  BY DEF AnswerInv, DuplicateIsStored, ReplyTargetStored, Return, SendTypeOK, Enqueue
<1>9. QED
  BY <1>3, <1>4, <1>5, <1>6, <1>7, <1>8 DEF AnswerInv

LEMMA SenderNextInv ==
    ASSUME PipelineInv, SenderNext
    PROVE  DedupInv' /\ StreamInv' /\ SenderInv' /\ RelayInv' /\ AnswerInv'
<1> PICK r \in Requests : (SendStep(r) \/ SenderCrash(r)) /\ UNCHANGED <<overruns, relayVars>>
  BY DEF SenderNext
<1>1. CASE UNCHANGED <<postgres, valkey>>
  BY <1>1, SendReadInv
<1>2. CASE SaveMessage(r)
  BY <1>1, <1>2, SaveInv DEF SaveMessage
<1>3. CASE SendAppend(r) \/ SendPublish(r)
  BY <1>1, <1>3, SendStreamInv DEF SendAppend, SendPublish
<1>4. ASSUME NEW a \in BOOLEAN, EnqueueMessage(r, a), r \in messages, a => roomStream[r] > 0
      PROVE  DedupInv' /\ StreamInv' /\ SenderInv' /\ RelayInv' /\ AnswerInv'
  BY <1>1, <1>4, EnqueueInv DEF EnqueueMessage
<1>5. CASE EnqueueUnappended(r) \/ EnqueueAppended(r)
  BY <1>4, <1>5 DEF EnqueueUnappended, EnqueueAppended, PipelineInv, SenderInv
<1>6. QED
  BY <1>1, <1>2, <1>3, <1>5
  DEF SendStep, SenderCrash, Reads, ReadFails, Admit, CheckDuplicate, CheckRoom, CheckReply

\* The parts of the invariant a relay or the clock cannot touch.
LEMMA OutboxOnlyInv ==
    ASSUME PipelineInv, UNCHANGED <<dedup, messages, valkey, sendVars>>,
           outbox' \in [Requests -> OutboxRow],
           \A m \in Requests :
               /\ outbox'[m].status = outbox[m].status
                    \/ (outbox[m].status # "absent" /\ outbox'[m].status = "dispatched"
                          /\ roomStream[m] > 0 /\ eventStream[m] > 0)
               /\ outbox'[m].appended => outbox[m].appended \/ roomStream[m] > 0
    PROVE  DedupInv' /\ StreamInv' /\ SenderInv' /\ AnswerInv'
<1> USE DEF PipelineInv, valkey, sendVars
<1>1. DedupInv'
  BY DEF DedupInv
<1>2. StreamInv'
  BY DEF StreamInv
<1>3. SenderInv'
  BY DEF SenderInv
<1>4. SentIsStreamedOrQueued'
  BY <1>2 DEF AnswerInv, SentIsStreamedOrQueued, StreamInv
<1>5. DuplicateIsStored' /\ ReplyTargetStored'
  BY DEF AnswerInv, DuplicateIsStored, ReplyTargetStored
<1>6. QED
  BY <1>1, <1>2, <1>3, <1>4, <1>5 DEF AnswerInv

LEMMA RelayNextInv ==
    ASSUME PipelineInv, RelayNext, TypeOK', ItemInv'
    PROVE  DedupInv' /\ StreamInv' /\ SenderInv' /\ RelayInv' /\ AnswerInv'
<1> USE DEF PipelineInv
<1> PICK w \in Relays : (RelayStep(w) \/ RelayCrash(w)) /\ UNCHANGED sendVars
  BY DEF RelayNext
<1> DEFINE Others == DedupInv' /\ StreamInv' /\ SenderInv' /\ AnswerInv'
<1>t. /\ \A v \in Relays : /\ \A i \in batch[v] : i.msg \in Requests
                           /\ item[v] # None => item[v] \in Requests
                           /\ rpc[v] # "idle" => item[v] \in Requests
      /\ \A m \in Requests : roomStream[m] \in Nat /\ eventStream[m] \in Nat
  BY DEF TypeOK, RelayTypeOK, StoresTypeOK, Items, ItemInv
<1>u. ASSUME UNCHANGED <<postgres, valkey>> PROVE Others
  BY <1>u, OutboxOnlyInv DEF postgres, TypeOK, StoresTypeOK
<1>1. CASE Claim(w)
  <2>1. PICK S \in SUBSET {m \in Requests : Claimable(m)} :
          /\ ClaimPending(w, S)
          /\ \/ batch' = [batch EXCEPT ![w] =
                   {[msg |-> m, appended |-> outbox[m].appended] : m \in S}]
             \/ UNCHANGED batch
    BY <1>1 DEF Claim
  <2>2. \A m \in Requests : /\ outbox'[m].status = outbox[m].status
                            /\ outbox'[m].appended = outbox[m].appended
    <3> TAKE m \in Requests
    <3>1. outbox'[m] = IF m \in S THEN [outbox[m] EXCEPT !.claimedBy = w, !.lease = "live"]
                                  ELSE outbox[m]
      BY <2>1 DEF ClaimPending
    <3>2. outbox[m] \in OutboxRow
      BY DEF TypeOK, StoresTypeOK
    <3>3. QED
      BY <3>1, <3>2 DEF OutboxRow
  <2>3. Others
    BY <1>1, <2>1, <2>2, OutboxOnlyInv DEF Claim, ClaimPending, TypeOK, StoresTypeOK
  <2>4. UNCHANGED <<rpc, item, roomStream, eventStream>>
    BY <1>1 DEF Claim, valkey
  <2>5. \A v \in Relays : \A i \in batch'[v] :
          \/ i \in batch[v]
          \/ /\ i.msg \in Requests
             /\ Claimable(i.msg)
             /\ i.appended = outbox[i.msg].appended
    BY <2>1 DEF TypeOK, RelayTypeOK
  <2>6. RelayInv'
    BY <2>2, <2>4, <2>5, <1>t DEF RelayInv, StreamInv, Claimable
  <2>7. QED
    BY <2>3, <2>6
<1>2. CASE TakeItem(w)
  <2>1. PICK i \in batch[w] :
          /\ item' = [item EXCEPT ![w] = i.msg]
          /\ batch' = [batch EXCEPT ![w] = @ \ {i}]
          /\ rpc' = [rpc EXCEPT ![w] = IF i.appended THEN "publish" ELSE "append"]
    BY <1>2 DEF TakeItem
  <2>2. UNCHANGED <<outbox, roomStream, eventStream>>
    BY <1>2 DEF TakeItem, postgres, valkey
  <2>3. RelayInv'
    BY <2>1, <2>2 DEF RelayInv, TypeOK, RelayTypeOK
  <2>4. QED
    BY <1>u, <1>2, <2>3 DEF TakeItem
<1>3. CASE RelayAppend(w) \/ RelayPublish(w)
  <2>1. /\ item[w] \in Requests
        /\ item[w] \in messages
        /\ RelayPublish(w) => roomStream[item[w]] > 0
    BY <1>3, <1>t DEF RelayAppend, RelayPublish, RelayInv, StreamInv, ItemInv
  <2>2. /\ UNCHANGED <<postgres, item, batch>>
        /\ \A v \in Relays \ {w} : rpc'[v] = rpc[v]
        /\ rpc'[w] \in {"mark", "release", "dispatch"}
    BY <1>3 DEF RelayAppend, RelayPublish, RelayGoto, TypeOK, RelayTypeOK
  <2>3. \A m \in Requests :
          /\ roomStream[m] > 0 => roomStream'[m] > 0
          /\ eventStream[m] > 0 => eventStream'[m] > 0
          /\ roomStream'[m] > 0 => roomStream[m] > 0 \/ m = item[w]
          /\ eventStream'[m] > 0
               => eventStream[m] > 0 \/ (m = item[w] /\ roomStream[m] > 0)
    BY <1>3, <2>1, <1>t
    DEF RelayAppend, RelayPublish, AppendMessage, PublishMessageCreated, valkey,
        TypeOK, StoresTypeOK
  <2>4. DedupInv' /\ SenderInv'
    BY <2>2, <2>3 DEF DedupInv, SenderInv, postgres, sendVars
  <2>5. StreamInv'
    BY <2>1, <2>2, <2>3 DEF StreamInv, postgres
  <2>6. AnswerInv'
    BY <2>2, <2>3
    DEF AnswerInv, SentIsStreamedOrQueued, DuplicateIsStored, ReplyTargetStored, postgres,
        sendVars
  <2>7. /\ rpc'[w] \in {"mark", "dispatch"} => roomStream'[item[w]] > 0
        /\ rpc'[w] = "dispatch" => eventStream'[item[w]] > 0
    BY <1>3, <2>1, <1>t
    DEF RelayAppend, RelayPublish, RelayGoto, AppendMessage, PublishMessageCreated, TypeOK,
        RelayTypeOK, StoresTypeOK
  <2>8. RelayInv'
    BY <2>2, <2>3, <2>7, <1>t DEF RelayInv, postgres
  <2>9. QED
    BY <2>4, <2>5, <2>6, <2>8
<1>4. CASE RelayMark(w) \/ RelayDispatch(w) \/ RelayRelease(w)
  <2>1. item[w] \in Requests /\ outbox[item[w]].status # "absent"
    BY <1>4, <1>t DEF RelayMark, RelayDispatch, RelayRelease, RelayInv, ItemInv
  <2>2. /\ UNCHANGED <<dedup, messages, roomStream, eventStream, batch>>
        /\ \A v \in Relays \ {w} : rpc'[v] = rpc[v] /\ item'[v] = item[v]
        /\ \/ rpc'[w] = "idle" /\ item'[w] = None
           \/ rpc'[w] = "release" /\ item'[w] = item[w]
           \/ rpc'[w] = "publish" /\ item'[w] = item[w] /\ rpc[w] = "mark"
    BY <1>4
    DEF RelayMark, RelayDispatch, RelayRelease, RelayGoto, NextItem, MarkStreamAppended,
        MarkDispatched, ReleaseClaim, postgres, valkey, TypeOK, RelayTypeOK
  <2>3. \A m \in Requests :
          /\ outbox'[m].status = outbox[m].status
               \/ (outbox[m].status # "absent" /\ outbox'[m].status = "dispatched"
                     /\ roomStream[m] > 0 /\ eventStream[m] > 0)
          /\ outbox'[m].appended => outbox[m].appended \/ roomStream[m] > 0
    <3>1. CASE RelayMark(w)
      <4>1. roomStream[item[w]] > 0
        BY <3>1 DEF RelayMark, RelayInv
      <4>2. QED
        BY <3>1, <4>1, <2>1 DEF RelayMark, MarkStreamAppended, postgres, TypeOK, StoresTypeOK, OutboxRow
    <3>2. CASE RelayDispatch(w)
      <4>1. roomStream[item[w]] > 0 /\ eventStream[item[w]] > 0
        BY <3>2 DEF RelayDispatch, RelayInv
      <4>2. QED
        BY <3>2, <4>1, <2>1 DEF RelayDispatch, MarkDispatched, Row, postgres, TypeOK, StoresTypeOK, OutboxRow
    <3>3. CASE RelayRelease(w)
      BY <3>3, <2>1 DEF RelayRelease, ReleaseClaim, Row, postgres, TypeOK, StoresTypeOK, OutboxRow
    <3>4. QED
      BY <1>4, <3>1, <3>2, <3>3
  <2>4. Others
    BY <2>2, <2>3, OutboxOnlyInv DEF TypeOK, StoresTypeOK, valkey
  <2>5. \A m \in Requests : outbox[m].status # "absent" => outbox'[m].status # "absent"
    BY <2>3
  <2>6. RelayInv'
    BY <2>1, <2>2, <2>5, <1>t DEF RelayInv
  <2>7. QED
    BY <2>4, <2>6
<1>5. CASE RelayCrash(w)
  <2>1. RelayInv'
    BY <1>5 DEF RelayCrash, RelayInv, postgres, valkey, TypeOK, RelayTypeOK
  <2>2. QED
    BY <2>1, <1>5, <1>u DEF RelayCrash
<1>6. QED
  BY <1>1, <1>2, <1>3, <1>4, <1>5 DEF RelayStep

LEMMA LeaseNextInv ==
    ASSUME PipelineInv, LeaseNext, TypeOK'
    PROVE  DedupInv' /\ StreamInv' /\ SenderInv' /\ RelayInv' /\ AnswerInv'
<1> USE DEF PipelineInv
<1> PICK m \in Requests : Expire(m) /\ UNCHANGED sendVars
  BY DEF LeaseNext, ExpireUnattended, ExpireInUse
<1>1. \A n \in Requests : /\ outbox'[n].status = outbox[n].status
                          /\ outbox'[n].appended = outbox[n].appended
  BY DEF Expire, TypeOK, StoresTypeOK, OutboxRow
<1>2. DedupInv' /\ StreamInv' /\ SenderInv' /\ AnswerInv'
  BY <1>1, OutboxOnlyInv DEF Expire, TypeOK, StoresTypeOK
<1>3. \A v \in Relays : /\ \A i \in batch[v] : i.msg \in Requests
                        /\ item[v] # None => item[v] \in Requests
  BY DEF TypeOK, RelayTypeOK, Items
<1>4. RelayInv'
  BY <1>1, <1>3 DEF RelayInv, Expire, relayVars, valkey
<1>5. QED
  BY <1>2, <1>4

LEMMA NextInv == PipelineInv /\ [Next]_vars => PipelineInv'
<1> SUFFICES ASSUME PipelineInv, [Next]_vars PROVE PipelineInv'
  OBVIOUS
<1>1. TypeOK' /\ ItemInv'
  BY NextType DEF PipelineInv
<1>2. CASE Next
  BY <1>1, <1>2, SenderNextInv, RelayNextInv, LeaseNextInv DEF Next, PipelineInv
<1>3. CASE UNCHANGED vars
  BY <1>1, <1>3
  DEF vars, postgres, valkey, budget, sendVars, relayVars, PipelineInv, DedupInv, StreamInv,
      SenderInv, RelayInv, AnswerInv, SentIsStreamedOrQueued, DuplicateIsStored,
      ReplyTargetStored
<1>4. QED
  BY <1>2, <1>3

LEMMA SpecInv == SafeSpec => []PipelineInv
BY InitInv, NextInv, PTL DEF SafeSpec

\* At most one message is stored per sender and client message id, however
\* the retries of a send interleave.
THEOREM OneMessage == SafeSpec => []OneMessagePerClientId
<1>1. PipelineInv => OneMessagePerClientId
  BY DEF PipelineInv, DedupInv, OneMessagePerClientId
<1>2. QED
  BY <1>1, SpecInv, PTL

\* A sender told `sent' has a stored message that is in each stream or has a
\* pending row that leads there.
THEOREM SentIsSafe == SafeSpec => []SentIsStreamedOrQueued
<1>1. PipelineInv => SentIsStreamedOrQueued
  BY DEF PipelineInv, AnswerInv
<1>2. QED
  BY <1>1, SpecInv, PTL

\* A sender told `duplicate' did store that message before.
THEOREM DuplicateIsTrue == SafeSpec => []DuplicateIsStored
<1>1. PipelineInv => DuplicateIsStored
  BY DEF PipelineInv, AnswerInv
<1>2. QED
  BY <1>1, SpecInv, PTL

\* A stored reply answers a message stored in the same room.
THEOREM ReplyIsSafe == SafeSpec => []ReplyTargetStored
<1>1. PipelineInv => ReplyTargetStored
  BY DEF PipelineInv, AnswerInv
<1>2. QED
  BY <1>1, SpecInv, PTL

\* An outbox row is retired only when the message is in both streams.
THEOREM DispatchIsSafe == SafeSpec => []DispatchedIsStreamed
<1>1. PipelineInv => DispatchedIsStreamed
  BY DEF PipelineInv, StreamInv, DispatchedIsStreamed
<1>2. QED
  BY <1>1, SpecInv, PTL

\* Nothing is visible in a stream, or in a relay's hands, before it is stored.
THEOREM StoredFirst == SafeSpec => []VisibleIsStored
<1>1. PipelineInv => VisibleIsStored
  <2> SUFFICES ASSUME PipelineInv, NEW m \in Requests
               PROVE  /\ roomStream[m] > 0 \/ InUse(m) => m \in messages
                      /\ eventStream[m] > 0 => roomStream[m] > 0
    BY DEF VisibleIsStored
  <2>1. InUse(m) => outbox[m].status # "absent"
    BY DEF InUse, Held, PipelineInv, RelayInv
  <2>2. QED
    BY <2>1 DEF PipelineInv, StreamInv
<1>2. QED
  BY <1>1, SpecInv, PTL

\* What Execute and the relay leave in the stores fits together.
THEOREM StoresFit == SafeSpec => []MessagesConsistent
<1>1. OneMessagePerClientId /\ ReplyTargetStored /\ VisibleIsStored => MessagesConsistent
  BY DEF MessagesConsistent
<1>2. QED
  BY <1>1, OneMessage, ReplyIsSafe, StoredFirst, PTL

\* What Execute tells the sender is true from then on.
THEOREM AnswersHold == SafeSpec => []AnswersAreTrue
<1>1. SentIsStreamedOrQueued /\ DuplicateIsStored => AnswersAreTrue
  BY DEF AnswersAreTrue
<1>2. QED
  BY <1>1, SentIsSafe, DuplicateIsTrue, PTL

----------------------------------------------------------------------------
(***************************************************************************)
(* Exclusive claims.  While no lease has run out under its relay, the row  *)
(* of every message a relay holds is pending, leased and claimed by that   *)
(* relay, so no other relay can hold it.                                   *)
(***************************************************************************)

\* The row of m is w's to work on.
Owns(w, m) ==
    /\ outbox[m].status = "pending"
    /\ outbox[m].lease = "live"
    /\ outbox[m].claimedBy = w

\* A relay holds a message once: a batch has it once, and not again while the
\* relay works on it.
BatchInv ==
    \A w \in Relays :
        /\ \A i, j \in batch[w] : i.msg = j.msg => i = j
        /\ \A i \in batch[w] : i.msg # item[w]

OwnerInv == overruns = 0 => \A w \in Relays : \A m \in Held(w) : Owns(w, m)

ClaimInv == BatchInv /\ OwnerInv

LEMMA HeldType ==
    ASSUME TypeOK, NEW w \in Relays
    PROVE  /\ Held(w) \subseteq Requests
           /\ \A i \in batch[w] : i.msg \in Held(w)
           /\ item[w] # None => item[w] \in Held(w)
BY DEF TypeOK, RelayTypeOK, Items, Held

\* A relay's step leaves what the other relays hold as it is.
LEMMA OthersKeep ==
    ASSUME TypeOK, NEW w \in Relays, RelayStep(w) \/ RelayCrash(w)
    PROVE  \A v \in Relays \ {w} : /\ batch'[v] = batch[v]
                                   /\ item'[v] = item[v]
                                   /\ Held(v)' = Held(v)
<1>1. \A v \in Relays \ {w} : batch'[v] = batch[v] /\ item'[v] = item[v]
  BY DEF RelayStep, Claim, TakeItem, RelayAppend, RelayMark, RelayPublish, RelayDispatch,
         RelayRelease, RelayCrash, RelayGoto, NextItem, TypeOK, RelayTypeOK
<1>2. QED
  BY <1>1 DEF Held

LEMMA RelayBatchInv ==
    ASSUME TypeOK, ItemInv, BatchInv, NEW w \in Relays, RelayStep(w) \/ RelayCrash(w)
    PROVE  BatchInv'
<1> SUFFICES /\ \A i, j \in batch'[w] : i.msg = j.msg => i = j
             /\ \A i \in batch'[w] : i.msg # item'[w]
  BY OthersKeep DEF BatchInv
<1>1. CASE Claim(w)
  <2>1. PICK S \in SUBSET Requests :
             \/ batch' = [batch EXCEPT ![w] =
                   {[msg |-> m, appended |-> outbox[m].appended] : m \in S}]
             \/ UNCHANGED batch
    BY <1>1 DEF Claim
  <2>2. item'[w] = None /\ None \notin Requests
    BY <1>1, ConstantsAssumption DEF Claim, ConstantsAssumption
  <2>3. batch'[w] = {} \/ batch'[w] = {[msg |-> m, appended |-> outbox[m].appended] : m \in S}
    BY <1>1, <2>1 DEF Claim, TypeOK, RelayTypeOK
  <2>4. QED
    BY <2>2, <2>3
<1>2. CASE TakeItem(w)
  <2>1. PICK i \in batch[w] : item' = [item EXCEPT ![w] = i.msg]
                              /\ batch' = [batch EXCEPT ![w] = @ \ {i}]
    BY <1>2 DEF TakeItem
  <2>2. QED
    BY <2>1 DEF BatchInv, TypeOK, RelayTypeOK
<1>3. CASE batch'[w] = batch[w] /\ item'[w] = item[w]
  BY <1>3 DEF BatchInv
<1>4. CASE (batch'[w] = batch[w] \/ batch'[w] = {}) /\ item'[w] = None
  <2>1. \A i \in batch[w] : i.msg \in Requests
    BY DEF TypeOK, RelayTypeOK, Items
  <2>2. QED
    BY <1>4, <2>1, ConstantsAssumption DEF BatchInv, ConstantsAssumption
<1>5. QED
  BY <1>1, <1>2, <1>3, <1>4
  DEF RelayStep, RelayAppend, RelayMark, RelayPublish, RelayDispatch, RelayRelease,
      RelayCrash, RelayGoto, NextItem, TypeOK, RelayTypeOK

LEMMA RelayOwnerInv ==
    ASSUME TypeOK, ItemInv, ClaimInv, NEW w \in Relays, RelayStep(w) \/ RelayCrash(w)
    PROVE  OwnerInv'
<1>0. overruns' = overruns
  BY DEF RelayStep, Claim, TakeItem, RelayAppend, RelayMark, RelayPublish, RelayDispatch,
         RelayRelease, RelayCrash, budget
<1> SUFFICES ASSUME overruns = 0, NEW v \in Relays, NEW m \in Held(v)' PROVE Owns(v, m)'
  BY <1>0 DEF OwnerInv
<1>o. \A u \in Relays : \A n \in Held(u) : Owns(u, n)
  BY DEF ClaimInv, OwnerInv
<1>h. \A u \in Relays : Held(u) \subseteq Requests
  BY HeldType
<1>1. CASE Claim(w)
  <2>1. PICK S \in SUBSET {n \in Requests : Claimable(n)} :
          /\ ClaimPending(w, S)
          /\ \/ batch' = [batch EXCEPT ![w] =
                   {[msg |-> n, appended |-> outbox[n].appended] : n \in S}]
             \/ UNCHANGED batch
    BY <1>1 DEF Claim
  <2>2. \A n \in Requests : outbox'[n] =
          IF n \in S THEN [outbox[n] EXCEPT !.claimedBy = w, !.lease = "live"] ELSE outbox[n]
    BY <2>1 DEF ClaimPending
  <2>3. CASE v = w
    <3>1. m \in S
      BY <1>1, <2>1, <2>3 DEF Claim, Held, TypeOK, RelayTypeOK
    <3>2. outbox[m].status = "pending" /\ outbox[m] \in OutboxRow
      BY <3>1 DEF Claimable, TypeOK, StoresTypeOK
    <3>3. QED
      BY <2>2, <2>3, <3>1, <3>2 DEF Owns, OutboxRow
  <2>4. CASE v # w
    <3>1. m \in Held(v)
      BY <2>4, OthersKeep
    <3>2. m \in Requests /\ m \notin S
      BY <3>1, <1>o, <1>h DEF Claimable, Owns
    <3>3. QED
      BY <2>2, <3>1, <3>2, <1>o DEF Owns
  <2>5. QED
    BY <2>3, <2>4
<1>2. CASE UNCHANGED outbox /\ m \in Held(v)
  BY <1>2, <1>o DEF Owns
<1>3. CASE TakeItem(w) \/ RelayAppend(w) \/ RelayPublish(w) \/ RelayCrash(w)
  <2>1. UNCHANGED outbox
    BY <1>3 DEF TakeItem, RelayAppend, RelayPublish, RelayCrash, postgres
  <2>2. Held(w)' \subseteq Held(w)
    BY <1>3 DEF TakeItem, RelayAppend, RelayPublish, RelayCrash, RelayGoto, Held, TypeOK,
                RelayTypeOK
  <2>3. QED
    BY <1>2, <2>1, <2>2, OthersKeep
<1>4. CASE RelayMark(w)
  <2>1. Held(w)' = Held(w)
    BY <1>4 DEF RelayMark, RelayGoto, Held
  <2>2. m \in Held(v) /\ m \in Requests
    BY <2>1, OthersKeep, <1>h
  <2>3. /\ outbox'[m].status = outbox[m].status
        /\ outbox'[m].lease = outbox[m].lease
        /\ outbox'[m].claimedBy = outbox[m].claimedBy
    BY <1>4, <2>2 DEF RelayMark, MarkStreamAppended, postgres, TypeOK, StoresTypeOK, OutboxRow
  <2>4. QED
    BY <2>2, <2>3, <1>o DEF Owns
<1>5. CASE RelayDispatch(w) \/ RelayRelease(w)
  <2>1. item[w] \in Held(w) /\ item[w] \in Requests
    BY <1>5, HeldType, <1>h DEF RelayDispatch, RelayRelease, ItemInv
  <2>2. Held(w)' \subseteq Held(w) \ {item[w]}
    BY <1>5 DEF RelayDispatch, RelayRelease, NextItem, Held, TypeOK, RelayTypeOK, ClaimInv, BatchInv
  <2>3. m \in Held(v) /\ m # item[w]
    BY <2>1, <2>2, OthersKeep, <1>o DEF Owns
  <2>4. outbox'[m] = outbox[m]
    BY <1>5, <2>1, <2>3, <1>h
    DEF RelayDispatch, RelayRelease, MarkDispatched, ReleaseClaim, postgres, TypeOK,
        StoresTypeOK
  <2>5. QED
    BY <2>3, <2>4, <1>o DEF Owns
<1>6. QED
  BY <1>1, <1>3, <1>4, <1>5 DEF RelayStep

LEMMA NextClaim ==
    ASSUME TypeOK, ItemInv, ClaimInv, [Next]_vars
    PROVE  ClaimInv'
<1>1. CASE SenderNext
  <2>1. PICK r \in Requests : (SendStep(r) \/ SenderCrash(r)) /\ UNCHANGED <<overruns, relayVars>>
    BY <1>1 DEF SenderNext
  <2>2. \A m \in Requests : outbox[m].status = "pending" => outbox'[m] = outbox[m]
    <3>1. CASE UNCHANGED outbox
      BY <3>1
    <3>2. ASSUME NEW a \in BOOLEAN, EnqueueMessage(r, a)
          PROVE  \A m \in Requests : outbox[m].status = "pending" => outbox'[m] = outbox[m]
      BY <3>2 DEF EnqueueMessage, Enqueue, postgres, TypeOK, StoresTypeOK
    <3>3. QED
      BY <2>1, <3>1, <3>2
      DEF SendStep, SenderCrash, Reads, ReadFails, Admit, CheckDuplicate, CheckRoom,
          CheckReply, SaveMessage, Save, SendAppend, SendPublish, EnqueueUnappended,
          EnqueueAppended, postgres
  <2>3. \A w \in Relays : Held(w)' = Held(w) /\ Held(w) \subseteq Requests
    BY <2>1, HeldType DEF relayVars, Held
  <2>4. BatchInv'
    BY <2>1 DEF ClaimInv, BatchInv, relayVars
  <2>5. OwnerInv'
    BY <2>1, <2>2, <2>3 DEF ClaimInv, OwnerInv, Owns
  <2>6. QED
    BY <2>4, <2>5 DEF ClaimInv
<1>2. CASE RelayNext
  BY <1>2, RelayBatchInv, RelayOwnerInv DEF RelayNext, ClaimInv
<1>3. CASE LeaseNext
  <2>1. PICK m \in Requests : ExpireUnattended(m) \/ ExpireInUse(m)
    BY <1>3 DEF LeaseNext
  <2>2. BatchInv' /\ \A w \in Relays : Held(w)' = Held(w) /\ Held(w) \subseteq Requests
    BY <2>1, HeldType
    DEF ExpireUnattended, ExpireInUse, Expire, relayVars, Held, ClaimInv, BatchInv
  <2>3. CASE ExpireUnattended(m)
    <3>1. \A n \in Requests \ {m} : outbox'[n] = outbox[n]
      BY <2>3 DEF ExpireUnattended, Expire, TypeOK, StoresTypeOK
    <3>2. QED
      BY <2>2, <2>3, <3>1 DEF ExpireUnattended, InUse, ClaimInv, OwnerInv, Owns
  <2>4. CASE ExpireInUse(m)
    <3>1. overruns' # 0
      BY <2>4 DEF ExpireInUse, TypeOK, StoresTypeOK
    <3>2. QED
      BY <2>2, <3>1 DEF ClaimInv, OwnerInv
  <2>5. QED
    BY <2>1, <2>3, <2>4
<1>4. CASE UNCHANGED vars
  BY <1>4 DEF vars, postgres, budget, relayVars, ClaimInv, BatchInv, OwnerInv, Owns, Held
<1>5. QED
  BY <1>1, <1>2, <1>3, <1>4 DEF Next

\* Two relays never work on the same message unless a lease ran out while its
\* relay was at work.
THEOREM ExclusiveClaims == SafeSpec => []ExclusiveUnlessOverrun
<1>1. Init => ClaimInv
  BY DEF Init, RelayInit, ClaimInv, BatchInv, OwnerInv, Held
<1>2. ClaimInv => ExclusiveUnlessOverrun
  BY DEF ClaimInv, OwnerInv, Owns, ExclusiveUnlessOverrun
<1>3. Init => TypeOK /\ ItemInv
  BY InitType
<1>4. TypeOK /\ ItemInv /\ [Next]_vars => TypeOK' /\ ItemInv'
  BY NextType
<1>5. TypeOK /\ ItemInv /\ ClaimInv /\ [Next]_vars => ClaimInv'
  BY NextClaim
<1>6. QED
  BY <1>1, <1>2, <1>3, <1>4, <1>5, PTL DEF SafeSpec

----------------------------------------------------------------------------
(***************************************************************************)
(* The pipeline implements the safety part of MessageDelivery: a save is   *)
(* Store, the first append Stream, a publish Announce, an accepted enqueue *)
(* Defer, and every other step leaves the abstract state as it is.         *)
(***************************************************************************)

Streamed == {m \in Requests : roomStream[m] > 0}
Announced == {m \in Requests : eventStream[m] > 0}
Accepted == {r \in Requests : result[r] = "ok"}

LEMMA StreamsMap ==
    ASSUME TypeOK, NEW m \in Requests
    PROVE  /\ AppendMessage(m) => Streamed' = Streamed \cup {m} /\ Announced' = Announced
           /\ PublishMessageCreated(m) => Announced' = Announced \cup {m} /\ Streamed' = Streamed
           /\ UNCHANGED valkey => Announced' = Announced /\ Streamed' = Streamed
<1> USE DEF TypeOK, StoresTypeOK, Streamed, Announced
<1>1. AppendMessage(m) => Streamed' = Streamed \cup {m} /\ Announced' = Announced
  BY DEF AppendMessage
<1>2. PublishMessageCreated(m) => Announced' = Announced \cup {m} /\ Streamed' = Streamed
  BY DEF PublishMessageCreated
<1>3. UNCHANGED valkey => Announced' = Announced /\ Streamed' = Streamed
  BY DEF valkey
<1>4. QED
  BY <1>1, <1>2, <1>3

\* A request that has not returned has no answer.
OpenInv == \A r \in Requests : pc[r] # "done" => result[r] = None

LEMMA NextOpen == TypeOK /\ OpenInv /\ [Next]_vars => OpenInv'
<1> SUFFICES ASSUME TypeOK, OpenInv, [Next]_vars PROVE OpenInv'
  OBVIOUS
<1>1. CASE UNCHANGED sendVars
  BY <1>1 DEF sendVars, OpenInv
<1>2. ASSUME NEW r \in Requests, pc[r] # "done",
             (\E l : Goto(r, l)) \/ (\E a : Return(r, a))
      PROVE  OpenInv'
  BY <1>2 DEF Goto, Return, OpenInv, TypeOK, SendTypeOK
<1>3. CASE SenderNext
  <2>1. PICK r \in Requests : SendStep(r) \/ SenderCrash(r)
    BY <1>3 DEF SenderNext
  <2>2. pc[r] # "done" /\ ((\E l : Goto(r, l)) \/ (\E a : Return(r, a)))
    BY <2>1
    DEF SendStep, SenderCrash, ReadFails, Admit, CheckDuplicate, CheckRoom, CheckReply,
        SaveMessage, SendAppend, SendPublish, EnqueueUnappended, EnqueueAppended,
        EnqueueMessage
  <2>3. QED
    BY <1>2, <2>2
<1>4. QED
  BY <1>1, <1>3 DEF Next, RelayNext, LeaseNext, vars

LEMMA AnswersMap ==
    ASSUME TypeOK, NEW r \in Requests, result[r] = None
    PROVE  /\ \A l : Goto(r, l) => Accepted' = Accepted
           /\ \A a \in Results \ {"ok"} : Return(r, a) => Accepted' = Accepted
           /\ Return(r, "ok") => Accepted' = Accepted \cup {r}
<1> USE NoneAssumption DEF TypeOK, SendTypeOK, Accepted, NoneAssumption, Results
<1>1. \A l : Goto(r, l) => Accepted' = Accepted
  BY DEF Goto
<1>2. \A a \in Results \ {"ok"} : Return(r, a) => Accepted' = Accepted
  BY DEF Return
<1>3. Return(r, "ok") => Accepted' = Accepted \cup {r}
  BY DEF Return
<1>4. QED
  BY <1>1, <1>2, <1>3

\* Every step of a request is an abstract step, or none.
LEMMA SenderMaps ==
    ASSUME PipelineInv, OpenInv, NEW r \in Requests, SendStep(r) \/ SenderCrash(r)
    PROVE  \/ Delivery!Next
           \/ UNCHANGED <<messages, Streamed, Announced, Accepted>>
<1> DEFINE Still == UNCHANGED <<messages, Streamed, Announced, Accepted>>
<1>t. TypeOK
  BY DEF PipelineInv
<1>r. pc[r] # "done" /\ result[r] = None
  BY DEF OpenInv, SendStep, SenderCrash, Admit, CheckDuplicate, CheckRoom, CheckReply,
         SaveMessage, SendAppend, SendPublish, EnqueueUnappended, EnqueueAppended
<1>n. \A a \in Results \ {"ok"} : Return(r, a) => Accepted' = Accepted
  BY <1>t, <1>r, AnswersMap
<1>g. \A l : Goto(r, l) => Accepted' = Accepted
  BY <1>t, <1>r, AnswersMap
<1>k. Return(r, "ok") => Accepted' = Accepted \cup {r}
  BY <1>t, <1>r, AnswersMap
<1>1. CASE Admit(r) \/ CheckDuplicate(r) \/ CheckRoom(r) \/ CheckReply(r) \/ SenderCrash(r)
  <2>1. UNCHANGED <<messages, valkey>>
    BY <1>1 DEF Admit, CheckDuplicate, CheckRoom, CheckReply, SenderCrash, Reads, ReadFails,
                postgres
  <2>2. (\E l : Goto(r, l)) \/ (\E a \in Results \ {"ok"} : Return(r, a))
    BY <1>1 DEF Admit, CheckDuplicate, CheckRoom, CheckReply, SenderCrash, ReadFails, Results
  <2>3. QED
    BY <2>1, <2>2, <1>n, <1>g, <1>t, StreamsMap
<1>2. CASE SaveMessage(r)
  <2>1. Streamed' = Streamed /\ Announced' = Announced
    BY <1>2, <1>t, StreamsMap DEF SaveMessage
  <2>2. Accepted' = Accepted
    BY <1>2, <1>n, <1>g DEF SaveMessage, Results
  <2>3. CASE ~ExistsByClientMsgID(r) /\ Save(r)
    <3>1. \A n \in messages : KeyOf[n] # KeyOf[r]
      BY <2>3, ConstantsAssumption
      DEF ExistsByClientMsgID, PipelineInv, DedupInv, TypeOK, StoresTypeOK, ConstantsAssumption
    <3>2. Delivery!Store(r)
      BY <2>1, <2>2, <2>3, <3>1 DEF Delivery!Store, Save, Streamed, Announced, Accepted
    <3>3. QED
      BY <3>2 DEF Delivery!Next
  <2>4. CASE UNCHANGED postgres
    BY <2>1, <2>2, <2>4 DEF postgres
  <2>5. QED
    BY <1>2, <2>3, <2>4 DEF SaveMessage
<1>3. CASE SendAppend(r)
  <2>1. Accepted' = Accepted /\ messages' = messages /\ r \in messages
    BY <1>3, <1>g DEF SendAppend, postgres, PipelineInv, SenderInv
  <2>2. CASE AppendMessage(r)
    <3>1. Streamed' = Streamed \cup {r} /\ Announced' = Announced
      BY <2>2, <1>t, StreamsMap
    <3>2. Delivery!Stream(r)
      BY <2>1, <3>1 DEF Delivery!Stream, Streamed, Announced, Accepted
    <3>3. QED
      BY <3>2 DEF Delivery!Next
  <2>3. QED
    BY <1>3, <2>1, <2>2, <1>t, StreamsMap DEF SendAppend
<1>4. CASE SendPublish(r)
  <2>1. messages' = messages /\ r \in Streamed /\ Accepted' \in {Accepted, Accepted \cup {r}}
    BY <1>4, <1>g, <1>k DEF SendPublish, postgres, PipelineInv, SenderInv, Streamed
  <2>2. CASE PublishMessageCreated(r)
    <3>1. Announced' = Announced \cup {r} /\ Streamed' = Streamed
      BY <2>2, <1>t, StreamsMap
    <3>2. Delivery!Announce(r)
      BY <2>1, <3>1 DEF Delivery!Announce, Streamed, Announced, Accepted
    <3>3. QED
      BY <3>2 DEF Delivery!Next
  <2>3. CASE UNCHANGED valkey /\ Goto(r, "enqueue_appended")
    BY <2>1, <2>3, <1>g, <1>t, StreamsMap
  <2>4. QED
    BY <1>4, <2>2, <2>3 DEF SendPublish
<1>5. ASSUME NEW b \in BOOLEAN, EnqueueMessage(r, b), r \in messages
      PROVE  Delivery!Next \/ Still
  <2>1. UNCHANGED <<messages, Streamed, Announced>>
    BY <1>5, <1>t, StreamsMap DEF EnqueueMessage, Enqueue, postgres
  <2>2. CASE Return(r, "ok")
    <3>1. Delivery!Defer(r)
      BY <1>5, <2>1, <2>2, <1>k DEF Delivery!Defer, Streamed, Announced, Accepted
    <3>2. QED
      BY <3>1 DEF Delivery!Next
  <2>3. CASE Return(r, "error")
    BY <2>1, <2>3, <1>n DEF Results
  <2>4. QED
    BY <1>5, <2>2, <2>3 DEF EnqueueMessage
<1>6. CASE EnqueueUnappended(r) \/ EnqueueAppended(r)
  BY <1>5, <1>6 DEF EnqueueUnappended, EnqueueAppended, PipelineInv, SenderInv
<1>7. QED
  BY <1>1, <1>2, <1>3, <1>4, <1>6 DEF SendStep

LEMMA RelayMaps ==
    ASSUME PipelineInv, NEW w \in Relays, RelayStep(w) \/ RelayCrash(w), UNCHANGED sendVars
    PROVE  \/ Delivery!Next
           \/ UNCHANGED <<messages, Streamed, Announced, Accepted>>
<1>t. TypeOK
  BY DEF PipelineInv
<1>1. UNCHANGED <<messages, Accepted>>
  BY DEF RelayStep, Claim, TakeItem, RelayAppend, RelayMark, RelayPublish, RelayDispatch,
         RelayRelease, RelayCrash, ClaimPending, MarkStreamAppended, MarkDispatched,
         ReleaseClaim, postgres, sendVars, Accepted
<1>2. CASE UNCHANGED valkey
  BY <1>1, <1>2 DEF valkey, Streamed, Announced
<1>3. CASE RelayAppend(w) \/ RelayPublish(w)
  <2>1. /\ item[w] \in Requests
        /\ item[w] \in messages
        /\ RelayPublish(w) => item[w] \in Streamed
    BY <1>3
    DEF RelayAppend, RelayPublish, PipelineInv, RelayInv, StreamInv, ItemInv, TypeOK,
        RelayTypeOK, Streamed
  <2> PICK n \in Requests : n = item[w]
    BY <2>1
  <2>2. CASE RelayAppend(w) /\ AppendMessage(item[w])
    <3>1. Streamed' = Streamed \cup {item[w]} /\ Announced' = Announced
      BY <2>1, <2>2, <1>t, StreamsMap
    <3>2. Delivery!Stream(n)
      BY <1>1, <2>1, <3>1 DEF Delivery!Stream, Streamed, Announced, Accepted
    <3>3. QED
      BY <3>2 DEF Delivery!Next
  <2>3. CASE RelayPublish(w) /\ PublishMessageCreated(item[w])
    <3>1. Announced' = Announced \cup {item[w]} /\ Streamed' = Streamed
      BY <2>1, <2>3, <1>t, StreamsMap
    <3>2. Delivery!Announce(n)
      BY <1>1, <2>1, <2>3, <3>1 DEF Delivery!Announce, Streamed, Announced, Accepted
    <3>3. QED
      BY <3>2 DEF Delivery!Next
  <2>4. QED
    BY <1>2, <1>3, <2>2, <2>3 DEF RelayAppend, RelayPublish
<1>4. QED
  BY <1>2, <1>3
  DEF RelayStep, Claim, TakeItem, RelayMark, RelayDispatch, RelayRelease, RelayCrash

\* The pipeline implements the safety part of the abstract delivery promise.
THEOREM ImplementsDelivery == SafeSpec => Delivery!Safety
<1>1. Init => Delivery!Init
  <2> SUFFICES ASSUME Init PROVE Delivery!Init
    OBVIOUS
  <2>1. PipelineInv
    BY InitInv
  <2>2. Streamed \subseteq messages /\ Accepted \subseteq messages
    BY <2>1 DEF PipelineInv, StreamInv, AnswerInv, SentIsStreamedOrQueued, Streamed, Accepted
  <2>3. Announced = {}
    BY DEF Init, StoresInit, Announced
  <2>4. /\ messages \in SUBSET Requests
        /\ \A m, n \in messages : KeyOf[m] = KeyOf[n] => m = n
    BY <2>1 DEF PipelineInv, DedupInv, TypeOK, StoresTypeOK
  <2>5. QED
    BY <2>2, <2>3, <2>4 DEF Delivery!Init, Streamed, Announced, Accepted
<1>2. PipelineInv /\ OpenInv /\ [Next]_vars => [Delivery!Next]_(Delivery!deliveryVars)
  <2> SUFFICES ASSUME PipelineInv, OpenInv, [Next]_vars
               PROVE  Delivery!Next \/ UNCHANGED <<messages, Streamed, Announced, Accepted>>
    BY DEF Delivery!deliveryVars, Streamed, Announced, Accepted
  <2>1. CASE SenderNext
    BY <2>1, SenderMaps DEF SenderNext
  <2>2. CASE RelayNext
    BY <2>2, RelayMaps DEF RelayNext
  <2>3. CASE LeaseNext \/ UNCHANGED vars
    BY <2>3
    DEF LeaseNext, ExpireUnattended, ExpireInUse, Expire, vars, postgres, valkey, sendVars,
        Streamed, Announced, Accepted
  <2>4. QED
    BY <2>1, <2>2, <2>3 DEF Next
<1>3. SafeSpec => []PipelineInv
  BY SpecInv
<1>4. SafeSpec => []OpenInv
  <2>1. Init => OpenInv
    BY DEF Init, SendInit, OpenInv
  <2>2. TypeOK /\ OpenInv /\ [Next]_vars => OpenInv'
    BY NextOpen
  <2>3. QED
    BY <2>1, <2>2, TypeCorrect, PTL DEF SafeSpec
<1>5. QED
  BY <1>1, <1>2, <1>3, <1>4, PTL DEF SafeSpec, Delivery!Safety

----------------------------------------------------------------------------
(***************************************************************************)
(* Copies.  Whoever will append m, or publish it, if nothing goes wrong    *)
(* holds a claim to one entry: the sender up to its call, the pending row  *)
(* that no relay tends, and every relay that still has the call before it. *)
(* A step hands a claim on or turns it into an entry; only a failed call,  *)
(* a crash or a lease that ends under its relay makes one more.            *)
(***************************************************************************)

\* A relay has m before it, or works on it at one of these stages.
Attends(w, m, stages) ==
    \/ \E i \in batch[w] : i.msg = m
    \/ item[w] = m /\ rpc[w] \in stages

\* The relay that holds the lease on m's row is that far with it.
Tended(m, stages) ==
    /\ outbox[m].lease = "live" /\ outbox[m].claimedBy \in Relays
    /\ Attends(outbox[m].claimedBy, m, stages)

\* Who will append m, or publish it, if nothing goes wrong: relays, the row through the
\* relay that claims it next, and the sender.
RoomRelay(w, m) ==
    \/ \E i \in batch[w] : i.msg = m /\ ~i.appended
    \/ item[w] = m /\ rpc[w] = "append"
EventRelay(w, m) == Attends(w, m, {"append", "mark", "publish"})

RoomRow(m) ==
    /\ outbox[m].status = "pending" /\ ~outbox[m].appended
    /\ ~Tended(m, {"append", "mark"})
EventRow(m) ==
    /\ outbox[m].status = "pending"
    /\ ~Tended(m, {"append", "mark", "publish", "dispatch"})

RoomSender(m) ==
    pc[m] \in {"idle", "exists", "room", "reply", "save", "append", "enqueue_unappended"}
EventSender(m) == RoomSender(m) \/ pc[m] \in {"publish", "enqueue_appended"}

RoomRelays(m) == {w \in Relays : RoomRelay(w, m)}
EventRelays(m) == {w \in Relays : EventRelay(w, m)}

One(b) == IF b THEN 1 ELSE 0

CopyInv ==
    \A m \in Requests :
        /\ IsFiniteSet(RoomRelays(m)) /\ IsFiniteSet(EventRelays(m))
        /\ roomStream[m] + Cardinality(RoomRelays(m)) + One(RoomRow(m)) + One(RoomSender(m))
              <= 1 + faults + overruns
        /\ eventStream[m] + Cardinality(EventRelays(m)) + One(EventRow(m)) + One(EventSender(m))
              <= 1 + faults + overruns

\* Who skips the append knows it from the row.
SkipInv ==
    \A w \in Relays :
        /\ \A i \in batch[w] : i.appended => outbox[i.msg].appended
        /\ rpc[w] \in {"publish", "dispatch"} => outbox[item[w]].appended

\* Two sets of relays that differ at most in w differ in size by what they say of w.
LEMMA HolderCount ==
    ASSUME NEW A, NEW B, NEW w, IsFiniteSet(A), A \ {w} = B \ {w}
    PROVE  /\ IsFiniteSet(B) /\ Cardinality(A) \in Nat /\ Cardinality(B) \in Nat
           /\ Cardinality(B) + One(w \in A) = Cardinality(A) + One(w \in B)
<1>1. IsFiniteSet(A \ {w}) /\ IsFiniteSet(B \ {w})
  BY FS_RemoveElement
<1>2. \A C : IsFiniteSet(C \ {w}) =>
        /\ IsFiniteSet(C) /\ Cardinality(C) \in Nat /\ Cardinality(C \ {w}) \in Nat
        /\ Cardinality(C) = Cardinality(C \ {w}) + One(w \in C)
  <2> SUFFICES ASSUME NEW C, IsFiniteSet(C \ {w})
               PROVE  /\ IsFiniteSet(C) /\ Cardinality(C) \in Nat
                      /\ Cardinality(C \ {w}) \in Nat
                      /\ Cardinality(C) = Cardinality(C \ {w}) + One(w \in C)
    OBVIOUS
  <2>1. Cardinality(C \ {w}) \in Nat
    BY FS_CardinalityType
  <2>2. CASE w \in C
    <3>1. C = (C \ {w}) \cup {w} /\ w \notin C \ {w}
      BY <2>2
    <3>2. IsFiniteSet((C \ {w}) \cup {w})
            /\ Cardinality((C \ {w}) \cup {w}) = Cardinality(C \ {w}) + 1
      BY <3>1, FS_AddElement
    <3>3. QED
      BY <2>1, <2>2, <3>1, <3>2 DEF One
  <2>3. CASE w \notin C
    <3>1. C \ {w} = C
      BY <2>3
    <3>2. QED
      BY <2>1, <2>3, <3>1 DEF One
  <2>4. QED
    BY <2>2, <2>3
<1>3. QED
  BY <1>1, <1>2 DEF One

\* A step of relay w pays for what it adds to m's streams, to its own work on m and to
\* the row's claim on a relay.
RoomPaid(w, m) ==
    roomStream'[m] + One(RoomRelay(w, m)') + One(RoomRow(m)') + faults
      <= roomStream[m] + One(RoomRelay(w, m)) + One(RoomRow(m)) + faults'
EventPaid(w, m) ==
    eventStream'[m] + One(EventRelay(w, m)') + One(EventRow(m)') + faults
      <= eventStream[m] + One(EventRelay(w, m)) + One(EventRow(m)) + faults'

LEMMA RelayFrame ==
    ASSUME TypeOK, NEW w \in Relays, RelayStep(w) \/ RelayCrash(w)
    PROVE  \A v \in Relays \ {w} : batch'[v] = batch[v] /\ item'[v] = item[v] /\ rpc'[v] = rpc[v]
BY DEF RelayStep, Claim, TakeItem, RelayAppend, RelayMark, RelayPublish, RelayDispatch,
       RelayRelease, RelayCrash, RelayGoto, NextItem, TypeOK, RelayTypeOK

\* The lease on m's row stays with a relay that attends to m.
LEMMA TendedKept ==
    ASSUME NEW w \in Relays, NEW m, NEW stages,
           \A v \in Relays \ {w} :
               batch'[v] = batch[v] /\ item'[v] = item[v] /\ rpc'[v] = rpc[v],
           outbox'[m].lease = outbox[m].lease, outbox'[m].claimedBy = outbox[m].claimedBy,
           Attends(w, m, stages) => Attends(w, m, stages)'
    PROVE  Tended(m, stages) => Tended(m, stages)'
<1>1. \A v \in Relays \ {w} : Attends(v, m, stages) => Attends(v, m, stages)'
  BY DEF Attends
<1>2. \A v \in Relays : Attends(v, m, stages) => Attends(v, m, stages)'
  BY <1>1
<1>3. QED
  BY <1>2 DEF Tended

LEMMA RowKept ==
    ASSUME NEW m, outbox'[m].status \in {outbox[m].status, "dispatched"},
           outbox[m].appended => outbox'[m].appended
    PROVE  /\ (Tended(m, {"append", "mark"}) => Tended(m, {"append", "mark"})')
                => (RoomRow(m)' => RoomRow(m))
           /\ (Tended(m, {"append", "mark", "publish", "dispatch"})
                 => Tended(m, {"append", "mark", "publish", "dispatch"})')
                => (EventRow(m)' => EventRow(m))
BY DEF RoomRow, EventRow

\* What a relay does to the message it works on, and to the others it has claimed.
LEMMA AtItem ==
    ASSUME TypeOK, ItemInv, BatchInv, NEW w \in Relays, NEW stages, NEW m \in Requests,
           rpc[w] # "idle", batch' = batch, item'[w] \in {item[w], None}
    PROVE  /\ m = item[w] =>
                /\ RoomRelay(w, m) <=> rpc[w] = "append"
                /\ Attends(w, m, stages) <=> rpc[w] \in stages
                /\ RoomRelay(w, m)' => item'[w] = m /\ rpc'[w] = "append"
                /\ Attends(w, m, stages)' <=> item'[w] = m /\ rpc'[w] \in stages
           /\ m # item[w] =>
                /\ RoomRelay(w, m)' => RoomRelay(w, m)
                /\ Attends(w, m, stages)' <=> Attends(w, m, stages)
<1>1. m = item[w] => \A i \in batch[w] : i.msg # m
  BY DEF BatchInv
<1>2. m # None
  BY ConstantsAssumption DEF ConstantsAssumption
<1>3. QED
  BY <1>1, <1>2 DEF RoomRelay, Attends

LEMMA ClaimPaid ==
    ASSUME TypeOK, TypeOK', ItemInv, NEW w \in Relays, Claim(w), NEW m \in Requests
    PROVE  RoomPaid(w, m) /\ EventPaid(w, m)
<1>t. /\ roomStream'[m] = roomStream[m] /\ eventStream'[m] = eventStream[m]
      /\ roomStream[m] \in Nat /\ eventStream[m] \in Nat
      /\ faults \in Nat /\ faults' \in Nat /\ (faults' = faults \/ faults' = faults + 1)
  BY DEF Claim, NoFault, Fault, valkey, TypeOK, StoresTypeOK
<1>n. m # None
  BY ConstantsAssumption DEF ConstantsAssumption
<1>1. PICK S \in SUBSET {n \in Requests : Claimable(n)} :
        /\ ClaimPending(w, S)
        /\ \/ /\ NoFault
              /\ batch' = [batch EXCEPT ![w] =
                    {[msg |-> n, appended |-> outbox[n].appended] : n \in S}]
           \/ Fault("postgres") /\ UNCHANGED batch
  BY DEF Claim
<1>2. /\ outbox'[m].status = outbox[m].status /\ outbox'[m].appended = outbox[m].appended
      /\ m \notin S => outbox'[m] = outbox[m]
      /\ m \in S => /\ outbox'[m].claimedBy = w /\ outbox'[m].lease = "live"
                    /\ outbox[m].status = "pending" /\ outbox[m].lease # "live"
  BY <1>1 DEF ClaimPending, Claimable, TypeOK, StoresTypeOK, OutboxRow
<1>3. batch[w] = {} /\ item[w] = None /\ item' = item /\ rpc' = rpc
  BY DEF Claim
<1>4. ~RoomRelay(w, m) /\ \A stages : ~Attends(w, m, stages)
  BY <1>3, <1>n DEF RoomRelay, Attends
<1>5. m \notin S \/ batch' = batch => ~RoomRelay(w, m)' /\ \A stages : ~Attends(w, m, stages)'
  <2>1. \/ batch'[w] = {}
        \/ batch'[w] = {[msg |-> n, appended |-> outbox[n].appended] : n \in S}
    BY <1>1, <1>3 DEF TypeOK, RelayTypeOK
  <2>2. m \notin S \/ batch' = batch => \A i \in batch'[w] : i.msg # m
    BY <2>1, <1>3
  <2>3. QED
    BY <2>2, <1>3, <1>n DEF RoomRelay, Attends
<1>6. CASE m \notin S \/ batch' = batch
  <2>1. RoomRow(m)' => RoomRow(m)
    <3>1. CASE m \notin S
      BY <1>2, <1>4, <3>1, RelayFrame, TendedKept, RowKept DEF RelayStep
    <3>2. CASE m \in S
      BY <1>2, <3>2 DEF RoomRow, Tended
    <3>3. QED
      BY <3>1, <3>2
  <2>2. EventRow(m)' => EventRow(m)
    <3>1. CASE m \notin S
      BY <1>2, <1>4, <3>1, RelayFrame, TendedKept, RowKept DEF RelayStep
    <3>2. CASE m \in S
      BY <1>2, <3>2 DEF EventRow, Tended
    <3>3. QED
      BY <3>1, <3>2
  <2>3. ~RoomRelay(w, m)' /\ ~EventRelay(w, m)'
    BY <1>5, <1>6 DEF EventRelay
  <2>4. QED
    BY <2>1, <2>2, <2>3, <1>t DEF RoomPaid, EventPaid, One
<1>7. CASE m \in S /\ batch' # batch
  <2>1. batch'[w] = {[msg |-> n, appended |-> outbox[n].appended] : n \in S}
    BY <1>1, <1>7 DEF TypeOK, RelayTypeOK
  <2>2. [msg |-> m, appended |-> outbox[m].appended] \in batch'[w]
    BY <2>1, <1>7
  <2>3. \A stages : Attends(w, m, stages)'
    BY <2>2 DEF Attends
  <2>4. ~RoomRow(m)' /\ ~EventRow(m)'
    BY <2>3, <1>2, <1>7 DEF RoomRow, EventRow, Tended
  <2>5. ~Tended(m, {"append", "mark"})
          /\ ~Tended(m, {"append", "mark", "publish", "dispatch"})
    BY <1>2, <1>7 DEF Tended
  <2>6. EventRow(m)
    BY <2>5, <1>2, <1>7 DEF EventRow
  <2>7. RoomRelay(w, m)' => RoomRow(m)
    <3>1. \A i \in batch'[w] : i.msg = m => i.appended = outbox[m].appended
      BY <2>1
    <3>2. RoomRelay(w, m)' => ~outbox[m].appended
      BY <3>1, <1>3, <1>n DEF RoomRelay
    <3>3. QED
      BY <3>2, <2>5, <1>2, <1>7 DEF RoomRow
  <2>8. QED
    BY <2>4, <2>6, <2>7, <1>t DEF RoomPaid, EventPaid, One
<1>8. QED
  BY <1>6, <1>7

LEMMA TakePaid ==
    ASSUME TypeOK, ItemInv, BatchInv, SkipInv, NEW w \in Relays, TakeItem(w),
           NEW m \in Requests
    PROVE  RoomPaid(w, m) /\ EventPaid(w, m)
<1>t. /\ roomStream'[m] = roomStream[m] /\ eventStream'[m] = eventStream[m]
      /\ roomStream[m] \in Nat /\ eventStream[m] \in Nat
      /\ faults \in Nat /\ faults' = faults /\ outbox' = outbox
  BY DEF TakeItem, budget, postgres, valkey, TypeOK, StoresTypeOK
<1>n. m # None
  BY ConstantsAssumption DEF ConstantsAssumption
<1>1. PICK i \in batch[w] :
        /\ item' = [item EXCEPT ![w] = i.msg]
        /\ batch' = [batch EXCEPT ![w] = @ \ {i}]
        /\ rpc' = [rpc EXCEPT ![w] = IF i.appended THEN "publish" ELSE "append"]
  BY DEF TakeItem
<1>2. /\ item[w] = None /\ item'[w] = i.msg /\ batch'[w] = batch[w] \ {i}
      /\ rpc'[w] = IF i.appended THEN "publish" ELSE "append"
  BY <1>1 DEF TakeItem, TypeOK, RelayTypeOK
<1>3. \A j \in batch[w] : j.msg = i.msg => j = i
  BY DEF BatchInv
<1>4. RoomRelay(w, m)' => RoomRelay(w, m)
  BY <1>2, <1>3 DEF RoomRelay
<1>5. EventRelay(w, m)' => EventRelay(w, m)
  BY <1>2, <1>3 DEF EventRelay, Attends
<1>6. Attends(w, m, {"append", "mark", "publish", "dispatch"})
        => Attends(w, m, {"append", "mark", "publish", "dispatch"})'
  BY <1>2, <1>n DEF Attends
<1>7. \/ m = i.msg /\ i.appended
      \/ Attends(w, m, {"append", "mark"}) => Attends(w, m, {"append", "mark"})'
  BY <1>2, <1>n DEF Attends
<1>8. EventRow(m)' => EventRow(m)
  BY <1>t, <1>6, RelayFrame, TendedKept, RowKept DEF RelayStep
<1>9. RoomRow(m)' => RoomRow(m)
  <2>1. CASE m = i.msg /\ i.appended
    BY <2>1, <1>t DEF SkipInv, RoomRow
  <2>2. CASE Attends(w, m, {"append", "mark"}) => Attends(w, m, {"append", "mark"})'
    BY <1>t, <2>2, RelayFrame, TendedKept, RowKept DEF RelayStep
  <2>3. QED
    BY <2>1, <2>2, <1>7
<1>10. QED
  BY <1>t, <1>4, <1>5, <1>8, <1>9 DEF RoomPaid, EventPaid, One

LEMMA ItemPaid ==
    ASSUME TypeOK, TypeOK', ItemInv, BatchInv, NEW w \in Relays, NEW m \in Requests,
           \/ RelayAppend(w) \/ RelayMark(w) \/ RelayPublish(w)
           \/ RelayDispatch(w) \/ RelayRelease(w)
    PROVE  RoomPaid(w, m) /\ EventPaid(w, m)
<1> DEFINE Rs == {"append", "mark"}
           Es == {"append", "mark", "publish", "dispatch"}
           Ps == {"append", "mark", "publish"}
<1>a. /\ batch' = batch /\ item'[w] \in {item[w], None} /\ rpc[w] # "idle"
      /\ item[w] \in Requests
  BY DEF RelayAppend, RelayMark, RelayPublish, RelayDispatch, RelayRelease, RelayGoto,
         NextItem, TypeOK, RelayTypeOK, ItemInv
<1>t. /\ roomStream[m] \in Nat /\ eventStream[m] \in Nat
      /\ roomStream'[m] \in Nat /\ eventStream'[m] \in Nat
      /\ faults \in Nat /\ faults' \in Nat /\ (faults' = faults \/ faults' = faults + 1)
  BY DEF RelayAppend, RelayMark, RelayPublish, RelayDispatch, RelayRelease, NoFault, Fault,
         TypeOK, StoresTypeOK
<1>r. RelayStep(w)
  BY DEF RelayStep
<1>k. ASSUME outbox'[m].lease = outbox[m].lease, outbox'[m].claimedBy = outbox[m].claimedBy,
             outbox'[m].status \in {outbox[m].status, "dispatched"},
             outbox[m].appended => outbox'[m].appended
      PROVE  /\ (Attends(w, m, Rs) => Attends(w, m, Rs)') => (RoomRow(m)' => RoomRow(m))
             /\ (Attends(w, m, Es) => Attends(w, m, Es)') => (EventRow(m)' => EventRow(m))
  BY <1>k, <1>r, RelayFrame, TendedKept, RowKept
<1>1. CASE m # item[w]
  <2>1. outbox'[m] = outbox[m]
    BY <1>1, <1>a
    DEF RelayAppend, RelayMark, RelayPublish, RelayDispatch, RelayRelease, MarkStreamAppended,
        MarkDispatched, ReleaseClaim, postgres, TypeOK, StoresTypeOK
  <2>2. roomStream'[m] = roomStream[m] /\ eventStream'[m] = eventStream[m]
    BY <1>1, <1>a
    DEF RelayAppend, RelayMark, RelayPublish, RelayDispatch, RelayRelease, AppendMessage,
        PublishMessageCreated, valkey, TypeOK, StoresTypeOK
  <2>3. /\ RoomRelay(w, m)' => RoomRelay(w, m)
        /\ EventRelay(w, m)' => EventRelay(w, m)
        /\ Attends(w, m, Rs) => Attends(w, m, Rs)'
        /\ Attends(w, m, Es) => Attends(w, m, Es)'
    BY <1>1, <1>a, AtItem DEF EventRelay
  <2>4. (RoomRow(m)' => RoomRow(m)) /\ (EventRow(m)' => EventRow(m))
    BY <2>1, <2>3, <1>k
  <2>5. QED
    BY <2>2, <2>3, <2>4, <1>t DEF RoomPaid, EventPaid, One
<1>2. CASE m = item[w]
  <2>s. /\ RoomRelay(w, m) <=> rpc[w] = "append"
        /\ EventRelay(w, m) <=> rpc[w] \in Ps
        /\ Attends(w, m, Rs) <=> rpc[w] \in Rs
        /\ Attends(w, m, Es) <=> rpc[w] \in Es
        /\ RoomRelay(w, m)' => item'[w] = m /\ rpc'[w] = "append"
        /\ EventRelay(w, m)' => item'[w] = m /\ rpc'[w] \in Ps
        /\ item'[w] = m /\ rpc'[w] \in Rs => Attends(w, m, Rs)'
        /\ item'[w] = m /\ rpc'[w] \in Es => Attends(w, m, Es)'
    BY <1>2, <1>a, AtItem DEF EventRelay
  <2>1. CASE RelayAppend(w)
    <3>1. /\ rpc[w] = "append" /\ item' = item /\ outbox' = outbox
          /\ eventStream' = eventStream
          /\ roomStream'[m] \in {roomStream[m], roomStream[m] + 1}
      BY <2>1, <1>2 DEF RelayAppend, RelayGoto, AppendMessage, postgres, valkey,
                        TypeOK, StoresTypeOK
    <3>2. CASE faults' = faults
      <4>1. rpc'[w] = "mark"
        BY <2>1, <3>2, <1>t DEF RelayAppend, RelayGoto, NoFault, Fault, TypeOK, RelayTypeOK
      <4>2. (RoomRow(m)' => RoomRow(m)) /\ (EventRow(m)' => EventRow(m))
        BY <3>1, <4>1, <1>2, <2>s, <1>k
      <4>3. RoomRelay(w, m) /\ ~RoomRelay(w, m)' /\ EventRelay(w, m)
        BY <3>1, <4>1, <2>s
      <4>4. QED
        BY <3>1, <3>2, <4>2, <4>3, <1>t DEF RoomPaid, EventPaid, One
    <3>3. CASE faults' = faults + 1
      <4>1. rpc'[w] \in {"mark", "release"}
        BY <2>1 DEF RelayAppend, RelayGoto, TypeOK, RelayTypeOK
      <4>2. RoomRelay(w, m) /\ ~RoomRelay(w, m)'
        BY <3>1, <4>1, <2>s
      <4>3. rpc'[w] = "release"
        BY <2>1, <3>3, <1>t DEF RelayAppend, RelayGoto, NoFault, Fault, TypeOK, RelayTypeOK
      <4>4. EventRelay(w, m) /\ ~EventRelay(w, m)'
        BY <3>1, <4>3, <2>s
      <4>5. QED
        BY <3>1, <3>3, <4>2, <4>4, <1>t DEF RoomPaid, EventPaid, One
    <3>4. QED
      BY <3>2, <3>3, <1>t
  <2>2. CASE RelayMark(w)
    <3>1. /\ rpc[w] = "mark" /\ item' = item
          /\ roomStream' = roomStream /\ eventStream' = eventStream
          /\ outbox'[m].lease = outbox[m].lease /\ outbox'[m].claimedBy = outbox[m].claimedBy
          /\ outbox'[m].status = outbox[m].status
          /\ outbox[m].appended => outbox'[m].appended
      BY <2>2, <1>2 DEF RelayMark, RelayGoto, MarkStreamAppended, postgres, valkey,
                        TypeOK, StoresTypeOK, OutboxRow
    <3>2. ~RoomRelay(w, m) /\ EventRelay(w, m)
      BY <3>1, <2>s
    <3>3. CASE faults' = faults
      <4>1. rpc'[w] = "publish" /\ outbox'[m].appended
        BY <2>2, <3>3, <1>t, <1>2
        DEF RelayMark, RelayGoto, NoFault, Fault, MarkStreamAppended, TypeOK, RelayTypeOK,
            StoresTypeOK, OutboxRow
      <4>2. EventRow(m)' => EventRow(m)
        BY <3>1, <4>1, <1>2, <2>s, <1>k
      <4>3. ~RoomRow(m)'
        BY <4>1 DEF RoomRow
      <4>4. ~RoomRelay(w, m)'
        BY <4>1, <2>s
      <4>5. QED
        BY <3>1, <3>2, <3>3, <4>2, <4>3, <4>4, <1>t DEF RoomPaid, EventPaid, One
    <3>4. CASE faults' = faults + 1
      <4>1. rpc'[w] = "release"
        BY <2>2, <3>4, <1>t DEF RelayMark, RelayGoto, NoFault, Fault, TypeOK, RelayTypeOK
      <4>2. ~RoomRelay(w, m)' /\ ~EventRelay(w, m)'
        BY <4>1, <2>s
      <4>3. QED
        BY <3>1, <3>2, <3>4, <4>2, <1>t DEF RoomPaid, EventPaid, One
    <3>5. QED
      BY <3>3, <3>4, <1>t
  <2>3. CASE RelayPublish(w)
    <3>1. /\ rpc[w] = "publish" /\ item' = item /\ outbox' = outbox
          /\ roomStream' = roomStream
          /\ eventStream'[m] \in {eventStream[m], eventStream[m] + 1}
      BY <2>3, <1>2 DEF RelayPublish, RelayGoto, PublishMessageCreated, postgres, valkey,
                        TypeOK, StoresTypeOK
    <3>2. rpc'[w] \in {"dispatch", "release"} /\ (faults' = faults => rpc'[w] = "dispatch")
      BY <2>3, <1>t DEF RelayPublish, RelayGoto, NoFault, Fault, TypeOK, RelayTypeOK
    <3>3. ~RoomRelay(w, m) /\ ~RoomRelay(w, m)' /\ EventRelay(w, m) /\ ~EventRelay(w, m)'
      BY <3>1, <3>2, <2>s
    <3>4. RoomRow(m)' => RoomRow(m)
      BY <3>1, <1>2, <2>s, <1>k
    <3>5. faults' = faults => (EventRow(m)' => EventRow(m))
      BY <3>1, <3>2, <1>2, <2>s, <1>k
    <3>6. QED
      BY <3>1, <3>3, <3>4, <3>5, <1>t DEF RoomPaid, EventPaid, One
  <2>4. CASE RelayDispatch(w)
    <3>1. /\ rpc[w] = "dispatch" /\ rpc'[w] = "idle"
          /\ roomStream' = roomStream /\ eventStream' = eventStream
      BY <2>4 DEF RelayDispatch, NextItem, valkey, TypeOK, RelayTypeOK
    <3>2. ~RoomRelay(w, m) /\ ~RoomRelay(w, m)' /\ ~EventRelay(w, m) /\ ~EventRelay(w, m)'
      BY <3>1, <2>s
    <3>3. CASE MarkDispatched(item[w])
      <4>1. outbox'[m].status = "dispatched"
        BY <3>3, <1>2 DEF MarkDispatched, Row, TypeOK, StoresTypeOK
      <4>2. ~RoomRow(m)' /\ ~EventRow(m)'
        BY <4>1 DEF RoomRow, EventRow
      <4>3. QED
        BY <3>1, <3>2, <4>2, <1>t DEF RoomPaid, EventPaid, One
    <3>4. CASE UNCHANGED postgres /\ Fault("postgres")
      <4>1. faults' = faults + 1
        BY <3>4 DEF Fault
      <4>2. QED
        BY <3>1, <3>2, <4>1, <1>t DEF RoomPaid, EventPaid, One
    <3>5. QED
      BY <2>4, <3>3, <3>4 DEF RelayDispatch
  <2>5. CASE RelayRelease(w)
    <3>1. /\ rpc[w] = "release" /\ rpc'[w] = "idle"
          /\ roomStream' = roomStream /\ eventStream' = eventStream
      BY <2>5 DEF RelayRelease, NextItem, valkey, TypeOK, RelayTypeOK
    <3>2. ~RoomRelay(w, m) /\ ~RoomRelay(w, m)' /\ ~EventRelay(w, m) /\ ~EventRelay(w, m)'
      BY <3>1, <2>s
    <3>3. ~Attends(w, m, Rs) /\ ~Attends(w, m, Es)
      BY <3>1, <2>s
    <3>4. CASE outbox'[m] = outbox[m]
      <4>1. (RoomRow(m)' => RoomRow(m)) /\ (EventRow(m)' => EventRow(m))
        BY <3>3, <3>4, <1>k
      <4>2. QED
        BY <3>1, <3>2, <4>1, <1>t DEF RoomPaid, EventPaid, One
    <3>5. CASE outbox[m].claimedBy = w /\ outbox'[m] = Row(outbox[m].status, outbox[m].appended)
      <4>1. (RoomRow(m)' => RoomRow(m)) /\ (EventRow(m)' => EventRow(m))
        BY <3>3, <3>5 DEF RoomRow, EventRow, Tended, Row
      <4>2. QED
        BY <3>1, <3>2, <4>1, <1>t DEF RoomPaid, EventPaid, One
    <3>6. QED
      BY <2>5, <3>4, <3>5, <1>2
      DEF RelayRelease, ReleaseClaim, postgres, TypeOK, StoresTypeOK
  <2>6. QED
    BY <2>1, <2>2, <2>3, <2>4, <2>5
<1>3. QED
  BY <1>1, <1>2

LEMMA CrashPaid ==
    ASSUME TypeOK, NEW w \in Relays, RelayCrash(w), NEW m \in Requests
    PROVE  RoomPaid(w, m) /\ EventPaid(w, m)
<1>t. /\ roomStream'[m] = roomStream[m] /\ eventStream'[m] = eventStream[m]
      /\ roomStream[m] \in Nat /\ eventStream[m] \in Nat
      /\ faults \in Nat /\ faults' = faults + 1
  BY DEF RelayCrash, Fault, valkey, TypeOK, StoresTypeOK
<1>1. batch'[w] = {} /\ item'[w] = None /\ m # None
  BY ConstantsAssumption DEF RelayCrash, TypeOK, RelayTypeOK, ConstantsAssumption
<1>2. ~RoomRelay(w, m)' /\ ~EventRelay(w, m)'
  BY <1>1 DEF RoomRelay, EventRelay, Attends
<1>3. QED
  BY <1>t, <1>2 DEF RoomPaid, EventPaid, One

LEMMA RelayCopies ==
    ASSUME TypeOK, TypeOK', ItemInv, BatchInv, SkipInv, CopyInv, NEW w \in Relays,
           RelayStep(w) \/ RelayCrash(w), UNCHANGED sendVars
    PROVE  CopyInv'
<1> SUFFICES ASSUME NEW m \in Requests
             PROVE  /\ IsFiniteSet(RoomRelays(m)') /\ IsFiniteSet(EventRelays(m)')
                    /\ roomStream'[m] + Cardinality(RoomRelays(m)') + One(RoomRow(m)')
                          + One(RoomSender(m)') <= 1 + faults' + overruns'
                    /\ eventStream'[m] + Cardinality(EventRelays(m)') + One(EventRow(m)')
                          + One(EventSender(m)') <= 1 + faults' + overruns'
  BY DEF CopyInv
<1>1. RoomPaid(w, m) /\ EventPaid(w, m)
  BY ClaimPaid, TakePaid, ItemPaid, CrashPaid DEF RelayStep
<1>2. /\ IsFiniteSet(RoomRelays(m)) /\ IsFiniteSet(EventRelays(m))
      /\ roomStream[m] + Cardinality(RoomRelays(m)) + One(RoomRow(m)) + One(RoomSender(m))
            <= 1 + faults + overruns
      /\ eventStream[m] + Cardinality(EventRelays(m)) + One(EventRow(m)) + One(EventSender(m))
            <= 1 + faults + overruns
  BY DEF CopyInv
<1>3. \A v \in Relays \ {w} : /\ RoomRelay(v, m)' <=> RoomRelay(v, m)
                              /\ EventRelay(v, m)' <=> EventRelay(v, m)
  BY RelayFrame DEF RoomRelay, EventRelay, Attends
<1>4. /\ RoomRelays(m) \ {w} = RoomRelays(m)' \ {w}
      /\ EventRelays(m) \ {w} = EventRelays(m)' \ {w}
      /\ w \in RoomRelays(m) <=> RoomRelay(w, m)
      /\ w \in RoomRelays(m)' <=> RoomRelay(w, m)'
      /\ w \in EventRelays(m) <=> EventRelay(w, m)
      /\ w \in EventRelays(m)' <=> EventRelay(w, m)'
  BY <1>3 DEF RoomRelays, EventRelays
<1>5. /\ IsFiniteSet(RoomRelays(m)') /\ Cardinality(RoomRelays(m)) \in Nat
      /\ Cardinality(RoomRelays(m)') \in Nat
      /\ Cardinality(RoomRelays(m)') + One(w \in RoomRelays(m))
            = Cardinality(RoomRelays(m)) + One(w \in RoomRelays(m)')
  BY <1>2, <1>4, HolderCount
<1>6. /\ IsFiniteSet(EventRelays(m)') /\ Cardinality(EventRelays(m)) \in Nat
      /\ Cardinality(EventRelays(m)') \in Nat
      /\ Cardinality(EventRelays(m)') + One(w \in EventRelays(m))
            = Cardinality(EventRelays(m)) + One(w \in EventRelays(m)')
  BY <1>2, <1>4, HolderCount
<1>7. (RoomSender(m)' <=> RoomSender(m)) /\ (EventSender(m)' <=> EventSender(m))
  BY DEF RoomSender, EventSender, sendVars
<1>8. overruns' = overruns
  BY DEF RelayStep, Claim, TakeItem, RelayAppend, RelayMark, RelayPublish, RelayDispatch,
         RelayRelease, RelayCrash, budget
<1>9. /\ roomStream[m] \in Nat /\ roomStream'[m] \in Nat
      /\ eventStream[m] \in Nat /\ eventStream'[m] \in Nat
      /\ faults \in Nat /\ faults' \in Nat /\ overruns \in Nat
  BY DEF TypeOK, StoresTypeOK
<1>10. QED
  BY <1>1, <1>2, <1>4, <1>5, <1>6, <1>7, <1>8, <1>9 DEF RoomPaid, EventPaid, One

\* A sender hands its claim on m to the row it queues, or pays for a call that failed.
LEMMA SenderCopies ==
    ASSUME TypeOK, TypeOK', CopyInv, NEW r \in Requests, SendStep(r) \/ SenderCrash(r),
           UNCHANGED <<overruns, relayVars>>
    PROVE  CopyInv'
<1> SUFFICES ASSUME NEW m \in Requests
             PROVE  /\ IsFiniteSet(RoomRelays(m)') /\ IsFiniteSet(EventRelays(m)')
                    /\ roomStream'[m] + Cardinality(RoomRelays(m)') + One(RoomRow(m)')
                          + One(RoomSender(m)') <= 1 + faults' + overruns'
                    /\ eventStream'[m] + Cardinality(EventRelays(m)') + One(EventRow(m)')
                          + One(EventSender(m)') <= 1 + faults' + overruns'
  BY DEF CopyInv
<1>1. RoomRelays(m)' = RoomRelays(m) /\ EventRelays(m)' = EventRelays(m)
  BY DEF RoomRelays, EventRelays, RoomRelay, EventRelay, Attends, relayVars
<1>2. /\ IsFiniteSet(RoomRelays(m)) /\ IsFiniteSet(EventRelays(m))
      /\ roomStream[m] + Cardinality(RoomRelays(m)) + One(RoomRow(m)) + One(RoomSender(m))
            <= 1 + faults + overruns
      /\ eventStream[m] + Cardinality(EventRelays(m)) + One(EventRow(m)) + One(EventSender(m))
            <= 1 + faults + overruns
  BY DEF CopyInv
<1>3. Cardinality(RoomRelays(m)) \in Nat /\ Cardinality(EventRelays(m)) \in Nat
  BY <1>2, FS_CardinalityType
<1>4. /\ roomStream[m] \in Nat /\ roomStream'[m] \in Nat
      /\ eventStream[m] \in Nat /\ eventStream'[m] \in Nat
      /\ faults \in Nat /\ faults' \in Nat /\ overruns \in Nat
  BY DEF TypeOK, StoresTypeOK
<1>f. faults' = faults \/ faults' = faults + 1
  BY DEF SendStep, Reads, ReadFails, Admit, CheckDuplicate, CheckRoom, CheckReply, SaveMessage,
         SendAppend, SendPublish, EnqueueMessage, EnqueueUnappended, EnqueueAppended,
         SenderCrash, NoFault, Fault
<1>o. outbox'[m] = outbox[m] => /\ RoomRow(m)' <=> RoomRow(m)
                                /\ EventRow(m)' <=> EventRow(m)
  BY DEF RoomRow, EventRow, Tended, Attends, relayVars
<1> DEFINE Paid ==
      /\ roomStream'[m] + One(RoomRow(m)') + One(RoomSender(m)') + faults
            <= roomStream[m] + One(RoomRow(m)) + One(RoomSender(m)) + faults'
      /\ eventStream'[m] + One(EventRow(m)') + One(EventSender(m)') + faults
            <= eventStream[m] + One(EventRow(m)) + One(EventSender(m)) + faults'
<1>5. ASSUME m # r PROVE Paid
  <2>1. pc'[m] = pc[m]
    BY <1>5 DEF SendStep, Reads, ReadFails, Goto, Return, Admit, CheckDuplicate, CheckRoom,
         CheckReply, SaveMessage, SendAppend, SendPublish, EnqueueMessage, EnqueueUnappended,
         EnqueueAppended, SenderCrash, TypeOK, SendTypeOK
  <2>2. roomStream'[m] = roomStream[m] /\ eventStream'[m] = eventStream[m]
    BY <1>5 DEF SendStep, Reads, ReadFails, Admit, CheckDuplicate, CheckRoom,
         CheckReply, SaveMessage, SendAppend, SendPublish, EnqueueMessage, EnqueueUnappended,
         EnqueueAppended, SenderCrash, AppendMessage, PublishMessageCreated, valkey,
         TypeOK, StoresTypeOK
  <2>3. outbox'[m] = outbox[m]
    BY <1>5 DEF SendStep, Reads, ReadFails, Admit, CheckDuplicate, CheckRoom,
         CheckReply, SaveMessage, SendAppend, SendPublish, EnqueueMessage, EnqueueUnappended,
         EnqueueAppended, SenderCrash, Save, Enqueue, postgres, TypeOK, StoresTypeOK
  <2>4. (RoomSender(m)' <=> RoomSender(m)) /\ (EventSender(m)' <=> EventSender(m))
    BY <2>1 DEF RoomSender, EventSender
  <2>5. QED
    BY <2>2, <2>3, <2>4, <1>o, <1>4, <1>f DEF One
<1>6. ASSUME m = r PROVE Paid
  <2>1. CASE Admit(r) \/ CheckDuplicate(r) \/ CheckRoom(r) \/ CheckReply(r) \/ SaveMessage(r)
             \/ SenderCrash(r)
    <3>1. outbox' = outbox /\ roomStream' = roomStream /\ eventStream' = eventStream
      BY <2>1 DEF Reads, ReadFails, Admit, CheckDuplicate, CheckRoom, CheckReply, SaveMessage,
                  SenderCrash, Save, postgres, valkey
    <3>2. \/ pc[r] \in {"idle", "exists", "room", "reply", "save"}
          \/ pc'[r] = "crashed"
      BY <2>1 DEF Admit, CheckDuplicate, CheckRoom, CheckReply, SaveMessage, SenderCrash, Goto,
                  TypeOK, SendTypeOK
    <3>3. (RoomSender(m)' => RoomSender(m)) /\ (EventSender(m)' => EventSender(m))
      BY <3>2, <1>6 DEF RoomSender, EventSender
    <3>4. QED
      BY <3>1, <3>3, <1>o, <1>4, <1>f DEF One
  <2>2. CASE SendAppend(r)
    <3>1. /\ outbox' = outbox /\ eventStream' = eventStream
          /\ roomStream'[m] \in {roomStream[m], roomStream[m] + 1}
      BY <2>2, <1>6 DEF SendAppend, AppendMessage, postgres, valkey, TypeOK, StoresTypeOK
    <3>2. /\ pc[r] = "append" /\ pc'[r] \in {"publish", "enqueue_unappended"}
          /\ faults' = faults => pc'[r] = "publish"
      BY <2>2, <1>4 DEF SendAppend, Goto, NoFault, Fault, TypeOK, SendTypeOK
    <3>3. /\ RoomSender(m) /\ EventSender(m) /\ EventSender(m)'
          /\ faults' = faults => ~RoomSender(m)'
      BY <3>2, <1>6 DEF RoomSender, EventSender
    <3>4. QED
      BY <3>1, <3>3, <1>o, <1>4, <1>f DEF One
  <2>3. CASE SendPublish(r)
    <3>1. /\ outbox' = outbox /\ roomStream' = roomStream
          /\ eventStream'[m] \in {eventStream[m], eventStream[m] + 1}
      BY <2>3, <1>6 DEF SendPublish, PublishMessageCreated, postgres, valkey, TypeOK, StoresTypeOK
    <3>2. /\ pc[r] = "publish" /\ pc'[r] \in {"done", "enqueue_appended"}
          /\ faults' = faults => pc'[r] = "done"
      BY <2>3, <1>4 DEF SendPublish, Goto, Return, NoFault, Fault, TypeOK, SendTypeOK
    <3>3. /\ ~RoomSender(m) /\ ~RoomSender(m)' /\ EventSender(m)
          /\ faults' = faults => ~EventSender(m)'
      BY <3>2, <1>6 DEF RoomSender, EventSender
    <3>4. QED
      BY <3>1, <3>3, <1>o, <1>4, <1>f DEF One
  <2>4. ASSUME NEW a \in BOOLEAN, EnqueueMessage(r, a),
               pc[r] = IF a THEN "enqueue_appended" ELSE "enqueue_unappended"
        PROVE  Paid
    <3>1. roomStream' = roomStream /\ eventStream' = eventStream /\ pc'[r] = "done"
      BY <2>4 DEF EnqueueMessage, Return, valkey, TypeOK, SendTypeOK
    <3>2. /\ ~RoomSender(m)' /\ ~EventSender(m)' /\ EventSender(m)
          /\ RoomSender(m) <=> ~a
      BY <3>1, <2>4, <1>6 DEF RoomSender, EventSender
    <3>3. outbox'[m] = outbox[m] \/ outbox'[m] = Row("pending", a)
      BY <2>4, <1>6 DEF EnqueueMessage, Enqueue, postgres, TypeOK, StoresTypeOK
    <3>4. CASE outbox'[m] = outbox[m]
      BY <3>1, <3>2, <3>4, <1>o, <1>4, <1>f DEF One
    <3>5. CASE outbox'[m] = Row("pending", a)
      <4>1. RoomRow(m)' => ~a
        BY <3>5 DEF RoomRow, Row
      <4>2. QED
        BY <3>1, <3>2, <4>1, <1>4, <1>f DEF One
    <3>6. QED
      BY <3>3, <3>4, <3>5
  <2>5. CASE EnqueueUnappended(r) \/ EnqueueAppended(r)
    BY <2>4, <2>5 DEF EnqueueUnappended, EnqueueAppended
  <2>6. QED
    BY <2>1, <2>2, <2>3, <2>5 DEF SendStep
<1>7. Paid
  BY <1>5, <1>6
<1>8. overruns' = overruns
  OBVIOUS
<1>9. QED
  BY <1>1, <1>2, <1>3, <1>4, <1>7, <1>8 DEF One

\* A lease that ends under its relay is paid for, one nobody needs costs nothing.
LEMMA LeaseCopies ==
    ASSUME TypeOK, TypeOK', CopyInv, NEW n \in Requests, UNCHANGED sendVars,
           ExpireUnattended(n) \/ ExpireInUse(n)
    PROVE  CopyInv'
<1> SUFFICES ASSUME NEW m \in Requests
             PROVE  /\ IsFiniteSet(RoomRelays(m)') /\ IsFiniteSet(EventRelays(m)')
                    /\ roomStream'[m] + Cardinality(RoomRelays(m)') + One(RoomRow(m)')
                          + One(RoomSender(m)') <= 1 + faults' + overruns'
                    /\ eventStream'[m] + Cardinality(EventRelays(m)') + One(EventRow(m)')
                          + One(EventSender(m)') <= 1 + faults' + overruns'
  BY DEF CopyInv
<1>1. /\ RoomRelays(m)' = RoomRelays(m) /\ EventRelays(m)' = EventRelays(m)
      /\ RoomSender(m)' <=> RoomSender(m)
      /\ EventSender(m)' <=> EventSender(m)
      /\ roomStream' = roomStream /\ eventStream' = eventStream /\ faults' = faults
  BY DEF ExpireUnattended, ExpireInUse, Expire, RoomRelays, EventRelays, RoomRelay, EventRelay,
         Attends, RoomSender, EventSender, relayVars, sendVars, valkey
<1>2. /\ IsFiniteSet(RoomRelays(m)) /\ IsFiniteSet(EventRelays(m))
      /\ roomStream[m] + Cardinality(RoomRelays(m)) + One(RoomRow(m)) + One(RoomSender(m))
            <= 1 + faults + overruns
      /\ eventStream[m] + Cardinality(EventRelays(m)) + One(EventRow(m)) + One(EventSender(m))
            <= 1 + faults + overruns
  BY DEF CopyInv
<1>3. Cardinality(RoomRelays(m)) \in Nat /\ Cardinality(EventRelays(m)) \in Nat
  BY <1>2, FS_CardinalityType
<1>4. roomStream[m] \in Nat /\ eventStream[m] \in Nat /\ faults \in Nat /\ overruns \in Nat
  BY DEF TypeOK, StoresTypeOK
<1>5. CASE ExpireUnattended(n)
  <2>1. overruns' = overruns /\ relayVars' = relayVars
    BY <1>5 DEF ExpireUnattended, Expire
  <2>2. outbox'[m] = outbox[m] \/ (m = n /\ outbox'[m] = [outbox[m] EXCEPT !.lease = "expired"])
    BY <1>5 DEF ExpireUnattended, Expire, TypeOK, StoresTypeOK
  <2>3. CASE outbox'[m] = outbox[m]
    <3>1. (RoomRow(m)' => RoomRow(m)) /\ (EventRow(m)' => EventRow(m))
      BY <2>1, <2>3 DEF RoomRow, EventRow, Tended, Attends, relayVars
    <3>2. QED
      BY <1>1, <1>2, <1>3, <1>4, <2>1, <3>1 DEF One
  <2>4. CASE m = n /\ outbox'[m] = [outbox[m] EXCEPT !.lease = "expired"]
    <3>1. \A w \in Relays : \A stages : ~Attends(w, m, stages)
      <4>1. m # None
        BY ConstantsAssumption DEF ConstantsAssumption
      <4>2. QED
        BY <1>5, <2>4, <4>1 DEF ExpireUnattended, InUse, Held, Attends
    <3>2. \A stages : ~Tended(m, stages)
      BY <3>1 DEF Tended
    <3>3. outbox'[m].status = outbox[m].status /\ outbox'[m].appended = outbox[m].appended
      BY <2>4 DEF TypeOK, StoresTypeOK, OutboxRow
    <3>4. (RoomRow(m)' => RoomRow(m)) /\ (EventRow(m)' => EventRow(m))
      BY <3>2, <3>3 DEF RoomRow, EventRow
    <3>5. QED
      BY <1>1, <1>2, <1>3, <1>4, <2>1, <3>4 DEF One
  <2>5. QED
    BY <2>2, <2>3, <2>4
<1>6. CASE ExpireInUse(n)
  <2>1. overruns' = overruns + 1
    BY <1>6 DEF ExpireInUse
  <2>2. QED
    BY <1>1, <1>2, <1>3, <1>4, <2>1 DEF One
<1>7. QED
  BY <1>5, <1>6

LEMMA NextSkip == PipelineInv /\ SkipInv /\ [Next]_vars => SkipInv'
<1> SUFFICES ASSUME PipelineInv, SkipInv, [Next]_vars
             PROVE  SkipInv'
  OBVIOUS
<1> USE DEF PipelineInv, TypeOK
<1>t. \A v \in Relays : /\ \A i \in batch[v] : i.msg \in Requests
                        /\ rpc[v] # "idle" => item[v] \in Requests /\ item[v] # None
  BY DEF RelayTypeOK, Items, ItemInv
<1>k. ASSUME relayVars' = relayVars,
             \A m \in Requests : outbox[m].status # "absent" =>
                                    (outbox[m].appended => outbox'[m].appended)
      PROVE  SkipInv'
  BY <1>k, <1>t DEF SkipInv, RelayInv, relayVars
<1>1. CASE SenderNext
  <2>1. PICK r \in Requests : SendStep(r) \/ SenderCrash(r)
    BY <1>1 DEF SenderNext
  <2>2. \A m \in Requests : outbox[m].status # "absent" => outbox'[m] = outbox[m]
    BY <2>1 DEF SendStep, Reads, ReadFails, Admit, CheckDuplicate, CheckRoom,
         CheckReply, SaveMessage, SendAppend, SendPublish, EnqueueMessage, EnqueueUnappended,
         EnqueueAppended, SenderCrash, Save, Enqueue, postgres, StoresTypeOK
  <2>3. relayVars' = relayVars
    BY <1>1 DEF SenderNext
  <2>4. QED
    BY <2>2, <2>3, <1>k
<1>2. ASSUME NEW w \in Relays, RelayStep(w) \/ RelayCrash(w)
      PROVE  SkipInv'
  <2>1. \A m \in Requests : outbox[m].appended => outbox'[m].appended
    <3>1. CASE UNCHANGED postgres
      BY <3>1 DEF postgres
    <3>2. CASE Claim(w)
      <4>1. PICK S \in SUBSET Requests : ClaimPending(w, S)
        BY <3>2 DEF Claim
      <4>2. \A m \in Requests : outbox'[m] = IF m \in S
                THEN [outbox[m] EXCEPT !.claimedBy = w, !.lease = "live"] ELSE outbox[m]
        BY <4>1 DEF ClaimPending
      <4>3. QED
        BY <4>2 DEF StoresTypeOK, OutboxRow
    <3>3. CASE RelayMark(w) \/ RelayDispatch(w) \/ RelayRelease(w)
      <4>1. item[w] \in Requests
        BY <3>3, <1>t DEF RelayMark, RelayDispatch, RelayRelease
      <4>2. QED
        BY <3>1, <3>3, <4>1
        DEF RelayMark, RelayDispatch, RelayRelease, MarkStreamAppended, MarkDispatched,
            ReleaseClaim, Row, StoresTypeOK, OutboxRow
    <3>4. QED
      BY <1>2, <3>1, <3>2, <3>3 DEF RelayStep, TakeItem, RelayAppend, RelayPublish, RelayCrash
  <2>2. ASSUME NEW v \in Relays, v # w
        PROVE  /\ \A i \in batch'[v] : i.appended => outbox'[i.msg].appended
               /\ rpc'[v] \in {"publish", "dispatch"} => outbox'[item'[v]].appended
    BY <2>1, <2>2, <1>2, <1>t, RelayFrame DEF SkipInv
  <2>3. \A i \in batch'[w] : i.appended => outbox'[i.msg].appended
    <3>1. CASE batch'[w] \subseteq batch[w]
      BY <3>1, <2>1, <1>t DEF SkipInv
    <3>2. CASE Claim(w)
      <4>1. PICK S \in SUBSET Requests :
              \/ batch' = [batch EXCEPT ![w] =
                    {[msg |-> m, appended |-> outbox[m].appended] : m \in S}]
              \/ UNCHANGED batch
        BY <3>2 DEF Claim
      <4>2. CASE UNCHANGED batch
        BY <3>1, <4>2
      <4>3. CASE batch'[w] = {[msg |-> m, appended |-> outbox[m].appended] : m \in S}
        BY <4>3, <2>1
      <4>4. QED
        BY <4>1, <4>2, <4>3 DEF RelayTypeOK
    <3>3. QED
      BY <1>2, <3>1, <3>2
      DEF RelayStep, TakeItem, RelayAppend, RelayMark, RelayPublish, RelayDispatch,
          RelayRelease, RelayCrash, RelayGoto, NextItem, RelayTypeOK
  <2>4. rpc'[w] \in {"publish", "dispatch"} => outbox'[item'[w]].appended
    <3>1. CASE rpc'[w] \notin {"publish", "dispatch"}
      BY <3>1
    <3>2. CASE TakeItem(w)
      <4>1. PICK i \in batch[w] :
              /\ item' = [item EXCEPT ![w] = i.msg]
              /\ rpc' = [rpc EXCEPT ![w] = IF i.appended THEN "publish" ELSE "append"]
        BY <3>2 DEF TakeItem
      <4>2. item'[w] = i.msg /\ (rpc'[w] \in {"publish", "dispatch"} => i.appended)
        BY <4>1 DEF RelayTypeOK
      <4>3. QED
        BY <4>2, <2>1, <1>t DEF SkipInv
    <3>3. CASE RelayMark(w)
      <4>1. item[w] \in Requests /\ item' = item
        BY <3>3, <1>t DEF RelayMark, RelayGoto
      <4>2. rpc'[w] \in {"publish", "dispatch"} => MarkStreamAppended(item[w])
        BY <3>3 DEF RelayMark, RelayGoto, RelayTypeOK
      <4>3. MarkStreamAppended(item[w]) => outbox'[item[w]].appended
        BY <4>1 DEF MarkStreamAppended, StoresTypeOK, OutboxRow
      <4>4. QED
        BY <4>1, <4>2, <4>3
    <3>4. CASE RelayPublish(w)
      BY <3>4, <2>1, <1>t DEF RelayPublish, RelayGoto, SkipInv
    <3>5. CASE Claim(w)
      BY <3>5, <2>1, <1>t DEF Claim, SkipInv
    <3>6. CASE RelayAppend(w) \/ RelayDispatch(w) \/ RelayRelease(w) \/ RelayCrash(w)
      BY <3>1, <3>6
      DEF RelayAppend, RelayDispatch, RelayRelease, RelayCrash, RelayGoto, NextItem, RelayTypeOK
    <3>7. QED
      BY <1>2, <3>2, <3>3, <3>4, <3>5, <3>6 DEF RelayStep
  <2>5. QED
    BY <2>2, <2>3, <2>4 DEF SkipInv
<1>3. CASE LeaseNext
  <2>1. PICK m \in Requests : Expire(m)
    BY <1>3 DEF LeaseNext, ExpireUnattended, ExpireInUse
  <2>2. QED
    BY <2>1, <1>k DEF Expire, StoresTypeOK, OutboxRow
<1>4. CASE UNCHANGED vars
  BY <1>4, <1>k DEF vars, postgres
<1>5. QED
  BY <1>1, <1>2, <1>3, <1>4 DEF Next, RelayNext

LEMMA InitCopies == Init => CopyInv /\ SkipInv
<1> SUFFICES ASSUME Init PROVE CopyInv /\ SkipInv
  OBVIOUS
<1>1. SkipInv
  BY DEF Init, RelayInit, SkipInv
<1>2. ASSUME NEW m \in Requests
      PROVE  /\ RoomRelays(m) = {} /\ EventRelays(m) = {}
             /\ eventStream[m] = 0 /\ faults = 0 /\ overruns = 0
             /\ m \in Backlog => ~RoomSender(m) /\ ~EventSender(m)
  <2>1. m # None
    BY ConstantsAssumption DEF ConstantsAssumption
  <2>2. QED
    BY <2>1 DEF Init, StoresInit, SendInit, RelayInit, RoomRelays, EventRelays, RoomRelay,
                EventRelay, Attends, RoomSender, EventSender
<1>3. ASSUME NEW m \in Requests
      PROVE  /\ m \notin Backlog => ~RoomRow(m) /\ ~EventRow(m) /\ roomStream[m] = 0
             /\ m \in Backlog => \/ roomStream[m] = 1 /\ ~RoomRow(m)
                                 \/ roomStream[m] = 0
  <2>1. PICK appended \in [Backlog -> BOOLEAN] :
          /\ outbox = [n \in Requests |-> IF n \in Backlog
                                          THEN Row("pending", appended[n])
                                          ELSE Row("absent", FALSE)]
          /\ roomStream = [n \in Requests |-> IF n \in Backlog /\ appended[n] THEN 1 ELSE 0]
    BY DEF Init, StoresInit
  <2>2. QED
    BY <2>1 DEF Row, RoomRow, EventRow
<1>4. CopyInv
  <2> SUFFICES ASSUME NEW m \in Requests
               PROVE  /\ IsFiniteSet(RoomRelays(m)) /\ IsFiniteSet(EventRelays(m))
                      /\ roomStream[m] + Cardinality(RoomRelays(m)) + One(RoomRow(m))
                            + One(RoomSender(m)) <= 1 + faults + overruns
                      /\ eventStream[m] + Cardinality(EventRelays(m)) + One(EventRow(m))
                            + One(EventSender(m)) <= 1 + faults + overruns
    BY DEF CopyInv
  <2>1. /\ IsFiniteSet(RoomRelays(m)) /\ Cardinality(RoomRelays(m)) = 0
        /\ IsFiniteSet(EventRelays(m)) /\ Cardinality(EventRelays(m)) = 0
    BY <1>2, FS_EmptySet
  <2>2. QED
    BY <1>2, <1>3, <2>1 DEF One
<1>5. QED
  BY <1>1, <1>4

LEMMA NextCopies ==
    TypeOK /\ TypeOK' /\ ItemInv /\ ClaimInv /\ SkipInv /\ CopyInv /\ [Next]_vars => CopyInv'
<1> SUFFICES ASSUME TypeOK, TypeOK', ItemInv, ClaimInv, SkipInv, CopyInv, [Next]_vars
             PROVE  CopyInv'
  OBVIOUS
<1>1. CASE SenderNext
  BY <1>1, SenderCopies DEF SenderNext
<1>2. CASE RelayNext
  BY <1>2, RelayCopies DEF RelayNext, ClaimInv
<1>3. CASE LeaseNext
  BY <1>3, LeaseCopies DEF LeaseNext
<1>4. CASE UNCHANGED vars
  <2>1. \A m : /\ RoomRelays(m)' = RoomRelays(m) /\ EventRelays(m)' = EventRelays(m)
               /\ RoomSender(m)' <=> RoomSender(m)
               /\ EventSender(m)' <=> EventSender(m)
    BY <1>4 DEF vars, sendVars, relayVars, RoomRelays, EventRelays, RoomRelay, EventRelay,
                Attends, RoomSender, EventSender
  <2>2. \A m : (RoomRow(m)' <=> RoomRow(m)) /\ (EventRow(m)' <=> EventRow(m))
    BY <1>4 DEF vars, postgres, relayVars, RoomRow, EventRow, Tended, Attends
  <2>3. UNCHANGED <<roomStream, eventStream, faults, overruns>>
    BY <1>4 DEF vars, valkey, budget
  <2>4. QED
    BY <2>1, <2>2, <2>3 DEF CopyInv, One
<1>5. QED
  BY <1>1, <1>2, <1>3, <1>4 DEF Next

\* Each stream has a message at most once, plus one copy for every failed call, crash and
\* overrun lease, whatever senders and relays do with it in between.
THEOREM CopiesArePaid == SafeSpec => []CopiesBoundedByFaults
<1>1. Init => ClaimInv
  BY DEF Init, RelayInit, ClaimInv, BatchInv, OwnerInv, Held
<1>2. TypeOK /\ ItemInv /\ ClaimInv /\ [Next]_vars => ClaimInv'
  BY NextClaim
<1>3. PipelineInv => TypeOK /\ ItemInv
  BY DEF PipelineInv
<1>4. TypeOK /\ CopyInv => CopiesBoundedByFaults
  <2> SUFFICES ASSUME TypeOK, CopyInv, NEW m \in Requests
               PROVE  /\ roomStream[m] <= 1 + faults + overruns
                      /\ eventStream[m] <= 1 + faults + overruns
    BY DEF CopiesBoundedByFaults
  <2>1. /\ IsFiniteSet(RoomRelays(m)) /\ IsFiniteSet(EventRelays(m))
        /\ roomStream[m] + Cardinality(RoomRelays(m)) + One(RoomRow(m)) + One(RoomSender(m))
              <= 1 + faults + overruns
        /\ eventStream[m] + Cardinality(EventRelays(m)) + One(EventRow(m))
              + One(EventSender(m)) <= 1 + faults + overruns
    BY DEF CopyInv
  <2>2. Cardinality(RoomRelays(m)) \in Nat /\ Cardinality(EventRelays(m)) \in Nat
    BY <2>1, FS_CardinalityType
  <2>3. roomStream[m] \in Nat /\ eventStream[m] \in Nat /\ faults \in Nat /\ overruns \in Nat
    BY DEF TypeOK, StoresTypeOK
  <2>4. QED
    BY <2>1, <2>2, <2>3 DEF One
<1>5. QED
  BY <1>1, <1>2, <1>3, <1>4, SpecInv, InitCopies, NextSkip, NextCopies, PTL DEF SafeSpec

----------------------------------------------------------------------------
\* A request that stored its message ends with `sent' or with an error.
DoneInv == \A m \in messages : pc[m] = "done" => result[m] \in {"ok", "error"}

LEMMA DoneInit == Init => DoneInv
<1> SUFFICES ASSUME Init, NEW m \in messages PROVE result[m] = "ok"
  BY DEF DoneInv
<1>1. m \in Backlog /\ m \in Requests
  BY ConstantsAssumption DEF Init, StoresInit, ConstantsAssumption
<1> QED BY <1>1 DEF Init, SendInit

LEMMA DoneStep == PipelineInv /\ DoneInv /\ [Next]_vars => DoneInv'
<1> SUFFICES ASSUME PipelineInv, DoneInv, [Next]_vars PROVE DoneInv'
  OBVIOUS
<1>1. CASE RelayNext \/ LeaseNext \/ UNCHANGED vars
  <2>1. messages' = messages /\ pc' = pc /\ result' = result
    BY <1>1 DEF RelayNext, LeaseNext, RelayStep, RelayCrash, Claim, TakeItem, RelayAppend, RelayMark,
       RelayPublish, RelayDispatch, RelayRelease, ClaimPending, MarkStreamAppended, MarkDispatched,
       ReleaseClaim, ExpireUnattended, ExpireInUse, Expire, postgres, sendVars, vars
  <2> QED BY <2>1 DEF DoneInv
<1>2. ASSUME NEW r \in Requests, SendStep(r) \/ SenderCrash(r) PROVE DoneInv'
  <2>0. /\ pc \in [Requests -> SendPCs] /\ result \in [Requests -> Results \cup {None}]
        /\ messages \subseteq Requests
        /\ pc[r] \in {"idle", "exists", "room", "reply", "save"} => r \notin messages
    BY DEF PipelineInv, TypeOK, SendTypeOK, StoresTypeOK, SenderInv
  <2>1. /\ \A m \in Requests \ {r} : pc'[m] = pc[m] /\ result'[m] = result[m]
        /\ messages' \subseteq messages \cup {r}
    BY <1>2, <2>0 DEF SendStep, SenderCrash, Admit, CheckDuplicate, CheckRoom, CheckReply,
       SaveMessage, SendAppend, SendPublish, EnqueueUnappended, EnqueueAppended, EnqueueMessage,
       Enqueue, Save, Reads, ReadFails, Goto, Return, postgres
  <2>2. r \in messages' /\ pc'[r] = "done" => result'[r] \in {"ok", "error"}
    <3>1. CASE Admit(r) \/ CheckDuplicate(r) \/ CheckRoom(r) \/ CheckReply(r)
      BY <2>0, <3>1 DEF Admit, CheckDuplicate, CheckRoom, CheckReply, Reads, ReadFails, postgres
    <3>2. CASE SaveMessage(r)
      BY <2>0, <3>2 DEF SaveMessage, Save, Goto, Return, postgres
    <3>3. CASE SendAppend(r) \/ SenderCrash(r)
      BY <2>0, <3>3 DEF SendAppend, SenderCrash, Goto
    <3>4. CASE SendPublish(r) \/ EnqueueUnappended(r) \/ EnqueueAppended(r)
      BY <2>0, <3>4 DEF SendPublish, EnqueueUnappended, EnqueueAppended, EnqueueMessage, Goto, Return
    <3> QED BY <1>2, <3>1, <3>2, <3>3, <3>4 DEF SendStep
  <2> QED BY <2>0, <2>1, <2>2 DEF DoneInv
<1> QED BY <1>1, <1>2 DEF Next, SenderNext

\* Execute and the relay: from its transaction on a message is in both streams, or in the
\* hands of its request, or in the outbox, or its sender was told of an error or lost.
THEOREM StoredIsNeverForgotten == SafeSpec => []StoredHasCarrier
<1>1. PipelineInv /\ DoneInv => StoredHasCarrier
  <2> SUFFICES ASSUME PipelineInv, DoneInv, NEW m \in messages
               PROVE  \/ Delivered(m)
                      \/ pc[m] \in {"append", "publish", "enqueue_unappended", "enqueue_appended"}
                      \/ outbox[m].status = "pending"
                      \/ result[m] = "error" \/ pc[m] = "crashed"
    BY DEF StoredHasCarrier
  <2>1. m \in Requests /\ pc[m] \in SendPCs
    BY DEF PipelineInv, TypeOK, StoresTypeOK, SendTypeOK
  <2>2. CASE pc[m] = "done" /\ result[m] = "ok"
    <3>1. eventStream[m] > 0 \/ outbox[m].status = "pending"
      BY <2>1, <2>2 DEF PipelineInv, AnswerInv, SentIsStreamedOrQueued
    <3>2. eventStream[m] > 0 => roomStream[m] > 0
      BY <2>1 DEF PipelineInv, StreamInv
    <3> QED BY <3>1, <3>2 DEF Delivered
  <2>3. CASE pc[m] = "done" /\ result[m] = "error"
    BY <2>3
  <2>4. CASE pc[m] # "done"
    BY <2>1, <2>4 DEF PipelineInv, SenderInv, SendPCs
  <2> QED BY <2>2, <2>3, <2>4 DEF DoneInv
<1> QED BY <1>1, DoneInit, DoneStep, SpecInv, PTL DEF SafeSpec

\* Execute and MessageOutboxRelay: no stored message is forgotten, for any number of senders,
\* relays and faults, and the outbox retires none that it has not brought to both streams.
THEOREM NothingStoredIsForgotten == SafeSpec => []NothingIsForgotten
<1>1. StoredHasCarrier /\ DispatchedIsStreamed => NothingIsForgotten
  BY DEF NothingIsForgotten
<1> QED BY <1>1, StoredIsNeverForgotten, DispatchIsSafe, PTL

----------------------------------------------------------------------------
\* The loop of MessageOutboxRelay over its batch.

\* What BatchesRunOut asks of a step of relay w.
Progress(w) ==
    /\ \/ batch'[w] # batch[w] /\ batch'[w] \subseteq batch[w]
       \/ batch'[w] = batch[w] /\ RelayRank[rpc'[w]] < RelayRank[rpc[w]]
    /\ rpc'[w] = "release" => faults' > faults
    /\ \A m \in Held(w) \ Held(w)' :
          \/ outbox'[m].status = "dispatched"
          \/ faults' > faults
          \/ rpc[w] = "release" /\ m = item[w]

LEMMA Ranks == /\ RelayRank["append"] = 4 /\ RelayRank["mark"] = 3 /\ RelayRank["publish"] = 2
               /\ RelayRank["dispatch"] = 1 /\ RelayRank["release"] = 1 /\ RelayRank["idle"] = 0
BY DEF RelayRank, RelayPCs

LEMMA FaultCounts ==
    ASSUME TypeOK, NEW kind, Fault(kind)
    PROVE  faults' > faults
BY ConstantsAssumption DEF TypeOK, StoresTypeOK, Fault, ConstantsAssumption

LEMMA ItemProgress ==
    ASSUME TypeOK, ItemInv, NEW w \in Relays,
           \/ RelayAppend(w) \/ RelayMark(w) \/ RelayPublish(w)
           \/ RelayDispatch(w) \/ RelayRelease(w)
    PROVE  Progress(w)
<1>0. /\ w \in DOMAIN rpc /\ w \in DOMAIN item /\ w \in DOMAIN batch
      /\ \A m \in Requests : m \in DOMAIN outbox
      /\ rpc[w] # "idle" => item[w] \in Requests
  BY DEF TypeOK, RelayTypeOK, StoresTypeOK, ItemInv
<1>1. CASE RelayAppend(w) \/ RelayMark(w) \/ RelayPublish(w)
  <2>1. /\ batch' = batch /\ item' = item
        /\ \/ rpc[w] = "append" /\ rpc'[w] = "mark"
           \/ rpc[w] = "mark" /\ rpc'[w] = "publish"
           \/ rpc[w] = "publish" /\ rpc'[w] = "dispatch"
           \/ rpc[w] \in {"append", "mark", "publish"} /\ rpc'[w] = "release" /\ faults' > faults
    BY <1>0, <1>1, FaultCounts DEF RelayAppend, RelayMark, RelayPublish, RelayGoto
  <2>2. RelayRank[rpc'[w]] < RelayRank[rpc[w]]
    BY <2>1, Ranks
  <2>3. Held(w)' = Held(w)
    BY <2>1 DEF Held
  <2> QED BY <2>1, <2>2, <2>3 DEF Progress
<1>2. CASE RelayDispatch(w) \/ RelayRelease(w)
  <2>1. /\ batch' = batch /\ rpc'[w] = "idle" /\ rpc[w] \in {"dispatch", "release"}
        /\ item'[w] = None /\ item[w] \in Requests
    BY <1>0, <1>2 DEF RelayDispatch, RelayRelease, NextItem
  <2>2. RelayRank[rpc'[w]] < RelayRank[rpc[w]]
    BY <2>1, Ranks
  <2>3. \A m \in Held(w) \ Held(w)' : m = item[w]
    BY <2>1 DEF Held
  <2>4. \/ outbox'[item[w]].status = "dispatched" \/ faults' > faults
        \/ rpc[w] = "release"
    <3>1. CASE MarkDispatched(item[w])
      BY <1>0, <2>1, <3>1 DEF MarkDispatched, Row
    <3>2. CASE Fault("postgres")
      BY <3>2, FaultCounts
    <3> QED BY <1>2, <3>1, <3>2 DEF RelayDispatch, RelayRelease
  <2> QED BY <2>1, <2>2, <2>3, <2>4 DEF Progress
<1> QED BY <1>1, <1>2

LEMMA BatchProgress ==
    ASSUME TypeOK, ItemInv, NEW w \in Relays, Held(w) # {}, TakeItem(w) \/ RelayCrash(w)
    PROVE  Progress(w)
<1>0. /\ w \in DOMAIN rpc /\ w \in DOMAIN item /\ w \in DOMAIN batch
      /\ rpc[w] \in RelayPCs /\ (rpc[w] = "idle" <=> item[w] = None)
  BY DEF TypeOK, RelayTypeOK, ItemInv
<1>1. CASE TakeItem(w)
  <2>1. PICK i \in batch[w] :
          /\ item' = [item EXCEPT ![w] = i.msg]
          /\ batch' = [batch EXCEPT ![w] = @ \ {i}]
          /\ rpc' = [rpc EXCEPT ![w] = IF i.appended THEN "publish" ELSE "append"]
    BY <1>1 DEF TakeItem
  <2>2. i.msg # None
    BY ConstantsAssumption DEF ConstantsAssumption, TypeOK, RelayTypeOK, Items
  <2>3. /\ item'[w] = i.msg /\ batch'[w] = batch[w] \ {i} /\ rpc'[w] # "release"
        /\ item[w] = None
    BY <1>0, <1>1, <2>1 DEF TakeItem
  <2>4. Held(w) \subseteq Held(w)'
    BY <2>2, <2>3 DEF Held
  <2> QED BY <2>1, <2>3, <2>4 DEF Progress
<1>2. CASE RelayCrash(w)
  <2>1. rpc'[w] = "idle" /\ batch'[w] = {} /\ faults' > faults
    BY <1>0, <1>2, FaultCounts DEF RelayCrash
  <2>2. batch[w] = {} => rpc[w] # "idle"
    BY <1>0 DEF Held
  <2>3. rpc[w] # "idle" => RelayRank[rpc'[w]] < RelayRank[rpc[w]]
    BY <1>0, <2>1, Ranks DEF RelayPCs
  <2> QED BY <2>1, <2>2, <2>3 DEF Progress
<1> QED BY <1>1, <1>2

LEMMA RelayProgress ==
    ASSUME TypeOK, ItemInv, Next, NEW w \in Relays, Held(w) # {}, RelayAt(w)' # RelayAt(w)
    PROVE  Progress(w)
<1>0. /\ rpc \in [Relays -> RelayPCs] /\ batch \in [Relays -> SUBSET Items]
      /\ item \in [Relays -> Requests \cup {None}]
  BY DEF TypeOK, RelayTypeOK
<1>1. ~UNCHANGED relayVars
  BY DEF relayVars, RelayAt
<1>2. PICK v \in Relays : RelayStep(v) \/ RelayCrash(v)
  BY <1>1 DEF Next, SenderNext, RelayNext, LeaseNext, ExpireUnattended, ExpireInUse, Expire,
              relayVars
<1>3. v = w
  <2> SUFFICES ASSUME v # w PROVE RelayAt(w)' = RelayAt(w)
    OBVIOUS
  <2>1. rpc'[w] = rpc[w] /\ batch'[w] = batch[w] /\ item'[w] = item[w]
    BY <1>0, <1>2 DEF RelayStep, RelayCrash, Claim, TakeItem, RelayAppend, RelayMark, RelayPublish,
                      RelayDispatch, RelayRelease, RelayGoto, NextItem
  <2> QED BY <2>1 DEF RelayAt
<1>4. ~Claim(w)
  BY DEF Claim, Held
<1> QED BY <1>2, <1>3, <1>4, ItemProgress, BatchProgress DEF RelayStep

\* MessageOutboxRelay.Run: whatever fails and whichever relays share the rows, no relay goes
\* over its batch again, and it puts an item down undispatched only because of a failure.
THEOREM RelaysComeToAnEnd == SafeSpec => BatchesRunOut
<1> DEFINE On == \A w \in Relays : Held(w) # {} /\ RelayAt(w)' # RelayAt(w) => Progress(w)
<1>1. TypeOK /\ ItemInv /\ [Next]_vars => [On]_vars
  BY RelayProgress
<1>2. SafeSpec => [][On]_vars
  BY <1>1, InitType, NextType, PTL DEF SafeSpec
<1> QED BY <1>2, PTL DEF BatchesRunOut, Progress
============================================================================
