---------------------------- MODULE SendMessage ----------------------------
(***************************************************************************)
(* SendMessageUseCase.Execute, one step per call it makes.  Any number of  *)
(* requests run at once, on any replica; a request may be a client's retry *)
(* of another.  A call that fails may nevertheless have taken effect (the  *)
(* answer was lost), and the process may crash between any two calls.      *)
(***************************************************************************)
EXTENDS MessageStores

VARIABLES
    pc,      \* the next call of a request
    result   \* what the caller got, or None

sendVars == <<pc, result>>

Results == {"ok", "rate_limited", "duplicate", "denied", "reply_target",
            "invalid", "error"}

ASSUME NoneAssumption == None \notin Results

SendPCs == {"idle", "exists", "room", "reply", "save", "append", "publish",
            "enqueue_unappended", "enqueue_appended", "done", "crashed"}

SendTypeOK ==
    /\ pc \in [Requests -> SendPCs]
    /\ result \in [Requests -> Results \cup {None}]

SendInit ==
    /\ pc = [r \in Requests |-> IF r \in Backlog THEN "done" ELSE "idle"]
    /\ result = [r \in Requests |-> IF r \in Backlog THEN "ok" ELSE None]

Goto(r, label) ==
    /\ pc' = [pc EXCEPT ![r] = label]
    /\ UNCHANGED result

Return(r, answer) ==
    /\ pc' = [pc EXCEPT ![r] = "done"]
    /\ result' = [result EXCEPT ![r] = answer]

\* A call that answers without an error and changes no store.
Reads == NoFault /\ UNCHANGED <<postgres, valkey>>

\* A read that fails: the request ends with the error.
ReadFails(r, kind) ==
    /\ Fault(kind)
    /\ UNCHANGED <<postgres, valkey>>
    /\ Return(r, "error")

----------------------------------------------------------------------------
Admit(r) ==
    /\ pc[r] = "idle"
    /\ Reads
    /\ Goto(r, "exists") \/ Return(r, "rate_limited")

CheckDuplicate(r) ==
    /\ pc[r] = "exists"
    /\ \/ /\ Reads
          /\ IF ExistsByClientMsgID(r)
             THEN Return(r, "duplicate")
             ELSE Goto(r, "room")
       \/ ReadFails(r, "postgres")

\* The room and its members come from the room cache (module RoomCache).
CheckRoom(r) ==
    /\ pc[r] = "room"
    /\ \/ Reads /\ (Goto(r, "reply") \/ Return(r, "denied"))
       \/ ReadFails(r, "postgres")

\* The reply target, looked up only when there is one, and msg.Validate.
CheckReply(r) ==
    /\ pc[r] = "reply"
    /\ \/ /\ Reads
          /\ IF \/ ReplyTo[r] = None
                \/ GetByIDs(RoomOf[r], {ReplyTo[r]}) # {}
             THEN Goto(r, "save") \/ Return(r, "invalid")
             ELSE Return(r, "reply_target")
       \/ ReplyTo[r] # None /\ ReadFails(r, "postgres")

\* Faulty variant: the insert relies on the duplicate check made before.
SaveWithoutDedup(r) ==
    /\ pc[r] = "save"
    /\ UNCHANGED valkey
    /\ \/ Save(r) /\ NoFault /\ Goto(r, "append")
       \/ Fault("postgres") /\ UNCHANGED postgres /\ Return(r, "error")

\* A retry that shares the key may have saved since CheckDuplicate.
SaveMessage(r) ==
    /\ pc[r] = "save"
    /\ UNCHANGED valkey
    /\ \/ /\ ~ExistsByClientMsgID(r)
          /\ Save(r)
          /\ \/ NoFault /\ Goto(r, "append")
             \/ Fault("postgres") /\ Return(r, "error")
       \/ /\ ExistsByClientMsgID(r)
          /\ NoFault
          /\ UNCHANGED postgres
          /\ Return(r, "duplicate")
       \/ Fault("postgres") /\ UNCHANGED postgres /\ Return(r, "error")

SendAppend(r) ==
    /\ pc[r] = "append"
    /\ UNCHANGED postgres
    /\ \/ AppendMessage(r) /\ NoFault /\ Goto(r, "publish")
       \/ /\ AppendMessage(r) \/ UNCHANGED valkey
          /\ Fault("valkey")
          /\ Goto(r, "enqueue_unappended")

\* Faulty variant: a failed publish is logged and not queued.
PublishNotQueued(r) ==
    /\ pc[r] = "publish"
    /\ UNCHANGED postgres
    /\ \/ PublishMessageCreated(r) /\ NoFault /\ Return(r, "ok")
       \/ UNCHANGED valkey /\ Fault("valkey") /\ Return(r, "ok")

SendPublish(r) ==
    /\ pc[r] = "publish"
    /\ UNCHANGED postgres
    /\ \/ PublishMessageCreated(r) /\ NoFault /\ Return(r, "ok")
       \/ /\ PublishMessageCreated(r) \/ UNCHANGED valkey
          /\ Fault("valkey")
          /\ Goto(r, "enqueue_appended")

\* Faulty variant: an error of Enqueue is dropped.
EnqueueErrorIgnored(r, appended) ==
    /\ UNCHANGED valkey
    /\ \/ Enqueue(r, appended) /\ NoFault
       \/ UNCHANGED postgres /\ Fault("postgres")
    /\ Return(r, "ok")

\* The INSERT names six columns and gives four values: Postgres refuses it
\* (EnqueueAccepted = FALSE).  EnqueueAccepted = TRUE is the contract of
\* ports.MessageOutboxRepository, which the in-memory doubles of the tests
\* and a corrected statement meet.
EnqueueMessage(r, appended) ==
    /\ UNCHANGED valkey
    /\ \/ /\ EnqueueAccepted
          /\ Enqueue(r, appended)
          /\ \/ NoFault /\ Return(r, "ok")
             \/ Fault("postgres") /\ Return(r, "error")
       \/ ~EnqueueAccepted /\ NoFault /\ UNCHANGED postgres /\ Return(r, "error")
       \/ Fault("postgres") /\ UNCHANGED postgres /\ Return(r, "error")

EnqueueUnappended(r) ==
    pc[r] = "enqueue_unappended" /\ EnqueueMessage(r, FALSE)

EnqueueAppended(r) ==
    pc[r] = "enqueue_appended" /\ EnqueueMessage(r, TRUE)

\* The replica stops between two calls; nobody gets an answer.
SenderCrash(r) ==
    /\ pc[r] \notin {"idle", "done", "crashed"}
    /\ Fault("crash")
    /\ Goto(r, "crashed")
    /\ UNCHANGED <<postgres, valkey>>

SendStep(r) ==
    \/ Admit(r)
    \/ CheckDuplicate(r)
    \/ CheckRoom(r)
    \/ CheckReply(r)
    \/ SaveMessage(r)
    \/ SendAppend(r)
    \/ SendPublish(r)
    \/ EnqueueUnappended(r)
    \/ EnqueueAppended(r)
============================================================================
