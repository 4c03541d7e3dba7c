--------------------------- MODULE HttpApiProofs ----------------------------
(***************************************************************************)
(* What the answers of the handlers mean, for any number of requests at    *)
(* once, any sampling and any set of dependencies.  The invariant is one   *)
(* request's: a step of one request leaves what it says of the others.     *)
(***************************************************************************)
EXTENDS HttpApi, TLAPS

\* A join lists members, a check is a readiness request's, a frame answers a WebSocket
\* request at once and only frames get lost, and who has not answered has no answer.
StageInv(r) ==
    /\ stage[r] = "members" => kind[r] = "join"
    /\ stage[r] = "check" => kind[r] = "ready"
    /\ stage[r] = "success" => kind[r] \notin WsKinds
    /\ stage[r] \notin {"log", "done"} => answer[r] = "none"
    /\ r \in lost => kind[r] \in WsKinds

\* Only a request past its use case has changed something, and it is on its way to a
\* success or to an answer that blames the server.
ChangeInv(r) ==
    r \in changed =>
        \/ stage[r] \in {"members", "success"}
        \/ stage[r] \in {"log", "done"} /\ answer[r] \in Successes
           /\ (kind[r] \in Audited => r \in audited)
        \/ stage[r] = "log" /\ answer[r] \in ServerErrors
        \/ stage[r] = "done" /\ answer[r] \in ServerErrors /\ level[r] = "error"

\* An audited request that succeeds changed something, or is a join that found the user
\* in the room.
AuditInv(r) ==
    (stage[r] \in {"members", "success"} /\ kind[r] \in Audited) \/ r \in audited =>
        (kind[r] = "join" /\ joined) \/ r \in changed

\* As long as its report is "ok" and its client is there, a readiness request has heard
\* of every dependency that is not pending.
CheckInv(r) ==
    kind[r] = "ready" =>
        /\ stage[r] = "check" /\ overall[r] = "ok" /\ r \notin gone =>
              Dependencies \ pending[r] \subseteq seen[r]
        /\ stage[r] = "success" \/ answer[r] = "200" => seen[r] = Dependencies \/ r \in gone

RequestInv(r) == StageInv(r) /\ ChangeInv(r) /\ AuditInv(r) /\ CheckInv(r)

HealthTypeOK ==
    /\ pending \in [Requests -> SUBSET Dependencies]
    /\ seen \in [Requests -> SUBSET Dependencies]
    /\ overall \in [Requests -> {"ok", "degraded"}]

ApiInv == TypeOK /\ HealthTypeOK /\ \A r \in Requests : RequestInv(r)

----------------------------------------------------------------------------
\* The answers that blame the client, those that blame the server and the successes.
LEMMA AnswersApart ==
    /\ ClientErrors \cap ServerErrors = {} /\ ClientErrors \cap Successes = {}
    /\ "none" \notin ClientErrors /\ "none" \notin Successes
    /\ Successes \cap ServerErrors = {} /\ "none" # "200" /\ "200" \in Successes
    /\ "400" \in ClientErrors /\ "401" \in ClientErrors /\ "503" \in ServerErrors
  BY DEF ClientErrors, ServerErrors, Successes

\* An error of no known kind is answered as the server's.
LEMMA OtherIsServerError ==
    /\ MapAppError("other") \in ServerErrors
    /\ \A k \in WsKinds : WsError(k, "other") \in ServerErrors
    /\ ~IsWSClientError("other") /\ "other" \in Errors
  BY DEF MapAppError, WsError, ServerErrors, WsKinds, IsWSClientError, AppErrors, Errors

LEMMA ErrorAnswers ==
    ASSUME NEW err \in Errors
    PROVE  /\ MapAppError(err) \in ClientErrors \cup ServerErrors
           /\ \A k \in WsKinds : WsError(k, err) \in ClientErrors \cup ServerErrors
  BY DEF MapAppError, WsError, ClientErrors, ServerErrors, Errors, AppErrors, WsKinds

LEMMA ApiInvInit == Init => ApiInv
  BY AnswersApart DEF Init, ApiInv, RequestInv, TypeOK, HealthTypeOK, StageInv, ChangeInv,
                      AuditInv, CheckInv

----------------------------------------------------------------------------
\* What a step of r may touch: the state of r, and the store.
StepOf(r) ==
    /\ kind' = kind
    /\ joined => joined'
    /\ \A s \in Requests \ {r} :
          /\ stage'[s] = stage[s] /\ answer'[s] = answer[s] /\ level'[s] = level[s]
          /\ pending'[s] = pending[s] /\ overall'[s] = overall[s] /\ seen'[s] = seen[s]
          /\ s \in changed' <=> s \in changed
          /\ s \in lost' <=> s \in lost
          /\ s \in audited' <=> s \in audited
          /\ s \in gone' <=> s \in gone

\* enqueue took the frame or, for a socket, did not.
MayLose(r) == lost' = lost \/ (kind[r] \in WsKinds /\ lost' = lost \cup {r})

LEMMA OthersKeep ==
    ASSUME ApiInv, NEW r \in Requests, StepOf(r), NEW s \in Requests, s # r
    PROVE  RequestInv(s)'
<1>1. RequestInv(s)
  BY DEF ApiInv
<1> QED BY <1>1 DEF RequestInv, StepOf, StageInv, ChangeInv, AuditInv, CheckInv

\* The answer of a request that goes wrong or is refused.
LEMMA ErrorEffect ==
    ASSUME ApiInv, NEW r \in Requests, NEW err \in Errors, WriteAppError(r, err)
    PROVE  \E a \in ClientErrors \cup ServerErrors, l \in {"none", "info", "warn", "error"},
              t \in {"log", "done"} :
              /\ answer' = [answer EXCEPT ![r] = a]
              /\ level' = [level EXCEPT ![r] = l]
              /\ stage' = [stage EXCEPT ![r] = t]
              /\ err = "other" => a \in ServerErrors /\ (t = "done" => l = "error")
              /\ MayLose(r)
<1>1. kind[r] \in Kinds /\ level \in [Requests -> {"none", "info", "warn", "error"}]
  BY DEF ApiInv, TypeOK
<1>2. CASE kind[r] \notin WsKinds
  <2>1. level' = [level EXCEPT ![r] = level[r]]
    BY <1>1, <1>2 DEF WriteAppError, Write
  <2> QED BY <1>1, <1>2, <2>1, ErrorAnswers, OtherIsServerError
          DEF WriteAppError, Write, Goto, MayLose
<1>3. CASE kind[r] \in WsKinds
  BY <1>3, ErrorAnswers, OtherIsServerError DEF WriteAppError, Enqueue, Goto, MayLose
<1> QED BY <1>2, <1>3
\* A request that changed nothing gets an error for its answer.
LEMMA UnchangedInv ==
    ASSUME ApiInv, NEW r \in Requests, stage[r] \in {"handler", "check"},
           NEW a \in ClientErrors \cup ServerErrors,
           NEW l \in {"none", "info", "warn", "error"}, NEW t \in {"log", "done"},
           answer' = [answer EXCEPT ![r] = a],
           level' = [level EXCEPT ![r] = l],
           stage' = [stage EXCEPT ![r] = t],
           UNCHANGED storeVars, Frame, MayLose(r)
    PROVE  ApiInv'
<1>1. TypeOK' /\ HealthTypeOK' /\ StepOf(r)
  BY DEF Frame, storeVars, healthVars, ApiInv, TypeOK, HealthTypeOK, StepOf, MayLose
<1>2. stage'[r] = t /\ answer'[r] = a /\ a # "200" /\ r \notin changed'
  BY AnswersApart DEF storeVars, ApiInv, TypeOK, RequestInv, ChangeInv
<1>3. RequestInv(r)'
  BY <1>2 DEF Frame, storeVars, healthVars, ApiInv, RequestInv, StageInv, ChangeInv, AuditInv,
              CheckInv, MayLose
<1> QED BY <1>1, <1>3, OthersKeep DEF ApiInv

LEMMA RefuseInv ==
    ASSUME ApiInv, NEW r \in Requests, stage[r] = "handler", NEW errs \in SUBSET Errors,
           Refuse(r, errs), Frame
    PROVE  ApiInv'
<1>1. PICK err \in errs : WriteAppError(r, err)
  BY DEF Refuse
<1>2. PICK a \in ClientErrors \cup ServerErrors, l \in {"none", "info", "warn", "error"},
           t \in {"log", "done"} :
              /\ answer' = [answer EXCEPT ![r] = a]
              /\ level' = [level EXCEPT ![r] = l]
              /\ stage' = [stage EXCEPT ![r] = t]
              /\ MayLose(r)
  BY <1>1, ErrorEffect
<1>3. UNCHANGED storeVars
  BY DEF Refuse
<1> QED BY <1>2, <1>3, UnchangedInv

\* writeError with a status of its own: a bad request, or a report of failed checks.
LEMMA WriteInv ==
    ASSUME ApiInv, NEW r \in Requests, stage[r] \in {"handler", "check"},
           NEW status \in ClientErrors \cup ServerErrors, Write(r, status),
           UNCHANGED storeVars, Frame
    PROVE  ApiInv'
<1>1. /\ answer' = [answer EXCEPT ![r] = status] /\ level' = [level EXCEPT ![r] = level[r]]
      /\ stage' = [stage EXCEPT ![r] = "log"] /\ level[r] \in {"none", "info", "warn", "error"}
      /\ MayLose(r)
  BY DEF Write, Goto, ApiInv, TypeOK, MayLose
<1> QED BY <1>1, UnchangedInv

LEMMA BadRequestInv ==
    ASSUME ApiInv, NEW r \in Requests, stage[r] = "handler", BadRequest(r), Frame
    PROVE  ApiInv'
  BY WriteInv, AnswersApart DEF BadRequest

\* A success of a request that had nothing to change.
LEMMA ReadInv ==
    ASSUME ApiInv, NEW r \in Requests, stage[r] \in {"handler", "check"},
           kind[r] \notin Audited, Succeed(r), UNCHANGED storeVars, Frame,
           kind[r] \in WsKinds => kind[r] \in DOMAIN SuccessFrame,
           kind[r] = "ready" => seen[r] = Dependencies \/ r \in gone
    PROVE  ApiInv'
<1>1. r \notin changed /\ r \notin changed' /\ kind' = kind /\ gone' = gone /\ seen' = seen
      /\ audited' = audited /\ joined' = joined
  BY DEF storeVars, Frame, healthVars, ApiInv, RequestInv, ChangeInv
<1>2. CASE kind[r] \notin WsKinds
  <2>1. stage' = [stage EXCEPT ![r] = "success"] /\ UNCHANGED <<answer, level, lost>>
    BY <1>2 DEF Succeed, Goto
  <2>2. TypeOK' /\ HealthTypeOK' /\ StepOf(r)
    BY <2>1 DEF Frame, storeVars, healthVars, ApiInv, TypeOK, HealthTypeOK, StepOf
  <2>3. stage'[r] = "success" /\ answer'[r] = answer[r]
    BY <2>1 DEF ApiInv, TypeOK
  <2>4. RequestInv(r)'
    BY <1>1, <1>2, <2>1, <2>3 DEF ApiInv, RequestInv, StageInv, ChangeInv, AuditInv, CheckInv
  <2> QED BY <2>2, <2>4, OthersKeep DEF ApiInv
<1>3. CASE kind[r] \in WsKinds
  <2>1. SuccessFrame[kind[r]] \in Successes
    BY <1>3 DEF SuccessFrame, Successes
  <2>2. /\ stage' = [stage EXCEPT ![r] = "done"] /\ level' = [level EXCEPT ![r] = "none"]
        /\ answer' = [answer EXCEPT ![r] = SuccessFrame[kind[r]]]
        /\ MayLose(r)
    BY <1>3 DEF Succeed, Enqueue, Goto, MayLose
  <2>3. TypeOK' /\ HealthTypeOK' /\ StepOf(r)
    BY <2>1, <2>2 DEF Frame, storeVars, healthVars, ApiInv, TypeOK, HealthTypeOK, StepOf, MayLose
  <2>4. stage'[r] = "done" /\ kind[r] # "ready"
    BY <1>3, <2>2 DEF ApiInv, TypeOK, WsKinds
  <2>5. RequestInv(r)'
    BY <1>1, <1>3, <2>4 DEF ApiInv, RequestInv, StageInv, ChangeInv, AuditInv, CheckInv
  <2> QED BY <2>3, <2>5, OthersKeep DEF ApiInv
<1> QED BY <1>2, <1>3

\* The use case took effect, and then returned nil or an error.
LEMMA ChangedInv ==
    ASSUME ApiInv, NEW r \in Requests, stage[r] = "handler", kind[r] # "ready",
           Changed(r), joined => joined', Succeed(r) \/ FailAfter(r), Frame,
           kind[r] \in WsKinds => kind[r] \in DOMAIN SuccessFrame
    PROVE  ApiInv'
<1>1. PICK a \in {"none"} \cup ServerErrors \cup Successes, l \in {"none", "info", "warn", "error"},
           t \in {"success", "log", "done"} :
              /\ answer' = [answer EXCEPT ![r] = a]
              /\ level' = [level EXCEPT ![r] = l]
              /\ stage' = [stage EXCEPT ![r] = t]
              /\ t = "success" => kind[r] \notin WsKinds /\ a = "none"
              /\ t = "log" => a \in ServerErrors
              /\ t = "done" => (a \in Successes /\ kind[r] \in WsKinds)
                              \/ (a \in ServerErrors /\ l = "error")
              /\ MayLose(r)
  <2>1. CASE Succeed(r) /\ kind[r] \notin WsKinds
    <3>1. /\ answer' = [answer EXCEPT ![r] = "none"] /\ level' = [level EXCEPT ![r] = level[r]]
          /\ stage' = [stage EXCEPT ![r] = "success"]
          /\ level[r] \in {"none", "info", "warn", "error"} /\ MayLose(r)
      BY <2>1 DEF Succeed, Goto, ApiInv, TypeOK, RequestInv, StageInv, MayLose
    <3> QED BY <2>1, <3>1
  <2>2. CASE Succeed(r) /\ kind[r] \in WsKinds
    <3>1. SuccessFrame[kind[r]] \in Successes
      BY <2>2 DEF SuccessFrame, Successes
    <3> QED BY <2>2, <3>1 DEF Succeed, Enqueue, Goto, MayLose
  <2>3. CASE FailAfter(r)
    BY <2>3, ErrorEffect, OtherIsServerError DEF FailAfter
  <2> QED BY <2>1, <2>2, <2>3
<1>2. TypeOK' /\ HealthTypeOK' /\ StepOf(r)
  BY <1>1 DEF Frame, Changed, healthVars, ApiInv, TypeOK, HealthTypeOK, StepOf, MayLose
<1>3. RequestInv(r)'
  <2>1. /\ stage'[r] = t /\ answer'[r] = a /\ level'[r] = l /\ r \in changed' /\ kind' = kind
        /\ kind[r] \in WsKinds => kind[r] \notin Audited
    BY <1>1 DEF Changed, Frame, ApiInv, TypeOK, WsKinds, Audited
  <2>2. r \in lost' => kind'[r] \in WsKinds
    BY <1>1, <2>1 DEF MayLose, ApiInv, RequestInv, StageInv
  <2> QED BY <1>1, <2>1, <2>2 DEF RequestInv, StageInv, ChangeInv, AuditInv, CheckInv
<1> QED BY <1>2, <1>3, OthersKeep DEF ApiInv

----------------------------------------------------------------------------
LEMMA WithAuthInv ==
    ASSUME ApiInv, NEW r \in Requests, WithAuth(r)
    PROVE  ApiInv'
<1>1. /\ stage[r] = "new" /\ kind' = kind /\ UNCHANGED storeVars /\ UNCHANGED healthVars
      /\ audited' = audited /\ level' = level /\ lost' = lost
      /\ \/ stage' = [stage EXCEPT ![r] = "handler"] /\ answer' = answer
         \/ stage' = [stage EXCEPT ![r] = "log"] /\ answer' = [answer EXCEPT ![r] = "401"]
      /\ \E i \in {"none", "claimed", "verified"} : identity' = [identity EXCEPT ![r] = i]
  <2>1. identity = [identity EXCEPT ![r] = identity[r]] /\ identity[r] \in {"none", "claimed", "verified"}
    BY DEF ApiInv, TypeOK
  <2> QED BY <2>1 DEF WithAuth, Goto
<1>2. TypeOK' /\ HealthTypeOK' /\ StepOf(r)
  BY <1>1, AnswersApart DEF storeVars, healthVars, ApiInv, TypeOK, HealthTypeOK, StepOf
<1>3. RequestInv(r)'
  BY <1>1, AnswersApart DEF storeVars, healthVars, ApiInv, TypeOK, RequestInv, StageInv, ChangeInv,
              AuditInv, CheckInv
<1> QED BY <1>2, <1>3, OthersKeep DEF ApiInv

\* The join took effect; whether it was this request's doing does not matter.
LEMMA JoinRoomInv ==
    ASSUME ApiInv, NEW r \in Requests, JoinRoom(r)
    PROVE  ApiInv'
<1>1. kind[r] \in {"join", "join_self"} /\ stage[r] = "handler" /\ kind[r] \notin WsKinds /\ Frame
  BY DEF JoinRoom, Handles, WsKinds
<1>2. CASE BadRequest(r)
  BY <1>1, <1>2, BadRequestInv
<1>3. CASE \E errs \in SUBSET Errors : Refuse(r, errs)
  BY <1>1, <1>3, RefuseInv
<1>4. CASE /\ joined' = TRUE /\ stored' = stored /\ kind[r] = "join"
           /\ IF joined THEN UNCHANGED changed ELSE Changed(r)
           /\ Goto(r, "members") /\ UNCHANGED <<answer, level, lost>>
  <2>1. TypeOK' /\ HealthTypeOK' /\ StepOf(r)
    BY <1>1, <1>4 DEF Frame, Changed, Goto, healthVars, ApiInv, TypeOK, HealthTypeOK, StepOf
  <2>2. stage'[r] = "members" /\ kind' = kind /\ answer'[r] = answer[r] /\ audited' = audited
    BY <1>1, <1>4 DEF Frame, Goto, ApiInv, TypeOK
  <2>3. RequestInv(r)'
    BY <1>1, <1>4, <2>2 DEF ApiInv, RequestInv, StageInv, ChangeInv, AuditInv, CheckInv
  <2> QED BY <2>1, <2>3, OthersKeep DEF ApiInv
<1>5. CASE joined' = TRUE /\ Changed(r) /\ FailAfter(r)
  BY <1>1, <1>5, ChangedInv
<1>6. CASE joined' = TRUE /\ joined /\ stored' = stored /\ changed' = changed /\ FailAfter(r)
  <2>1. UNCHANGED storeVars
    BY <1>6 DEF storeVars, JoinRoom
  <2> QED BY <1>1, <1>6, <2>1, WriteInv, OtherIsServerError DEF FailAfter, WriteAppError
<1>7. /\ {"ErrRoomAccessDenied", "ErrRoomNotFound", "other"} \in SUBSET Errors
      /\ {"ErrUserAlreadyExists"} \in SUBSET Errors
  BY DEF Errors, AppErrors
<1>8. \/ BadRequest(r) \/ (\E errs \in SUBSET Errors : Refuse(r, errs))
      \/ /\ joined' = TRUE /\ stored' = stored /\ kind[r] = "join"
         /\ IF joined THEN UNCHANGED changed ELSE Changed(r)
         /\ (Goto(r, "members") /\ UNCHANGED <<answer, level, lost>>) \/ FailAfter(r)
  BY <1>7 DEF JoinRoom
<1> QED BY <1>2, <1>3, <1>4, <1>5, <1>6, <1>8

LEMMA ListMembersInv ==
    ASSUME ApiInv, NEW r \in Requests, ListMembers(r)
    PROVE  ApiInv'
<1>1. stage[r] = "members" /\ kind[r] = "join" /\ kind[r] \notin WsKinds
  BY DEF ListMembers, ApiInv, RequestInv, StageInv, WsKinds
<1>2. /\ level' = level /\ lost' = lost /\ UNCHANGED storeVars /\ Frame
      /\ \/ stage' = [stage EXCEPT ![r] = "success"] /\ answer' = answer
         \/ /\ stage' = [stage EXCEPT ![r] = "log"]
            /\ answer' = [answer EXCEPT ![r] = MapAppError("other")]
  BY <1>1 DEF ListMembers, Succeed, WriteAppError, Write, Goto
<1>3. TypeOK' /\ HealthTypeOK' /\ StepOf(r)
  BY <1>2, OtherIsServerError
     DEF Frame, storeVars, healthVars, ApiInv, TypeOK, HealthTypeOK, StepOf
<1>4. RequestInv(r)'
  BY <1>1, <1>2, OtherIsServerError
     DEF Frame, storeVars, healthVars, ApiInv, TypeOK, RequestInv, StageInv, ChangeInv, AuditInv,
         CheckInv
<1> QED BY <1>3, <1>4, OthersKeep DEF ApiInv

LEMMA UseCaseInv ==
    ASSUME ApiInv, NEW r \in Requests,
           CreateRoom(r) \/ SendMessage(r) \/ ListMessages(r) \/ PushToken(r) \/ HandleAck(r)
           \/ HandleSync(r) \/ Live(r)
    PROVE  ApiInv'
<1>1. /\ stage[r] = "handler" /\ kind[r] # "ready" /\ Frame
      /\ kind[r] \in WsKinds => kind[r] \in DOMAIN SuccessFrame
  BY DEF CreateRoom, SendMessage, ListMessages, PushToken, HandleAck, HandleSync, Live, Handles,
         SuccessFrame, WsKinds
<1>2. \/ BadRequest(r)
      \/ \E errs \in SUBSET Errors : Refuse(r, errs)
      \/ Changed(r) /\ (joined => joined') /\ (Succeed(r) \/ FailAfter(r))
      \/ kind[r] \notin Audited /\ Succeed(r) /\ UNCHANGED storeVars
  <2>2. /\ {"ErrInvalidRoom", "ErrRoomAlreadyExists", "other"} \in SUBSET Errors
        /\ {"ErrRateLimited", "ErrRoomAccessDenied", "ErrRoomNotFound",
             "ErrReplyTarget", "ErrInvalidMessage", "other"} \in SUBSET Errors
        /\ {"ErrDuplicateMessage"} \in SUBSET Errors
        /\ {"ErrRoomAccessDenied", "ErrRoomNotFound", "other"} \in SUBSET Errors
        /\ {"ErrInvalidPushToken", "other"} \in SUBSET Errors
        /\ {"ErrInvalidAck", "ErrRoomAccessDenied", "ErrRoomNotFound", "other"} \in SUBSET Errors
    BY DEF Errors, AppErrors
  <2>3. CASE CreateRoom(r) \/ PushToken(r)
    BY <2>2, <2>3 DEF CreateRoom, PushToken
  <2>4. CASE SendMessage(r)
    BY <2>2, <2>4 DEF SendMessage
  <2>5. CASE ListMessages(r) \/ Live(r)
    BY <2>2, <2>5 DEF ListMessages, Live, Handles, Audited
  <2>6. CASE HandleAck(r) \/ HandleSync(r)
    BY <2>2, <2>6 DEF HandleAck, HandleSync, Handles, Audited
  <2> QED BY <2>3, <2>4, <2>5, <2>6
<1> QED BY <1>1, <1>2, BadRequestInv, RefuseInv, ChangedInv, ReadInv

LEMMA UnsupportedInv ==
    ASSUME ApiInv, NEW r \in Requests, Unsupported(r)
    PROVE  ApiInv'
<1>1. "unsupported type" \in ClientErrors
  BY DEF ClientErrors
<1>2. MayLose(r)
  BY DEF Unsupported, Enqueue, Handles, WsKinds, MayLose
<1> QED BY <1>1, <1>2, UnchangedInv DEF Unsupported, Enqueue, Goto, Handles

LEMMA HealthInv ==
    ASSUME ApiInv, NEW r \in Requests,
           Ready(r) \/ ClientGone(r) \/ Report(r) \/ \E d \in Dependencies : CheckReturns(r, d)
    PROVE  ApiInv'
<1>1. CASE Ready(r)
  <2>1. /\ stage[r] = "handler" /\ kind[r] = "ready" /\ stage' = [stage EXCEPT ![r] = "check"]
        /\ pending' = [pending EXCEPT ![r] = Dependencies]
        /\ UNCHANGED <<kind, identity, answer, lost, storeVars, audited, level, overall, seen, gone>>
    BY <1>1 DEF Ready, Handles, Goto
  <2>2. TypeOK' /\ HealthTypeOK' /\ StepOf(r)
    BY <2>1 DEF storeVars, ApiInv, TypeOK, HealthTypeOK, StepOf
  <2>3. RequestInv(r)'
    BY <2>1 DEF storeVars, ApiInv, TypeOK, HealthTypeOK, RequestInv, StageInv, ChangeInv, AuditInv,
                CheckInv
  <2> QED BY <2>2, <2>3, OthersKeep DEF ApiInv
<1>2. CASE ClientGone(r)
  <2>1. TypeOK' /\ HealthTypeOK' /\ StepOf(r)
    BY <1>2 DEF ClientGone, storeVars, ApiInv, TypeOK, HealthTypeOK, StepOf
  <2>2. RequestInv(r)'
    BY <1>2 DEF ClientGone, storeVars, ApiInv, RequestInv, StageInv, ChangeInv, AuditInv, CheckInv
  <2> QED BY <2>1, <2>2, OthersKeep DEF ApiInv
<1>3. ASSUME NEW d \in Dependencies, CheckReturns(r, d)
      PROVE  ApiInv'
  <2>1. /\ pending' = [pending EXCEPT ![r] = @ \ {d}]
        /\ \/ seen' = [seen EXCEPT ![r] = @ \cup {d}] /\ overall' = overall
           \/ r \in gone /\ seen' = seen /\ overall' = overall
           \/ overall' = [overall EXCEPT ![r] = "degraded"] /\ seen' = seen
        /\ UNCHANGED <<kind, stage, identity, answer, lost, storeVars, audited, level, gone>>
    BY <1>3 DEF CheckReturns, CheckFrame
  <2>2. TypeOK' /\ HealthTypeOK' /\ StepOf(r)
    BY <2>1 DEF storeVars, ApiInv, TypeOK, HealthTypeOK, StepOf
  <2>3. CheckInv(r)'
    <3>1. /\ seen[r] \subseteq Dependencies /\ seen[r] \subseteq seen'[r] /\ pending'[r] = pending[r] \ {d}
          /\ seen'[r] \subseteq Dependencies
      BY <2>1 DEF ApiInv, HealthTypeOK
    <3>2. overall'[r] = "ok" /\ r \notin gone => d \in seen'[r] /\ overall[r] = "ok"
      BY <2>1 DEF ApiInv, HealthTypeOK
    <3>3. CheckInv(r)
      BY DEF ApiInv, RequestInv
    <3>4. UNCHANGED <<kind, stage, answer, gone>>
      BY <2>1
    <3> QED BY <3>1, <3>2, <3>3, <3>4 DEF CheckInv
  <2>4. StageInv(r)' /\ ChangeInv(r)' /\ AuditInv(r)'
    BY <2>1 DEF storeVars, ApiInv, RequestInv, StageInv, ChangeInv, AuditInv
  <2> QED BY <2>2, <2>3, <2>4, OthersKeep DEF ApiInv, RequestInv
<1>4. CASE Report(r)
  <2>1. stage[r] = "check" /\ kind[r] = "ready" /\ pending[r] = {}
    BY <1>4 DEF Report, ApiInv, RequestInv, StageInv
  <2>2. overall[r] = "ok" => seen[r] = Dependencies \/ r \in gone
    BY <2>1 DEF ApiInv, HealthTypeOK, RequestInv, CheckInv
  <2>3. kind[r] \notin Audited /\ kind[r] \notin WsKinds
    BY <2>1 DEF Audited, WsKinds
  <2> QED BY <1>4, <2>1, <2>2, <2>3, ReadInv, WriteInv, AnswersApart DEF Report
<1> QED BY <1>1, <1>2, <1>3, <1>4

\* The audit record and the success.
LEMMA WriteSuccessInv ==
    ASSUME ApiInv, NEW r \in Requests, WriteSuccess(r)
    PROVE  ApiInv'
<1>1. PICK a \in {"200", "201"} :
         /\ stage[r] = "success" /\ stage' = [stage EXCEPT ![r] = "log"]
         /\ answer' = [answer EXCEPT ![r] = a]
         /\ audited' = IF kind[r] \in Audited THEN audited \cup {r} ELSE audited
         /\ UNCHANGED <<kind, identity, level, lost, storeVars, healthVars>>
  BY DEF WriteSuccess, Write, Goto
<1>2. a \in Successes
  BY DEF Successes
<1>3. TypeOK' /\ HealthTypeOK' /\ StepOf(r)
  BY <1>1, <1>2 DEF storeVars, healthVars, ApiInv, TypeOK, HealthTypeOK, StepOf
<1>4. RequestInv(r)'
  BY <1>1, <1>2 DEF storeVars, healthVars, ApiInv, TypeOK, RequestInv, StageInv, ChangeInv, AuditInv,
                    CheckInv
<1> QED BY <1>3, <1>4, OthersKeep DEF ApiInv

LEMMA LogInv ==
    ASSUME ApiInv, NEW r \in Requests, Log(r)
    PROVE  ApiInv'
<1>1. PICK l \in {"none", "info", "warn", "error"} :
         /\ stage[r] = "log" /\ stage' = [stage EXCEPT ![r] = "done"]
         /\ level' = [level EXCEPT ![r] = l]
         /\ answer[r] \in ServerErrors => l = "error"
         /\ UNCHANGED <<kind, identity, answer, lost, storeVars, audited, healthVars>>
  BY AnswersApart DEF Log, LogFrame, Goto
<1>2. TypeOK' /\ HealthTypeOK' /\ StepOf(r)
  BY <1>1 DEF storeVars, healthVars, ApiInv, TypeOK, HealthTypeOK, StepOf
<1>3. RequestInv(r)'
  BY <1>1 DEF storeVars, healthVars, ApiInv, TypeOK, RequestInv, StageInv, ChangeInv, AuditInv,
              CheckInv
<1> QED BY <1>2, <1>3, OthersKeep DEF ApiInv

LEMMA ApiInvAlways == Spec => []ApiInv
<1>1. ApiInv /\ [Next]_apiVars => ApiInv'
  <2> SUFFICES ASSUME ApiInv, [Next]_apiVars PROVE ApiInv'
    OBVIOUS
  <2>1. ASSUME NEW r \in Requests, RequestStep(r) \/ ClientGone(r)
        PROVE  ApiInv'
    BY <2>1, WithAuthInv, UseCaseInv, JoinRoomInv, ListMembersInv, UnsupportedInv, HealthInv,
       WriteSuccessInv, LogInv DEF RequestStep
  <2>2. CASE UNCHANGED apiVars
    BY <2>2 DEF apiVars, storeVars, healthVars, ApiInv, TypeOK, HealthTypeOK, RequestInv, StageInv,
                ChangeInv, AuditInv, CheckInv
  <2> QED BY <2>1, <2>2 DEF Next
<1> QED BY <1>1, ApiInvInit, PTL DEF Spec

----------------------------------------------------------------------------
\* The handlers: an answer that blames the client means that this request changed nothing.
THEOREM BlamedClientChangedNothing == Spec => []ClientErrorChangedNothing
<1>1. ApiInv => ClientErrorChangedNothing
  BY AnswersApart DEF ApiInv, RequestInv, StageInv, ChangeInv, ClientErrorChangedNothing
<1> QED BY <1>1, ApiInvAlways, PTL

\* The handlers and withHTTPLogging: every change is on record, whatever the sampling, unless
\* it is that of a WebSocket request whose success its queue did not take.
THEOREM ChangesAreOnRecord == Spec => []ChangeLeavesTrace
<1>1. ApiInv => ChangeLeavesTrace
  BY DEF ApiInv, RequestInv, StageInv, ChangeInv, AuditInv, ChangeLeavesTrace, SuccessLost
<1> QED BY <1>1, ApiInvAlways, PTL

\* health.Check and ready: a 200 means that every dependency answered, or that nobody is
\* there to read it.
THEOREM ReadyIsAnswered == Spec => []ReadyMeansAnswered
<1>1. ApiInv => ReadyMeansAnswered
  BY DEF ApiInv, RequestInv, CheckInv, ReadyMeansAnswered
<1> QED BY <1>1, ApiInvAlways, PTL

\* The handlers, the logging middleware and health.Check keep every variable within its type,
\* for any number of requests and dependencies.
THEOREM ApiTypes == Spec => []TypeOK
<1>1. ApiInv => TypeOK
  BY DEF ApiInv
<1> QED BY <1>1, ApiInvAlways, PTL

\* The handlers: for any number of requests at once, answers and records fit what each
\* request changed.
THEOREM AnswersAndRecordsFit == Spec => []AnswersMatchChanges
<1>1. ClientErrorChangedNothing /\ ChangeLeavesTrace => AnswersMatchChanges
  BY DEF AnswersMatchChanges
<1> QED BY <1>1, BlamedClientChangedNothing, ChangesAreOnRecord, PTL
=============================================================================
