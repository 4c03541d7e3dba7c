------------------------------- MODULE HttpApi ------------------------------
(***************************************************************************)
(* The HTTP and WebSocket handlers around the use cases: identity,         *)
(* validation, the use case, the answer, the audit record and the request  *)
(* record.  Requests run at once on any replica and may be retries of each *)
(* other: every send carries the same client_msg_id and every join adds    *)
(* the same user to the same room.                                         *)
(*                                                                         *)
(* What a use case does between its calls is in SendMessage and            *)
(* RoomMembership.  Here it is one step that refuses with one of its       *)
(* errors, takes effect, or fails, and a failed one may have taken effect. *)
(***************************************************************************)
EXTENDS Naturals

CONSTANTS
    Requests,
    SampleEvery,   \* AELORA_HTTP_REQUEST_LOG_SUCCESS_SAMPLE_EVERY
    Dependencies   \* valkey and postgres

ASSUME HttpAssumption == SampleEvery \in Nat

WsKinds == {"ws_send", "ws_ack", "ws_sync", "ws_other"}
V1Kinds == {"create", "join", "join_self", "send", "list", "register", "delete"}
Kinds == V1Kinds \cup WsKinds \cup {"live", "ready"}

Audited == {"create", "join", "register", "delete"}

\* c.Path() has no method: two pairs of routes share a path.  A join whose actor names
\* itself is a request like the other joins.
Route(k) ==
    CASE k \in {"send", "list"} -> "messages"
      [] k \in {"join", "join_self"} -> "join"
      [] k \in {"register", "delete"} -> "push-token"
      [] OTHER -> k

AppErrors == {"ErrDuplicateMessage", "ErrRateLimited", "ErrRoomAccessDenied", "ErrReplyTarget",
              "ErrInvalidPushToken", "ErrUserAlreadyExists", "ErrInvalidAck"}
Errors == AppErrors \cup {"ErrRoomNotFound", "ErrRoomAlreadyExists", "ErrInvalidMessage",
                          "ErrInvalidRoom", "other"}

MapAppError(err) ==
    CASE err \in {"ErrDuplicateMessage", "ErrUserAlreadyExists", "ErrRoomAlreadyExists"} -> "409"
      [] err = "ErrRateLimited" -> "429"
      [] err = "ErrRoomAccessDenied" -> "403"
      [] err = "ErrRoomNotFound" -> "404"
      [] err = "other" -> "500"
      [] OTHER -> "400"

\* The error frame of handleSendMessage, handleAck and handleSync.
WsError(k, err) ==
    CASE k = "ws_sync" -> "sync failed"
      [] k = "ws_ack" -> IF err = "ErrInvalidAck" THEN "invalid ack payload" ELSE "ack failed"
      [] err = "ErrDuplicateMessage" -> "duplicate client_msg_id"
      [] err = "ErrRateLimited" -> "rate limit exceeded"
      [] err = "ErrRoomAccessDenied" -> "room access denied"
      [] err = "ErrReplyTarget" -> "reply target not found"
      [] err = "ErrInvalidMessage" -> "invalid message payload"
      [] OTHER -> "internal error"

IsWSClientError(err) == err \in (AppErrors \cup {"ErrInvalidMessage", "ErrInvalidRoom"})
                                \ {"ErrInvalidPushToken", "ErrUserAlreadyExists"}

SuccessFrame == [ws_send |-> "message_accepted", ws_ack |-> "ack_saved", ws_sync |-> "sync_result"]

ClientErrors == {"400", "401", "403", "404", "409", "429", "invalid ack payload",
                 "duplicate client_msg_id", "rate limit exceeded", "room access denied",
                 "reply target not found", "invalid message payload", "unsupported type"}
ServerErrors == {"500", "503", "sync failed", "ack failed", "internal error"}
Successes == {"200", "201", "message_accepted", "ack_saved", "sync_result"}

VARIABLES
    authEnabled,  \* configuration
    kind,      \* what each request asks for
    stage,     \* "new", "handler", "members", "check", "success", "log" or "done"
    identity,  \* "none", "claimed" (a header or a query value) or "verified" (a token)
    answer,    \* a status, the type of a frame or the text of an error frame
    lost,      \* requests whose frame the socket's queue did not take
    joined,    \* the user is a member in Postgres
    stored,    \* the message is in Postgres
    changed,   \* requests that changed a store
    audited,   \* requests with an audit record
    level,     \* the request's record in the log, "none" without one
    counters,  \* the sampling counters, by route and status
    pending,   \* checks of a readiness request still running
    overall,   \* its report so far
    seen,      \* dependencies that answered it
    gone       \* requests whose client went away

storeVars == <<joined, stored, changed>>
healthVars == <<pending, overall, seen, gone>>
apiVars == <<authEnabled, kind, stage, identity, answer, lost, storeVars, audited, level,
             counters, healthVars>>

Init ==
    /\ authEnabled \in BOOLEAN
    /\ kind \in [Requests -> Kinds]
    /\ stage = [r \in Requests |-> "new"]
    /\ identity = [r \in Requests |-> "none"]
    /\ answer = [r \in Requests |-> "none"] /\ lost = {}
    /\ joined = FALSE /\ stored = FALSE /\ changed = {}
    /\ audited = {}
    /\ level = [r \in Requests |-> "none"]
    /\ counters = [key \in {Route(k) : k \in Kinds} \X {"200", "201"} |-> 0]
    /\ pending = [r \in Requests |-> {}]
    /\ overall = [r \in Requests |-> "ok"]
    /\ seen = [r \in Requests |-> {}]
    /\ gone = {}

----------------------------------------------------------------------------
Goto(r, s) == stage' = [stage EXCEPT ![r] = s]
Handles(r, k) == stage[r] = "handler" /\ kind[r] = k

\* An HTTP answer goes through withHTTPLogging.
Write(r, status) ==
    /\ answer' = [answer EXCEPT ![r] = status]
    /\ Goto(r, "log")
    /\ UNCHANGED <<level, lost>>

\* A frame answers a WebSocket request; an error is logged before it.  A queue that is
\* full or closed does not take the frame, and nobody looks at the result of enqueue.
Enqueue(r, frame, lvl) ==
    /\ answer' = [answer EXCEPT ![r] = frame]
    /\ lost' \in {lost, lost \cup {r}}
    /\ level' = [level EXCEPT ![r] = lvl]
    /\ Goto(r, "done")

\* writeAppError, or logWSError and the error frame.
WriteAppError(r, err) ==
    \/ kind[r] \notin WsKinds /\ Write(r, MapAppError(err))
    \/ /\ kind[r] \in WsKinds
       /\ Enqueue(r, WsError(kind[r], err), IF IsWSClientError(err) THEN "warn" ELSE "error")

Succeed(r) ==
    \/ kind[r] \notin WsKinds /\ Goto(r, "success") /\ UNCHANGED <<answer, level, lost>>
    \/ kind[r] \in WsKinds /\ Enqueue(r, SuccessFrame[kind[r]], "none")

Refuse(r, errs) ==
    /\ \E err \in errs : WriteAppError(r, err)
    /\ UNCHANGED storeVars

\* Binding, the identity, the path and the query.
BadRequest(r) == Write(r, "400") /\ UNCHANGED storeVars

\* The use case changed something and then returned, or failed.
Changed(r) == changed' = changed \cup {r}

FailAfter(r) == WriteAppError(r, "other")

Frame == UNCHANGED <<authEnabled, kind, identity, audited, counters, healthVars>>

----------------------------------------------------------------------------
\* withAuth on /v1, resolveIdentity for the WebSocket; nothing for the health routes.
WithAuth(r) ==
    /\ stage[r] = "new"
    /\ \/ kind[r] \notin V1Kinds \cup WsKinds /\ Goto(r, "handler") /\ UNCHANGED <<identity, answer>>
       \/ /\ kind[r] \in V1Kinds \cup WsKinds
          /\ \/ /\ identity' = [identity EXCEPT ![r] = IF authEnabled THEN "verified" ELSE "claimed"]
                /\ Goto(r, "handler")
                /\ UNCHANGED answer
             \/ /\ authEnabled \/ kind[r] \in WsKinds
                /\ answer' = [answer EXCEPT ![r] = "401"]
                /\ Goto(r, "log")
                /\ UNCHANGED identity
             \/ /\ ~authEnabled /\ kind[r] \in V1Kinds   \* no user: the handler refuses
                /\ Goto(r, "handler")
                /\ UNCHANGED <<identity, answer>>
    /\ UNCHANGED <<authEnabled, kind, level, lost, storeVars, audited, counters, healthVars>>

HasUser(r) == identity[r] # "none"

CreateRoom(r) ==
    /\ Handles(r, "create")
    /\ \/ BadRequest(r)
       \/ HasUser(r) /\ Refuse(r, {"ErrInvalidRoom", "ErrRoomAlreadyExists", "other"})
       \/ HasUser(r) /\ Changed(r) /\ (Succeed(r) \/ FailAfter(r)) /\ UNCHANGED <<joined, stored>>
    /\ Frame

\* JoinRoom.Execute refuses who joins itself, in the room or not.  The target is found in
\* the list of members when it is there, unless the list is that of an incomplete cache
\* or was read before the other join.
JoinRoom(r) ==
    /\ Handles(r, "join") \/ Handles(r, "join_self")
    /\ \/ BadRequest(r)
       \/ /\ HasUser(r) /\ (kind[r] = "join_self" \/ joined)
          /\ Refuse(r, {"ErrUserAlreadyExists"})
       \/ /\ HasUser(r) /\ kind[r] = "join"
          /\ Refuse(r, {"ErrRoomAccessDenied", "ErrRoomNotFound", "other"})
       \/ /\ HasUser(r) /\ kind[r] = "join"
          /\ joined' = TRUE
          /\ IF joined THEN UNCHANGED changed ELSE Changed(r)
          /\ \/ Goto(r, "members") /\ UNCHANGED <<answer, level, lost>>
             \/ FailAfter(r)
          /\ UNCHANGED stored
    /\ Frame

\* Faulty variant: whatever the second list fails with is "not found".
ListMembersNotFound(r) ==
    /\ stage[r] = "members"
    /\ Succeed(r) \/ WriteAppError(r, "ErrRoomNotFound")
    /\ UNCHANGED storeVars
    /\ Frame

\* The handler of a join lists the members for its answer.
ListMembers(r) ==
    /\ stage[r] = "members"
    /\ Succeed(r) \/ WriteAppError(r, "other")
    /\ UNCHANGED storeVars
    /\ Frame

SendMessage(r) ==
    /\ Handles(r, "send") \/ Handles(r, "ws_send")
    /\ \/ kind[r] = "send" /\ BadRequest(r)
       \/ HasUser(r) /\ Refuse(r, {"ErrRateLimited", "ErrRoomAccessDenied", "ErrRoomNotFound",
                                   "ErrReplyTarget", "ErrInvalidMessage", "other"})
       \/ HasUser(r) /\ stored /\ Refuse(r, {"ErrDuplicateMessage"})
       \/ /\ HasUser(r) /\ ~stored
          /\ stored' = TRUE /\ Changed(r)
          /\ Succeed(r) \/ FailAfter(r)
          /\ UNCHANGED joined
    /\ Frame

ListMessages(r) ==
    /\ Handles(r, "list")
    /\ \/ BadRequest(r)
       \/ HasUser(r) /\ Refuse(r, {"ErrRoomAccessDenied", "ErrRoomNotFound", "other"})
       \/ HasUser(r) /\ Succeed(r) /\ UNCHANGED storeVars
    /\ Frame

\* Both handlers of push tokens; the token's own requests are in PushTokens.
PushToken(r) ==
    /\ Handles(r, "register") \/ Handles(r, "delete")
    /\ \/ BadRequest(r)
       \/ HasUser(r) /\ Refuse(r, {"ErrInvalidPushToken", "other"})
       \/ HasUser(r) /\ Changed(r) /\ (Succeed(r) \/ FailAfter(r)) /\ UNCHANGED <<joined, stored>>
    /\ Frame

HandleAck(r) ==
    /\ Handles(r, "ws_ack")
    /\ \/ Refuse(r, {"ErrInvalidAck", "ErrRoomAccessDenied", "ErrRoomNotFound", "other"})
       \/ Changed(r) /\ (Succeed(r) \/ FailAfter(r)) /\ UNCHANGED <<joined, stored>>
    /\ Frame

\* recoverAndBackfill may have appended to the room's stream, also before it failed.
HandleSync(r) ==
    /\ Handles(r, "ws_sync")
    /\ \/ Refuse(r, {"ErrRoomAccessDenied", "ErrRoomNotFound", "other"})
       \/ Succeed(r) /\ UNCHANGED storeVars
       \/ Changed(r) /\ (Succeed(r) \/ FailAfter(r)) /\ UNCHANGED <<joined, stored>>
    /\ Frame

Unsupported(r) ==
    /\ Handles(r, "ws_other")
    /\ Enqueue(r, "unsupported type", "none")
    /\ UNCHANGED storeVars
    /\ Frame

Live(r) == Handles(r, "live") /\ Succeed(r) /\ UNCHANGED storeVars /\ Frame

----------------------------------------------------------------------------
\* health.Check starts a goroutine per dependency.
Ready(r) ==
    /\ Handles(r, "ready")
    /\ pending' = [pending EXCEPT ![r] = Dependencies]
    /\ Goto(r, "check")
    /\ UNCHANGED <<authEnabled, kind, identity, answer, lost, storeVars, audited, level,
                   counters, overall, seen, gone>>

CheckFrame ==
    UNCHANGED <<authEnabled, kind, stage, identity, answer, lost, storeVars, audited, level,
                counters, gone>>

\* Faulty variant: the last result decides.
CheckOverwrites(r, d) ==
    /\ d \in pending[r]
    /\ pending' = [pending EXCEPT ![r] = @ \ {d}]
    /\ \/ /\ seen' = [seen EXCEPT ![r] = @ \cup {d}]
          /\ overall' = [overall EXCEPT ![r] = "ok"]
       \/ overall' = [overall EXCEPT ![r] = "degraded"] /\ UNCHANGED seen
    /\ CheckFrame

\* A ping answers, or fails or times out, or ends with the request: context.Canceled
\* counts as "ok".
CheckReturns(r, d) ==
    /\ d \in pending[r]
    /\ pending' = [pending EXCEPT ![r] = @ \ {d}]
    /\ \/ seen' = [seen EXCEPT ![r] = @ \cup {d}] /\ UNCHANGED overall
       \/ r \in gone /\ UNCHANGED <<seen, overall>>
       \/ overall' = [overall EXCEPT ![r] = "degraded"] /\ UNCHANGED seen
    /\ CheckFrame

Report(r) ==
    /\ stage[r] = "check" /\ pending[r] = {}
    /\ \/ overall[r] = "ok" /\ Succeed(r)
       \/ overall[r] # "ok" /\ Write(r, "503")
    /\ UNCHANGED storeVars
    /\ Frame

----------------------------------------------------------------------------
\* The audit record, then writeSuccess.
WriteSuccess(r) ==
    /\ stage[r] = "success"
    /\ audited' = IF kind[r] \in Audited THEN audited \cup {r} ELSE audited
    /\ Write(r, IF kind[r] \in {"create", "send"} THEN "201" ELSE "200")
    /\ UNCHANGED <<authEnabled, kind, identity, storeVars, counters, healthVars>>

ShouldSample(n) == SampleEvery <= 1 \/ n % SampleEvery = 1

LogFrame ==
    UNCHANGED <<authEnabled, kind, identity, answer, lost, storeVars, audited, healthVars>>

\* Faulty variant: the first case of decide is statusCode > 500.
LogAbove500(r) ==
    /\ stage[r] = "log"
    /\ level' = [level EXCEPT ![r] = IF answer[r] = "503" THEN "error" ELSE "warn"]
    /\ Goto(r, "done")
    /\ UNCHANGED counters
    /\ LogFrame

\* withHTTPLogging: errors always, successes by their counter.
Log(r) ==
    /\ stage[r] = "log"
    /\ \/ /\ answer[r] \notin Successes
          /\ level' = [level EXCEPT ![r] = IF answer[r] \in ServerErrors THEN "error" ELSE "warn"]
          /\ UNCHANGED counters
       \/ /\ answer[r] \in Successes
          /\ LET key == <<Route(kind[r]), answer[r]>>
             IN /\ counters' = [counters EXCEPT ![key] = IF SampleEvery <= 1 THEN @ ELSE @ + 1]
                /\ level' = [level EXCEPT ![r] =
                                 IF ShouldSample(counters'[key]) THEN "info" ELSE "none"]
    /\ Goto(r, "done")
    /\ LogFrame

----------------------------------------------------------------------------
\* The client of a readiness request goes away.
ClientGone(r) ==
    /\ stage[r] = "check" /\ r \notin gone
    /\ gone' = gone \cup {r}
    /\ UNCHANGED <<authEnabled, kind, stage, identity, answer, lost, storeVars, audited, level,
                   counters, pending, overall, seen>>

RequestStep(r) ==
    \/ WithAuth(r) \/ CreateRoom(r) \/ JoinRoom(r) \/ ListMembers(r) \/ SendMessage(r)
    \/ ListMessages(r) \/ PushToken(r) \/ HandleAck(r) \/ HandleSync(r) \/ Unsupported(r)
    \/ Live(r) \/ Ready(r) \/ Report(r) \/ WriteSuccess(r) \/ Log(r)
    \/ \E d \in Dependencies : CheckReturns(r, d)

Next == \E r \in Requests : RequestStep(r) \/ ClientGone(r)

Spec == Init /\ [][Next]_apiVars

----------------------------------------------------------------------------
TypeOK ==
    /\ kind \in [Requests -> Kinds]
    /\ stage \in [Requests -> {"new", "handler", "members", "check", "success", "log", "done"}]
    /\ identity \in [Requests -> {"none", "claimed", "verified"}]
    /\ answer \in [Requests -> {"none"} \cup Successes \cup ClientErrors \cup ServerErrors]
    /\ level \in [Requests -> {"none", "info", "warn", "error"}]
    /\ changed \subseteq Requests /\ audited \subseteq Requests
    /\ gone \subseteq Requests /\ lost \subseteq Requests

\* The handlers and mapAppError: an answer that blames the client (a 4xx, or its frame)
\* means that this request changed nothing, also when a late step of it failed.
ClientErrorChangedNothing ==
    \A r \in Requests : answer[r] \in ClientErrors => r \notin changed

\* A success that never reached its client: the queue of the socket did not take the frame.
SuccessLost(r) == r \in lost /\ answer[r] \in Successes

\* A change is on record: the client was told of it and, for rooms and push tokens, an
\* audit record names it, or the request is in the log as an error, whatever the sampling
\* and also when the error frame was lost.  The one change that leaves neither is that of
\* a WebSocket request whose success was lost.  And an audit record of a join or a create
\* is never about something that is not there.
ChangeLeavesTrace ==
    \A r \in Requests : stage[r] = "done" =>
        /\ r \in changed =>
              \/ r \notin lost /\ answer[r] \in Successes /\ (kind[r] \in Audited => r \in audited)
              \/ answer[r] \in ServerErrors /\ level[r] = "error"
              \/ SuccessLost(r) /\ kind[r] \in WsKinds
        /\ r \in audited => (kind[r] = "join" /\ joined) \/ r \in changed

\* The handlers: what a request changed, its answer and the records of it fit together.
AnswersMatchChanges == ClientErrorChangedNothing /\ ChangeLeavesTrace

\* ready: a 200 means that every dependency answered a ping of this request, unless the
\* client had gone, whatever the order in which the checks return.
ReadyMeansAnswered ==
    \A r \in Requests :
        kind[r] = "ready" /\ answer[r] = "200" => seen[r] = Dependencies \/ r \in gone

\* docs/guide.md on adding a member who is in the room already: it "is idempotent and
\* returns success".  A join refused as a conflict contradicts it.
JoinIsIdempotent ==
    \A r \in Requests : kind[r] = "join" => answer[r] # "409"
=============================================================================
