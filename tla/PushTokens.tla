----------------------------- MODULE PushTokens -----------------------------
(***************************************************************************)
(* Push tokens of one user: a Valkey hash from device to token with one    *)
(* expiry for all of it.  Registering is HSET and then EXPIRE, two         *)
(* requests; deleting is HDEL; a notification reads the hash and pushes to *)
(* each token in turn.  Calls interleave at every request; a request may   *)
(* fail before or after it took effect.                                    *)
(***************************************************************************)
EXTENDS Naturals

CONSTANTS
    Devices,
    PushCalls,
    PlatformOf,   \* [Devices -> platform]
    Endpoints,    \* platforms with a configured endpoint
    TokenTtl,     \* 90 days in the code
    MaxDay        \* bound on the clock

NoToken == "none"

ASSUME PushAssumption ==
    TokenTtl \in Nat \ {0} /\ MaxDay \in Nat /\ NoToken \notin PushCalls

PushOps == [kind : {"register", "delete", "notify"}, device : Devices]

Never == MaxDay + TokenTtl + 1

VARIABLES
    day,
    tokens,     \* the hash: the registration whose token a device has
    expireAt,   \* its expiry, Never without one
    pushOp,     \* what each call does
    pushAt,     \* its next request
    pushResult, \* "none", "ok" or "error"
    ackDay,     \* when a registration was acknowledged
    targets,    \* tokens a notification has still to push to
    tried,      \* tokens it pushed to
    expected,   \* tokens it must push to, see ListByUser
    removed,    \* registrations replaced or deleted
    slipped     \* registrations whose hash expired between HSET and EXPIRE

pushVars == <<day, tokens, expireAt, pushOp, pushAt, pushResult, ackDay, targets, tried,
              expected, removed, slipped>>
hash == <<tokens, expireAt>>
marks == <<removed, slipped>>
notifyVars == <<targets, tried, expected>>

PushInit ==
    /\ day = 0
    /\ tokens = [d \in Devices |-> NoToken] /\ expireAt = Never
    /\ pushOp \in [PushCalls -> PushOps]
    /\ pushAt = [c \in PushCalls |-> pushOp[c].kind]
    /\ pushResult = [c \in PushCalls |-> "none"]
    /\ ackDay = [c \in PushCalls |-> 0]
    /\ targets = [c \in PushCalls |-> {}]
    /\ tried = [c \in PushCalls |-> {}]
    /\ expected = [c \in PushCalls |-> {}]
    /\ removed = {} /\ slipped = {}

Device(c) == pushOp[c].device
Present(h) == {h[d] : d \in Devices} \ {NoToken}

PushReturn(c, res) ==
    /\ pushAt' = [pushAt EXCEPT ![c] = "done"]
    /\ pushResult' = [pushResult EXCEPT ![c] = res]

PushGoto(c, where) == pushAt' = [pushAt EXCEPT ![c] = where] /\ UNCHANGED pushResult

----------------------------------------------------------------------------
\* HSET keeps the expiry of a hash that is there.
HsetEffect(c) ==
    /\ tokens' = [tokens EXCEPT ![Device(c)] = c]
    /\ removed' = removed \cup ({tokens[Device(c)]} \ {NoToken})
    /\ UNCHANGED expireAt

Hset(c) ==
    /\ pushAt[c] = "register"
    /\ \/ HsetEffect(c) /\ (PushGoto(c, "expire") \/ PushReturn(c, "error"))
       \/ PushReturn(c, "error") /\ UNCHANGED <<hash, removed>>
    /\ UNCHANGED <<day, pushOp, ackDay, notifyVars, slipped>>

\* EXPIRE on a missing key does nothing and is no error.
ExpireEffect == expireAt' = IF Present(tokens) = {} THEN Never ELSE day + TokenTtl

\* Faulty variant: EXPIRE ... NX, the expiry of the first registration stays.
ExpireOnce(c) ==
    /\ pushAt[c] = "expire"
    /\ expireAt' = IF expireAt = Never THEN day + TokenTtl ELSE expireAt
    /\ PushReturn(c, "ok")
    /\ ackDay' = [ackDay EXCEPT ![c] = day]
    /\ UNCHANGED <<day, tokens, pushOp, notifyVars, marks>>

\* Faulty variant: an error of EXPIRE is ignored.
ExpireErrorIgnored(c) ==
    /\ pushAt[c] = "expire"
    /\ ExpireEffect \/ UNCHANGED expireAt
    /\ PushReturn(c, "ok")
    /\ ackDay' = [ackDay EXCEPT ![c] = day]
    /\ UNCHANGED <<day, tokens, pushOp, notifyVars, marks>>

Expire(c) ==
    /\ pushAt[c] = "expire"
    /\ \/ /\ ExpireEffect
          /\ PushReturn(c, "ok")
          /\ ackDay' = [ackDay EXCEPT ![c] = day]
       \/ /\ ExpireEffect \/ UNCHANGED expireAt
          /\ PushReturn(c, "error")
          /\ UNCHANGED ackDay
    /\ UNCHANGED <<day, tokens, pushOp, notifyVars, marks>>

\* HDEL of the last field removes the key and its expiry.
HdelEffect(c) ==
    /\ tokens' = [tokens EXCEPT ![Device(c)] = NoToken]
    /\ expireAt' = IF Present(tokens') = {} THEN Never ELSE expireAt
    /\ removed' = removed \cup ({tokens[Device(c)]} \ {NoToken})

Delete(c) ==
    /\ pushAt[c] = "delete"
    /\ \/ HdelEffect(c) /\ (PushReturn(c, "ok") \/ PushReturn(c, "error"))
       \/ PushReturn(c, "error") /\ UNCHANGED <<hash, removed>>
    /\ UNCHANGED <<day, pushOp, ackDay, notifyVars, slipped>>

----------------------------------------------------------------------------
\* Acknowledged, not replaced or deleted, and younger than the expiry.
Valid(c) ==
    /\ pushOp[c].kind = "register" /\ pushResult[c] = "ok"
    /\ c \notin removed \cup slipped
    /\ day - ackDay[c] < TokenTtl

\* HGETALL; what a notification must then push to is recorded.
ListByUser(n) ==
    /\ pushAt[n] = "notify"
    /\ expected' = [expected EXCEPT ![n] = {c \in PushCalls : Valid(c)}]
    /\ \/ targets' = [targets EXCEPT ![n] = Present(tokens)] /\ PushGoto(n, "push")
       \/ PushReturn(n, "error") /\ UNCHANGED targets
    /\ UNCHANGED <<day, hash, pushOp, ackDay, tried, marks>>

\* NotifyMessage for each token, in any order; its error is ignored.
NotifyMessage(n) ==
    /\ pushAt[n] = "push"
    /\ \/ \E c \in targets[n] :
             /\ targets' = [targets EXCEPT ![n] = @ \ {c}]
             /\ tried' = IF PlatformOf[Device(c)] \in Endpoints
                         THEN [tried EXCEPT ![n] = @ \cup {c}] ELSE tried
             /\ UNCHANGED <<pushAt, pushResult>>
       \/ targets[n] = {} /\ PushReturn(n, "ok") /\ UNCHANGED <<targets, tried>>
    /\ UNCHANGED <<day, hash, pushOp, ackDay, expected, marks>>

\* A day passes, and the hash expires when its time has come.
NextDay ==
    /\ day < MaxDay
    /\ day' = day + 1
    /\ \/ /\ expireAt <= day'
          /\ tokens' = [d \in Devices |-> NoToken] /\ expireAt' = Never
          /\ slipped' = slipped \cup {c \in PushCalls : pushAt[c] = "expire"}
       \/ expireAt > day' /\ UNCHANGED <<hash, slipped>>
    /\ UNCHANGED <<pushOp, pushAt, pushResult, ackDay, notifyVars, removed>>

PushNext ==
    \/ \E c \in PushCalls : Hset(c) \/ Expire(c) \/ Delete(c) \/ ListByUser(c) \/ NotifyMessage(c)
    \/ NextDay

PushSpec == PushInit /\ [][PushNext]_pushVars

----------------------------------------------------------------------------
PushTypeOK ==
    /\ tokens \in [Devices -> PushCalls \cup {NoToken}]
    /\ expireAt \in 0 .. Never
    /\ pushAt \in [PushCalls -> {"register", "expire", "delete", "notify", "push", "done"}]

\* Register, then notify: a token that was acknowledged and neither replaced nor deleted
\* is tried by every notification within 90 days of it, whatever else was registered,
\* deleted or failed, unless the hash expired between the registration's two requests.
RegisteredDeviceIsTried ==
    \A n \in PushCalls : pushOp[n].kind = "notify" /\ pushResult[n] = "ok" =>
        \A c \in expected[n] : PlatformOf[Device(c)] \in Endpoints => c \in tried[n]

\* Upsert: tokens without an expiry, which would stay forever, are left only by a
\* registration that is under way or did not succeed.
EndlessOnlyAfterFailure ==
    Present(tokens) # {} /\ expireAt = Never =>
        \E c \in PushCalls :
            pushOp[c].kind = "register" /\ (pushAt[c] = "expire" \/ pushResult[c] = "error")

\* Upsert, Delete and NotifyMessage on one hash: a token is kept, and used, as long as its
\* registration promised, and no longer.
TokensAreKept == RegisteredDeviceIsTried /\ EndlessOnlyAfterFailure
=============================================================================
