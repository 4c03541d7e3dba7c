-------------------------- MODULE RoomMembership ---------------------------
(***************************************************************************)
(* One room's members: Postgres (room_members with roles) behind the       *)
(* read-through cache of package roomcache (a Valkey set without expiry),  *)
(* and the use cases that create the room, add members and check them.     *)
(* Rooms share no state, so one is enough.                                 *)
(*                                                                         *)
(* A call is one use of CreateRoom, JoinRoom or of a membership check (the *)
(* Get that SendMessage, SyncMessages and AckMessage start with).  Calls   *)
(* interleave at every request to a store; the cache's EXISTS and SADD are *)
(* separate requests.                                                      *)
(***************************************************************************)
EXTENDS Naturals

CONSTANTS
    Users,
    Calls,
    Op,          \* [Calls -> [kind, actor, user]]
    FaultKinds,  \* what may fail: "cache", "primary", "crash", "loss"
    MaxFaults

Kinds == {"create", "join", "check"}

ASSUME RoomAssumption ==
    /\ Op \in [Calls -> [kind : Kinds, actor : Users, user : Users]]
    /\ FaultKinds \subseteq {"cache", "primary", "crash", "loss"}
    /\ MaxFaults \in Nat

VARIABLES
    roles,   \* room_members: a user's role, "none" when there is no row
    cache,   \* the Valkey set; an empty set is a missing key
    pc,      \* the next request of a call
    snap,    \* the members a call has read
    todo,    \* members warmCache has still to add one by one
    after,   \* where a call goes on after warmCache
    answer,  \* what a call returned
    faults

roomVars == <<roles, cache, pc, snap, todo, after, answer, faults>>

Members == {u \in Users : roles[u] # "none"}

Labels == {"start", "create", "list", "primary", "decide", "role", "add", "exists",
           "sadd", "reread", "warm_exists", "warm_sadd", "warm_next", "warm_add",
           "set_owner", "done"}

Answers == {"none", "ok", "denied", "already_exists", "not_found", "error", "crashed"}

Init ==
    /\ roles = [u \in Users |-> "none"]
    /\ cache = {}
    /\ pc = [c \in Calls |-> "start"]
    /\ snap = [c \in Calls |-> {}]
    /\ todo = [c \in Calls |-> {}]
    /\ after = [c \in Calls |-> "done"]
    /\ answer = [c \in Calls |-> "none"]
    /\ faults = 0

----------------------------------------------------------------------------
Fault(kind) ==
    /\ kind \in FaultKinds
    /\ faults < MaxFaults
    /\ faults' = faults + 1

NoFault == faults' = faults

Goto(c, label) ==
    /\ pc' = [pc EXCEPT ![c] = label]
    /\ UNCHANGED answer

Return(c, a) ==
    /\ pc' = [pc EXCEPT ![c] = "done"]
    /\ answer' = [answer EXCEPT ![c] = a]

\* The end of warmCache, whether it ran through or gave up.
Resume(c) == IF after[c] = "done" THEN Return(c, "ok") ELSE Goto(c, after[c])

\* warmCache for the members in snap', then on to label.
Warm(c, label) ==
    /\ Goto(c, "warm_exists")
    /\ after' = [after EXCEPT ![c] = label]

stores == <<roles, cache>>
locals == <<snap, todo, after>>

Start(c) ==
    /\ pc[c] = "start"
    /\ CASE Op[c].kind = "create" -> Goto(c, "create")
         [] Op[c].kind = "join" /\ Op[c].actor = Op[c].user -> Return(c, "already_exists")
         [] OTHER -> Goto(c, "list")
    /\ UNCHANGED <<stores, locals, faults>>

\* One transaction: the room and its members, all with role `member'.
CreateRoom(c) ==
    /\ pc[c] = "create"
    /\ LET room == {Op[c].actor, Op[c].user}
           inserted == [u \in Users |-> IF u \in room THEN "member" ELSE "none"]
       IN \/ /\ Members = {}
             /\ roles' = inserted
             /\ snap' = [snap EXCEPT ![c] = room]
             /\ Warm(c, "set_owner")
             /\ NoFault
          \/ /\ Members # {}
             /\ Return(c, "error")
             /\ NoFault
             /\ UNCHANGED <<roles, snap, after>>
          \/ /\ Fault("primary")
             /\ Return(c, "error")
             /\ roles' = roles \/ (Members = {} /\ roles' = inserted)
             /\ UNCHANGED <<snap, after>>
    /\ UNCHANGED <<cache, todo>>

SetOwner(c) ==
    /\ pc[c] = "set_owner"
    /\ \/ /\ roles' = [roles EXCEPT ![Op[c].actor] = "owner"]
          /\ \/ NoFault /\ Return(c, "ok")
             \/ Fault("primary") /\ Return(c, "error")
       \/ Fault("primary") /\ Return(c, "error") /\ UNCHANGED roles
    /\ UNCHANGED <<cache, locals>>

----------------------------------------------------------------------------
\* Get and ListMembers: the cache first, Postgres on a miss or an error.

ReadCache(c) ==
    /\ pc[c] = "list"
    /\ \/ /\ cache # {}
          /\ snap' = [snap EXCEPT ![c] = cache]
          /\ Goto(c, "decide")
          /\ NoFault
       \/ /\ (cache = {} /\ NoFault) \/ Fault("cache")
          /\ Goto(c, "primary")
          /\ UNCHANGED snap
    /\ UNCHANGED <<stores, todo, after>>

ReadPrimary(c) ==
    /\ pc[c] = "primary"
    /\ \/ /\ Members # {}
          /\ snap' = [snap EXCEPT ![c] = Members]
          /\ Warm(c, "decide")
          /\ NoFault
       \/ /\ \/ Members = {} /\ NoFault /\ Return(c, "not_found")
             \/ Fault("primary") /\ Return(c, "error")
          /\ UNCHANGED <<snap, after>>
    /\ UNCHANGED <<stores, todo>>

\* What the caller of Get or ListMembers makes of the members it was given.
Decide(c) ==
    /\ pc[c] = "decide"
    /\ IF Op[c].actor \notin snap[c]
       THEN Return(c, "denied")
       ELSE CASE Op[c].kind = "check" -> Return(c, "ok")
              [] Op[c].kind # "check" /\ Op[c].user \in snap[c] -> Return(c, "already_exists")
              [] OTHER -> Goto(c, "role")
    /\ UNCHANGED <<stores, locals, faults>>

\* Faulty variant: any member may add members.
AnyRoleMayAdd(c) ==
    /\ pc[c] = "role"
    /\ IF roles[Op[c].actor] # "none" THEN Goto(c, "add") ELSE Return(c, "denied")
    /\ UNCHANGED <<stores, locals, faults>>

GetMemberRole(c) ==
    /\ pc[c] = "role"
    /\ \/ /\ NoFault
          /\ IF roles[Op[c].actor] \in {"owner", "admin"}
             THEN Goto(c, "add")
             ELSE Return(c, "denied")
       \/ Fault("primary") /\ Return(c, "error")
    /\ UNCHANGED <<stores, locals>>

----------------------------------------------------------------------------
\* AddMember: Postgres, then the cache, whose errors are swallowed except
\* that a missing key is filled again.

\* Faulty variant: the cache is updated although Postgres refused.
AddErrorIgnored(c) ==
    /\ pc[c] = "add"
    /\ \/ /\ roles' = [roles EXCEPT ![Op[c].user] = IF @ = "none" THEN "member" ELSE @]
          /\ NoFault
       \/ Fault("primary") /\ UNCHANGED roles
    /\ Goto(c, "exists")
    /\ UNCHANGED <<cache, locals>>

AddMember(c) ==
    /\ pc[c] = "add"
    /\ \/ /\ roles' = [roles EXCEPT ![Op[c].user] = IF @ = "none" THEN "member" ELSE @]
          /\ \/ NoFault /\ Goto(c, "exists")
             \/ Fault("primary") /\ Return(c, "error")
       \/ Fault("primary") /\ Return(c, "error") /\ UNCHANGED roles
    /\ UNCHANGED <<cache, locals>>

CacheExists(c) ==
    /\ pc[c] = "exists"
    /\ \/ NoFault /\ Goto(c, IF cache = {} THEN "reread" ELSE "sadd")
       \/ Fault("cache") /\ Return(c, "ok")
    /\ UNCHANGED <<stores, locals>>

CacheSadd(c) ==
    /\ pc[c] = "sadd"
    /\ Return(c, "ok")
    /\ \/ cache' = cache \cup {Op[c].user} /\ NoFault
       \/ UNCHANGED cache /\ Fault("cache")
    /\ UNCHANGED <<roles, locals>>

Reread(c) ==
    /\ pc[c] = "reread"
    /\ \/ /\ snap' = [snap EXCEPT ![c] = Members]
          /\ Warm(c, "done")
          /\ NoFault
       \/ Fault("primary") /\ Return(c, "ok") /\ UNCHANGED <<snap, after>>
    /\ UNCHANGED <<stores, todo>>

----------------------------------------------------------------------------
\* warmCache: create the set when it is missing, then add every member again.

\* The member loop; room.Members is a map, so its order is arbitrary.
WarmLoop(c) ==
    /\ todo' = [todo EXCEPT ![c] = snap[c]]
    /\ Goto(c, "warm_next")

WarmExists(c) ==
    /\ pc[c] = "warm_exists"
    /\ \/ cache # {} /\ NoFault /\ WarmLoop(c)
       \/ cache = {} /\ NoFault /\ Goto(c, "warm_sadd") /\ UNCHANGED todo
       \/ Fault("cache") /\ Resume(c) /\ UNCHANGED todo
    /\ UNCHANGED <<stores, snap, after>>

\* Faulty variant: the set is replaced by the members read before.
WarmReplace(c) ==
    /\ pc[c] = "warm_sadd"
    /\ cache' = snap[c]
    /\ WarmLoop(c)
    /\ UNCHANGED <<roles, snap, after, faults>>

\* SADD of all members, then SET of the meta key, which nothing reads: when
\* either fails warmCache returns without the loop.
WarmSadd(c) ==
    /\ pc[c] = "warm_sadd"
    /\ \/ cache' = cache \cup snap[c] /\ NoFault /\ WarmLoop(c)
       \/ /\ cache' \in {cache, cache \cup snap[c]}
          /\ Fault("cache")
          /\ Resume(c)
          /\ UNCHANGED todo
    /\ UNCHANGED <<roles, snap, after>>

\* EXISTS for the next member; a missing key or an error skips the member.
WarmNext(c) ==
    /\ pc[c] = "warm_next"
    /\ \/ todo[c] = {} /\ NoFault /\ Resume(c) /\ UNCHANGED todo
       \/ todo[c] # {} /\ cache # {} /\ NoFault /\ Goto(c, "warm_add") /\ UNCHANGED todo
       \/ /\ (cache = {} /\ NoFault) \/ Fault("cache")
          /\ \E u \in todo[c] : todo' = [todo EXCEPT ![c] = @ \ {u}]
          /\ UNCHANGED <<pc, answer>>
    /\ UNCHANGED <<stores, snap, after>>

WarmAdd(c) ==
    /\ pc[c] = "warm_add"
    /\ \E u \in todo[c] :
         /\ todo' = [todo EXCEPT ![c] = @ \ {u}]
         /\ \/ cache' = cache \cup {u} /\ NoFault
            \/ UNCHANGED cache /\ Fault("cache")
    /\ Goto(c, "warm_next")
    /\ UNCHANGED <<roles, snap, after>>

----------------------------------------------------------------------------
\* The replica serving the call stops.
Crash(c) ==
    /\ pc[c] \notin {"start", "done"}
    /\ Fault("crash")
    /\ Return(c, "crashed")
    /\ UNCHANGED <<stores, locals>>

\* Valkey evicts the key or restarts without it.
CacheLoss ==
    /\ cache # {}
    /\ Fault("loss")
    /\ cache' = {}
    /\ UNCHANGED <<roles, pc, locals, answer>>

Step(c) ==
    \/ Start(c) \/ CreateRoom(c) \/ SetOwner(c)
    \/ ReadCache(c) \/ ReadPrimary(c) \/ Decide(c) \/ GetMemberRole(c)
    \/ AddMember(c) \/ CacheExists(c) \/ CacheSadd(c) \/ Reread(c)
    \/ WarmExists(c) \/ WarmSadd(c) \/ WarmNext(c) \/ WarmAdd(c)

Next == (\E c \in Calls : Step(c) \/ Crash(c)) \/ CacheLoss

Spec == Init /\ [][Next]_roomVars

----------------------------------------------------------------------------
\* Every variable holds a value of its kind.
TypeOK ==
    /\ roles \in [Users -> {"none", "member", "owner"}]
    /\ cache \subseteq Users
    /\ pc \in [Calls -> Labels]
    /\ snap \in [Calls -> SUBSET Users]
    /\ todo \in [Calls -> SUBSET Users]
    /\ after \in [Calls -> {"done", "decide", "set_owner"}]
    /\ answer \in [Calls -> Answers]
    /\ faults \in 0..MaxFaults

\* Nobody is let into a room on the word of the cache alone: whatever fails
\* and however fills, reads and joins interleave, the cached set and every
\* set a call was given hold members of the room in Postgres only.
CacheWithinMembers ==
    /\ cache \subseteq Members
    /\ \A c \in Calls : snap[c] \subseteq Members

Quiet == \A c \in Calls : pc[c] \in {"start", "done"}

\* Without faults, the cache misses nobody: a member is in it by the time the join
\* that added it returns, even when a fill with an older list of members overlaps
\* it, and once no call is under way it has the whole room or nothing of it.
CompleteWithoutFaults ==
    faults = 0 =>
        /\ \A c \in Calls :
              Op[c].kind = "join" /\ answer[c] = "ok" => Op[c].user \in cache
        /\ Quiet => cache \in {{}, Members}

\* Package roomcache: the cache is never more than the room and, without faults, not less.
CacheIsFaithful == CacheWithinMembers /\ CompleteWithoutFaults

\* A room left without an owner never changes again: nobody may add members
\* to it, and nothing makes anyone its owner once its creation is over.
OwnerlessRoomIsFrozen ==
    [][ (/\ Members # {}
         /\ \A u \in Users : roles[u] # "owner"
         /\ \A c \in Calls : Op[c].kind = "create" => pc[c] \in {"start", "done"})
        => roles' = roles ]_roomVars
============================================================================
