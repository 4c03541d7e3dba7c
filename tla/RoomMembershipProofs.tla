----------------------- MODULE RoomMembershipProofs ------------------------
(***************************************************************************)
(* Rooms, for every number of users and concurrent calls: the cache never  *)
(* lets anybody in, whatever fails; without faults it misses nobody; and a *)
(* room without an owner never changes again.                              *)
(***************************************************************************)
EXTENDS RoomMembership, TLAPS

LEMMA FaultType ==
    ASSUME faults \in 0..MaxFaults, NEW k
    PROVE  (Fault(k) \/ NoFault) => faults' \in 0..MaxFaults
BY RoomAssumption DEF RoomAssumption, Fault, NoFault

LEMMA OpType ==
    ASSUME NEW c \in Calls
    PROVE  Op[c].actor \in Users /\ Op[c].user \in Users
BY RoomAssumption DEF RoomAssumption

\* Control moves between known labels.
LEMMA ControlType ==
    ASSUME TypeOK, NEW c \in Calls, Step(c) \/ Crash(c)
    PROVE  /\ pc' \in [Calls -> Labels]
           /\ answer' \in [Calls -> Answers]
           /\ after' \in [Calls -> {"done", "decide", "set_owner"}]
<1>g. \A l \in Labels : Goto(c, l) => /\ pc' \in [Calls -> Labels]
                                      /\ answer' \in [Calls -> Answers]
  BY DEF Goto, TypeOK
<1>r. \A a \in Answers : Return(c, a) => /\ pc' \in [Calls -> Labels]
                                         /\ answer' \in [Calls -> Answers]
  BY DEF Return, TypeOK, Labels
<1>s. Resume(c) => /\ pc' \in [Calls -> Labels]
                   /\ answer' \in [Calls -> Answers]
  <2>1. after[c] \in Labels
    BY DEF TypeOK, Labels
  <2>2. QED
    BY <2>1, <1>g, <1>r DEF Resume, Answers
<1>w. \A l \in {"done", "decide", "set_owner"} :
        Warm(c, l) => /\ pc' \in [Calls -> Labels]
                      /\ answer' \in [Calls -> Answers]
                      /\ after' \in [Calls -> {"done", "decide", "set_owner"}]
  BY <1>g DEF Warm, TypeOK, Labels
<1>u. UNCHANGED after => after' \in [Calls -> {"done", "decide", "set_owner"}]
  BY DEF TypeOK
<1>1. CASE Start(c)
  BY <1>1, <1>g, <1>r, <1>u DEF Start, locals, Labels, Answers
<1>2. CASE CreateRoom(c)
  BY <1>2, <1>w, <1>r, <1>u DEF CreateRoom, Answers
<1>3. CASE SetOwner(c) \/ Crash(c)
  BY <1>3, <1>r, <1>u DEF SetOwner, Crash, locals, Answers
<1>4. CASE ReadCache(c)
  BY <1>4, <1>g, <1>u DEF ReadCache, Labels
<1>5. CASE ReadPrimary(c)
  BY <1>5, <1>w, <1>r, <1>u DEF ReadPrimary, Answers
<1>6. CASE Decide(c) \/ GetMemberRole(c) \/ AddMember(c)
  BY <1>6, <1>g, <1>r, <1>u DEF Decide, GetMemberRole, AddMember, locals, Labels, Answers
<1>7. CASE CacheExists(c) \/ CacheSadd(c)
  BY <1>7, <1>g, <1>r, <1>u DEF CacheExists, CacheSadd, locals, Labels, Answers
<1>8. CASE Reread(c)
  BY <1>8, <1>w, <1>r, <1>u DEF Reread, Answers
<1>9. CASE WarmExists(c) \/ WarmSadd(c) \/ WarmAdd(c)
  BY <1>9, <1>g, <1>s, <1>u DEF WarmExists, WarmSadd, WarmAdd, WarmLoop, Labels
<1>10. CASE WarmNext(c)
  <2>1. CASE UNCHANGED <<pc, answer>>
    BY <1>10, <2>1, <1>u DEF WarmNext, TypeOK
  <2>2. QED
    BY <1>10, <2>1, <1>g, <1>s, <1>u DEF WarmNext, Labels
<1>11. QED
  BY <1>1, <1>2, <1>3, <1>4, <1>5, <1>6, <1>7, <1>8, <1>9, <1>10 DEF Step

LEMMA FaultsType ==
    ASSUME TypeOK, NEW c \in Calls, Step(c) \/ Crash(c)
    PROVE  faults' \in 0..MaxFaults
BY FaultType
DEF TypeOK, Step, Crash, Start, CreateRoom, SetOwner, ReadCache, ReadPrimary, Decide,
    GetMemberRole, AddMember, CacheExists, CacheSadd, Reread, WarmExists, WarmSadd,
    WarmNext, WarmAdd

\* What a call has still to add to the cache was read from Postgres.
MembersInv ==
    /\ CacheWithinMembers
    /\ \A c \in Calls : todo[c] \subseteq Members

\* No step takes a member out of the room.
LEMMA RolesGrow ==
    ASSUME TypeOK, NEW c \in Calls, Step(c) \/ Crash(c)
    PROVE  /\ roles' \in [Users -> {"none", "member", "owner"}]
           /\ Members \subseteq Members'
<1>1. CASE UNCHANGED roles
  BY <1>1 DEF TypeOK, Members
<1>2. CASE CreateRoom(c)
  BY <1>1, <1>2 DEF CreateRoom, TypeOK, Members
<1>3. CASE SetOwner(c) \/ AddMember(c)
  <2>1. Op[c].actor \in Users /\ Op[c].user \in Users
    BY OpType
  <2>2. QED
    BY <1>1, <1>3, <2>1 DEF SetOwner, AddMember, TypeOK, Members
<1>4. QED
  BY <1>1, <1>2, <1>3
  DEF Step, Crash, Start, ReadCache, ReadPrimary, Decide, GetMemberRole, CacheExists,
      CacheSadd, Reread, WarmExists, WarmSadd, WarmNext, WarmAdd, stores

\* A joiner reaches the cache only when it is a member.
JoinInv ==
    \A c \in Calls : pc[c] \in {"exists", "sadd"} => Op[c].user \in Members

LEMMA StepMembers ==
    ASSUME TypeOK, MembersInv, JoinInv, NEW c \in Calls, Step(c) \/ Crash(c)
    PROVE  MembersInv' /\ JoinInv'
<1>0. Members \subseteq Members' /\ Members \subseteq Users
  BY RolesGrow DEF Members
<1>a. cache' \subseteq Members'
  <2>1. CASE cache' = cache
    BY <1>0, <2>1 DEF MembersInv, CacheWithinMembers
  <2>2. CASE CacheSadd(c)
    BY <1>0, <2>2 DEF CacheSadd, MembersInv, CacheWithinMembers, JoinInv
  <2>3. CASE WarmSadd(c)
    BY <1>0, <2>3 DEF WarmSadd, MembersInv, CacheWithinMembers
  <2>4. CASE WarmAdd(c)
    BY <1>0, <2>4 DEF WarmAdd, MembersInv, CacheWithinMembers
  <2>5. QED
    BY <2>1, <2>2, <2>3, <2>4
    DEF Step, Crash, Start, CreateRoom, SetOwner, ReadCache, ReadPrimary, Decide,
        GetMemberRole, AddMember, CacheExists, Reread, WarmExists, WarmNext, stores
<1>b. \A d \in Calls : snap'[d] \subseteq Members'
  <2>1. CASE snap' = snap
    BY <1>0, <2>1 DEF MembersInv, CacheWithinMembers
  <2>2. CASE snap' = [snap EXCEPT ![c] = Members] \/ snap' = [snap EXCEPT ![c] = cache]
    BY <1>0, <2>2 DEF MembersInv, CacheWithinMembers, TypeOK
  <2>3. CASE CreateRoom(c)
    <3>1. Op[c].actor \in Users /\ Op[c].user \in Users
      BY OpType
    <3>2. QED
      BY <1>0, <2>1, <2>3, <3>1 DEF CreateRoom, MembersInv, CacheWithinMembers, Members, TypeOK
  <2>4. QED
    BY <2>1, <2>2, <2>3
    DEF Step, Crash, Start, SetOwner, ReadCache, ReadPrimary, Decide,
        GetMemberRole, AddMember, CacheExists, CacheSadd, Reread, WarmExists, WarmSadd,
        WarmNext, WarmAdd, locals
<1>c. \A d \in Calls : todo'[d] \subseteq Members'
  <2>1. CASE todo' = todo
    BY <1>0, <2>1 DEF MembersInv
  <2>2. CASE todo' = [todo EXCEPT ![c] = snap[c]]
    BY <1>0, <2>2 DEF MembersInv, CacheWithinMembers, TypeOK
  <2>3. CASE \E u \in todo[c] : todo' = [todo EXCEPT ![c] = @ \ {u}]
    BY <1>0, <2>3 DEF MembersInv, TypeOK
  <2>4. QED
    BY <2>1, <2>2, <2>3
    DEF Step, Crash, Start, CreateRoom, SetOwner, ReadCache, ReadPrimary, Decide,
        GetMemberRole, AddMember, CacheExists, CacheSadd, Reread, WarmExists, WarmSadd,
        WarmNext, WarmAdd, WarmLoop, locals
<1>d. JoinInv'
  <2>1. \A d \in Calls \ {c} : pc'[d] = pc[d]
    BY DEF Step, Crash, Start, CreateRoom, SetOwner, ReadCache, ReadPrimary, Decide,
           GetMemberRole, AddMember, CacheExists, CacheSadd, Reread, WarmExists, WarmSadd,
           WarmNext, WarmAdd, WarmLoop, Warm, Resume, Goto, Return, TypeOK
  <2>2. pc'[c] \in {"exists", "sadd"} => Op[c].user \in Members'
    <3>1. CASE AddMember(c)
      BY <3>1, OpType DEF AddMember, Members, Return, TypeOK
    <3>2. CASE CacheExists(c)
      BY <3>2, <1>0 DEF CacheExists, JoinInv
    <3>3. CASE WarmNext(c) /\ UNCHANGED pc
      BY <3>3 DEF WarmNext
    <3>4. ASSUME Resume(c) PROVE pc'[c] \notin {"exists", "sadd"}
      BY <3>4 DEF Resume, Goto, Return, TypeOK
    <3>5. QED
      BY <3>1, <3>2, <3>3, <3>4
      DEF Step, Crash, Start, CreateRoom, SetOwner, ReadCache, ReadPrimary, Decide,
          GetMemberRole, CacheSadd, Reread, WarmExists, WarmSadd,
          WarmNext, WarmAdd, WarmLoop, Warm, Goto, Return, TypeOK
  <2>3. QED
    BY <1>0, <2>1, <2>2 DEF JoinInv
<1>e. QED
  BY <1>a, <1>b, <1>c, <1>d DEF MembersInv, CacheWithinMembers

RoomInv == TypeOK /\ MembersInv /\ JoinInv

LEMMA StepInv == RoomInv /\ [Next]_roomVars => RoomInv'
<1> SUFFICES ASSUME RoomInv, [Next]_roomVars PROVE RoomInv'
  OBVIOUS
<1> USE DEF RoomInv
<1>1. ASSUME NEW c \in Calls, Step(c) \/ Crash(c) PROVE RoomInv'
  <2>1. MembersInv' /\ JoinInv'
    BY <1>1, StepMembers
  <2>2. roles' \in [Users -> {"none", "member", "owner"}]
    BY <1>1, RolesGrow
  <2>3. cache' \subseteq Users
    BY <2>1 DEF MembersInv, CacheWithinMembers, Members
  <2>4. snap' \in [Calls -> SUBSET Users] /\ todo' \in [Calls -> SUBSET Users]
    <3>1. Op[c].actor \in Users /\ Op[c].user \in Users /\ Members \subseteq Users
      BY OpType DEF Members
    <3>2. QED
      BY <1>1, <3>1
      DEF Step, Crash, Start, CreateRoom, SetOwner, ReadCache, ReadPrimary, Decide,
          GetMemberRole, AddMember, CacheExists, CacheSadd, Reread, WarmExists, WarmSadd,
          WarmNext, WarmAdd, WarmLoop, locals, TypeOK
  <2>5. QED
    BY <1>1, <2>1, <2>2, <2>3, <2>4, ControlType, FaultsType DEF TypeOK
<1>2. CASE CacheLoss
  BY <1>2, FaultType DEF CacheLoss, TypeOK, MembersInv, JoinInv, CacheWithinMembers, Members, locals
<1>3. CASE UNCHANGED roomVars
  BY <1>3 DEF roomVars, TypeOK, MembersInv, JoinInv, CacheWithinMembers, Members
<1>4. QED
  BY <1>1, <1>2, <1>3 DEF Next

LEMMA RoomInvariant == Spec => []RoomInv
<1>1. Init => RoomInv
  BY RoomAssumption
  DEF Init, RoomInv, TypeOK, MembersInv, JoinInv, CacheWithinMembers, Members, Labels, Answers,
      RoomAssumption
<1>2. QED
  BY <1>1, StepInv, PTL DEF Spec

\* Every reachable state is well typed.
THEOREM RoomTypes == Spec => []TypeOK
<1>1. RoomInv => TypeOK
  BY DEF RoomInv
<1>2. QED
  BY <1>1, RoomInvariant, PTL

\* The cache, and every list of members a call was given, holds members of the
\* room in Postgres only.
THEOREM CacheIsSafe == Spec => []CacheWithinMembers
<1>1. RoomInv => CacheWithinMembers
  BY DEF RoomInv, MembersInv
<1>2. QED
  BY <1>1, RoomInvariant, PTL

----------------------------------------------------------------------------
\* Which calls pass a label, and what a call has made sure of by then.
Warming == {"warm_exists", "warm_sadd", "warm_next", "warm_add"}

CallInv(c) ==
    /\ pc[c] \in {"create", "set_owner"} => Op[c].kind = "create"
    /\ pc[c] \in {"list", "primary", "decide"} => Op[c].kind # "create"
    /\ pc[c] \in {"role", "add", "exists", "sadd", "reread"} => Op[c].kind = "join"
    /\ pc[c] \in Warming =>
          /\ snap[c] # {}
          /\ after[c] = "set_owner" => Op[c].kind = "create" /\ Op[c].actor \in snap[c]
          /\ after[c] = "decide" => Op[c].kind # "create"
          /\ after[c] = "done" => Op[c].kind = "join" /\ Op[c].user \in snap[c]
    /\ pc[c] = "add" => roles[Op[c].actor] = "owner"
    /\ pc[c] = "reread" => Op[c].user \in Members
    /\ pc[c] = "set_owner" => Op[c].actor \in Members

\* A call moves nobody but itself.
LEMMA OthersStay ==
    ASSUME TypeOK, NEW c \in Calls, Step(c) \/ Crash(c), NEW d \in Calls, d # c
    PROVE  /\ pc'[d] = pc[d] /\ snap'[d] = snap[d] /\ todo'[d] = todo[d]
           /\ after'[d] = after[d] /\ answer'[d] = answer[d]
<1>1. pc'[d] = pc[d] /\ answer'[d] = answer[d]
  BY DEF Step, Crash, Start, CreateRoom, SetOwner, ReadCache, ReadPrimary, Decide,
         GetMemberRole, AddMember, CacheExists, CacheSadd, Reread, WarmExists, WarmSadd,
         WarmNext, WarmAdd, WarmLoop, Warm, Resume, Goto, Return, TypeOK
<1>2. snap'[d] = snap[d] /\ todo'[d] = todo[d] /\ after'[d] = after[d]
  BY DEF Step, Crash, Start, CreateRoom, SetOwner, ReadCache, ReadPrimary, Decide,
         GetMemberRole, AddMember, CacheExists, CacheSadd, Reread, WarmExists, WarmSadd,
         WarmNext, WarmAdd, WarmLoop, Warm, Resume, Goto, Return, TypeOK, locals
<1> QED BY <1>1, <1>2

\* Nobody stops being an owner.
LEMMA OwnersStay ==
    ASSUME TypeOK, NEW c \in Calls, Step(c) \/ Crash(c),
           NEW u \in Users, roles[u] = "owner"
    PROVE  roles'[u] = "owner"
<1>1. u \in Members
  BY DEF Members
<1>2. CASE UNCHANGED roles
  BY <1>2
<1>3. CASE CreateRoom(c)
  BY <1>1, <1>2, <1>3 DEF CreateRoom
<1>4. CASE SetOwner(c) \/ AddMember(c)
  BY <1>2, <1>4, OpType DEF SetOwner, AddMember, TypeOK
<1> QED
  BY <1>2, <1>3, <1>4
  DEF Step, Crash, Start, ReadCache, ReadPrimary, Decide, GetMemberRole, CacheExists,
      CacheSadd, Reread, WarmExists, WarmSadd, WarmNext, WarmAdd, stores

LEMMA CallStep ==
    ASSUME RoomInv, NEW c \in Calls, CallInv(c), Step(c) \/ Crash(c)
    PROVE  CallInv(c)'
<1> USE DEF RoomInv
<1>0. /\ Op[c].actor \in Users /\ Op[c].user \in Users /\ Op[c].kind \in Kinds
      /\ Members \subseteq Members'
  BY RolesGrow, RoomAssumption DEF RoomAssumption
<1>g. \A l : Goto(c, l) => pc'[c] = l
  BY DEF Goto, TypeOK
<1>r. \A a : Return(c, a) => CallInv(c)'
  <2>1. \A a : Return(c, a) => pc'[c] = "done"
    BY DEF Return, TypeOK
  <2> QED BY <2>1 DEF CallInv, Warming
<1>1. CASE Start(c)
  BY <1>1, <1>g, <1>r DEF Start, CallInv, Warming, locals
<1>2. CASE CreateRoom(c) \/ ReadPrimary(c) \/ Reread(c)
  <2>1. ASSUME NEW l, Warm(c, l) PROVE pc'[c] = "warm_exists" /\ after'[c] = l
    BY <2>1, <1>g DEF Warm, TypeOK
  <2>2. CASE CreateRoom(c)
    <3>1. CASE snap' = [snap EXCEPT ![c] = {Op[c].actor, Op[c].user}] /\ Warm(c, "set_owner")
      <4>1. /\ snap'[c] # {} /\ Op[c].actor \in snap'[c]
            /\ pc'[c] = "warm_exists" /\ after'[c] = "set_owner"
        BY <2>1, <3>1 DEF TypeOK
      <4> QED BY <4>1, <2>2 DEF CreateRoom, CallInv, Warming
    <3> QED BY <2>2, <3>1, <1>r DEF CreateRoom
  <2>3. CASE ReadPrimary(c)
    <3>1. CASE Members # {} /\ snap' = [snap EXCEPT ![c] = Members] /\ Warm(c, "decide")
      <4>1. snap'[c] # {} /\ pc'[c] = "warm_exists" /\ after'[c] = "decide"
        BY <2>1, <3>1 DEF TypeOK
      <4> QED BY <4>1, <2>3 DEF ReadPrimary, CallInv, Warming
    <3> QED BY <2>3, <3>1, <1>r DEF ReadPrimary
  <2>4. CASE Reread(c)
    <3>1. CASE snap' = [snap EXCEPT ![c] = Members] /\ Warm(c, "done")
      <4>1. snap'[c] = Members /\ pc'[c] = "warm_exists" /\ after'[c] = "done"
        BY <2>1, <3>1 DEF TypeOK
      <4> QED BY <4>1, <2>4 DEF Reread, CallInv, Warming
    <3> QED BY <2>4, <3>1, <1>r DEF Reread
  <2> QED BY <1>2, <2>2, <2>3, <2>4
<1>3. CASE ReadCache(c) \/ Decide(c)
  BY <1>0, <1>3, <1>g, <1>r DEF ReadCache, Decide, CallInv, Warming, Kinds
<1>4. CASE GetMemberRole(c)
  <2>1. roles[Op[c].actor] # "admin"
    BY <1>0 DEF TypeOK
  <2> QED BY <1>4, <2>1, <1>g, <1>r DEF GetMemberRole, CallInv, Warming, stores
<1>5. CASE AddMember(c) \/ CacheExists(c)
  <2>1. CASE Goto(c, "exists") \/ Goto(c, "sadd")
    BY <1>5, <2>1, <1>g DEF AddMember, CacheExists, CallInv, Warming
  <2>2. CASE Goto(c, "reread") /\ CacheExists(c)
    <3>1. Op[c].user \in Members'
      BY <2>2, <1>0 DEF CacheExists, JoinInv
    <3> QED BY <2>2, <3>1, <1>g DEF CacheExists, CallInv, Warming
  <2> QED BY <1>5, <2>1, <2>2, <1>r DEF AddMember, CacheExists
<1>6. CASE WarmExists(c) \/ WarmSadd(c) \/ WarmNext(c) \/ WarmAdd(c)
  <2>1. /\ pc[c] \in Warming /\ UNCHANGED <<snap, after>>
        /\ UNCHANGED <<pc>> \/ Resume(c) \/ \E l \in Warming : Goto(c, l)
    BY <1>6 DEF WarmExists, WarmSadd, WarmNext, WarmAdd, WarmLoop, Warming
  <2>2. CASE Resume(c)
    <3>1. CASE after[c] = "done"
      BY <2>2, <3>1, <1>r DEF Resume
    <3>2. CASE after[c] # "done"
      <4>1. pc'[c] = after[c] /\ after[c] \in {"decide", "set_owner"}
        BY <2>2, <3>2, <1>g DEF Resume, TypeOK
      <4>2. snap[c] \subseteq Members'
        BY <1>0 DEF MembersInv, CacheWithinMembers
      <4> QED BY <2>1, <4>1, <4>2 DEF CallInv, Warming
    <3> QED BY <3>1, <3>2
  <2>3. CASE pc'[c] \in Warming
    BY <2>1, <2>3 DEF CallInv, Warming
  <2> QED BY <2>1, <2>2, <2>3, <1>g DEF Warming
<1>7. CASE SetOwner(c) \/ CacheSadd(c) \/ Crash(c)
  BY <1>7, <1>r DEF SetOwner, CacheSadd, Crash
<1> QED BY <1>1, <1>2, <1>3, <1>4, <1>5, <1>6, <1>7 DEF Step

CallsInv == RoomInv /\ \A c \in Calls : CallInv(c)

LEMMA CallsInvariant == Spec => []CallsInv
<1>1. Init => \A c \in Calls : CallInv(c)
  BY DEF Init, CallInv, Warming
<1>2. CallsInv /\ [Next]_roomVars => \A c \in Calls : CallInv(c)'
  <2> SUFFICES ASSUME CallsInv, [Next]_roomVars, NEW d \in Calls PROVE CallInv(d)'
    OBVIOUS
  <2>0. RoomInv /\ TypeOK /\ CallInv(d) /\ Op[d].actor \in Users
    BY OpType DEF CallsInv, RoomInv
  <2>1. ASSUME NEW c \in Calls, c # d, Step(c) \/ Crash(c) PROVE CallInv(d)'
    <3>1. /\ pc'[d] = pc[d] /\ snap'[d] = snap[d] /\ after'[d] = after[d]
          /\ Members \subseteq Members'
          /\ roles[Op[d].actor] = "owner" => roles'[Op[d].actor] = "owner"
      BY <2>0, <2>1, OthersStay, OwnersStay, RolesGrow
    <3> QED BY <2>0, <3>1 DEF CallInv
  <2>2. CASE Step(d) \/ Crash(d)
    BY <2>0, <2>2, CallStep
  <2>3. CASE CacheLoss \/ UNCHANGED roomVars
    BY <2>0, <2>3 DEF CacheLoss, roomVars, locals, CallInv, Members
  <2> QED BY <2>1, <2>2, <2>3 DEF Next
<1>3. CallsInv /\ [Next]_roomVars => RoomInv'
  BY StepInv DEF CallsInv
<1>4. (\A c \in Calls : CallInv(c)') => (\A c \in Calls : CallInv(c))'
  OBVIOUS
<1>5. CallsInv /\ [Next]_roomVars => CallsInv'
  BY <1>2, <1>3, <1>4 DEF CallsInv
<1> QED BY <1>1, <1>5, RoomInvariant, PTL DEF Spec, CallsInv

\* JoinRoom and CreateRoom: for any number of users and calls and whatever fails, a room
\* that has no owner once its creation is over keeps its members for ever.
THEOREM OwnerlessRoomStaysFrozen == Spec => OwnerlessRoomIsFrozen
<1> DEFINE Ownerless == /\ Members # {}
                        /\ \A u \in Users : roles[u] # "owner"
                        /\ \A c \in Calls : Op[c].kind = "create" => pc[c] \in {"start", "done"}
<1>1. CallsInv /\ [Next]_roomVars => [Ownerless => roles' = roles]_roomVars
  <2> SUFFICES ASSUME CallsInv, Next, Ownerless PROVE roles' = roles
    OBVIOUS
  <2>1. ASSUME NEW c \in Calls, Step(c) \/ Crash(c) PROVE roles' = roles
    <3>1. CallInv(c) /\ Op[c].actor \in Users
      BY OpType DEF CallsInv
    <3>2. ~CreateRoom(c) /\ ~SetOwner(c) /\ ~AddMember(c)
      BY <3>1 DEF CallInv, CreateRoom, SetOwner, AddMember
    <3> QED
      BY <2>1, <3>2
      DEF Step, Crash, Start, ReadCache, ReadPrimary, Decide, GetMemberRole, CacheExists,
          CacheSadd, Reread, WarmExists, WarmSadd, WarmNext, WarmAdd, stores
  <2> QED BY <2>1 DEF Next, CacheLoss
<1> QED BY <1>1, CallsInvariant, PTL DEF Spec, OwnerlessRoomIsFrozen

----------------------------------------------------------------------------
\* Without faults: a member is in the cache or some call has still to put it there.
Owes(c, u) ==
    \/ pc[c] \in {"exists", "sadd", "reread"} /\ u = Op[c].user
    \/ pc[c] \in {"warm_exists", "warm_sadd"} /\ u \in snap[c]
    \/ pc[c] \in {"warm_next", "warm_add"} /\ u \in todo[c]

\* A call in the member loop has found or made the set, and what it read is there or to do.
Filling(c) ==
    /\ pc[c] \in {"warm_next", "warm_add"} => cache # {} /\ snap[c] \subseteq cache \cup todo[c]
    /\ Op[c].kind = "join" /\ answer[c] = "ok" => Op[c].user \in cache

FillInv ==
    /\ \A c \in Calls : Filling(c)
    /\ \A u \in Members : u \in cache \/ \E c \in Calls : Owes(c, u)

\* A step without a fault.
LEMMA SoundStep ==
    ASSUME CallsInv, NEW c \in Calls, Step(c) \/ Crash(c), faults' = 0
    PROVE  /\ faults = 0 /\ Step(c) /\ ~(\E k : Fault(k))
           /\ CallInv(c)
BY DEF CallsInv, RoomInv, TypeOK, Step, Crash, Fault, NoFault, Start, CreateRoom, SetOwner,
       ReadCache, ReadPrimary, Decide, GetMemberRole, AddMember, CacheExists, CacheSadd, Reread,
       WarmExists, WarmSadd, WarmNext, WarmAdd

LEMMA CacheGrows ==
    ASSUME NEW c \in Calls, Step(c)
    PROVE  cache \subseteq cache'
BY DEF Step, Start, CreateRoom, SetOwner, ReadCache, ReadPrimary, Decide, GetMemberRole,
       AddMember, CacheExists, CacheSadd, Reread, WarmExists, WarmSadd, WarmNext, WarmAdd, stores

LEMMA FillStep ==
    ASSUME CallsInv, FillInv, NEW c \in Calls, Step(c), CallInv(c), ~(\E k : Fault(k))
    PROVE  /\ Filling(c)'
           /\ \A u \in Members : u \in cache' \/ Owes(c, u) => u \in cache' \/ Owes(c, u)'
           /\ \A u \in Members' \ Members : Owes(c, u)'
<1>0. /\ TypeOK /\ JoinInv /\ Filling(c) /\ cache \subseteq cache'
      /\ Op[c].actor \in Users /\ Op[c].user \in Users
  BY CacheGrows, OpType DEF CallsInv, RoomInv, FillInv
<1>g. \A l : Goto(c, l) => pc'[c] = l /\ answer'[c] = answer[c]
  BY <1>0 DEF Goto, TypeOK
<1>r. \A a : Return(c, a) => pc'[c] = "done" /\ answer'[c] = a
  BY <1>0 DEF Return, TypeOK
<1>1. CASE \/ Start(c) \/ SetOwner(c) \/ ReadCache(c) \/ Decide(c) \/ GetMemberRole(c)
  <2>1. /\ Members' = Members
        /\ pc'[c] \notin {"warm_next", "warm_add"} /\ \A u : ~Owes(c, u)
        /\ answer'[c] \notin {"ok"} \/ answer'[c] = answer[c] \/ Op[c].kind # "join"
    <3>1. CASE SetOwner(c)
      BY <3>1, <1>0, <1>r DEF SetOwner, Members, TypeOK, CallInv, Owes
    <3>2. CASE Decide(c)
      BY <3>2, <1>g, <1>r DEF Decide, Members, stores, Owes
    <3> QED BY <1>1, <3>1, <3>2, <1>g, <1>r
            DEF Start, ReadCache, GetMemberRole, stores, Members, Owes
  <2> QED BY <1>0, <2>1 DEF Filling
<1>2. CASE CreateRoom(c)
  <2>1. CASE Members = {}
    <3>1. /\ roles' = [u \in Users |-> IF u \in {Op[c].actor, Op[c].user}
                                        THEN "member" ELSE "none"]
          /\ snap'[c] = {Op[c].actor, Op[c].user} /\ pc'[c] = "warm_exists"
          /\ answer'[c] = answer[c]
      BY <1>0, <1>2, <1>g, <2>1 DEF CreateRoom, Warm, TypeOK
    <3>2. \A u \in Members' : Owes(c, u)'
      BY <3>1 DEF Members, Owes
    <3> QED BY <1>0, <2>1, <3>1, <3>2 DEF Filling
  <2>2. CASE Members # {}
    <3>1. Members' = Members /\ pc'[c] = "done" /\ answer'[c] = "error" /\ pc[c] = "create"
      BY <1>2, <1>r, <2>2 DEF CreateRoom, Members
    <3> QED BY <3>1 DEF Filling, Owes
  <2> QED BY <2>1, <2>2
<1>3. CASE ReadPrimary(c)
  <2>1. /\ Members' = Members /\ pc[c] = "primary" /\ answer'[c] \in {answer[c], "not_found"}
        /\ pc'[c] \in {"warm_exists", "done"}
    BY <1>3, <1>g, <1>r DEF ReadPrimary, Warm, stores, Members
  <2> QED BY <1>0, <2>1 DEF Filling, Owes
<1>4. CASE AddMember(c)
  <2>1. /\ roles' = [roles EXCEPT ![Op[c].user] = IF @ = "none" THEN "member" ELSE @]
        /\ pc'[c] = "exists" /\ answer'[c] = answer[c] /\ pc[c] = "add"
    BY <1>4, <1>g DEF AddMember
  <2>2. Members' = Members \cup {Op[c].user}
    BY <1>0, <2>1 DEF Members, TypeOK
  <2> QED BY <1>0, <2>1, <2>2 DEF Filling, Owes
<1>5. CASE CacheExists(c)
  <2>1. /\ Members' = Members /\ pc'[c] \in {"reread", "sadd"} /\ answer'[c] = answer[c]
        /\ pc[c] = "exists"
    BY <1>5, <1>g DEF CacheExists, stores, Members
  <2> QED BY <1>0, <2>1 DEF Filling, Owes
<1>6. CASE CacheSadd(c)
  <2>1. /\ Members' = Members /\ pc'[c] = "done" /\ cache' = cache \cup {Op[c].user}
        /\ pc[c] = "sadd"
    BY <1>6, <1>r DEF CacheSadd, Members
  <2> QED BY <2>1 DEF Filling, Owes
<1>7. CASE Reread(c)
  <2>1. /\ Members' = Members /\ pc'[c] = "warm_exists" /\ answer'[c] = answer[c]
        /\ snap'[c] = Members /\ pc[c] = "reread"
    BY <1>0, <1>7, <1>g DEF Reread, Warm, stores, Members, TypeOK
  <2> QED BY <1>0, <2>1 DEF Filling, Owes
<1>8. CASE WarmExists(c)
  <2>1. /\ Members' = Members /\ answer'[c] = answer[c] /\ pc[c] = "warm_exists"
        /\ snap'[c] = snap[c] /\ cache' = cache
    BY <1>8, <1>g DEF WarmExists, WarmLoop, stores, Members
  <2>2. CASE cache = {} /\ pc'[c] = "warm_sadd"
    BY <1>0, <2>1, <2>2 DEF Filling, Owes
  <2>3. CASE cache # {} /\ pc'[c] = "warm_next" /\ todo'[c] = snap[c]
    BY <1>0, <2>1, <2>3 DEF Filling, Owes
  <2> QED BY <1>8, <1>g, <1>0, <2>2, <2>3 DEF WarmExists, WarmLoop, TypeOK
<1>9. CASE WarmSadd(c)
  <2>1. /\ Members' = Members /\ answer'[c] = answer[c] /\ pc[c] = "warm_sadd"
        /\ snap'[c] = snap[c] /\ cache' = cache \cup snap[c]
        /\ pc'[c] = "warm_next" /\ todo'[c] = snap[c]
    BY <1>0, <1>9, <1>g DEF WarmSadd, WarmLoop, Members, TypeOK
  <2>2. snap[c] # {}
    BY <2>1 DEF CallInv, Warming
  <2> QED BY <1>0, <2>1, <2>2 DEF Filling, Owes
<1>10. CASE WarmNext(c)
  <2>0. /\ Members' = Members /\ pc[c] = "warm_next" /\ cache # {} /\ cache' = cache
        /\ snap[c] \subseteq cache \cup todo[c] /\ todo' = todo /\ snap' = snap
    BY <1>0, <1>10 DEF WarmNext, Filling, stores, Members
  <2>1. CASE todo[c] # {}
    <3>1. pc'[c] = "warm_add" /\ answer'[c] = answer[c]
      BY <1>10, <2>0, <2>1, <1>g DEF WarmNext
    <3> QED BY <1>0, <2>0, <3>1 DEF Filling, Owes
  <2>2. CASE todo[c] = {}
    <3>1. Resume(c)
      BY <1>10, <2>0, <2>2 DEF WarmNext
    <3>2. pc'[c] \in {"done", "decide", "set_owner"}
      BY <1>0, <3>1, <1>g, <1>r DEF Resume, TypeOK
    <3>3. answer'[c] = answer[c] \/ Op[c].user \in cache
      BY <2>0, <2>2, <3>1, <1>g DEF Resume, CallInv, Warming
    <3> QED BY <1>0, <2>0, <2>2, <3>2, <3>3 DEF Filling, Owes
  <2> QED BY <2>1, <2>2
<1>11. CASE WarmAdd(c)
  <2>1. PICK u \in todo[c] : todo' = [todo EXCEPT ![c] = @ \ {u}] /\ cache' = cache \cup {u}
    BY <1>11 DEF WarmAdd
  <2>2. /\ Members' = Members /\ pc'[c] = "warm_next" /\ answer'[c] = answer[c]
        /\ snap'[c] = snap[c] /\ todo'[c] = todo[c] \ {u} /\ pc[c] = "warm_add"
        /\ snap[c] \subseteq cache \cup todo[c]
    BY <1>0, <1>11, <2>1, <1>g DEF WarmAdd, TypeOK, Members, Filling
  <2> QED BY <1>0, <2>1, <2>2 DEF Filling, Owes
<1> QED BY <1>1, <1>2, <1>3, <1>4, <1>5, <1>6, <1>7, <1>8, <1>9, <1>10, <1>11 DEF Step

FilledWithoutFaults == faults = 0 => FillInv
CompleteInv == CallsInv /\ FilledWithoutFaults

LEMMA CompleteInvariant == Spec => []CompleteInv
<1>1. Init => FilledWithoutFaults
  BY DEF FilledWithoutFaults, Init, FillInv, Filling, Members
<1>2. CompleteInv /\ [Next]_roomVars => FilledWithoutFaults'
  <2> SUFFICES ASSUME CompleteInv, [Next]_roomVars, faults' = 0 PROVE FillInv'
    BY DEF FilledWithoutFaults
  <2>1. ASSUME NEW c \in Calls, Step(c) \/ Crash(c) PROVE FillInv'
    <3>0. CallsInv /\ TypeOK /\ FillInv /\ Step(c) /\ ~(\E k : Fault(k)) /\ CallInv(c)
      BY <2>1, SoundStep DEF CompleteInv, FilledWithoutFaults, CallsInv, RoomInv
    <3>1. /\ Filling(c)' /\ cache \subseteq cache'
          /\ \A u \in Members : u \in cache' \/ Owes(c, u) => u \in cache' \/ Owes(c, u)'
          /\ \A u \in Members' \ Members : Owes(c, u)'
      BY <3>0, FillStep, CacheGrows
    <3>2. ASSUME NEW d \in Calls, d # c
          PROVE  /\ pc'[d] = pc[d] /\ snap'[d] = snap[d] /\ todo'[d] = todo[d]
                 /\ after'[d] = after[d] /\ answer'[d] = answer[d]
      BY <3>0, <3>2, OthersStay
    <3>3. \A d \in Calls : Filling(d)'
      BY <3>0, <3>1, <3>2 DEF Filling, FillInv
    <3>4. ASSUME NEW u \in Members' PROVE u \in cache' \/ \E d \in Calls : Owes(d, u)'
      <4>1. ASSUME NEW d \in Calls, d # c, Owes(d, u) PROVE Owes(d, u)'
        BY <3>2, <4>1 DEF Owes
      <4>2. CASE u \in Members
        <5>1. u \in cache' \/ Owes(c, u) \/ \E d \in Calls \ {c} : Owes(d, u)
          BY <3>0, <3>1, <4>2 DEF FillInv
        <5> QED BY <3>1, <4>1, <4>2, <5>1
      <4> QED BY <3>1, <4>2
    <3> QED BY <3>3, <3>4 DEF FillInv
  <2>2. CASE UNCHANGED roomVars
    <3>1. FillInv /\ UNCHANGED <<roles, cache, pc, snap, todo, answer>>
      BY <2>2 DEF CompleteInv, FilledWithoutFaults, roomVars
    <3>2. Members' = Members /\ \A c, u : Owes(c, u)' = Owes(c, u)
      BY <3>1 DEF Members, Owes
    <3>3. \A c \in Calls : Filling(c)'
      BY <3>1 DEF FillInv, Filling
    <3> QED BY <3>1, <3>2, <3>3 DEF FillInv
  <2>3. ~CacheLoss
    BY DEF CacheLoss, Fault, CompleteInv, CallsInv, RoomInv, TypeOK
  <2> QED BY <2>1, <2>2, <2>3 DEF Next
<1> QED BY <1>1, <1>2, CallsInvariant, PTL DEF Spec, CompleteInv

\* Package roomcache: for any number of users and of overlapping joins, reads and fills, the
\* cache misses nobody whose join has returned, nor anybody once no call is under way, as long
\* as no request fails and no key is lost.
THEOREM CacheIsComplete == Spec => []CompleteWithoutFaults
<1>1. CompleteInv => CompleteWithoutFaults
  <2> SUFFICES ASSUME CallsInv, FillInv
               PROVE  /\ \A c \in Calls :
                            Op[c].kind = "join" /\ answer[c] = "ok" => Op[c].user \in cache
                      /\ Quiet => cache \in {{}, Members}
    BY DEF CompleteInv, FilledWithoutFaults, CompleteWithoutFaults
  <2>1. Quiet => \A c \in Calls, u \in Members : ~Owes(c, u)
    BY DEF Quiet, Owes
  <2>2. cache \subseteq Members
    BY DEF CallsInv, RoomInv, MembersInv, CacheWithinMembers
  <2>3. Quiet => Members \subseteq cache
    BY <2>1 DEF FillInv
  <2> QED BY <2>2, <2>3 DEF FillInv, Filling
<1> QED BY <1>1, CompleteInvariant, PTL

\* Package roomcache: for any number of users and calls the cache holds members only and,
\* without faults, misses nobody.
THEOREM CacheStaysFaithful == Spec => []CacheIsFaithful
<1>1. CacheWithinMembers /\ CompleteWithoutFaults => CacheIsFaithful
  BY DEF CacheIsFaithful
<1> QED BY <1>1, CacheIsSafe, CacheIsComplete, PTL
============================================================================
