--------------------------- MODULE PresenceProofs ---------------------------
(***************************************************************************)
(* A user with a connection that stays announced gets no push, for any     *)
(* number of connections and devices, any time to live of at least two     *)
(* refresh periods and any faults.                                         *)
(***************************************************************************)
EXTENDS Presence, TLAPS

\* Where a connection can be.
ConnInv(c) ==
    /\ pc[c] \in {"off", "set", "sadd", "expire"} => rpc[c] = "none"
    /\ pc[c] \in {"open", "del", "srem"} => rpc[c] # "none"
    /\ due[c] => rpc[c] = "wait"
    /\ found[c] = "found" => pc[c] = "open"
    /\ found[c] = "recovering" => \/ pc[c] \in {"sadd", "expire"}
                                  \/ pc[c] = "open" /\ rpc[c] \in {"sadd", "expire"}
    /\ c \in steady => pc[c] \in {"open", "del"}

\* Announced by its last refresh, as IsOnline should see it or has to.
Announced(c) == found[c] = "found" \/ c \in steady

KeyInv(c) ==
    Announced(c) \/ found[c] = "recovering" =>
        /\ keyTtl[dev[c]] + 1 >= TTL
        /\ ~due[c] /\ rpc[c] # "set" => keyTtl[dev[c]] = TTL

SetInv(c) ==
    /\ Announced(c) =>
          /\ dev[c] \in members /\ setTtl + 1 >= 2 * TTL
          /\ rpc[c] = "wait" /\ ~due[c] => setTtl >= 2 * TTL
    /\ found[c] = "recovering" /\ (pc[c] = "expire" \/ rpc[c] = "expire") => dev[c] \in members

\* What the push call has found, or has still to find, of a connection announced throughout.
PushInv(c) ==
    c \in steady =>
        /\ npc = "exists" => online \/ dev[c] \in asked \cup todo
        /\ npc = "srem" => dev[c] \notin asked /\ (online \/ dev[c] \in todo)
        /\ npc # "notify"

AskInv == npc \in {"exists", "srem"} => \E d \in Devices : asked = {d}

PresenceInv ==
    /\ TypeOK /\ AskInv
    /\ \A c \in Conns : ConnInv(c) /\ KeyInv(c) /\ SetInv(c) /\ PushInv(c)

LEMMA Ranges == /\ TTL \in Nat /\ TTL > 1 /\ Forever = 2 * TTL + 1 /\ Forever \in Nat
                /\ 2 * TTL \in 0 .. Forever /\ 2 * TTL # 0 /\ 2 * TTL \in Nat
                /\ TTL \in 0 .. TTL
BY PresenceAssumption DEF PresenceAssumption, Forever

LEMMA NotLess ==
    ASSUME NEW s \in Nat, NEW t \in Nat, NEW full \in Nat, t >= s \/ t >= full
    PROVE  /\ s + 1 >= full => t + 1 >= full
           /\ s >= full => t >= full
           /\ t >= full => t + 1 >= full
OBVIOUS

\* What a connection's invariant reads, besides the presence keys and the push call.
SameConn(c) ==
    /\ pc'[c] = pc[c] /\ rpc'[c] = rpc[c] /\ due'[c] = due[c] /\ dev'[c] = dev[c]

\* The device's key and its place in the set stay at least as they are.
Served(c) ==
    /\ keyTtl'[dev[c]] >= keyTtl[dev[c]]
    /\ dev[c] \in members => dev[c] \in members' /\ (setTtl' >= setTtl \/ setTtl' >= 2 * TTL)

\* Requests for other connections, and steps of the push call: what is announced of c may
\* end, and is served until then.
LEMMA Undisturbed ==
    ASSUME NEW c \in Conns, ConnInv(c), KeyInv(c), SetInv(c), SameConn(c),
           found'[c] \in {found[c], "lost"},
           c \in steady' => c \in steady \/ found[c] = "found",
           keyTtl \in [Devices -> 0 .. TTL], keyTtl' \in [Devices -> 0 .. TTL],
           found[c] \in {"lost", "recovering", "found"},
           dev[c] \in Devices, setTtl \in Nat, setTtl' \in Nat,
           found'[c] # "lost" \/ c \in steady' => Served(c)
    PROVE  ConnInv(c)' /\ KeyInv(c)' /\ SetInv(c)'
<1>1. ConnInv(c)'
  BY DEF ConnInv, SameConn
<1>2. KeyInv(c)'
  <2>1. SUFFICES ASSUME found'[c] # "lost" \/ c \in steady'
                 PROVE  /\ keyTtl'[dev[c]] + 1 >= TTL
                        /\ ~due[c] /\ rpc[c] # "set" => keyTtl'[dev[c]] = TTL
    BY DEF KeyInv, Announced, SameConn
  <2>2. keyTtl'[dev[c]] \in 0 .. TTL /\ keyTtl[dev[c]] \in 0 .. TTL /\ TTL \in Nat
    BY Ranges
  <2>3. /\ keyTtl[dev[c]] + 1 >= TTL
        /\ ~due[c] /\ rpc[c] # "set" => keyTtl[dev[c]] = TTL
    BY <2>1 DEF KeyInv, Announced, ConnInv
  <2> QED BY <2>1, <2>2, <2>3 DEF Served
<1>3. SetInv(c)'
  <2>1. CASE Announced(c)'
    <3>1. Announced(c) /\ (found'[c] # "lost" \/ c \in steady')
      BY <2>1 DEF Announced
    <3>2. /\ dev[c] \in members /\ setTtl + 1 >= 2 * TTL
          /\ rpc[c] = "wait" /\ ~due[c] => setTtl >= 2 * TTL
      BY <3>1 DEF SetInv
    <3>3. dev[c] \in members' /\ (setTtl' >= setTtl \/ setTtl' >= 2 * TTL)
      BY <3>1, <3>2 DEF Served
    <3>4. /\ setTtl + 1 >= 2 * TTL => setTtl' + 1 >= 2 * TTL
          /\ setTtl >= 2 * TTL => setTtl' >= 2 * TTL
      BY <3>3, Ranges, NotLess
    <3> QED BY <3>2, <3>3, <3>4 DEF SetInv, SameConn
  <2>2. CASE ~Announced(c)'
    BY <2>2 DEF SetInv, SameConn, Served
  <2> QED BY <2>1, <2>2
<1> QED BY <1>1, <1>2, <1>3

LEMMA PushKept ==
    ASSUME NEW c \in Conns, PushInv(c), UNCHANGED <<dev, npc, asked, todo, online>>,
           c \in steady' => c \in steady
    PROVE  PushInv(c)'
BY DEF PushInv

\* A step of connection x.
LEMMA ConnStep ==
    ASSUME PresenceInv, TypeOK', NEW x \in Conns, UNCHANGED <<dev, npc, asked, todo, online>>,
           steady' \subseteq steady,
           \A c \in Conns \ {x} : /\ SameConn(c) /\ found'[c] \in {found[c], "lost"}
                                  /\ found'[c] # "lost" \/ c \in steady' => Served(c),
           ConnInv(x)' /\ KeyInv(x)' /\ SetInv(x)'
    PROVE  PresenceInv'
<1>1. /\ TypeOK /\ AskInv
      /\ \A c \in Conns : ConnInv(c) /\ KeyInv(c) /\ SetInv(c) /\ PushInv(c)
  BY DEF PresenceInv
<1>2. /\ keyTtl \in [Devices -> 0 .. TTL] /\ keyTtl' \in [Devices -> 0 .. TTL]
      /\ \A c \in Conns : found[c] \in {"lost", "recovering", "found"} /\ dev[c] \in Devices
      /\ setTtl \in Nat /\ setTtl' \in Nat
  BY <1>1, Ranges DEF TypeOK
<1>3. ASSUME NEW c \in Conns \ {x} PROVE ConnInv(c)' /\ KeyInv(c)' /\ SetInv(c)'
  <2>1. c \in steady' => c \in steady \/ found[c] = "found"
    OBVIOUS
  <2>2. /\ SameConn(c) /\ found'[c] \in {found[c], "lost"}
        /\ found'[c] # "lost" \/ c \in steady' => Served(c)
    OBVIOUS
  <2> QED BY <1>1, <1>2, <2>1, <2>2, Undisturbed
<1>4. \A c \in Conns : PushInv(c)'
  BY <1>1, PushKept
<1>5. AskInv'
  BY <1>1 DEF AskInv
<1> QED BY <1>3, <1>4, <1>5 DEF PresenceInv

----------------------------------------------------------------------------
\* SetOnline.

\* Who is in SetOnline: the handler before it reads, or the goroutine.
LEMMA Caller ==
    ASSUME PresenceInv, NEW x \in Conns, NEW who \in {"h", "r"},
           NEW where \in {"set", "sadd", "expire"}, At(x, who, where)
    PROVE  /\ who = "h" => pc[x] = where /\ rpc[x] = "none" /\ x \notin steady
                           /\ found[x] # "found" /\ ~due[x]
           /\ who = "r" => rpc[x] = where /\ pc[x] \notin {"off", "set", "sadd", "expire"} /\ ~due[x]
BY DEF PresenceInv, ConnInv, At

\* The connections' variables after SetOnline went on or returned.
LEMMA CallerMoves ==
    ASSUME TypeOK, NEW x \in Conns, NEW who \in {"h", "r"}, NEW where \in {"sadd", "expire"},
           Go(x, who, where)
    PROVE  /\ pc' \in [Conns -> {"off", "set", "sadd", "expire", "open", "del", "srem", "gone"}]
           /\ rpc' \in [Conns -> {"none", "wait", "set", "sadd", "expire"}]
           /\ dev' = dev /\ due' = due
           /\ \A c \in Conns \ {x} : SameConn(c)
           /\ who = "h" => pc'[x] = where /\ rpc'[x] = rpc[x]
           /\ who = "r" => rpc'[x] = where /\ pc'[x] = pc[x]
BY DEF TypeOK, Go, SameConn

LEMMA CallerReturns ==
    ASSUME TypeOK, NEW x \in Conns, NEW who \in {"h", "r"}, EndOnline(x, who)
    PROVE  /\ pc' \in [Conns -> {"off", "set", "sadd", "expire", "open", "del", "srem", "gone"}]
           /\ rpc' \in [Conns -> {"none", "wait", "set", "sadd", "expire"}]
           /\ dev' = dev /\ due' = due /\ rpc'[x] = "wait"
           /\ \A c \in Conns \ {x} : SameConn(c)
           /\ who = "h" => pc'[x] = "open"
           /\ who = "r" => pc'[x] = pc[x]
BY DEF TypeOK, EndOnline, Go, SameConn

LEMMA OnlineSetKeeps ==
    ASSUME PresenceInv, NEW x \in Conns, NEW who \in {"h", "r"}, OnlineSet(x, who)
    PROVE  PresenceInv'
<1>0. TypeOK /\ ConnInv(x) /\ KeyInv(x) /\ SetInv(x) /\ dev[x] \in Devices
  BY DEF PresenceInv, TypeOK
<1>1. /\ At(x, who, "set") /\ keyTtl' = [keyTtl EXCEPT ![dev[x]] = TTL] /\ Go(x, who, "sadd")
      /\ found' = [found EXCEPT ![x] =
            IF @ = "lost" /\ pc[x] \in {"set", "open"} THEN "recovering" ELSE @]
      /\ UNCHANGED <<members, setTtl, npc, asked, todo, online, faults, steady>>
  BY DEF OnlineSet, SetKey, pushVars
<1>2. /\ who = "h" => pc[x] = "set" /\ rpc[x] = "none" /\ x \notin steady
                      /\ found[x] # "found" /\ ~due[x]
      /\ who = "r" => rpc[x] = "set" /\ pc[x] \notin {"off", "set", "sadd", "expire"} /\ ~due[x]
  BY <1>1, Caller
<1>3. /\ pc' \in [Conns -> {"off", "set", "sadd", "expire", "open", "del", "srem", "gone"}]
      /\ rpc' \in [Conns -> {"none", "wait", "set", "sadd", "expire"}]
      /\ dev' = dev /\ due' = due
      /\ \A c \in Conns \ {x} : SameConn(c)
      /\ who = "h" => pc'[x] = "sadd" /\ rpc'[x] = rpc[x]
      /\ who = "r" => rpc'[x] = "sadd" /\ pc'[x] = pc[x]
  BY <1>0, <1>1, CallerMoves
<1>4. /\ keyTtl' \in [Devices -> 0 .. TTL] /\ keyTtl'[dev[x]] = TTL
      /\ \A d \in Devices : keyTtl[d] \in 0 .. TTL /\ keyTtl'[d] \in {keyTtl[d], TTL}
  BY <1>0, <1>1, Ranges DEF TypeOK
<1>5. /\ found' \in [Conns -> {"lost", "recovering", "found"}]
      /\ \A c \in Conns \ {x} : found'[c] = found[c]
      /\ found'[x] = IF found[x] = "lost" /\ pc[x] \in {"set", "open"}
                     THEN "recovering" ELSE found[x]
  BY <1>0, <1>1 DEF TypeOK
<1>6. TypeOK'
  BY <1>0, <1>1, <1>3, <1>4, <1>5 DEF TypeOK
<1>7. \A c \in Conns \ {x} : Served(c)
  <2>1. \A k \in 0 .. TTL : TTL >= k /\ k >= k
    BY Ranges
  <2>2. \A c \in Conns : keyTtl'[dev[c]] >= keyTtl[dev[c]]
    BY <1>0, <1>4, <2>1 DEF TypeOK
  <2>3. setTtl' >= setTtl
    BY <1>0, <1>1, Ranges DEF TypeOK
  <2> QED BY <1>1, <2>2, <2>3 DEF Served
<1>8. ConnInv(x)'
  BY <1>0, <1>1, <1>2, <1>3, <1>5 DEF ConnInv
<1>9. KeyInv(x)'
  <2>1. keyTtl'[dev[x]] + 1 >= TTL
    BY <1>4, Ranges
  <2> QED BY <1>3, <1>4, <2>1 DEF KeyInv
<1>10. SetInv(x)'
  <2>1. Announced(x)' => Announced(x)
    BY <1>1, <1>5 DEF Announced
  <2>2. rpc'[x] # "wait" /\ rpc'[x] # "expire" /\ (found'[x] = "recovering" => pc'[x] # "expire")
    BY <1>2, <1>3, <1>5, <1>8 DEF ConnInv
  <2> QED BY <1>0, <1>1, <1>3, <2>1, <2>2 DEF SetInv
<1> QED BY <1>1, <1>3, <1>5, <1>6, <1>7, <1>8, <1>9, <1>10, ConnStep

LEMMA SetRequests ==
    ASSUME TypeOK, NEW d \in Devices
    PROVE  /\ Sadd(d) => /\ members' = members \cup {d} /\ members' \subseteq Devices
                         /\ setTtl' \in 0 .. Forever /\ (setTtl' = 0 <=> members' = {})
                         /\ setTtl' >= setTtl
           /\ Expire => /\ setTtl' \in 0 .. Forever /\ (setTtl' = 0 <=> members = {})
                        /\ members # {} => setTtl' = 2 * TTL /\ setTtl' >= 2 * TTL
           /\ Srem(d) => /\ members' = members \ {d} /\ members' \subseteq Devices
                         /\ setTtl' \in 0 .. Forever /\ (setTtl' = 0 <=> members' = {})
                         /\ members' # {} => setTtl' = setTtl
           /\ setTtl \in Nat /\ setTtl >= setTtl
<1>1. setTtl \in 0 .. Forever /\ members \subseteq Devices /\ (setTtl = 0 <=> members = {})
  BY DEF TypeOK
<1>2. setTtl \in Nat /\ Forever >= setTtl /\ setTtl >= setTtl /\ Forever \in 0 .. Forever
      /\ Forever # 0
  BY <1>1, Ranges
<1>3. Sadd(d) => /\ members' = members \cup {d} /\ members' \subseteq Devices
                 /\ setTtl' \in 0 .. Forever /\ (setTtl' = 0 <=> members' = {})
                 /\ setTtl' >= setTtl
  BY <1>1, <1>2 DEF Sadd
<1>4. Expire => /\ setTtl' \in 0 .. Forever /\ (setTtl' = 0 <=> members = {})
                /\ members # {} => setTtl' = 2 * TTL /\ setTtl' >= 2 * TTL
  <2>1. 2 * TTL >= 2 * TTL /\ 0 \in 0 .. Forever
    BY Ranges
  <2> QED BY <2>1, Ranges DEF Expire
<1>5. Srem(d) => /\ members' = members \ {d} /\ members' \subseteq Devices
                 /\ setTtl' \in 0 .. Forever /\ (setTtl' = 0 <=> members' = {})
                 /\ members' # {} => setTtl' = setTtl
  <2>1. 0 \in 0 .. Forever
    BY Ranges
  <2>2. members \ {d} # {} => setTtl # 0
    BY <1>1
  <2> QED BY <1>1, <2>1, <2>2 DEF Srem
<1> QED BY <1>2, <1>3, <1>4, <1>5

LEMMA OnlineSaddKeeps ==
    ASSUME PresenceInv, NEW x \in Conns, NEW who \in {"h", "r"}, OnlineSadd(x, who)
    PROVE  PresenceInv'
<1>0. TypeOK /\ ConnInv(x) /\ KeyInv(x) /\ SetInv(x) /\ dev[x] \in Devices
  BY DEF PresenceInv, TypeOK
<1>1. /\ At(x, who, "sadd") /\ Sadd(dev[x]) /\ Go(x, who, "expire")
      /\ UNCHANGED <<keyTtl, npc, asked, todo, online, faults, found, steady>>
  BY DEF OnlineSadd, pushVars
<1>2. /\ who = "h" => pc[x] = "sadd" /\ rpc[x] = "none" /\ x \notin steady
                      /\ found[x] # "found" /\ ~due[x]
      /\ who = "r" => rpc[x] = "sadd" /\ pc[x] \notin {"off", "set", "sadd", "expire"} /\ ~due[x]
  BY <1>1, Caller
<1>3. /\ pc' \in [Conns -> {"off", "set", "sadd", "expire", "open", "del", "srem", "gone"}]
      /\ rpc' \in [Conns -> {"none", "wait", "set", "sadd", "expire"}]
      /\ dev' = dev /\ due' = due
      /\ \A c \in Conns \ {x} : SameConn(c)
      /\ who = "h" => pc'[x] = "expire" /\ rpc'[x] = rpc[x]
      /\ who = "r" => rpc'[x] = "expire" /\ pc'[x] = pc[x]
  BY <1>0, <1>1, CallerMoves
<1>4. /\ members' = members \cup {dev[x]} /\ members' \subseteq Devices
      /\ setTtl' \in 0 .. Forever /\ (setTtl' = 0 <=> members' = {})
      /\ setTtl' >= setTtl /\ setTtl \in Nat
  BY <1>0, <1>1, SetRequests
<1>5. TypeOK'
  BY <1>0, <1>1, <1>3, <1>4 DEF TypeOK
<1>6. \A c \in Conns : keyTtl'[dev[c]] >= keyTtl[dev[c]]
  BY <1>0, <1>1, Ranges DEF TypeOK
<1>7. \A c \in Conns \ {x} : Served(c)
  BY <1>4, <1>6 DEF Served
<1>8. ConnInv(x)'
  BY <1>0, <1>1, <1>2, <1>3 DEF ConnInv
<1>9. KeyInv(x)'
  BY <1>0, <1>1, <1>2, <1>3 DEF KeyInv, Announced
<1>10. SetInv(x)'
  <2>1. setTtl + 1 >= 2 * TTL => setTtl' + 1 >= 2 * TTL
    <3>1. setTtl' \in Nat
      BY <1>4, Ranges
    <3> QED BY <1>4, <3>1, Ranges, NotLess
  <2>2. rpc'[x] # "wait" /\ dev[x] \in members'
    BY <1>2, <1>3, <1>4
  <2> QED BY <1>0, <1>1, <1>3, <2>1, <2>2 DEF SetInv, Announced
<1> QED BY <1>1, <1>3, <1>5, <1>7, <1>8, <1>9, <1>10, ConnStep

LEMMA OnlineExpireKeeps ==
    ASSUME PresenceInv, NEW x \in Conns, NEW who \in {"h", "r"}, OnlineExpire(x, who)
    PROVE  PresenceInv'
<1>0. TypeOK /\ ConnInv(x) /\ KeyInv(x) /\ SetInv(x) /\ dev[x] \in Devices
  BY DEF PresenceInv, TypeOK
<1>1. /\ At(x, who, "expire") /\ Expire /\ EndOnline(x, who)
      /\ found' = [found EXCEPT ![x] = IF @ = "recovering" THEN "found" ELSE @]
      /\ UNCHANGED <<keyTtl, members, npc, asked, todo, online, faults, steady>>
  BY DEF OnlineExpire, pushVars
<1>2. /\ who = "h" => pc[x] = "expire" /\ rpc[x] = "none" /\ x \notin steady
                      /\ found[x] # "found" /\ ~due[x]
      /\ who = "r" => rpc[x] = "expire" /\ pc[x] \notin {"off", "set", "sadd", "expire"} /\ ~due[x]
  BY <1>1, Caller
<1>3. /\ pc' \in [Conns -> {"off", "set", "sadd", "expire", "open", "del", "srem", "gone"}]
      /\ rpc' \in [Conns -> {"none", "wait", "set", "sadd", "expire"}]
      /\ dev' = dev /\ due' = due /\ rpc'[x] = "wait"
      /\ \A c \in Conns \ {x} : SameConn(c)
      /\ who = "h" => pc'[x] = "open"
      /\ who = "r" => pc'[x] = pc[x]
  BY <1>0, <1>1, CallerReturns
<1>4. /\ setTtl' \in 0 .. Forever /\ (setTtl' = 0 <=> members = {})
      /\ members # {} => setTtl' = 2 * TTL /\ setTtl' >= 2 * TTL
  BY <1>0, <1>1, SetRequests
<1>5. /\ found' \in [Conns -> {"lost", "recovering", "found"}]
      /\ \A c \in Conns \ {x} : found'[c] = found[c]
      /\ found'[x] = IF found[x] = "recovering" THEN "found" ELSE found[x]
  BY <1>0, <1>1 DEF TypeOK
<1>6. TypeOK'
  BY <1>0, <1>1, <1>3, <1>4, <1>5 DEF TypeOK
<1>7. \A c \in Conns \ {x} : Served(c)
  <2>1. \A c \in Conns : keyTtl'[dev[c]] >= keyTtl[dev[c]]
    BY <1>0, <1>1, Ranges DEF TypeOK
  <2> QED BY <1>1, <1>4, <2>1 DEF Served
<1>8. ConnInv(x)'
  BY <1>0, <1>1, <1>2, <1>3, <1>5 DEF ConnInv
<1>9. KeyInv(x)'
  <2>1. Announced(x)' \/ found'[x] = "recovering" => Announced(x) \/ found[x] = "recovering"
    BY <1>1, <1>5 DEF Announced
  <2>2. ~due[x] /\ rpc[x] # "set"
    BY <1>2
  <2> QED BY <1>0, <1>1, <1>3, <2>1, <2>2 DEF KeyInv
<1>10. SetInv(x)'
  <2>1. Announced(x)' => dev[x] \in members
    BY <1>0, <1>1, <1>2, <1>5 DEF SetInv, Announced
  <2>2. members # {} => setTtl' >= 2 * TTL /\ setTtl' + 1 >= 2 * TTL
    <3>1. setTtl' \in Nat
      BY <1>4, Ranges
    <3> QED BY <1>4, <3>1, Ranges, NotLess
  <2>3. found'[x] # "recovering"
    BY <1>5
  <2> QED BY <1>1, <1>3, <2>1, <2>2, <2>3 DEF SetInv
<1> QED BY <1>1, <1>3, <1>5, <1>6, <1>7, <1>8, <1>9, <1>10, ConnStep

\* A failed request may have taken effect, and the connection is no longer announced.
LEMMA OnlineFailsKeeps ==
    ASSUME PresenceInv, NEW x \in Conns, NEW who \in {"h", "r"}, OnlineFails(x, who)
    PROVE  PresenceInv'
<1>0. TypeOK /\ ConnInv(x) /\ dev[x] \in Devices
  BY DEF PresenceInv, TypeOK
<1>1. /\ \E where \in {"set", "sadd", "expire"} : At(x, who, where)
      /\ EndOnline(x, who) /\ faults' = faults + 1
      /\ found' = [found EXCEPT ![x] = "lost"] /\ steady' = steady \ {x}
      /\ UNCHANGED <<npc, asked, todo, online>>
  BY DEF OnlineFails, Fault, Lose, pushVars
<1>2. /\ who = "h" => rpc[x] = "none" /\ ~due[x]
      /\ who = "r" => pc[x] \notin {"off", "set", "sadd", "expire"} /\ ~due[x]
  BY <1>1, Caller
<1>3. /\ pc' \in [Conns -> {"off", "set", "sadd", "expire", "open", "del", "srem", "gone"}]
      /\ rpc' \in [Conns -> {"none", "wait", "set", "sadd", "expire"}]
      /\ dev' = dev /\ due' = due /\ rpc'[x] = "wait"
      /\ \A c \in Conns \ {x} : SameConn(c)
      /\ who = "h" => pc'[x] = "open"
      /\ who = "r" => pc'[x] = pc[x]
  BY <1>0, <1>1, CallerReturns
<1>4. /\ keyTtl' \in [Devices -> 0 .. TTL]
      /\ \A d \in Devices : keyTtl[d] \in 0 .. TTL /\ keyTtl'[d] \in {keyTtl[d], TTL}
  <2>1. keyTtl' = [keyTtl EXCEPT ![dev[x]] = TTL] \/ keyTtl' = keyTtl
    BY DEF OnlineFails, SetKey
  <2> QED BY <1>0, <2>1, Ranges DEF TypeOK
<1>5. /\ members \subseteq members' /\ members' \subseteq Devices
      /\ setTtl' \in 0 .. Forever /\ (setTtl' = 0 <=> members' = {})
      /\ members # {} => setTtl' >= setTtl \/ setTtl' >= 2 * TTL
  <2>1. CASE Sadd(dev[x])
    BY <1>0, <2>1, SetRequests
  <2>2. CASE Expire /\ UNCHANGED members
    BY <1>0, <2>2, SetRequests DEF TypeOK
  <2>3. CASE UNCHANGED <<members, setTtl>>
    BY <1>0, <2>3, SetRequests DEF TypeOK
  <2> QED BY <2>1, <2>2, <2>3 DEF OnlineFails
<1>6. /\ found' \in [Conns -> {"lost", "recovering", "found"}] /\ found'[x] = "lost"
      /\ \A c \in Conns \ {x} : found'[c] = found[c]
  BY <1>0, <1>1 DEF TypeOK
<1>7. TypeOK'
  BY <1>0, <1>1, <1>3, <1>4, <1>5, <1>6 DEF TypeOK
<1>8. \A c \in Conns \ {x} : Served(c)
  <2>1. \A k \in 0 .. TTL : TTL >= k /\ k >= k
    BY Ranges
  <2>2. \A c \in Conns : keyTtl'[dev[c]] >= keyTtl[dev[c]]
    BY <1>0, <1>4, <2>1 DEF TypeOK
  <2> QED BY <1>5, <2>2 DEF Served
<1>9. ConnInv(x)'
  BY <1>0, <1>1, <1>2, <1>3, <1>6 DEF ConnInv
<1>10. KeyInv(x)' /\ SetInv(x)'
  BY <1>1, <1>6 DEF KeyInv, SetInv, Announced
<1>11. steady' \subseteq steady
  BY <1>1
<1> QED BY <1>1, <1>3, <1>6, <1>7, <1>8, <1>9, <1>10, <1>11, ConnStep

----------------------------------------------------------------------------
\* The rest of a connection's life.

\* Steps that make no request to Valkey.
LEMMA ConnectKeeps ==
    ASSUME PresenceInv, NEW x \in Conns,
           Connect(x) \/ Disconnect(x) \/ RefreshStart(x) \/ RefreshStop(x)
    PROVE  PresenceInv'
<1>0. TypeOK /\ ConnInv(x) /\ KeyInv(x) /\ SetInv(x)
  BY DEF PresenceInv
<1>1. /\ UNCHANGED <<keyTtl, members, setTtl, dev, npc, asked, todo, online, faults, steady>>
      /\ pc' \in [Conns -> {"off", "set", "sadd", "expire", "open", "del", "srem", "gone"}]
      /\ rpc' \in [Conns -> {"none", "wait", "set", "sadd", "expire"}]
      /\ due' \in [Conns -> BOOLEAN]
      /\ found' \in [Conns -> {"lost", "recovering", "found"}]
      /\ \A c \in Conns \ {x} : SameConn(c) /\ found'[c] = found[c]
  BY <1>0 DEF Connect, Disconnect, RefreshStart, RefreshStop, valkeyVars, pushVars, SameConn,
              TypeOK
<1>2. TypeOK'
  BY <1>0, <1>1 DEF TypeOK
<1>3. \A c \in Conns : Served(c)
  <2>1. \A c \in Conns : keyTtl[dev[c]] >= keyTtl[dev[c]]
    BY <1>0, Ranges DEF TypeOK
  <2>2. setTtl >= setTtl
    BY <1>0, Ranges DEF TypeOK
  <2> QED BY <1>1, <2>1, <2>2 DEF Served
<1>4. ConnInv(x)' /\ KeyInv(x)' /\ SetInv(x)'
  <2>1. CASE Connect(x)
    <3>1. pc[x] = "off" /\ pc'[x] = "set" /\ rpc'[x] = rpc[x] /\ due'[x] = due[x] /\ found' = found
      BY <1>0, <2>1 DEF Connect, TypeOK
    <3>2. found[x] \in {"lost", "recovering", "found"}
      BY <1>0 DEF TypeOK
    <3> QED BY <1>0, <1>1, <3>1, <3>2 DEF ConnInv, KeyInv, SetInv, Announced
  <2>2. CASE Disconnect(x)
    <3>1. /\ pc[x] = "open" /\ pc'[x] = "del" /\ rpc'[x] = rpc[x] /\ due'[x] = due[x]
          /\ found'[x] = "lost"
      BY <1>0, <2>2 DEF Disconnect, TypeOK
    <3> QED BY <1>0, <1>1, <3>1 DEF ConnInv, KeyInv, SetInv, Announced
  <2>3. CASE RefreshStart(x)
    <3>1. /\ rpc[x] = "wait" /\ rpc'[x] = "set" /\ pc'[x] = pc[x] /\ ~due'[x] /\ found' = found
      BY <1>0, <2>3 DEF RefreshStart, TypeOK
    <3> QED BY <1>0, <1>1, <3>1 DEF ConnInv, KeyInv, SetInv, Announced
  <2>4. CASE RefreshStop(x)
    <3>1. pc[x] = "gone" /\ pc'[x] = "gone" /\ ~due'[x] /\ found' = found
      BY <1>0, <2>4 DEF RefreshStop, TypeOK
    <3>2. found[x] \in {"lost", "recovering", "found"}
      BY <1>0 DEF TypeOK
    <3> QED BY <1>0, <1>1, <3>1, <3>2 DEF ConnInv, KeyInv, SetInv, Announced
  <2> QED BY <2>1, <2>2, <2>3, <2>4
<1> QED BY <1>1, <1>2, <1>3, <1>4, ConnStep

\* A device is hidden: its connections are announced no longer, and the others are not touched.
LEMMA Hidden ==
    ASSUME TypeOK, NEW d \in Devices, Hide(d)
    PROVE  /\ found' \in [Conns -> {"lost", "recovering", "found"}] /\ steady' \subseteq steady
           /\ \A c \in Conns : found'[c] \in {found[c], "lost"}
           /\ \A c \in Conns : dev[c] = d => found'[c] = "lost" /\ c \notin steady'
BY DEF Hide, TypeOK

\* DEL and SREM of SetOffline.
LEMMA OfflineKeeps ==
    ASSUME PresenceInv, NEW x \in Conns,
           OfflineDel(x) \/ OfflineDelFails(x) \/ OfflineSrem(x)
    PROVE  PresenceInv'
<1>0. TypeOK /\ ConnInv(x) /\ dev[x] \in Devices /\ found[x] \in {"lost", "recovering", "found"}
  BY DEF PresenceInv, TypeOK
<1>1. /\ UNCHANGED <<dev, rpc, due, npc, asked, todo, online>> /\ faults' \in {faults, faults + 1}
      /\ pc[x] \in {"del", "srem"}
      /\ pc' = [pc EXCEPT ![x] = "srem"] \/ pc' = [pc EXCEPT ![x] = "gone"]
  BY DEF OfflineDel, OfflineDelFails, OfflineSrem, Fault, pushVars
<1>2. /\ pc' \in [Conns -> {"off", "set", "sadd", "expire", "open", "del", "srem", "gone"}]
      /\ pc'[x] \in {"srem", "gone"} /\ \A c \in Conns \ {x} : SameConn(c)
  BY <1>0, <1>1 DEF TypeOK, SameConn
<1>3. /\ keyTtl' \in [Devices -> 0 .. TTL]
      /\ keyTtl' = keyTtl \/ (keyTtl' = [keyTtl EXCEPT ![dev[x]] = 0] /\ Hide(dev[x]))
  <2>1. keyTtl' = keyTtl \/ (keyTtl' = [keyTtl EXCEPT ![dev[x]] = 0] /\ Hide(dev[x]))
    BY DEF OfflineDel, OfflineDelFails, OfflineSrem, Del
  <2>2. 0 \in 0 .. TTL
    BY Ranges
  <2> QED BY <1>0, <2>1, <2>2 DEF TypeOK
<1>4. UNCHANGED <<members, setTtl>> \/ (Srem(dev[x]) /\ Hide(dev[x]))
  BY DEF OfflineDel, OfflineDelFails, OfflineSrem
<1>5. \/ Hide(dev[x])
      \/ found' = [found EXCEPT ![x] = "lost"] /\ steady' = steady \ {x}
      \/ pc[x] = "srem" /\ UNCHANGED <<found, steady>>
  BY DEF OfflineDel, OfflineDelFails, OfflineSrem, Lose
<1>6. /\ found' \in [Conns -> {"lost", "recovering", "found"}] /\ steady' \subseteq steady
      /\ \A c \in Conns : found'[c] \in {found[c], "lost"}
      /\ found'[x] = "lost" /\ x \notin steady'
  <2>1. CASE Hide(dev[x])
    BY <1>0, <2>1, Hidden
  <2>2. CASE found' = [found EXCEPT ![x] = "lost"] /\ steady' = steady \ {x}
    BY <1>0, <2>2 DEF TypeOK
  <2>3. CASE pc[x] = "srem" /\ UNCHANGED <<found, steady>>
    BY <1>0, <2>3 DEF TypeOK, ConnInv
  <2> QED BY <1>5, <2>1, <2>2, <2>3
<1>7. /\ members' \subseteq Devices /\ setTtl' \in 0 .. Forever /\ (setTtl' = 0 <=> members' = {})
  <2>1. CASE UNCHANGED <<members, setTtl>>
    BY <1>0, <2>1 DEF TypeOK
  <2>2. CASE Srem(dev[x])
    BY <1>0, <2>2, SetRequests
  <2> QED BY <1>4, <2>1, <2>2
<1>8. TypeOK'
  BY <1>0, <1>1, <1>2, <1>3, <1>6, <1>7 DEF TypeOK
<1>9. ASSUME NEW c \in Conns \ {x}, found'[c] # "lost" \/ c \in steady' PROVE Served(c)
  <2>1. dev[c] \in Devices /\ keyTtl[dev[c]] \in Nat /\ keyTtl \in [Devices -> 0 .. TTL]
    BY <1>0, Ranges DEF TypeOK
  <2>2. Hide(dev[x]) => dev[c] # dev[x]
    BY <1>0, <1>9, Hidden
  <2>3. keyTtl'[dev[c]] = keyTtl[dev[c]]
    BY <1>3, <2>1, <2>2
  <2>4. dev[c] \in members => dev[c] \in members' /\ setTtl' = setTtl
    <3>1. CASE UNCHANGED <<members, setTtl>>
      BY <3>1
    <3>2. CASE Srem(dev[x]) /\ Hide(dev[x])
      BY <1>0, <2>2, <3>2, SetRequests
    <3> QED BY <1>4, <3>1, <3>2
  <2>5. setTtl >= setTtl /\ keyTtl[dev[c]] >= keyTtl[dev[c]]
    BY <1>0, <2>1, SetRequests
  <2> QED BY <2>3, <2>4, <2>5 DEF Served
<1>10. ConnInv(x)'
  BY <1>0, <1>1, <1>2, <1>6 DEF ConnInv
<1>11. KeyInv(x)' /\ SetInv(x)'
  BY <1>6 DEF KeyInv, SetInv, Announced
<1> QED BY <1>1, <1>2, <1>6, <1>8, <1>9, <1>10, <1>11, ConnStep

----------------------------------------------------------------------------
\* The push call.

\* A step that leaves the connections alone.
LEMMA PushStep ==
    ASSUME PresenceInv, TypeOK', AskInv', UNCHANGED <<dev, pc, rpc, due>>,
           \A c \in Conns : /\ found'[c] \in {found[c], "lost"}
                            /\ c \in steady' => c \in steady \/ found[c] = "found"
                            /\ found'[c] # "lost" \/ c \in steady' => Served(c)
                            /\ PushInv(c)'
    PROVE  PresenceInv'
<1>1. /\ TypeOK
      /\ \A c \in Conns : ConnInv(c) /\ KeyInv(c) /\ SetInv(c)
  BY DEF PresenceInv
<1>2. /\ keyTtl \in [Devices -> 0 .. TTL] /\ keyTtl' \in [Devices -> 0 .. TTL]
      /\ \A c \in Conns : found[c] \in {"lost", "recovering", "found"} /\ dev[c] \in Devices
      /\ setTtl \in Nat /\ setTtl' \in Nat
  BY <1>1, Ranges DEF TypeOK
<1>3. ASSUME NEW c \in Conns PROVE ConnInv(c)' /\ KeyInv(c)' /\ SetInv(c)'
  <2>1. SameConn(c)
    BY DEF SameConn
  <2> QED BY <1>1, <1>2, <2>1, Undisturbed
<1> QED BY <1>3 DEF PresenceInv

\* The loop goes on with the rest of the devices, or ends: nobody who was announced throughout
\* is forgotten if it is among the rest or was found.
LEMMA NextDeviceKeeps ==
    ASSUME TypeOK, NEW rest \in SUBSET Devices, NEW on \in BOOLEAN, NextDevice(rest, on)
    PROVE  /\ npc' \in {"idle", "members", "exists", "srem", "notify"}
           /\ asked' \subseteq Devices /\ todo' \subseteq Devices /\ online' \in BOOLEAN
           /\ AskInv'
           /\ \A c \in Conns : dev' = dev /\ (c \in steady' => on \/ dev[c] \in rest) => PushInv(c)'
<1>1. CASE \E d \in rest : /\ asked' = {d} /\ todo' = rest \ {d}
                           /\ npc' = "exists" /\ online' = on
  <2>1. PICK d \in rest : /\ asked' = {d} /\ todo' = rest \ {d}
                          /\ npc' = "exists" /\ online' = on
    BY <1>1
  <2>2. AskInv'
    BY <2>1 DEF AskInv
  <2>3. rest \subseteq asked' \cup todo'
    BY <2>1
  <2>4. ASSUME NEW c \in Conns, dev' = dev, c \in steady' => on \/ dev[c] \in rest
        PROVE  PushInv(c)'
    BY <2>1, <2>3, <2>4 DEF PushInv
  <2> QED BY <2>1, <2>2, <2>4
<1>2. CASE rest = {} /\ on /\ Idle
  BY <1>2 DEF Idle, AskInv, PushInv
<1>3. CASE rest = {} /\ ~on /\ npc' = "notify" /\ asked' = {} /\ todo' = {} /\ online' = FALSE
  BY <1>3 DEF AskInv, PushInv
<1> QED BY <1>1, <1>2, <1>3 DEF NextDevice

LEMMA PushCallKeeps ==
    ASSUME PresenceInv,
           NotifyStart \/ Smembers \/ ExistsKey \/ IsOnlineFails \/ Notify
    PROVE  PresenceInv'
<1>0. /\ TypeOK /\ AskInv /\ dev \in [Conns -> Devices]
      /\ \A c \in Conns : KeyInv(c) /\ SetInv(c) /\ PushInv(c)
  BY DEF PresenceInv, TypeOK
<1>1. /\ UNCHANGED <<keyTtl, members, setTtl, dev, pc, rpc, due, found>>
      /\ faults' \in {faults, faults + 1}
  BY DEF NotifyStart, Smembers, ExistsKey, IsOnlineFails, Notify, Fault, valkeyVars, connVars
<1>2. \A c \in Conns : Served(c)
  <2>1. \A c \in Conns : keyTtl[dev[c]] >= keyTtl[dev[c]]
    BY <1>0, Ranges DEF TypeOK
  <2>2. setTtl >= setTtl
    BY <1>0, Ranges DEF TypeOK
  <2> QED BY <1>1, <2>1, <2>2 DEF Served
<1>3. /\ npc' \in {"idle", "members", "exists", "srem", "notify"}
      /\ asked' \subseteq Devices /\ todo' \subseteq Devices /\ online' \in BOOLEAN
      /\ steady' \subseteq Conns
      /\ AskInv'
      /\ \A c \in Conns : (c \in steady' => c \in steady \/ found[c] = "found") /\ PushInv(c)'
  <2>1. CASE NotifyStart
    <3>1. /\ npc' = "members" /\ UNCHANGED <<asked, todo, online>>
          /\ \A c \in steady' : c \in Conns /\ found[c] = "found"
      BY <2>1 DEF NotifyStart
    <3> QED BY <1>0, <3>1 DEF TypeOK, AskInv, PushInv
  <2>2. CASE Smembers
    <3>1. NextDevice(members, FALSE) /\ steady' = steady /\ members \in SUBSET Devices
      BY <1>0, <2>2 DEF Smembers, TypeOK
    <3>2. \A c \in Conns : c \in steady' => FALSE \/ dev[c] \in members
      BY <1>0, <3>1 DEF SetInv, Announced
    <3>3. FALSE \in BOOLEAN
      OBVIOUS
    <3> QED BY <1>0, <1>1, <3>1, <3>2, <3>3, NextDeviceKeeps DEF TypeOK
  <2>3. CASE ExistsKey
    <3>1. PICK d \in asked :
             \/ keyTtl[d] > 0 /\ NextDevice(todo, TRUE)
             \/ keyTtl[d] = 0 /\ npc' = "srem" /\ UNCHANGED <<asked, todo, online>>
      BY <2>3 DEF ExistsKey
    <3>2. npc = "exists" /\ steady' = steady /\ asked = {d}
      BY <1>0, <2>3 DEF ExistsKey, AskInv
    <3>3. CASE keyTtl[d] > 0 /\ NextDevice(todo, TRUE)
      <4>1. todo \in SUBSET Devices /\ TRUE \in BOOLEAN
        BY <1>0 DEF TypeOK
      <4>2. \A c \in Conns : c \in steady' => TRUE \/ dev[c] \in todo
        OBVIOUS
      <4> QED BY <1>0, <1>1, <3>2, <3>3, <4>1, <4>2, NextDeviceKeeps DEF TypeOK
    <3>4. CASE keyTtl[d] = 0 /\ npc' = "srem" /\ UNCHANGED <<asked, todo, online>>
      <4>1. AskInv'
        BY <1>0, <3>2, <3>4 DEF AskInv
      <4>2. ASSUME NEW c \in Conns PROVE PushInv(c)'
        <5>1. c \in steady => keyTtl[dev[c]] + 1 >= TTL /\ (online \/ dev[c] \in asked \cup todo)
          BY <1>0, <3>2 DEF KeyInv, PushInv, Announced
        <5>2. c \in steady => dev[c] # d
          BY <3>4, <5>1, Ranges
        <5> QED BY <1>1, <3>2, <3>4, <5>1, <5>2 DEF PushInv
      <4> QED BY <1>0, <3>2, <3>4, <4>1, <4>2 DEF TypeOK
    <3> QED BY <3>1, <3>3, <3>4
  <2>4. CASE IsOnlineFails \/ Notify
    <3>1. npc' = "idle" /\ asked' = {} /\ todo' = {} /\ online' = FALSE /\ steady' = {}
      BY <2>4 DEF IsOnlineFails, Notify, Idle
    <3> QED BY <3>1 DEF AskInv, PushInv
  <2> QED BY <2>1, <2>2, <2>3, <2>4
<1>4. TypeOK'
  BY <1>0, <1>1, <1>3 DEF TypeOK
<1> QED BY <1>1, <1>2, <1>3, <1>4, PushStep

LEMMA SremStaleKeeps ==
    ASSUME PresenceInv, SremStale
    PROVE  PresenceInv'
<1>0. /\ TypeOK /\ AskInv /\ dev \in [Conns -> Devices] /\ keyTtl \in [Devices -> 0 .. TTL]
      /\ \A c \in Conns : PushInv(c)
  BY DEF PresenceInv, TypeOK
<1>1. /\ npc = "srem" /\ NextDevice(todo, online)
      /\ UNCHANGED <<keyTtl, dev, pc, rpc, due>> /\ faults' \in {faults, faults + 1}
      /\ \/ \E d \in asked : Srem(d) /\ Hide(d)
         \/ UNCHANGED <<members, setTtl, found, steady>>
  BY DEF SremStale, Fault, connVars
<1>2. /\ found' \in [Conns -> {"lost", "recovering", "found"}] /\ steady' \subseteq steady
      /\ members' \subseteq Devices /\ setTtl' \in 0 .. Forever /\ (setTtl' = 0 <=> members' = {})
      /\ \A c \in Conns : /\ found'[c] \in {found[c], "lost"}
                          /\ found'[c] # "lost" \/ c \in steady' => Served(c)
  <2>0. \A c \in Conns : keyTtl'[dev[c]] >= keyTtl[dev[c]]
    BY <1>0, <1>1, Ranges
  <2>1. CASE UNCHANGED <<members, setTtl, found, steady>>
    <3>1. setTtl >= setTtl
      BY <1>0, SetRequests, Ranges DEF TypeOK
    <3> QED BY <1>0, <2>0, <2>1, <3>1 DEF TypeOK, Served
  <2>2. ASSUME NEW d \in asked, Srem(d), Hide(d)
        PROVE  /\ found' \in [Conns -> {"lost", "recovering", "found"}] /\ steady' \subseteq steady
               /\ members' \subseteq Devices /\ setTtl' \in 0 .. Forever
               /\ (setTtl' = 0 <=> members' = {})
               /\ \A c \in Conns : /\ found'[c] \in {found[c], "lost"}
                                   /\ found'[c] # "lost" \/ c \in steady' => Served(c)
    <3>1. d \in Devices
      BY <1>0 DEF TypeOK
    <3>2. /\ members' = members \ {d} /\ members' \subseteq Devices
          /\ setTtl' \in 0 .. Forever /\ (setTtl' = 0 <=> members' = {})
          /\ members' # {} => setTtl' = setTtl
          /\ setTtl >= setTtl
      BY <1>0, <2>2, <3>1, SetRequests
    <3>3. /\ found' \in [Conns -> {"lost", "recovering", "found"}] /\ steady' \subseteq steady
          /\ \A c \in Conns : found'[c] \in {found[c], "lost"}
          /\ \A c \in Conns : dev[c] = d => found'[c] = "lost" /\ c \notin steady'
      BY <1>0, <2>2, <3>1, Hidden
    <3>4. \A c \in Conns : found'[c] # "lost" \/ c \in steady' => Served(c)
      BY <2>0, <3>2, <3>3 DEF Served
    <3> QED BY <3>2, <3>3, <3>4
  <2> QED BY <1>1, <2>1, <2>2
<1>3. /\ npc' \in {"idle", "members", "exists", "srem", "notify"}
      /\ asked' \subseteq Devices /\ todo' \subseteq Devices /\ online' \in BOOLEAN
      /\ AskInv' /\ \A c \in Conns : PushInv(c)'
  <2>1. todo \in SUBSET Devices /\ online \in BOOLEAN
    BY <1>0 DEF TypeOK
  <2>2. \A c \in Conns : c \in steady' => online \/ dev[c] \in todo
    BY <1>0, <1>1, <1>2 DEF PushInv
  <2> QED BY <1>0, <1>1, <2>1, <2>2, NextDeviceKeeps
<1>4. TypeOK'
  BY <1>0, <1>1, <1>2, <1>3 DEF TypeOK
<1> QED BY <1>1, <1>2, <1>3, <1>4, PushStep

----------------------------------------------------------------------------
\* Time.

LEMMA TickKeeps ==
    ASSUME PresenceInv, Tick
    PROVE  PresenceInv'
<1>0. /\ TypeOK /\ AskInv
      /\ \A c \in Conns : ConnInv(c) /\ KeyInv(c) /\ SetInv(c) /\ PushInv(c)
  BY DEF PresenceInv
<1>1. /\ \A c \in Conns : rpc[c] \in {"none", "wait"} /\ ~due[c]
      /\ keyTtl' = [d \in Devices |-> IF keyTtl[d] > 0 THEN keyTtl[d] - 1 ELSE 0]
      /\ setTtl' = IF setTtl \in {0, Forever} THEN setTtl ELSE setTtl - 1
      /\ members' = IF setTtl' = 0 THEN {} ELSE members
      /\ due' = [c \in Conns |-> rpc[c] = "wait"]
      /\ found' = [c \in Conns |-> IF pc[c] \in {"sadd", "expire"} THEN "lost" ELSE found[c]]
      /\ UNCHANGED <<dev, pc, rpc, npc, asked, todo, online, faults, steady>>
  BY DEF Tick, pushVars
<1>2. TypeOK'
  <2>1. \A k \in 0 .. TTL : (IF k > 0 THEN k - 1 ELSE 0) \in 0 .. TTL
    BY Ranges
  <2>2. keyTtl' \in [Devices -> 0 .. TTL]
    BY <1>0, <1>1, <2>1 DEF TypeOK
  <2>3. setTtl' \in 0 .. Forever
    BY <1>0, <1>1, Ranges DEF TypeOK
  <2>4. members' \subseteq Devices /\ (setTtl' = 0 <=> members' = {})
    BY <1>0, <1>1, Ranges DEF TypeOK
  <2>5. found' \in [Conns -> {"lost", "recovering", "found"}]
    BY <1>0, <1>1 DEF TypeOK
  <2> QED BY <1>0, <1>1, <2>2, <2>3, <2>4, <2>5 DEF TypeOK
<1>3. ASSUME NEW c \in Conns PROVE ConnInv(c)' /\ KeyInv(c)' /\ SetInv(c)' /\ PushInv(c)'
  <2>1. /\ ConnInv(c) /\ KeyInv(c) /\ SetInv(c) /\ PushInv(c) /\ ~due[c]
        /\ rpc[c] \in {"none", "wait"} /\ due'[c] = (rpc[c] = "wait")
        /\ dev[c] \in Devices /\ found[c] \in {"lost", "recovering", "found"}
    BY <1>0, <1>1 DEF TypeOK
  <2>f. found'[c] = IF pc[c] \in {"sadd", "expire"} THEN "lost" ELSE found[c]
    BY <1>1
  <2>2. ConnInv(c)'
    BY <1>1, <2>1, <2>f DEF ConnInv
  <2>3. Announced(c) => rpc[c] = "wait"
    BY <2>1 DEF ConnInv, Announced
  <2>4. found'[c] # "recovering" /\ (Announced(c)' => Announced(c))
    BY <1>1, <2>1, <2>f DEF ConnInv, Announced
  <2>5. KeyInv(c)'
    <3>1. SUFFICES ASSUME Announced(c)
                   PROVE  keyTtl'[dev[c]] + 1 >= TTL
      BY <1>1, <2>1, <2>3, <2>4 DEF KeyInv, Announced
    <3>2. keyTtl[dev[c]] = TTL
      BY <2>1, <2>3, <3>1 DEF KeyInv
    <3>3. keyTtl'[dev[c]] = TTL - 1
      BY <1>1, <2>1, <3>2, Ranges
    <3> QED BY <3>3, Ranges
  <2>6. SetInv(c)'
    <3>1. SUFFICES ASSUME Announced(c)
                   PROVE  dev[c] \in members' /\ setTtl' + 1 >= 2 * TTL
      BY <1>1, <2>1, <2>3, <2>4 DEF SetInv, Announced
    <3>2. dev[c] \in members /\ setTtl >= 2 * TTL /\ setTtl \in Nat
      BY <1>0, <2>1, <2>3, <3>1, Ranges DEF SetInv, TypeOK
    <3>3. /\ setTtl' \in Nat /\ setTtl' # 0
          /\ \E s \in Nat : setTtl' = s /\ s + 1 >= 2 * TTL
      BY <1>1, <3>2, Ranges
    <3> QED BY <1>1, <3>2, <3>3
  <2>7. PushInv(c)'
    BY <1>1, <2>1 DEF PushInv
  <2> QED BY <2>2, <2>5, <2>6, <2>7
<1>4. AskInv'
  BY <1>0, <1>1 DEF AskInv
<1> QED BY <1>2, <1>3, <1>4 DEF PresenceInv

----------------------------------------------------------------------------
\* The specification.

LEMMA PresenceInitially == Init => PresenceInv
<1> SUFFICES ASSUME Init PROVE PresenceInv
  OBVIOUS
<1>1. dev \in [Conns -> Devices]
  BY PresenceAssumption DEF Init, PresenceAssumption
<1>2. 0 \in 0 .. TTL /\ 0 \in 0 .. Forever
  BY Ranges
<1>3. TypeOK
  BY <1>1, <1>2 DEF Init, TypeOK
<1>4. \A c \in Conns : ConnInv(c) /\ KeyInv(c) /\ SetInv(c) /\ PushInv(c)
  BY DEF Init, ConnInv, KeyInv, SetInv, PushInv, Announced
<1>5. AskInv
  BY DEF Init, AskInv
<1> QED BY <1>3, <1>4, <1>5 DEF PresenceInv

LEMMA PresenceNext == PresenceInv /\ [Next]_vars => PresenceInv'
<1> SUFFICES ASSUME PresenceInv, [Next]_vars PROVE PresenceInv'
  OBVIOUS
<1>1. ASSUME NEW c \in Conns, Step(c) PROVE PresenceInv'
  <2>1. CASE SetOnline(c)
    BY <2>1, OnlineSetKeeps, OnlineSaddKeeps, OnlineExpireKeeps DEF SetOnline
  <2>2. CASE OfflineDel(c) \/ OfflineSrem(c)
    BY <2>2, OfflineKeeps
  <2>3. CASE RefreshStart(c) \/ RefreshStop(c)
    BY <2>3, ConnectKeeps
  <2> QED BY <1>1, <2>1, <2>2, <2>3 DEF Step
<1>2. ASSUME NEW c \in Conns, Connect(c) \/ Disconnect(c) PROVE PresenceInv'
  BY <1>2, ConnectKeeps
<1>3. ASSUME NEW c \in Conns, OfflineDelFails(c) PROVE PresenceInv'
  BY <1>3, OfflineKeeps
<1>4. ASSUME NEW c \in Conns, NEW who \in {"h", "r"}, OnlineFails(c, who) PROVE PresenceInv'
  BY <1>4, OnlineFailsKeeps
<1>5. CASE Push
  BY <1>5, PushCallKeeps, SremStaleKeeps DEF Push
<1>6. CASE IsOnlineFails
  BY <1>6, PushCallKeeps
<1>7. CASE Tick
  BY <1>7, TickKeeps
<1>8. CASE UNCHANGED vars
  BY <1>8 DEF vars, valkeyVars, connVars, pushVars, PresenceInv, TypeOK, AskInv, ConnInv, KeyInv,
              SetInv, PushInv, Announced
<1> QED BY <1>1, <1>2, <1>3, <1>4, <1>5, <1>6, <1>7, <1>8 DEF Next

\* The types of Presence hold in every state; in particular the set of devices exists exactly
\* as long as its time to live runs.
THEOREM PresenceTypes == Spec => []TypeOK
<1>1. PresenceInv => TypeOK
  BY DEF PresenceInv
<1> QED BY <1>1, PresenceInitially, PresenceNext, PTL DEF Spec

\* NotifyOfflineMembers never pushes to a user one of whose connections stayed announced
\* during the whole call, whatever other connections of the user come and go meanwhile.
THEOREM SteadyUserGetsNoPush == Spec => []NoPushToSteady
<1>1. PresenceInv => NoPushToSteady
  BY DEF PresenceInv, TypeOK, PushInv, NoPushToSteady
<1> QED BY <1>1, PresenceInitially, PresenceNext, PTL DEF Spec

\* refreshPresence: between two refreshes neither the key nor the device set expires under an
\* announced connection, whatever other connections, clean-ups and failed calls do to them.
THEOREM AnnouncedStaysOnline == Spec => []AnnouncedIsOnline
<1>1. PresenceInv => AnnouncedIsOnline
  <2> SUFFICES ASSUME PresenceInv, NEW c \in Conns, found[c] = "found"
               PROVE  keyTtl[dev[c]] > 0 /\ dev[c] \in members
    BY DEF AnnouncedIsOnline
  <2>1. keyTtl[dev[c]] + 1 >= TTL /\ dev[c] \in members
    BY DEF PresenceInv, KeyInv, SetInv, Announced
  <2>2. keyTtl[dev[c]] \in 0 .. TTL
    BY DEF PresenceInv, TypeOK
  <2> QED BY <2>1, <2>2, Ranges
<1> QED BY <1>1, PresenceInitially, PresenceNext, PTL DEF Spec

\* refreshPresence and NotifyOfflineMembers: an announced connection is one that IsOnline can
\* see, and a user who has one during a whole call gets no push.
THEOREM AnnouncedUserIsReached == Spec => []AnnouncedIsReached
<1>1. AnnouncedIsOnline /\ NoPushToSteady => AnnouncedIsReached
  BY DEF AnnouncedIsReached
<1> QED BY <1>1, AnnouncedStaysOnline, SteadyUserGetsNoPush, PTL
============================================================================
