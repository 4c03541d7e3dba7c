------------------------- MODULE LiveDeliveryProofs -------------------------
(***************************************************************************)
(* The way of an event to the sockets, for any number of users,            *)
(* connections and events and any sizes of queues, batches and channel:    *)
(* nobody sends on a closed queue, the stream is followed, no frame is     *)
(* lost silently, every member is served once, the goroutines never all    *)
(* wait for each other and leave nothing undone.                           *)
(***************************************************************************)
EXTENDS LiveDelivery, TLAPS

\* The positions of the read loops.
LockTypeOK ==
    handler \in [Clients -> {"none", "reading", "check", "send", "close", "gone"}]

\* Inductive because Close waits for whoever is between the test and the send.
LockInv == LockTypeOK /\ SendOnOpenQueue

LEMMA LockInvInit == Init => LockInv
  BY DEF Init, LockInv, LockTypeOK, SendOnOpenQueue, ReadLocked

LEMMA LockInvStep == LockInv /\ [Next]_liveVars => LockInv'
<1> SUFFICES ASSUME LockInv, [Next]_liveVars PROVE LockInv'
  OBVIOUS
<1>1. CASE Publish \/ BusStep \/ HubTake \/ HubMember
  <2>1. /\ closed' = closed /\ handler' = handler
        /\ hub' # "send" \/ (hub' = hub /\ target' = target)
    BY <1>1 DEF Publish, BusStep, Xread, XreadReturns, Forward, HubTake, HubMember, hubVars,
                clientVars
  <2> QED BY <2>1 DEF LockInv, LockTypeOK, SendOnOpenQueue, ReadLocked
<1>2. CASE HubEnqueue
  BY <1>2 DEF HubEnqueue, clientVars, LockInv, LockTypeOK, SendOnOpenQueue, ReadLocked
<1>3. CASE HubSend
  <2>1. closed' = closed /\ handler' = handler /\ hub' # "send"
    BY <1>3 DEF HubSend, NextTarget
  <2> QED BY <2>1 DEF LockInv, LockTypeOK, SendOnOpenQueue, ReadLocked
<1>4. CASE HubDrop \/ HubClose
  <2>1. handler' = handler /\ hub' # "send" /\ hub # "send"
    BY <1>4 DEF HubDrop, HubClose, NextTarget
  <2>2. closed' = closed \/ \E c \in target : ~ReadLocked(c) /\ closed' = closed \cup {c}
    BY <1>4 DEF HubDrop, HubClose, Close
  <2> QED BY <2>1, <2>2 DEF LockInv, LockTypeOK, SendOnOpenQueue, ReadLocked
<1>5. ASSUME NEW c \in Clients, Connect(c) \/ LoseLink(c) \/ Request(c) \/ PumpWrite(c)
      PROVE  LockInv'
  <2>1. /\ closed' = closed /\ hub' = hub /\ target' = target
        /\ handler' = handler \/ handler' = [handler EXCEPT ![c] = "reading"]
           \/ handler' = [handler EXCEPT ![c] = "check"]
    BY <1>5 DEF Connect, LoseLink, Request, PumpWrite, hubVars
  <2> QED BY <2>1 DEF LockInv, LockTypeOK, SendOnOpenQueue, ReadLocked
<1>6. ASSUME NEW c \in Clients, ReplyCheck(c) \/ ReplySend(c)
      PROVE  LockInv'
  <2>1. /\ closed' = closed /\ hub' = hub /\ target' = target
        /\ \/ handler' = [handler EXCEPT ![c] = "reading"]
           \/ handler' = [handler EXCEPT ![c] = "send"] /\ c \notin closed
    BY <1>6 DEF ReplyCheck, ReplySend, hubVars
  <2> QED BY <2>1 DEF LockInv, LockTypeOK, SendOnOpenQueue, ReadLocked
<1>7. ASSUME NEW c \in Clients, Leave(c) \/ LeaveClose(c) \/ PumpStop(c)
      PROVE  LockInv'
  <2>1. /\ hub' = hub /\ target' = target
        /\ handler' = handler \/ handler' = [handler EXCEPT ![c] = "gone"]
           \/ handler' = [handler EXCEPT ![c] = "close"]
        /\ closed' = closed \/ (~ReadLocked(c) /\ closed' = closed \cup {c})
    BY <1>7 DEF Leave, LeaveClose, PumpStop, Close, hubVars
  <2> QED BY <2>1 DEF LockInv, LockTypeOK, SendOnOpenQueue, ReadLocked
<1>8. CASE UNCHANGED liveVars
  BY <1>8 DEF liveVars, hubVars, clientVars, LockInv, LockTypeOK, SendOnOpenQueue, ReadLocked
<1> QED
  BY <1>1, <1>2, <1>3, <1>4, <1>5, <1>6, <1>7, <1>8
     DEF Next, ServerStep, HubStep, HandlerStep, PumpStep

\* wsClient.enqueue and close: the read lock from the test to the send and the write lock
\* of close rule out a send on a closed channel, which would end the process.
THEOREM NoSendOnClosed == Spec => []SendOnOpenQueue
<1>1. LockInv => SendOnOpenQueue
  BY DEF LockInv
<1> QED BY <1>1, LockInvInit, LockInvStep, PTL DEF Spec

----------------------------------------------------------------------------
\* Sequences of frames.

\* A frame put in the queue is the last one given; the pump moves one without a change.
LEMMA QueuedIsGiven ==
    ASSUME NEW r \in Seq(Nat), NEW q \in Seq(Nat), NEW v \in Nat
    PROVE  r \o Append(q, v) = Append(r \o q, v)
OBVIOUS

LEMMA WrittenIsGiven ==
    ASSUME NEW r \in Seq(Nat), NEW q \in Seq(Nat), q # <<>>
    PROVE  Append(r, Head(q)) \o Tail(q) = r \o q
OBVIOUS

LEMMA AppendedSet ==
    ASSUME NEW s \in Seq(Nat), NEW v \in Nat
    PROVE  ToSet(Append(s, v)) = ToSet(s) \cup {v}
<1> DEFINE t == Append(s, v)
<1>1. /\ t \in Seq(Nat) /\ Len(t) = Len(s) + 1 /\ Len(s) \in Nat /\ t[Len(s) + 1] = v
      /\ \A i \in 1 .. Len(s) : t[i] = s[i]
      /\ DOMAIN t = 1 .. Len(s) + 1 /\ DOMAIN s = 1 .. Len(s)
  OBVIOUS
<1> HIDE DEF t
<1>2. ASSUME NEW x \in ToSet(s) PROVE x \in ToSet(t)
  BY <1>1 DEF ToSet
<1>3. v \in ToSet(t)
  BY <1>1 DEF ToSet
<1>4. ASSUME NEW x \in ToSet(t) PROVE x \in ToSet(s) \cup {v}
  <2>1. PICK i \in 1 .. Len(s) + 1 : x = t[i]
    BY <1>1 DEF ToSet
  <2>2. CASE i = Len(s) + 1
    BY <1>1, <2>1, <2>2
  <2>3. CASE i \in 1 .. Len(s)
    BY <1>1, <2>1, <2>3 DEF ToSet
  <2> QED BY <1>1, <2>2, <2>3
<1> QED BY <1>2, <1>3, <1>4 DEF t

LEMMA TailOf ==
    ASSUME NEW s \in Seq(Nat), s # <<>>
    PROVE  /\ Tail(s) \in Seq(Nat) /\ Len(s) \in Nat \ {0} /\ Len(Tail(s)) = Len(s) - 1
           /\ Head(s) = s[1] /\ s[1] \in Nat
           /\ \A k \in 1 .. Len(s) - 1 : Tail(s)[k] = s[k + 1]
OBVIOUS

\* The event frames of s increase.
Ordered(s) == \A i, j \in DOMAIN s : i < j /\ s[i] # 0 /\ s[j] # 0 => s[i] < s[j]

LEMMA AppendOrdered ==
    ASSUME NEW s \in Seq(Nat), NEW v \in Nat, Ordered(s),
           v = 0 \/ \A x \in ToSet(s) \ {0} : x < v
    PROVE  Ordered(Append(s, v))
<1> DEFINE t == Append(s, v)
<1>1. /\ t \in Seq(Nat) /\ Len(t) = Len(s) + 1 /\ Len(s) \in Nat /\ t[Len(s) + 1] = v
      /\ \A i \in 1 .. Len(s) : t[i] = s[i]
      /\ DOMAIN t = 1 .. Len(s) + 1 /\ DOMAIN s = 1 .. Len(s)
  OBVIOUS
<1> HIDE DEF t
<1>2. \A i \in 1 .. Len(s) : s[i] \in ToSet(s)
  BY <1>1 DEF ToSet
<1>3. ASSUME NEW i \in DOMAIN t, NEW j \in DOMAIN t, i < j, t[i] # 0, t[j] # 0
      PROVE  t[i] < t[j]
  <2>1. i \in 1 .. Len(s)
    BY <1>1, <1>3
  <2>2. CASE j = Len(s) + 1
    BY <1>1, <1>2, <1>3, <2>1, <2>2
  <2>3. CASE j \in 1 .. Len(s)
    BY <1>1, <1>3, <2>1, <2>3 DEF Ordered
  <2> QED BY <1>1, <2>2, <2>3
<1> QED BY <1>3 DEF t, Ordered

LEMMA MinOfTwo ==
    ASSUME NEW a \in Nat, NEW b \in Nat
    PROVE  Min({a, b}) \in {a, b} /\ Min({a, b}) <= a /\ Min({a, b}) <= b
BY DEF Min

----------------------------------------------------------------------------
\* The subscription.  `Reached(n)': it may go on with event n + 1, everything after its
\* last event and up to n being trimmed, unless it has handed on nothing yet.
Reached(n) ==
    /\ n \in lastId .. events
    /\ forwarded = {} \/ n = lastId \/ n <= events - EventMaxLen

BusTypes ==
    /\ events \in Nat /\ lastId \in Nat /\ lastId <= events /\ from \in Nat
    /\ forwarded \subseteq 1 .. lastId
    /\ sub \in {"between", "blocked", "forward"}

BatchInv ==
    /\ batch \in Seq(Nat) /\ batch # <<>>
    /\ \A k \in 1 .. Len(batch) : batch[k] = batch[1] + (k - 1)
    /\ batch[1] >= 1 /\ Reached(batch[1] - 1)
    /\ batch[1] + (Len(batch) - 1) <= events

\* What waits in the channel comes after the hub's event and before the next one.
ChannelInv ==
    /\ msg \in Nat /\ msg <= lastId
    /\ channel \in Seq(Nat)
    /\ \A i \in 1 .. Len(channel) : msg < channel[i] /\ channel[i] <= lastId
    /\ \A i, j \in 1 .. Len(channel) : i < j => channel[i] < channel[j]

BusInv ==
    /\ BusTypes /\ ChannelInv /\ NothingSkippedAfterFirst
    /\ sub = "blocked" => Reached(from)
    /\ sub = "forward" => BatchInv

LEMMA BusInvInit == Init => BusInv
  BY DEF Init, BusInv, BusTypes, ChannelInv, NothingSkippedAfterFirst

LEMMA PublishKeepsBus == BusInv /\ Publish => BusInv'
<1> SUFFICES ASSUME BusInv, Publish PROVE BusInv'
  OBVIOUS
<1>0. EventMaxLen \in Nat
  BY LiveAssumption DEF LiveAssumption
<1>1. /\ events' = events + 1
      /\ UNCHANGED <<sub, lastId, from, batch, forwarded, channel, msg>>
  BY DEF Publish, busVars, hubVars
<1>2. BusTypes' /\ ChannelInv'
  BY <1>1 DEF BusInv, BusTypes, ChannelInv
<1>3. \A n \in Nat : Reached(n) => Reached(n)'
  BY <1>0, <1>1 DEF BusInv, BusTypes, Reached
<1>4. NothingSkippedAfterFirst'
  BY <1>0, <1>1 DEF BusInv, BusTypes, NothingSkippedAfterFirst
<1>5. sub = "forward" => BatchInv'
  <2> SUFFICES ASSUME sub = "forward" PROVE BatchInv'
    OBVIOUS
  <2>1. batch[1] \in Nat /\ Len(batch) \in Nat \ {0} /\ BatchInv
    BY DEF BusInv, BatchInv
  <2>2. batch[1] - 1 \in Nat
    BY <2>1 DEF BatchInv
  <2>3. Reached(batch[1] - 1)'
    BY <1>0, <1>1, <2>1, <2>2 DEF BatchInv, Reached, BusInv, BusTypes
  <2> QED BY <1>1, <2>1, <2>3 DEF BatchInv, BusInv, BusTypes
<1> QED BY <1>1, <1>2, <1>3, <1>4, <1>5 DEF BusInv, BusTypes

LEMMA XreadKeepsBus == BusInv /\ Xread => BusInv'
<1> SUFFICES ASSUME BusInv, Xread PROVE BusInv'
  OBVIOUS
<1>0. EventMaxLen \in Nat
  BY LiveAssumption DEF LiveAssumption
<1>1. sub' = "blocked" /\ UNCHANGED <<events, lastId, batch, forwarded, channel, msg>>
  BY DEF Xread, hubVars
<1>2. from' \in Nat /\ Reached(from')
  <2>1. CASE lastId = 0
    BY <2>1 DEF Xread, BusInv, BusTypes, Reached
  <2>2. CASE lastId # 0
    <3>1. from' = lastId \/ from' \in lastId .. events - EventMaxLen
      BY <2>2 DEF Xread
    <3> QED BY <1>0, <3>1 DEF BusInv, BusTypes, Reached
  <2> QED BY <2>1, <2>2
<1>3. Reached(from)'
  BY <1>1, <1>2 DEF Reached
<1> QED BY <1>1, <1>2, <1>3 DEF BusInv, BusTypes, ChannelInv, NothingSkippedAfterFirst

LEMMA XreadReturnsKeepsBus == BusInv /\ XreadReturns => BusInv'
<1> SUFFICES ASSUME BusInv, XreadReturns PROVE BusInv'
  OBVIOUS
<1>1. sub = "blocked" /\ UNCHANGED <<events, lastId, from, forwarded, channel, msg>>
  BY DEF XreadReturns, hubVars
<1>2. BusTypes /\ Reached(from)
  BY <1>1 DEF BusInv
<1>3. BusTypes' /\ ChannelInv' /\ NothingSkippedAfterFirst'
  <2>1. sub' \in {"between", "forward"}
    BY DEF XreadReturns
  <2> QED BY <1>1, <1>2, <2>1 DEF BusInv, BusTypes, ChannelInv, NothingSkippedAfterFirst
<1>4. CASE sub' = "between"
  BY <1>3, <1>4 DEF BusInv
<1>5. CASE sub' = "forward"
  <2> DEFINE n == Min({events - from, Batch})
  <2>1. events > from /\ batch' = [k \in 1 .. n |-> from + k]
    BY <1>5 DEF XreadReturns
  <2>2. Batch \in Nat \ {0} /\ events - from \in Nat \ {0} /\ events \in Nat /\ from \in Nat
    BY <1>2, <2>1, LiveAssumption DEF BusTypes, LiveAssumption
  <2>3. n \in Nat \ {0} /\ n <= events - from
    BY <2>2, MinOfTwo
  <2> HIDE DEF n
  <2>4. /\ batch' \in Seq(Nat) /\ Len(batch') = n /\ \A k \in 1 .. n : batch'[k] = from + k
        /\ batch'[1] = from + 1
    BY <2>1, <2>2, <2>3
  <2>5. batch'[1] - 1 = from /\ batch' # <<>>
    BY <2>2, <2>3, <2>4
  <2>6. Reached(batch[1] - 1)'
    BY <1>1, <1>2, <2>5 DEF Reached
  <2>7. \A k \in 1 .. Len(batch') : batch'[k] = batch'[1] + (k - 1)
    BY <2>2, <2>3, <2>4
  <2>8. BatchInv'
    BY <1>1, <2>2, <2>3, <2>4, <2>5, <2>6, <2>7 DEF BatchInv
  <2> QED BY <1>3, <1>5, <2>8 DEF BusInv
<1> QED BY <1>4, <1>5 DEF XreadReturns

LEMMA ForwardKeepsBus == BusInv /\ Forward => BusInv'
<1> SUFFICES ASSUME BusInv, Forward PROVE BusInv'
  OBVIOUS
<1> DEFINE v == batch[1]
<1>0. EventMaxLen \in Nat
  BY LiveAssumption DEF LiveAssumption
<1>1. BatchInv /\ BusTypes /\ sub = "forward"
  BY DEF Forward, BusInv
<1>2. /\ v \in Nat /\ v >= 1 /\ v > lastId /\ v <= events /\ Len(batch) \in Nat \ {0}
      /\ Head(batch) = v
      /\ v - 1 = lastId \/ forwarded = {} \/ v - 1 <= events - EventMaxLen
  BY <1>1 DEF BatchInv, Reached, BusTypes
<1>3. /\ channel' = Append(channel, v) /\ lastId' = v /\ forwarded' = forwarded \cup {v}
      /\ batch' = Tail(batch) /\ UNCHANGED <<events, from, msg>>
      /\ sub' = IF Len(batch) = 1 THEN "between" ELSE "forward"
  BY <1>2 DEF Forward, hubVars
<1> HIDE DEF v
<1>4. BusTypes'
  <2>1. \A x \in forwarded : x \in 1 .. v
    BY <1>1, <1>2 DEF BusTypes
  <2>2. forwarded' \subseteq 1 .. v
    BY <1>2, <1>3, <2>1
  <2>3. sub' \in {"between", "forward"}
    BY <1>3
  <2> QED BY <1>1, <1>2, <1>3, <2>2, <2>3 DEF BusTypes
<1>5. ChannelInv'
  <2>1. ChannelInv /\ channel \in Seq(Nat) /\ Len(channel) \in Nat /\ lastId \in Nat /\ msg \in Nat
    BY <1>1 DEF BusInv, ChannelInv, BusTypes
  <2>2. /\ channel' \in Seq(Nat) /\ Len(channel') = Len(channel) + 1
        /\ channel'[Len(channel) + 1] = v
        /\ \A i \in 1 .. Len(channel) : channel'[i] = channel[i]
    BY <1>2, <1>3, <2>1
  <2>3. \A i \in 1 .. Len(channel) : channel[i] \in Nat /\ msg < channel[i] /\ channel[i] < v
    BY <1>2, <2>1 DEF ChannelInv
  <2>4. msg \in Nat /\ msg < v
    BY <1>2, <2>1 DEF ChannelInv
  <2>i. \A i \in 1 .. Len(channel') : i \in 1 .. Len(channel) \/ i = Len(channel) + 1
    BY <2>1, <2>2
  <2>5. \A i \in 1 .. Len(channel') : msg < channel'[i] /\ channel'[i] <= v
    BY <1>2, <2>i, <2>2, <2>3, <2>4
  <2>6. ASSUME NEW i \in 1 .. Len(channel'), NEW j \in 1 .. Len(channel'), i < j
        PROVE  channel'[i] < channel'[j]
    <3>1. i \in 1 .. Len(channel) /\ (j \in 1 .. Len(channel) \/ j = Len(channel) + 1)
      BY <2>1, <2>2, <2>6, <2>i
    <3> QED BY <2>1, <2>2, <2>3, <2>6, <3>1 DEF ChannelInv
  <2> QED BY <1>2, <1>3, <2>2, <2>4, <2>5, <2>6 DEF ChannelInv
<1>6. NothingSkippedAfterFirst'
  <2>1. ASSUME NEW i \in forwarded', NEW j \in i .. lastId'
        PROVE  j \in forwarded' \/ j <= events' - EventMaxLen
    <3>1. i \in Nat /\ j \in Nat /\ i <= j /\ j <= v
      BY <1>1, <1>2, <1>3, <2>1 DEF BusTypes
    <3>2. CASE j = v
      BY <1>3, <3>2
    <3>3. CASE j < v /\ j <= lastId
      <4>1. i \in forwarded /\ j \in i .. lastId
        BY <1>1, <1>2, <1>3, <3>1, <3>3 DEF BusTypes
      <4> QED BY <1>3, <4>1 DEF BusInv, NothingSkippedAfterFirst
    <3>4. CASE j < v /\ j > lastId
      <4>1. i \in forwarded
        BY <1>2, <1>3, <3>1, <3>4
      <4> QED BY <1>0, <1>1, <1>2, <1>3, <3>1, <3>4, <4>1 DEF BusTypes
    <3> QED BY <1>1, <1>2, <3>1, <3>2, <3>3, <3>4 DEF BusTypes
  <2> QED BY <2>1 DEF NothingSkippedAfterFirst
<1>7. ASSUME sub' = "forward" PROVE BatchInv'
  <2>0. Len(batch) # 1
    BY <1>3, <1>7
  <2>1. Len(batch) > 1 /\ batch \in Seq(Nat)
    <3>1. \A n \in Nat \ {0} : n # 1 => n > 1
      OBVIOUS
    <3> QED BY <1>1, <1>2, <2>0, <3>1 DEF BatchInv
  <2>2. /\ batch' \in Seq(Nat) /\ Len(batch') = Len(batch) - 1 /\ batch' # <<>>
        /\ \A k \in 1 .. Len(batch) - 1 : batch'[k] = batch[k + 1]
    <3>1. batch # <<>>
      BY <1>1 DEF BatchInv
    <3>2. /\ Tail(batch) \in Seq(Nat) /\ Len(Tail(batch)) = Len(batch) - 1
          /\ \A k \in 1 .. Len(batch) - 1 : Tail(batch)[k] = batch[k + 1]
      BY <2>1, <3>1, TailOf
    <3>3. Tail(batch) # <<>>
      <4>1. Len(Tail(batch)) # 0
        BY <1>2, <2>1, <3>2
      <4> QED BY <4>1
    <3> QED BY <1>3, <3>2, <3>3
  <2>3. \A k \in 1 .. Len(batch) - 1 : batch'[k] = v + k
    <3>1. ASSUME NEW k \in 1 .. Len(batch) - 1 PROVE batch'[k] = v + k
      <4>1. k + 1 \in 1 .. Len(batch) /\ (k + 1) - 1 = k
        BY <1>2
      <4>2. batch[k + 1] = v + ((k + 1) - 1)
        BY <1>1, <4>1 DEF BatchInv, v
      <4> QED BY <2>2, <4>1, <4>2
    <3> QED BY <3>1
  <2>4. batch'[1] = v + 1 /\ batch'[1] - 1 = v
    BY <1>2, <2>1, <2>3
  <2>5. \A k \in 1 .. Len(batch') : batch'[k] = batch'[1] + (k - 1)
    BY <1>2, <2>1, <2>2, <2>3, <2>4
  <2>6. Reached(batch[1] - 1)'
    <3>1. v \in lastId' .. events'
      BY <1>1, <1>2, <1>3 DEF BusTypes
    <3> QED BY <1>3, <2>4, <3>1 DEF Reached
  <2>7. batch'[1] + (Len(batch') - 1) <= events'
    <3>1. v + (Len(batch) - 1) <= events
      BY <1>1 DEF BatchInv, v
    <3> QED BY <1>1, <1>2, <1>3, <2>1, <2>2, <2>4, <3>1 DEF BusTypes
  <2>8. batch'[1] >= 1
    BY <1>2, <2>4
  <2> QED BY <2>2, <2>5, <2>6, <2>7, <2>8 DEF BatchInv
<1>8. sub' # "blocked"
  BY <1>3
<1> QED BY <1>4, <1>5, <1>6, <1>7, <1>8 DEF BusInv

----------------------------------------------------------------------------
\* Where the goroutines stand.  The hub's position says which of its locals has something
\* left, and a connection is up only while it is open, served by its pump, and registered
\* or about to be closed by the hub.
LinkInv(c) ==
    /\ link[c] = "none" => handler[c] = "none" /\ pump[c] = "none" /\ c \notin users
    /\ link[c] = "up" => /\ c \notin closed /\ pump[c] = "running"
                         /\ c \in users \/ (hub = "close" /\ c \in target)
    /\ handler[c] = "none" => link[c] = "none"
    /\ handler[c] \in {"close", "gone"} => c \notin users /\ link[c] = "down"
    /\ c \in closed => link[c] = "down"

HubPosition ==
    /\ hub \in {"idle", "member", "client", "send", "drop", "close"}
    /\ hub = "member" => todo # {}
    /\ hub = "client" => targets # {}
    /\ hub \in {"send", "drop", "close"} => target # {}
    /\ hub \in {"idle", "member"} => targets = {}
    /\ target \subseteq targets /\ targets \subseteq Clients /\ users \subseteq Clients
    /\ \A c, d \in target : c = d
    /\ \A c \in targets : link[c] # "none"

connectionFunctions ==
    /\ link \in [Clients -> {"none", "up", "down"}]
    /\ handler \in [Clients -> {"none", "reading", "check", "send", "close", "gone"}]
    /\ pump \in [Clients -> {"none", "running", "done"}]

PositionInv == HubPosition /\ connectionFunctions /\ \A c \in Clients : LinkInv(c)

LEMMA PositionInit == Init => PositionInv
  BY DEF Init, PositionInv, HubPosition, connectionFunctions, LinkInv

\* The hub unregisters a target and closes it.
LEMMA HubDropKeepsPositions == PositionInv /\ (HubDrop \/ HubClose) => PositionInv'
<1> SUFFICES ASSUME PositionInv, HubDrop \/ HubClose PROVE PositionInv'
  OBVIOUS
<1>0. UNCHANGED <<handler, pump, todo>>
  BY DEF HubDrop, HubClose
<1>1. CASE HubDrop
  <2>1. PICK c \in target :
          /\ users' = users \ {c}
          /\ \/ hub' = "close" /\ UNCHANGED <<targets, target>>
             \/ c \notin users /\ NextTarget(targets \ {c})
    BY <1>1 DEF HubDrop, Unregister, HasEntry
  <2>2. hub = "drop" /\ UNCHANGED <<closed, link>> /\ c \in Clients /\ \A d \in target : d = c
    BY <1>1 DEF HubDrop, PositionInv, HubPosition
  <2>3. ASSUME NEW d \in Clients PROVE LinkInv(d)'
    <3>1. LinkInv(d) /\ (link[d] = "up" => d \in users)
      BY <2>2 DEF PositionInv, LinkInv
    <3>2. d \in users' \/ d \notin users \/ (d = c /\ hub' = "close" /\ c \in target')
      BY <2>1
    <3>3. d \in users' => d \in users
      BY <2>1
    <3> QED BY <1>0, <2>2, <3>1, <3>2, <3>3 DEF LinkInv
  <2>4. HubPosition'
    BY <1>0, <2>1, <2>2 DEF PositionInv, HubPosition, NextTarget
  <2> QED BY <1>0, <2>2, <2>3, <2>4 DEF PositionInv, connectionFunctions
<1>2. CASE HubClose
  <2>1. PICK c \in target : closed' = closed \cup {c} /\ link' = [link EXCEPT ![c] = "down"]
                            /\ NextTarget(targets \ {c})
    BY <1>2 DEF HubClose, Close
  <2>2. hub = "close" /\ UNCHANGED users /\ c \in Clients /\ \A d \in target : d = c
    BY <1>2 DEF HubClose, PositionInv, HubPosition
  <2>3. connectionFunctions' /\ link'[c] = "down"
        /\ \A d \in Clients \ {c} : link'[d] = link[d]
    BY <1>0, <2>1, <2>2 DEF PositionInv, connectionFunctions
  <2>4. ASSUME NEW d \in Clients PROVE LinkInv(d)'
    <3>1. CASE d = c
      <4>1. link[c] # "none" /\ LinkInv(c) /\ c \in closed'
        BY <2>1, <2>2 DEF PositionInv, HubPosition
      <4> QED BY <1>0, <2>2, <2>3, <3>1, <4>1 DEF LinkInv
    <3>2. CASE d # c
      BY <1>0, <2>1, <2>2, <2>3, <3>2 DEF PositionInv, LinkInv
    <3> QED BY <3>1, <3>2
  <2>5. HubPosition'
    BY <1>0, <2>1, <2>2, <2>3 DEF PositionInv, HubPosition, NextTarget
  <2> QED BY <2>3, <2>4, <2>5 DEF PositionInv
<1> QED BY <1>1, <1>2

LEMMA PositionStep == PositionInv /\ [Next]_liveVars => PositionInv'
<1> SUFFICES ASSUME PositionInv, [Next]_liveVars PROVE PositionInv'
  OBVIOUS
<1>1. CASE Publish \/ BusStep \/ UNCHANGED liveVars
  <2>1. UNCHANGED <<hub, todo, targets, target, users, closed, link, handler, pump>>
    BY <1>1 DEF Publish, BusStep, Xread, XreadReturns, Forward, hubVars, clientVars, liveVars
  <2> QED BY <2>1 DEF PositionInv, HubPosition, connectionFunctions, LinkInv
<1>2. CASE HubTake \/ HubMember \/ HubEnqueue \/ HubSend
  <2>1. UNCHANGED <<users, closed, link, handler, pump>> /\ hub # "close"
    BY <1>2 DEF HubTake, HubMember, HubEnqueue, HubSend, clientVars
  <2>2. HubPosition'
    <3>1. CASE HubTake
      BY <2>1, <3>1 DEF HubTake, PositionInv, HubPosition
    <3>2. CASE HubMember
      BY <2>1, <3>2 DEF HubMember, PositionInv, HubPosition, ClientsForUser, LinkInv
    <3>3. CASE HubEnqueue
      BY <2>1, <3>3 DEF HubEnqueue, PositionInv, HubPosition
    <3>4. CASE HubSend
      BY <2>1, <3>4 DEF HubSend, NextTarget, PositionInv, HubPosition
    <3> QED BY <1>2, <3>1, <3>2, <3>3, <3>4
  <2> QED BY <2>1, <2>2 DEF PositionInv, connectionFunctions, LinkInv
<1>3. CASE HubDrop \/ HubClose
  BY <1>3, HubDropKeepsPositions
<1>4. ASSUME NEW c \in Clients, HandlerStep(c) \/ PumpStep(c) \/ Connect(c) \/ LoseLink(c) \/ Request(c)
      PROVE  PositionInv'
  <2>1. UNCHANGED <<hub, todo, targets, target>>
    BY <1>4 DEF HandlerStep, PumpStep, ReplyCheck, ReplySend, Leave, LeaveClose, PumpWrite,
                PumpStop, Connect, LoseLink, Request, hubVars
  <2>2. /\ users' \subseteq users \cup {c} /\ users \subseteq users' \cup {c}
        /\ connectionFunctions' /\ (link[c] # "none" => link'[c] # "none")
        /\ \A d \in Clients \ {c} :
              /\ link'[d] = link[d] /\ handler'[d] = handler[d] /\ pump'[d] = pump[d]
              /\ d \in closed' <=> d \in closed
    BY <1>4 DEF HandlerStep, PumpStep, ReplyCheck, ReplySend, Leave, LeaveClose, PumpWrite,
              PumpStop, Connect, LoseLink, Request, Register, Unregister, Close, PositionInv,
              connectionFunctions
  <2>3. ASSUME NEW d \in Clients \ {c} PROVE LinkInv(d)'
    BY <2>1, <2>2 DEF PositionInv, LinkInv
  <2>4. LinkInv(c)'
    <3>1. CASE Leave(c)
      <4>1. /\ link[c] = "down" /\ handler[c] = "reading" /\ users' = users \ {c}
            /\ UNCHANGED <<closed, link, pump>> /\ handler'[c] \in {"close", "gone"}
        BY <3>1 DEF Leave, Unregister, PositionInv, connectionFunctions
      <4> QED BY <4>1 DEF PositionInv, LinkInv
    <3>2. CASE LeaveClose(c)
      <4>1. /\ handler[c] = "close" /\ handler'[c] = "gone" /\ UNCHANGED <<users, pump>>
            /\ closed' = closed \cup {c} /\ link'[c] = "down"
        BY <3>2 DEF LeaveClose, Close, PositionInv, connectionFunctions
      <4> QED BY <4>1 DEF PositionInv, LinkInv
    <3>3. CASE ReplyCheck(c) \/ ReplySend(c) \/ Request(c) \/ PumpWrite(c)
      <4>1. UNCHANGED <<users, closed, link, pump>>
            /\ \/ handler'[c] = handler[c]
               \/ handler[c] \in {"reading", "check", "send"}
                  /\ handler'[c] \in {"reading", "check", "send"}
        BY <3>3 DEF ReplyCheck, ReplySend, Request, PumpWrite, PositionInv, connectionFunctions
      <4> QED BY <2>1, <4>1 DEF PositionInv, LinkInv
    <3>4. CASE Connect(c)
      <4>1. /\ link[c] = "none" /\ link'[c] = "up" /\ c \in users' /\ UNCHANGED closed
            /\ handler'[c] = "reading" /\ pump'[c] = "running"
        BY <3>4 DEF Connect, Register, PositionInv, connectionFunctions
      <4> QED BY <4>1 DEF PositionInv, LinkInv
    <3>5. CASE LoseLink(c) \/ PumpStop(c)
      <4>1. /\ link[c] # "none" /\ link'[c] = "down" /\ UNCHANGED <<users, handler>>
        BY <3>5 DEF LoseLink, PumpStop, Close, PositionInv, connectionFunctions
      <4> QED BY <4>1 DEF PositionInv, LinkInv
    <3> QED BY <1>4, <3>1, <3>2, <3>3, <3>4, <3>5 DEF HandlerStep, PumpStep
  <2>5. HubPosition'
    BY <2>1, <2>2 DEF PositionInv, HubPosition
  <2> QED BY <2>2, <2>3, <2>4, <2>5 DEF PositionInv
<1> QED BY <1>1, <1>2, <1>3, <1>4 DEF Next, ServerStep, HubStep

LEMMA PositionInvariant == Spec => []PositionInv
  BY PositionInit, PositionStep, PTL DEF Spec

----------------------------------------------------------------------------
\* The hub.  An event is still to come to a client when its user is to be looked up or the
\* client is among the sockets found.
Pending(c) == UserOf[c] \in todo \/ c \in targets

\* Unregister has taken the client out of the map and is about to close it.
Closing(c) == handler[c] = "close" \/ (hub = "close" /\ c \in target)

\* A socket the hub found is registered, or was closed since or is about to be.
HubInv ==
    /\ hub \in {"idle", "member", "client", "send", "drop", "close"}
    /\ hub = "idle" => todo = {}
    /\ hub # "idle" => msg >= 1
    /\ hub \in {"idle", "member"} => targets = {}
    /\ todo \subseteq Users
    /\ targets \subseteq Clients /\ target \subseteq targets
    /\ \A c, d \in target : c = d
    /\ users \subseteq Clients
    /\ \A c \in targets : UserOf[c] \notin todo /\ (c \in users \cup closed \/ Closing(c))

\* The frames of a client are in order and none is after the hub's event, which was not
\* given to it while it is pending; what is due to an open client was given or is pending.
ClientInv(c) ==
    /\ received[c] \in Seq(Nat) /\ queue[c] \in Seq(Nat) /\ Ordered(Frames(c))
    /\ \A v \in Given(c) : v <= msg /\ (Pending(c) => v < msg)
    /\ c \in users \ closed => \A v \in due[c] : v \in Given(c) \/ (v = msg /\ Pending(c))
    /\ link[c] = "none" => c \notin users /\ due[c] = {}

\* A member is pushed to only when no socket of it was or will be tried, and one that is
\* neither pushed to nor tried is still to come.
Tried(v, u) == \E c \in Clients : UserOf[c] = u /\ (v \in Given(c) \/ <<v, c>> \in dropped)
Awaited(v, u) == v = msg /\ (u \in todo \/ \E c \in targets : UserOf[c] = u)

\* The hub is about to unregister the client.
AtDrop(c) == hub \in {"drop", "close"} /\ c \in target

DroppedInv ==
    /\ \A c \in Clients : AtDrop(c) => <<msg, c>> \in dropped
    /\ \A v, c : <<v, c>> \in dropped =>
          /\ v \in Nat /\ v <= msg /\ c \in Clients /\ v \notin Given(c)
          /\ c \in closed \/ AtDrop(c)
          /\ v = msg /\ Pending(c) => AtDrop(c)

ServedInv ==
    /\ \A v, u : <<v, u>> \in pushes => v \in Nat /\ v <= msg /\ ~Tried(v, u) /\ ~Awaited(v, u)
    /\ listed \subseteq 1 .. msg
    /\ \A v \in listed : \A u \in Users \ {Sender[v]} :
          Tried(v, u) \/ <<v, u>> \in pushes \/ Awaited(v, u)

clientFunctions ==
    /\ DOMAIN queue = Clients /\ DOMAIN received = Clients /\ DOMAIN due = Clients
    /\ DOMAIN link = Clients /\ closed \subseteq Clients

LiveInv ==
    /\ BusInv /\ HubInv /\ DroppedInv /\ ServedInv /\ clientFunctions
    /\ \A c \in Clients : ClientInv(c)

LEMMA LiveInvInit == Init => LiveInv
<1> SUFFICES ASSUME Init PROVE LiveInv
  OBVIOUS
<1>1. ASSUME NEW c \in Clients PROVE ClientInv(c)
  <2>1. received[c] = <<>> /\ queue[c] = <<>> /\ due[c] = {} /\ users = {}
    BY DEF Init
  <2>2. Frames(c) = <<>> /\ DOMAIN Frames(c) = {}
    BY <2>1 DEF Frames
  <2> QED BY <2>1, <2>2 DEF ClientInv, Ordered, Given, ToSet
<1>2. HubInv /\ DroppedInv /\ ServedInv /\ clientFunctions
  BY DEF Init, HubInv, DroppedInv, AtDrop, ServedInv, clientFunctions
<1> QED BY <1>1, <1>2, BusInvInit DEF LiveInv

\* The subscription and the stream are not seen by the hub and its clients.
LEMMA BusKeepsLive == LiveInv /\ (Publish \/ BusStep) => LiveInv'
<1> SUFFICES ASSUME LiveInv, Publish \/ BusStep PROVE LiveInv'
  OBVIOUS
<1>1. UNCHANGED <<hub, msg, todo, targets, target, listed, dropped, pushes, users, closed,
                  queue, received, link, handler, due>>
  BY DEF Publish, BusStep, Xread, XreadReturns, Forward, hubVars, clientVars
<1>2. BusInv'
  BY PublishKeepsBus, XreadKeepsBus, XreadReturnsKeepsBus, ForwardKeepsBus DEF LiveInv, BusStep
<1>3. HubInv' /\ clientFunctions'
  BY <1>1 DEF LiveInv, HubInv, Closing, clientFunctions
<1>4. \A c : Frames(c)' = Frames(c) /\ Given(c)' = Given(c) /\ Pending(c)' = Pending(c)
  BY <1>1 DEF Frames, Given, Pending
<1>5. \A c \in Clients : ClientInv(c)'
  BY <1>1, <1>4 DEF LiveInv, ClientInv
<1>6. \A v, u : Tried(v, u)' = Tried(v, u) /\ Awaited(v, u)' = Awaited(v, u)
  BY <1>1, <1>4 DEF Tried, Awaited
<1>7. ServedInv'
  BY <1>1, <1>6 DEF LiveInv, ServedInv
<1>8. DroppedInv'
  BY <1>1, <1>4 DEF LiveInv, DroppedInv, AtDrop
<1> QED BY <1>2, <1>3, <1>5, <1>7, <1>8 DEF LiveInv

\* A step that leaves the stream and the channel alone keeps the subscription's invariant.
LEMMA BusUntouched ==
    ASSUME BusInv, UNCHANGED <<events, busVars, channel, msg>>
    PROVE  BusInv'
<1>1. UNCHANGED <<events, sub, lastId, from, batch, forwarded, channel, msg>>
  BY DEF busVars
<1> QED BY <1>1 DEF BusInv, BusTypes, ChannelInv, NothingSkippedAfterFirst, BatchInv, Reached

\* What the goroutines of the connections do: frames are given in order, clients are closed
\* and leave the map together, and a client that comes is due nothing.
LEMMA ClientsKeepLive ==
    ASSUME LiveInv, UNCHANGED <<events, busVars, channel, hubVars, due>>, clientFunctions',
           \A c \in Clients : /\ received'[c] \in Seq(Nat) /\ queue'[c] \in Seq(Nat)
                              /\ Ordered(Frames(c))' /\ Given(c)' = Given(c)
                              /\ link'[c] = "none" => link[c] = "none" /\ c \notin users',
           users' \subseteq Clients, closed \subseteq closed',
           \A c \in targets : c \in users \cup closed \/ Closing(c)
                               => c \in users' \cup closed' \/ Closing(c)',
           \A c \in users' \ closed' : c \in users \ closed \/ due[c] = {}
    PROVE  LiveInv'
<1>1. UNCHANGED <<hub, msg, todo, targets, target, listed, dropped, pushes>>
  BY DEF hubVars
<1>2. BusInv'
  BY <1>1, BusUntouched DEF LiveInv
<1>3. HubInv'
  BY <1>1 DEF LiveInv, HubInv
<1>4. \A c : Pending(c)' = Pending(c)
  BY <1>1 DEF Pending
<1>5. ASSUME NEW c \in Clients PROVE ClientInv(c)'
  BY <1>1, <1>4 DEF LiveInv, ClientInv
<1>6. \A v, u : Tried(v, u)' = Tried(v, u) /\ Awaited(v, u)' = Awaited(v, u)
  BY <1>1 DEF Tried, Awaited
<1>7. ServedInv'
  BY <1>1, <1>6 DEF LiveInv, ServedInv
<1>8. DroppedInv'
  BY <1>1, <1>4 DEF LiveInv, DroppedInv, AtDrop
<1> QED BY <1>2, <1>3, <1>5, <1>7, <1>8 DEF LiveInv

LEMMA ConnectionKeepsLive ==
    ASSUME LiveInv, PositionInv, NEW c \in Clients,
           \/ Connect(c) \/ LoseLink(c) \/ Request(c) \/ ReplyCheck(c) \/ Leave(c)
           \/ LeaveClose(c) \/ PumpStop(c)
    PROVE  LiveInv'
<1>0. UNCHANGED <<queue, received, events, busVars, channel, hubVars, due>>
  BY DEF Connect, LoseLink, Request, ReplyCheck, Leave, LeaveClose, PumpStop, Unregister, Close
<1>1. \A d \in Clients : /\ received'[d] \in Seq(Nat) /\ queue'[d] \in Seq(Nat)
                         /\ Ordered(Frames(d))' /\ Given(d)' = Given(d)
  BY <1>0 DEF LiveInv, ClientInv, Frames, Given, Ordered
<1>f. clientFunctions /\ users \subseteq Clients /\ targets \subseteq Clients
      /\ \A d \in Clients : link[d] = "none" => d \notin users /\ due[d] = {}
  BY DEF LiveInv, ClientInv, HubInv
<1>g. connectionFunctions /\ \A d \in Clients : link[d] = "none" => handler[d] = "none"
  BY DEF PositionInv, LinkInv
<1>2. CASE Leave(c)
  <2>1. /\ users' = users \ {c} /\ closed' = closed /\ link' = link /\ ~Locked
        /\ handler' = [handler EXCEPT ![c] = IF HasEntry(c) THEN "close" ELSE "gone"]
    BY <1>2 DEF Leave, Unregister
  <2>2. clientFunctions'
    BY <1>0, <1>f, <2>1 DEF clientFunctions
  <2>3. \A d \in Clients : link'[d] = "none" => link[d] = "none" /\ d \notin users'
    BY <1>f, <2>1
  <2>4. ASSUME NEW d \in targets, d \in users \cup closed \/ Closing(d)
        PROVE  d \in users' \cup closed' \/ Closing(d)'
    <3>1. ~Closing(d)
      BY <1>f, <2>1 DEF Locked, Closing
    <3>2. CASE d = c /\ d \in users
      BY <1>g, <2>1, <3>2 DEF HasEntry, Closing, connectionFunctions
    <3> QED BY <2>1, <2>4, <3>1, <3>2
  <2>5. \A d \in users' \ closed' : d \in users \ closed
    BY <2>1
  <2> QED BY <1>0, <1>1, <1>f, <2>1, <2>2, <2>3, <2>4, <2>5, ClientsKeepLive
<1>3. CASE ~Leave(c)
  <2>1. /\ users' = users \/ (users' = users \cup {c} /\ link[c] = "none" /\ link'[c] = "up")
        /\ closed' = closed \/ closed' = closed \cup {c}
        /\ link' = link \/ link' = [link EXCEPT ![c] = "up"] \/ link' = [link EXCEPT ![c] = "down"]
    BY <1>3, <1>f DEF Connect, LoseLink, Request, ReplyCheck, LeaveClose, PumpStop, Close, Register,
                      clientFunctions
  <2>2. clientFunctions'
    BY <1>0, <1>f, <2>1 DEF clientFunctions
  <2>3. \A d \in Clients : link'[d] = "none" => link[d] = "none" /\ d \notin users'
    BY <1>f, <2>1 DEF clientFunctions
  <2>4. /\ users' \subseteq Clients /\ users \subseteq users' /\ closed \subseteq closed'
        /\ \A d \in users' \ closed' : d \in users \ closed \/ due[d] = {}
    BY <1>f, <2>1
  <2>5. ASSUME NEW d \in targets, Closing(d) PROVE d \in closed' \/ Closing(d)'
    <3>1. hub' = hub /\ target' = target
      BY <1>0 DEF hubVars
    <3>2. \/ handler'[d] = handler[d]
          \/ d = c /\ c \in closed'
          \/ handler[d] # "close"
      BY <1>3, <1>f, <1>g DEF Connect, LoseLink, Request, ReplyCheck, LeaveClose, PumpStop, Close,
                        connectionFunctions
    <3> QED BY <2>5, <3>1, <3>2 DEF Closing
  <2>6. \A d \in targets : d \in users \cup closed \/ Closing(d)
                             => d \in users' \cup closed' \/ Closing(d)'
    BY <2>4, <2>5
  <2> QED BY <1>0, <1>1, <2>2, <2>3, <2>4, <2>6, ClientsKeepLive
<1> QED BY <1>2, <1>3

\* An answer goes into the queue, the pump moves a frame: neither is an event frame more.
LEMMA FramesKeepLive ==
    ASSUME LiveInv, NEW c \in Clients, connectionFunctions, ReplySend(c) \/ PumpWrite(c)
    PROVE  LiveInv'
<1>0. UNCHANGED <<users, closed, link, events, busVars, channel, hubVars, due>>
  BY DEF ReplySend, PumpWrite
<1>1. /\ received[c] \in Seq(Nat) /\ queue[c] \in Seq(Nat) /\ Ordered(Frames(c))
      /\ Frames(c) \in Seq(Nat) /\ clientFunctions
  BY DEF LiveInv, ClientInv, Frames
<1>2. \A d \in Clients \ {c} : received'[d] = received[d] /\ queue'[d] = queue[d]
  BY <1>1 DEF ReplySend, PumpWrite, clientFunctions
<1>3. /\ received'[c] \in Seq(Nat) /\ queue'[c] \in Seq(Nat)
      /\ Frames(c)' = Frames(c) \/ Frames(c)' = Append(Frames(c), 0)
  <2>1. CASE ReplySend(c)
    <3>1. received' = received /\ (queue'[c] = queue[c] \/ queue'[c] = Append(queue[c], 0))
      BY <1>1, <2>1 DEF ReplySend, clientFunctions
    <3>2. received[c] \o Append(queue[c], 0) = Append(received[c] \o queue[c], 0)
      BY <1>1, QueuedIsGiven
    <3>3. Append(queue[c], 0) \in Seq(Nat)
      BY <1>1
    <3>4. received'[c] \in Seq(Nat) /\ queue'[c] \in Seq(Nat)
      BY <1>1, <3>1, <3>3, Zenon
    <3>5. received'[c] \o queue'[c] \in {Frames(c), Append(Frames(c), 0)}
      BY <3>1, <3>2, Zenon DEF Frames
    <3> QED BY <3>4, <3>5, Zenon DEF Frames
  <2>2. CASE PumpWrite(c)
    <3>1. /\ queue[c] # <<>> /\ received'[c] = Append(received[c], Head(queue[c]))
          /\ queue'[c] = Tail(queue[c])
      BY <1>1, <2>2 DEF PumpWrite, clientFunctions
    <3>2. received'[c] \o queue'[c] = received[c] \o queue[c]
      BY <1>1, <3>1, WrittenIsGiven
    <3>3. Head(queue[c]) \in Nat /\ Tail(queue[c]) \in Seq(Nat)
      BY <1>1, <3>1, TailOf
    <3>4. Append(received[c], Head(queue[c])) \in Seq(Nat)
      BY <1>1, <3>3
    <3>5. received'[c] \in Seq(Nat) /\ queue'[c] \in Seq(Nat)
      BY <3>1, <3>3, <3>4, Zenon
    <3> QED BY <3>2, <3>5, Zenon DEF Frames
  <2> QED BY <2>1, <2>2
<1>4. Ordered(Frames(c))' /\ Given(c)' = Given(c)
  <2>1. Ordered(Append(Frames(c), 0)) /\ ToSet(Append(Frames(c), 0)) = ToSet(Frames(c)) \cup {0}
    BY <1>1, AppendOrdered, AppendedSet
  <2>2. CASE Frames(c)' = Append(Frames(c), 0)
    BY <2>1, <2>2 DEF Ordered, Given
  <2>3. CASE Frames(c)' = Frames(c)
    BY <1>1, <2>3 DEF Ordered, Given
  <2> QED BY <1>3, <2>2, <2>3
<1>5. ASSUME NEW d \in Clients \ {c}
      PROVE  Ordered(Frames(d))' /\ Given(d)' = Given(d)
  BY <1>2 DEF LiveInv, ClientInv, Frames, Given, Ordered
<1>6. \A d \in Clients : /\ received'[d] \in Seq(Nat) /\ queue'[d] \in Seq(Nat)
                         /\ Ordered(Frames(d))' /\ Given(d)' = Given(d)
                         /\ link'[d] = "none" => link[d] = "none" /\ d \notin users'
  <2>1. ASSUME NEW d \in Clients \ {c}
        PROVE  received[d] \in Seq(Nat) /\ queue[d] \in Seq(Nat)
    BY DEF LiveInv, ClientInv
  <2>2. \A d \in Clients : link[d] = "none" => d \notin users
    BY DEF LiveInv, ClientInv
  <2> QED BY <1>0, <1>2, <1>3, <1>4, <1>5, <2>1, <2>2
<1>7. clientFunctions'
  BY <1>0, <1>1 DEF clientFunctions, ReplySend, PumpWrite
<1>8. users \subseteq Clients /\ targets \subseteq Clients
  BY DEF LiveInv, HubInv
<1>9. \A d \in targets : Closing(d) => Closing(d)'
  <2>1. hub' = hub /\ target' = target
    BY <1>0 DEF hubVars
  <2>2. \A d \in Clients : handler[d] = "close" => handler'[d] = "close"
    BY DEF ReplySend, PumpWrite, connectionFunctions
  <2> QED BY <1>8, <2>1, <2>2 DEF Closing
<1> QED BY <1>0, <1>6, <1>7, <1>8, <1>9, ClientsKeepLive

----------------------------------------------------------------------------
\* The steps of the hub.

\* The hub takes an event, which comes after everything it broadcast.
LEMMA HubTakeKeepsLive ==
    ASSUME LiveInv, HubTake
    PROVE  LiveInv'
<1> DEFINE v == channel[1]
<1>0. /\ channel \in Seq(Nat) /\ channel # <<>> /\ BusTypes /\ ChannelInv /\ HubInv /\ ServedInv
      /\ DroppedInv /\ clientFunctions /\ Len(channel) \in Nat
  BY DEF HubTake, LiveInv, BusInv, ChannelInv
<1>1. /\ Tail(channel) \in Seq(Nat) /\ Len(channel) \in Nat \ {0}
      /\ Len(Tail(channel)) = Len(channel) - 1 /\ Head(channel) = v /\ v \in Nat
      /\ \A k \in 1 .. Len(channel) - 1 : Tail(channel)[k] = channel[k + 1]
  BY <1>0, TailOf
<1>2. v > msg /\ v <= lastId /\ msg \in Nat /\ lastId \in Nat
  BY <1>0, <1>1 DEF ChannelInv, BusTypes
<1>3. /\ hub = "idle" /\ channel' = Tail(channel) /\ msg' = v
      /\ UNCHANGED <<events, busVars, targets, target, dropped, pushes, users, closed, queue,
                     received, link>>
      /\ todo = {} /\ targets = {}
  BY <1>0, <1>1 DEF HubTake, HubInv, clientVars
<1>4. \/ /\ todo' = Users \ {Sender[v]} /\ listed' = listed \cup {v}
         /\ hub' = IF todo' = {} THEN "idle" ELSE "member"
         /\ due' = [c \in Clients |-> IF c \in users \ closed /\ UserOf[c] \in todo'
                                        THEN due[c] \cup {v} ELSE due[c]]
      \/ UNCHANGED <<todo, hub, listed, due>>
  BY <1>1 DEF HubTake
<1> HIDE DEF v
<1>5. BusInv'
  <2>1. UNCHANGED <<events, sub, lastId, from, batch, forwarded>>
    BY <1>3 DEF busVars
  <2>2. ASSUME NEW i \in 1 .. Len(channel') PROVE v < channel'[i] /\ channel'[i] <= lastId
    <3>1. i + 1 \in 1 .. Len(channel) /\ 1 \in 1 .. Len(channel) /\ 1 < i + 1
          /\ i \in 1 .. Len(channel) - 1
      BY <1>1, <1>3
    <3>2. channel'[i] = channel[i + 1]
      BY <1>1, <1>3, <3>1
    <3> QED BY <1>0, <3>1, <3>2 DEF ChannelInv, v
  <2>3. ASSUME NEW i \in 1 .. Len(channel'), NEW j \in 1 .. Len(channel'), i < j
        PROVE  channel'[i] < channel'[j]
    <3>1. /\ i + 1 \in 1 .. Len(channel) /\ j + 1 \in 1 .. Len(channel) /\ i + 1 < j + 1
          /\ i \in 1 .. Len(channel) - 1 /\ j \in 1 .. Len(channel) - 1
      BY <1>1, <1>3, <2>3
    <3>2. channel'[i] = channel[i + 1] /\ channel'[j] = channel[j + 1]
      BY <1>1, <1>3, <3>1
    <3> QED BY <1>0, <3>1, <3>2 DEF ChannelInv
  <2>4. ChannelInv'
    BY <1>1, <1>2, <1>3, <2>1, <2>2, <2>3 DEF ChannelInv
  <2> QED BY <2>1, <2>4 DEF LiveInv, BusInv, BusTypes, NothingSkippedAfterFirst, BatchInv, Reached
<1>6. HubInv'
  BY <1>0, <1>1, <1>2, <1>3, <1>4 DEF HubInv
<1>7. clientFunctions'
  BY <1>0, <1>3, <1>4 DEF clientFunctions
<1>8. /\ \A c : ~Pending(c) /\ Given(c)' = Given(c) /\ Frames(c)' = Frames(c)
      /\ \A w, u : ~Awaited(w, u) /\ (Tried(w, u)' = Tried(w, u))
  BY <1>3 DEF Pending, Frames, Given, Awaited, Tried
<1>9. ASSUME NEW c \in Clients PROVE ClientInv(c)'
  <2>1. ClientInv(c)
    BY DEF LiveInv
  <2>2. \A w \in Given(c) : w \in Nat /\ w <= msg
    <3>1. Frames(c) \in Seq(Nat)
      BY <2>1 DEF ClientInv, Frames
    <3>2. \A w \in ToSet(Frames(c)) : w \in Nat
      BY <3>1 DEF ToSet
    <3> QED BY <2>1, <3>2 DEF ClientInv, Given
  <2>3. \A w \in Given(c)' : w < msg'
    BY <1>1, <1>2, <1>3, <1>8, <2>2
  <2>4. c \in users \ closed => \A w \in due'[c] : w \in Given(c)' \/ (w = msg' /\ Pending(c)')
    <3>1. c \in users \ closed => \A w \in due[c] : w \in Given(c)
      BY <1>8, <2>1 DEF ClientInv
    <3>2. \A w \in due'[c] : w \in due[c] \/ (w = v /\ UserOf[c] \in todo')
      BY <1>4
    <3> QED BY <1>3, <1>8, <3>1, <3>2 DEF Pending
  <2>5. c \notin users => due'[c] = due[c]
    BY <1>4
  <2>6. Ordered(Frames(c))'
    BY <1>8, <2>1 DEF ClientInv, Ordered
  <2>7. \A w \in Given(c)' : w <= msg' /\ (Pending(c)' => w < msg')
    BY <1>1, <1>2, <1>3, <1>8, <2>2, <2>3
  <2> QED BY <1>3, <2>1, <2>4, <2>5, <2>6, <2>7 DEF ClientInv
<1>10. ServedInv'
  <2>1. ASSUME NEW w, NEW u, <<w, u>> \in pushes
        PROVE  w \in Nat /\ w <= msg' /\ ~Tried(w, u)' /\ ~Awaited(w, u)'
    <3>1. w \in Nat /\ w <= msg /\ ~Tried(w, u)
      BY <1>0, <2>1 DEF ServedInv
    <3> QED BY <1>1, <1>2, <1>3, <1>8, <3>1 DEF Awaited
  <2>2. listed' \subseteq 1 .. msg'
    <3>1. \A w \in 1 .. msg : w \in 1 .. v
      BY <1>1, <1>2
    <3>2. v \in 1 .. v
      BY <1>1, <1>2
    <3> QED BY <1>0, <1>3, <1>4, <3>1, <3>2 DEF ServedInv
  <2>3. ASSUME NEW w \in listed', NEW u \in Users \ {Sender[w]}
        PROVE  Tried(w, u)' \/ <<w, u>> \in pushes' \/ Awaited(w, u)'
    <3>1. CASE w \in listed
      BY <1>0, <1>3, <1>8, <3>1 DEF ServedInv
    <3>2. CASE w \notin listed
      BY <1>3, <1>4, <3>2 DEF Awaited
    <3> QED BY <3>1, <3>2
  <2> QED BY <1>3, <2>1, <2>2, <2>3 DEF ServedInv
<1>11. DroppedInv'
  <2>1. hub' \in {"idle", "member"}
    BY <1>3, <1>4
  <2>2. ASSUME NEW w, NEW c, <<w, c>> \in dropped
        PROVE  /\ w \in Nat /\ w <= msg' /\ w # msg' /\ c \in Clients /\ w \notin Given(c)'
               /\ c \in closed
    <3>1. w \in Nat /\ w <= msg /\ c \in Clients /\ w \notin Given(c) /\ c \in closed
      BY <1>0, <1>3, <2>2 DEF DroppedInv, AtDrop
    <3> QED BY <1>1, <1>2, <1>3, <1>8, <3>1
  <2> QED BY <1>3, <2>1, <2>2 DEF DroppedInv, AtDrop
<1> QED BY <1>5, <1>6, <1>7, <1>9, <1>10, <1>11 DEF LiveInv

\* The sockets of the next member become targets; without one it is pushed to.
LEMMA HubMemberKeepsLive ==
    ASSUME LiveInv, HubMember
    PROVE  LiveInv'
<1>0. BusInv /\ HubInv /\ DroppedInv /\ ServedInv /\ clientFunctions /\ msg \in Nat
  BY DEF LiveInv, BusInv, ChannelInv
<1>1. PICK u \in todo :
        /\ todo' = todo \ {u} /\ targets' = ClientsForUser(u)
        /\ pushes' = IF ClientsForUser(u) = {} THEN pushes \cup {<<msg, u>>} ELSE pushes
        /\ hub' = IF ClientsForUser(u) # {} THEN "client"
                  ELSE IF todo' = {} THEN "idle" ELSE "member"
  BY DEF HubMember
<1>2. /\ hub = "member" /\ targets = {}
      /\ UNCHANGED <<events, busVars, channel, msg, target, listed, dropped, users, closed,
                     queue, received, link, handler, due>>
  BY <1>0 DEF HubMember, HubInv, clientVars
<1>3. BusInv'
  BY <1>0, <1>2, BusUntouched
<1>4. HubInv'
  BY <1>0, <1>1, <1>2 DEF HubInv, Closing, ClientsForUser
<1>5. clientFunctions'
  BY <1>0, <1>2 DEF clientFunctions
<1>6. /\ \A c : Given(c)' = Given(c) /\ Frames(c)' = Frames(c)
      /\ \A w, x : Tried(w, x)' = Tried(w, x)
  BY <1>2 DEF Frames, Given, Tried
<1>7. \A c \in Clients : /\ Pending(c)' => Pending(c)
                         /\ c \in users => Pending(c)' = Pending(c)
  BY <1>1, <1>2 DEF Pending, ClientsForUser
<1>8. ASSUME NEW c \in Clients PROVE ClientInv(c)'
  <2>1. ClientInv(c)
    BY DEF LiveInv
  <2>2. Ordered(Frames(c))'
    BY <1>6, <2>1 DEF ClientInv, Ordered
  <2> QED BY <1>2, <1>6, <1>7, <2>1, <2>2 DEF ClientInv
<1>9. \A w, x : Awaited(w, x)' => Awaited(w, x)
  BY <1>1, <1>2 DEF Awaited, ClientsForUser
<1>10. ~Tried(msg, u) /\ (ClientsForUser(u) = {} => ~Awaited(msg, u)')
  <2>1. ASSUME NEW c \in Clients, UserOf[c] = u
        PROVE  msg \notin Given(c) /\ <<msg, c>> \notin dropped
    <3>1. Pending(c)
      BY <1>1, <2>1 DEF Pending
    <3> QED BY <1>0, <1>2, <3>1 DEF LiveInv, ClientInv, DroppedInv, AtDrop
  <2> QED BY <1>1, <1>2, <2>1 DEF Tried, Awaited
<1>11. ServedInv'
  <2>1. ASSUME NEW w, NEW x, <<w, x>> \in pushes'
        PROVE  w \in Nat /\ w <= msg' /\ ~Tried(w, x)' /\ ~Awaited(w, x)'
    <3>1. CASE <<w, x>> \in pushes
      BY <1>0, <1>2, <1>6, <1>9, <3>1 DEF ServedInv
    <3>2. CASE <<w, x>> \notin pushes
      <4>1. w = msg /\ x = u /\ ClientsForUser(u) = {}
        BY <1>1, <2>1, <3>2
      <4> QED BY <1>0, <1>2, <1>6, <1>10, <4>1
    <3> QED BY <3>1, <3>2
  <2>2. ASSUME NEW w \in listed, NEW x \in Users \ {Sender[w]}
        PROVE  Tried(w, x) \/ <<w, x>> \in pushes' \/ Awaited(w, x)'
    <3>1. Tried(w, x) \/ <<w, x>> \in pushes \/ Awaited(w, x)
      BY <1>0 DEF ServedInv
    <3>2. CASE Awaited(w, x)
      <4>1. w = msg /\ x \in todo
        BY <1>2, <3>2 DEF Awaited
      <4>2. CASE x # u
        BY <1>1, <1>2, <4>1, <4>2 DEF Awaited
      <4>3. CASE x = u /\ ClientsForUser(u) # {}
        BY <1>1, <1>2, <4>1, <4>3 DEF Awaited, ClientsForUser
      <4>4. CASE x = u /\ ClientsForUser(u) = {}
        BY <1>1, <4>1, <4>4
      <4> QED BY <4>2, <4>3, <4>4
    <3> QED BY <1>1, <3>1, <3>2
  <2>3. listed' \subseteq 1 .. msg'
    BY <1>0, <1>2 DEF ServedInv
  <2> QED BY <1>2, <1>6, <2>1, <2>2, <2>3 DEF ServedInv
<1>12. DroppedInv'
  <2>1. ASSUME NEW w, NEW c, <<w, c>> \in dropped
        PROVE  /\ w \in Nat /\ w <= msg /\ c \in Clients /\ w \notin Given(c)
               /\ c \in closed /\ ~(w = msg /\ Pending(c))
    BY <1>0, <1>2, <2>1 DEF DroppedInv, AtDrop
  <2>2. hub' \notin {"drop", "close"}
    BY <1>1
  <2> QED BY <1>2, <1>6, <1>7, <2>1, <2>2 DEF DroppedInv, AtDrop
<1> QED BY <1>3, <1>4, <1>5, <1>8, <1>11, <1>12 DEF LiveInv

\* A frame goes to a target that was not given the event yet.
LEMMA HubSendKeepsLive ==
    ASSUME LiveInv, NEW c \in target, hub = "send",
           queue' = [queue EXCEPT ![c] = Append(@, msg)], NextTarget(targets \ {c}),
           UNCHANGED <<events, busVars, channel, msg, todo, listed, dropped, pushes, users, closed,
                       link, handler, received, due>>
    PROVE  LiveInv'
<1>0. /\ BusInv /\ HubInv /\ DroppedInv /\ ServedInv /\ clientFunctions /\ msg \in Nat /\ c \in Clients
      /\ c \in targets /\ msg >= 1 /\ UserOf[c] \notin todo
  BY DEF LiveInv, BusInv, ChannelInv, HubInv
<1>1. targets' = targets \ {c} /\ target' = {}
      /\ hub' = IF targets \ {c} # {} THEN "client" ELSE IF todo = {} THEN "idle" ELSE "member"
  BY DEF NextTarget
<1>2. BusInv'
  BY <1>0, BusUntouched
<1>3. HubInv'
  BY <1>0, <1>1 DEF HubInv, Closing
<1>4. clientFunctions'
  BY <1>0 DEF clientFunctions
<1>5. \A d \in Clients \ {c} : /\ Pending(d)' = Pending(d) /\ Frames(d)' = Frames(d)
                               /\ Given(d)' = Given(d) /\ queue'[d] = queue[d]
  BY <1>0, <1>1 DEF Pending, Frames, Given, clientFunctions
<1>6. Pending(c) /\ ~Pending(c)'
  BY <1>0, <1>1 DEF Pending
<1>7. ClientInv(c) /\ received[c] \in Seq(Nat) /\ queue[c] \in Seq(Nat) /\ Frames(c) \in Seq(Nat)
  BY <1>0 DEF LiveInv, ClientInv, Frames
<1>8. Frames(c)' = Append(Frames(c), msg) /\ queue'[c] \in Seq(Nat)
  <2>1. received[c] \o Append(queue[c], msg) = Append(received[c] \o queue[c], msg)
    BY <1>0, <1>7, QueuedIsGiven
  <2>2. queue'[c] = Append(queue[c], msg)
    BY <1>0 DEF clientFunctions
  <2>3. Append(queue[c], msg) \in Seq(Nat)
    BY <1>0, <1>7
  <2>4. received'[c] \o queue'[c] = Append(Frames(c), msg)
    BY <2>1, <2>2, Zenon DEF Frames
  <2> QED BY <2>2, <2>3, <2>4, Zenon DEF Frames
<1>9. Given(c)' = Given(c) \cup {msg}
  BY <1>0, <1>7, <1>8, AppendedSet DEF Given
<1>10. Ordered(Frames(c))'
  <2>1. \A x \in ToSet(Frames(c)) \ {0} : x < msg
    BY <1>6, <1>7 DEF ClientInv, Given
  <2>2. Ordered(Append(Frames(c), msg))
    BY <1>0, <1>7, <2>1, AppendOrdered DEF ClientInv
  <2> QED BY <1>8, <2>2 DEF Ordered
<1>11. ASSUME NEW d \in Clients PROVE ClientInv(d)'
  <2>1. CASE d = c
    <3>1. \A v \in Given(c)' : v <= msg
      BY <1>0, <1>7, <1>9 DEF ClientInv
    <3>2. c \in users \ closed => \A v \in due[c] : v \in Given(c)'
      BY <1>7, <1>9 DEF ClientInv
    <3>3. received'[c] \in Seq(Nat)
      BY <1>7
    <3> QED BY <1>6, <1>7, <1>8, <1>10, <2>1, <3>1, <3>2, <3>3 DEF ClientInv
  <2>2. CASE d # c
    <3>1. ClientInv(d)
      BY DEF LiveInv
    <3>2. Ordered(Frames(d))'
      BY <1>5, <2>2, <3>1 DEF ClientInv, Ordered
    <3> QED BY <1>5, <2>2, <3>1, <3>2 DEF ClientInv
  <2> QED BY <2>1, <2>2
<1>12. /\ \A v, u : Tried(v, u) => Tried(v, u)'
       /\ \A v, u : Tried(v, u)' => Tried(v, u) \/ (v = msg /\ u = UserOf[c])
       /\ Tried(msg, UserOf[c])'
  BY <1>0, <1>5, <1>9 DEF Tried
<1>13. /\ \A v, u : Awaited(v, u)' => Awaited(v, u)
       /\ \A v, u : Awaited(v, u) => Awaited(v, u)' \/ (v = msg /\ u = UserOf[c])
       /\ Awaited(msg, UserOf[c])
  BY <1>0, <1>1 DEF Awaited
<1>14. ServedInv'
  <2>1. ASSUME NEW v, NEW u, <<v, u>> \in pushes
        PROVE  v \in Nat /\ v <= msg /\ ~Tried(v, u)' /\ ~Awaited(v, u)'
    BY <1>0, <1>12, <1>13, <2>1 DEF ServedInv
  <2>2. ASSUME NEW v \in listed, NEW u \in Users \ {Sender[v]}
        PROVE  Tried(v, u)' \/ <<v, u>> \in pushes \/ Awaited(v, u)'
    BY <1>0, <1>12, <1>13 DEF ServedInv
  <2> QED BY <1>0, <2>1, <2>2 DEF ServedInv
<1>15. DroppedInv'
  <2>1. ASSUME NEW v, NEW d, <<v, d>> \in dropped
        PROVE  /\ v \in Nat /\ v <= msg /\ d \in Clients /\ v \notin Given(d)
               /\ d \in closed /\ ~(v = msg /\ Pending(d))
    BY <1>0, <2>1 DEF DroppedInv, AtDrop
  <2>2. ASSUME NEW v, NEW d, <<v, d>> \in dropped PROVE v \notin Given(d)' /\ ~(v = msg /\ Pending(d)')
    <3>1. CASE d = c
      BY <1>6, <1>9, <2>1, <2>2, <3>1
    <3>2. CASE d # c
      BY <1>5, <2>1, <2>2, <3>2
    <3> QED BY <3>1, <3>2
  <2>3. hub' \notin {"drop", "close"}
    BY <1>1
  <2> QED BY <2>1, <2>2, <2>3 DEF DroppedInv, AtDrop
<1> QED BY <1>2, <1>3, <1>4, <1>11, <1>14, <1>15 DEF LiveInv

\* The hub is through with a target it could not give the frame to: the target is closed.
LEMMA HubLeavesTarget ==
    ASSUME LiveInv, NEW c \in target, hub \in {"drop", "close"}, NextTarget(targets \ {c}),
           UNCHANGED <<events, busVars, channel, msg, todo, listed, dropped, pushes, queue, handler,
                       received, due>>,
           users' \subseteq users, users \subseteq users' \cup {c},
           closed \subseteq closed', closed' \subseteq Clients, c \in closed',
           DOMAIN link' = Clients, \A d \in Clients : link'[d] = "none" => link[d] = "none"
    PROVE  LiveInv'
<1>0. /\ BusInv /\ HubInv /\ DroppedInv /\ ServedInv /\ clientFunctions /\ msg \in Nat
      /\ c \in Clients /\ c \in targets /\ msg >= 1 /\ UserOf[c] \notin todo
      /\ \A d \in target : d = c
  BY DEF LiveInv, BusInv, ChannelInv, HubInv
<1>1. targets' = targets \ {c} /\ target' = {}
      /\ hub' = IF targets \ {c} # {} THEN "client" ELSE IF todo = {} THEN "idle" ELSE "member"
  BY DEF NextTarget
<1>2. BusInv'
  BY <1>0, BusUntouched
<1>3. HubInv'
  BY <1>0, <1>1 DEF HubInv, Closing
<1>4. clientFunctions'
  BY <1>0 DEF clientFunctions
<1>5. \A d \in Clients : Frames(d)' = Frames(d) /\ Given(d)' = Given(d)
  BY DEF Frames, Given
<1>6. \A d \in Clients : (Pending(d)' => Pending(d) /\ d # c) /\ (d # c => Pending(d)' = Pending(d))
  BY <1>0, <1>1 DEF Pending
<1>7. ASSUME NEW d \in Clients PROVE ClientInv(d)'
  <2>1. ClientInv(d)
    BY DEF LiveInv
  <2>2. Ordered(Frames(d))'
    BY <1>5, <2>1 DEF ClientInv, Ordered
  <2>3. d \in users' \ closed' => d \in users \ closed /\ d # c
    OBVIOUS
  <2> QED BY <1>5, <1>6, <2>1, <2>2, <2>3 DEF ClientInv
<1>8. \A v, u : Tried(v, u)' = Tried(v, u)
  BY <1>5 DEF Tried
<1>9. <<msg, c>> \in dropped /\ Tried(msg, UserOf[c])
  BY <1>0 DEF DroppedInv, AtDrop, Tried
<1>10. /\ \A v, u : Awaited(v, u)' => Awaited(v, u)
       /\ \A v, u : Awaited(v, u) => Awaited(v, u)' \/ (v = msg /\ u = UserOf[c])
  BY <1>1 DEF Awaited
<1>11. ServedInv'
  <2>1. ASSUME NEW v, NEW u, <<v, u>> \in pushes
        PROVE  v \in Nat /\ v <= msg /\ ~Tried(v, u)' /\ ~Awaited(v, u)'
    BY <1>0, <1>8, <1>10, <2>1 DEF ServedInv
  <2>2. ASSUME NEW v \in listed, NEW u \in Users \ {Sender[v]}
        PROVE  Tried(v, u)' \/ <<v, u>> \in pushes \/ Awaited(v, u)'
    BY <1>0, <1>8, <1>9, <1>10 DEF ServedInv
  <2> QED BY <1>0, <2>1, <2>2 DEF ServedInv
<1>12. DroppedInv'
  <2>1. ASSUME NEW v, NEW d, <<v, d>> \in dropped
        PROVE  /\ v \in Nat /\ v <= msg /\ d \in Clients /\ v \notin Given(d)' /\ d \in closed'
               /\ ~(v = msg /\ Pending(d)')
    <3>1. /\ v \in Nat /\ v <= msg /\ d \in Clients /\ v \notin Given(d)
          /\ d \in closed \/ d = c
      BY <1>0, <2>1 DEF DroppedInv, AtDrop
    <3>2. v = msg /\ Pending(d) => d = c
      BY <1>0, <2>1 DEF DroppedInv, AtDrop
    <3> QED BY <1>5, <1>6, <3>1, <3>2
  <2>2. hub' \notin {"drop", "close"}
    BY <1>1
  <2> QED BY <2>1, <2>2 DEF DroppedInv, AtDrop
<1> QED BY <1>2, <1>3, <1>4, <1>7, <1>11, <1>12 DEF LiveInv

\* Unregister takes the target out of the map; without an entry of its user it returns, and
\* since nobody holds the lock the target has been closed before.
LEMMA HubDropKeepsLive ==
    ASSUME LiveInv, HubDrop
    PROVE  LiveInv'
<1>1. PICK c \in target :
        /\ Unregister(c)
        /\ \/ HasEntry(c) /\ hub' = "close" /\ UNCHANGED <<targets, target>>
           \/ ~HasEntry(c) /\ NextTarget(targets \ {c})
  BY DEF HubDrop
<1>2. /\ hub = "drop" /\ users' = users \ {c} /\ ~Locked
      /\ UNCHANGED <<events, busVars, channel, msg, todo, listed, dropped, pushes, closed, queue,
                     link, handler, received, due>>
  BY <1>1 DEF HubDrop, Unregister
<1>0. /\ BusInv /\ HubInv /\ DroppedInv /\ ServedInv /\ clientFunctions
      /\ c \in Clients /\ c \in targets /\ \A d \in target : d = c
  BY DEF LiveInv, HubInv
<1>3. CASE ~HasEntry(c) /\ NextTarget(targets \ {c})
  <2>1. c \notin users /\ ~Closing(c)
    BY <1>0, <1>2, <1>3 DEF HasEntry, Locked, Closing
  <2>2. c \in closed
    BY <1>0, <2>1 DEF HubInv
  <2>3. closed \subseteq Clients /\ DOMAIN link = Clients
    BY <1>0 DEF clientFunctions
  <2>4. users' \subseteq users /\ users \subseteq users' \cup {c} /\ closed \subseteq closed'
        /\ closed' \subseteq Clients /\ c \in closed' /\ DOMAIN link' = Clients
        /\ \A d \in Clients : link'[d] = "none" => link[d] = "none"
    BY <1>2, <2>2, <2>3
  <2> QED BY <1>2, <1>3, <2>4, HubLeavesTarget
<1>4. CASE hub' = "close" /\ UNCHANGED <<targets, target>>
  <2>1. BusInv' /\ clientFunctions'
    BY <1>0, <1>2, BusUntouched DEF clientFunctions
  <2>2. HubInv'
    BY <1>0, <1>2, <1>4 DEF HubInv, Closing
  <2>3. \A d : Frames(d)' = Frames(d) /\ Given(d)' = Given(d) /\ Pending(d)' = Pending(d)
    BY <1>2, <1>4 DEF Frames, Given, Pending
  <2>4. ASSUME NEW d \in Clients PROVE ClientInv(d)'
    BY <1>2, <2>3 DEF LiveInv, ClientInv, Ordered
  <2>5. \A v, u : Tried(v, u)' = Tried(v, u) /\ Awaited(v, u)' = Awaited(v, u)
    BY <1>2, <1>4, <2>3 DEF Tried, Awaited
  <2>6. ServedInv'
    BY <1>0, <1>2, <2>5 DEF ServedInv
  <2>7. DroppedInv'
    BY <1>0, <1>2, <1>4, <2>3 DEF DroppedInv, AtDrop
  <2> QED BY <2>1, <2>2, <2>4, <2>6, <2>7 DEF LiveInv
<1> QED BY <1>1, <1>3, <1>4

LEMMA HubCloseKeepsLive ==
    ASSUME LiveInv, HubClose
    PROVE  LiveInv'
<1>1. PICK c \in target : Close(c) /\ NextTarget(targets \ {c})
  BY DEF HubClose
<1>2. /\ hub = "close" /\ closed' = closed \cup {c} /\ link' = [link EXCEPT ![c] = "down"]
      /\ UNCHANGED <<events, busVars, channel, msg, todo, listed, dropped, pushes, users, queue,
                     handler, received, due>>
  BY <1>1 DEF HubClose, Close
<1>3. c \in Clients /\ clientFunctions
  BY DEF LiveInv, HubInv
<1>4. closed \subseteq closed' /\ closed' \subseteq Clients /\ c \in closed'
      /\ DOMAIN link' = Clients /\ \A d \in Clients : link'[d] = "none" => link[d] = "none"
  BY <1>2, <1>3 DEF clientFunctions
<1> QED BY <1>1, <1>2, <1>4, HubLeavesTarget

\* The hub looks at a target, or finds its queue full: it only goes on elsewhere.
LEMMA HubMovesKeepsLive ==
    ASSUME LiveInv, NEW c \in targets, hub \in {"client", "send"}, target' = {c},
           \/ hub' = "send" /\ dropped' = dropped
           \/ /\ hub' = "drop" /\ dropped' = dropped \cup {<<msg, c>>},
           UNCHANGED <<events, busVars, channel, msg, todo, targets, listed, pushes, users, closed,
                       queue, link, handler, received, due>>
    PROVE  LiveInv'
<1>0. /\ BusInv /\ HubInv /\ DroppedInv /\ ServedInv /\ clientFunctions /\ c \in Clients
      /\ msg \in Nat
  BY DEF LiveInv, HubInv, BusInv, ChannelInv
<1>1. BusInv' /\ HubInv' /\ clientFunctions'
  BY <1>0, BusUntouched DEF HubInv, Closing, clientFunctions
<1>2. \A d : Frames(d)' = Frames(d) /\ Given(d)' = Given(d) /\ Pending(d)' = Pending(d)
  BY DEF Frames, Given, Pending
<1>3. ASSUME NEW d \in Clients PROVE ClientInv(d)'
  BY <1>2 DEF LiveInv, ClientInv, Ordered
<1>4. \A v, u : /\ Awaited(v, u)' = Awaited(v, u) /\ (Tried(v, u) => Tried(v, u)')
                /\ Tried(v, u)' => Tried(v, u) \/ (v = msg /\ u = UserOf[c])
  BY <1>2 DEF Tried, Awaited
<1>5. Awaited(msg, UserOf[c]) /\ Pending(c)
  BY DEF Awaited, Pending
<1>6. ServedInv'
  BY <1>0, <1>4, <1>5 DEF ServedInv
<1>7. DroppedInv'
  <2>1. ASSUME NEW v, NEW d, <<v, d>> \in dropped
        PROVE  /\ v \in Nat /\ v <= msg /\ d \in Clients /\ v \notin Given(d)
               /\ d \in closed /\ ~(v = msg /\ Pending(d))
    BY <1>0, <2>1 DEF DroppedInv, AtDrop
  <2>2. msg \notin Given(c) /\ msg <= msg
    BY <1>0, <1>5 DEF LiveInv, ClientInv
  <2>3. CASE hub' = "send" /\ dropped' = dropped
    BY <1>2, <2>1, <2>3 DEF DroppedInv, AtDrop
  <2>4. CASE hub' = "drop" /\ dropped' = dropped \cup {<<msg, c>>}
    <3>1. AtDrop(c)' /\ \A d : AtDrop(d)' => d = c
      BY <2>4 DEF AtDrop
    <3>2. ASSUME NEW v, NEW d, <<v, d>> \in dropped'
          PROVE  /\ v \in Nat /\ v <= msg /\ d \in Clients /\ v \notin Given(d)'
                 /\ d \in closed \/ AtDrop(d)'
                 /\ v = msg /\ Pending(d)' => AtDrop(d)'
      <4>1. CASE <<v, d>> \in dropped
        BY <1>2, <2>1, <4>1
      <4>2. CASE v = msg /\ d = c
        BY <1>0, <1>2, <2>2, <3>1, <4>2
      <4> QED BY <2>4, <3>2, <4>1, <4>2
    <3>3. \A d \in Clients : AtDrop(d)' => <<msg, d>> \in dropped'
      BY <2>4, <3>1
    <3> QED BY <3>2, <3>3 DEF DroppedInv
  <2> QED BY <2>3, <2>4
<1> QED BY <1>1, <1>3, <1>6, <1>7 DEF LiveInv

LEMMA LiveInvariant == Spec => []LiveInv
<1>1. LiveInv /\ PositionInv /\ [Next]_liveVars => LiveInv'
  <2> SUFFICES ASSUME LiveInv, PositionInv, [Next]_liveVars PROVE LiveInv'
    OBVIOUS
  <2>0. connectionFunctions
    BY DEF PositionInv
  <2>1. CASE UNCHANGED liveVars
    <3>1. UNCHANGED <<events, busVars, channel, hubVars, due, users, closed, queue, received, link,
                      handler>>
      BY <2>1 DEF liveVars, clientVars
    <3>2. clientFunctions' /\ users' \subseteq Clients
      BY <3>1 DEF LiveInv, HubInv, clientFunctions
    <3>3. \A c \in Clients : /\ received'[c] \in Seq(Nat) /\ queue'[c] \in Seq(Nat)
                             /\ Ordered(Frames(c))' /\ Given(c)' = Given(c)
                             /\ link'[c] = "none" => link[c] = "none" /\ c \notin users'
      BY <3>1 DEF LiveInv, ClientInv, Frames, Given, Ordered
    <3>4. \A c : Closing(c)' = Closing(c)
      BY <3>1 DEF Closing, hubVars
    <3> QED BY <3>1, <3>2, <3>3, <3>4, ClientsKeepLive
  <2>2. CASE HubEnqueue
    <3>1. PICK c \in targets : target' = {c} /\ hub' = (IF c \in closed THEN "drop" ELSE "send")
            /\ dropped' = IF c \in closed THEN dropped \cup {<<msg, c>>} ELSE dropped
      BY <2>2 DEF HubEnqueue
    <3>2. /\ hub = "client"
          /\ UNCHANGED <<events, busVars, channel, msg, todo, targets, listed, pushes, users,
                         closed, queue, link, handler, received, due>>
      BY <2>2 DEF HubEnqueue, clientVars
    <3>3. \/ hub' = "send" /\ dropped' = dropped
          \/ hub' = "drop" /\ dropped' = dropped \cup {<<msg, c>>}
      BY <3>1
    <3> QED BY <3>1, <3>2, <3>3, HubMovesKeepsLive
  <2>3. CASE HubSend
    <3>1. PICK c \in target :
            \/ /\ queue' = [queue EXCEPT ![c] = Append(@, msg)] /\ NextTarget(targets \ {c})
               /\ UNCHANGED dropped
            \/ /\ hub' = "drop" /\ dropped' = dropped \cup {<<msg, c>>}
               /\ UNCHANGED <<queue, targets, target>>
      BY <2>3 DEF HubSend
    <3>2. c \in targets /\ target = {c}
      BY DEF LiveInv, HubInv
    <3>3. /\ hub = "send"
          /\ UNCHANGED <<events, busVars, channel, msg, todo, listed, pushes, users, closed, link,
                         handler, received, due>>
      BY <2>3 DEF HubSend
    <3>4. CASE NextTarget(targets \ {c}) /\ UNCHANGED dropped
               /\ queue' = [queue EXCEPT ![c] = Append(@, msg)]
      BY <3>3, <3>4, HubSendKeepsLive
    <3>5. CASE hub' = "drop" /\ dropped' = dropped \cup {<<msg, c>>}
               /\ UNCHANGED <<queue, targets, target>>
      BY <3>2, <3>3, <3>5, HubMovesKeepsLive
    <3> QED BY <3>1, <3>4, <3>5
  <2>4. CASE HubTake \/ HubMember \/ HubDrop \/ HubClose
    BY <2>4, HubTakeKeepsLive, HubMemberKeepsLive, HubDropKeepsLive, HubCloseKeepsLive
  <2>5. CASE Publish \/ BusStep
    BY <2>5, BusKeepsLive
  <2>6. ASSUME NEW c \in Clients, \/ HandlerStep(c) \/ PumpStep(c)
                                  \/ Connect(c) \/ LoseLink(c) \/ Request(c)
        PROVE  LiveInv'
    BY <2>0, <2>6, ConnectionKeepsLive, FramesKeepLive DEF HandlerStep, PumpStep
  <2> QED BY <2>1, <2>2, <2>3, <2>4, <2>5, <2>6 DEF Next, ServerStep, HubStep
<1> QED BY <1>1, LiveInvInit, PositionInvariant, PTL DEF Spec

\* SubscribeMessageCreated, the hub and the pump: whatever the sizes of batches, channel and
\* queues, nothing the stream still has is skipped and every socket sees the stream's order.
THEOREM StreamIsKeptTo == Spec => []StreamIsFollowed
<1>1. LiveInv => StreamIsFollowed
  BY DEF LiveInv, BusInv, ClientInv, Ordered, StreamIsFollowed, FramesInOrder
<1> QED BY <1>1, LiveInvariant, PTL

\* The hub's loop: a client that is registered and open when the hub rests was given every
\* event broadcast since it connected, whoever else was slow, left or failed.
THEOREM NothingIsLostSilently == Spec => []NoSilentLoss
<1>1. LiveInv => NoSilentLoss
  <2> SUFFICES ASSUME LiveInv, hub = "idle", NEW c \in users \ closed, NEW v \in due[c]
               PROVE  v \in Given(c)
    BY DEF NoSilentLoss
  <2>1. c \in Clients /\ ~Pending(c)
    BY DEF LiveInv, HubInv, Pending
  <2> QED BY <2>1 DEF LiveInv, ClientInv
<1> QED BY <1>1, LiveInvariant, PTL

\* broadcastMessageCreated: every member but the sender is served once per event, by frames
\* to its sockets or by the push use case and never by both; a socket that did not take the
\* frame is closed, or the hub is about to close it.
THEOREM MembersAreServedOnce == Spec => []EveryMemberServed
<1>1. LiveInv => EveryMemberServed
  <2> SUFFICES ASSUME LiveInv PROVE EveryMemberServed
    OBVIOUS
  <2>0. ServedInv /\ DroppedInv /\ HubInv
    BY DEF LiveInv
  <2>1. ASSUME NEW v \in listed, NEW u \in Users \ {Sender[v]}
        PROVE  LET sockets == {c \in Clients : UserOf[c] = u}
                   tried == \E c \in sockets : v \in Given(c) \/ <<v, c>> \in dropped
                   pushed == <<v, u>> \in pushes
               IN /\ ~(tried /\ pushed)
                  /\ tried \/ pushed \/ (v = msg /\ hub # "idle")
    <3>1. (\E c \in {d \in Clients : UserOf[d] = u} : v \in Given(c) \/ <<v, c>> \in dropped)
              <=> Tried(v, u)
      BY DEF Tried
    <3>2. Awaited(v, u) => v = msg /\ hub # "idle"
      BY <2>0 DEF HubInv, Awaited
    <3>3. ~(Tried(v, u) /\ <<v, u>> \in pushes)
      BY <2>0 DEF ServedInv
    <3>4. Tried(v, u) \/ <<v, u>> \in pushes \/ Awaited(v, u)
      BY <2>0 DEF ServedInv
    <3> QED BY <3>1, <3>2, <3>3, <3>4
  <2>2. ASSUME NEW v \in listed, NEW c \in Clients, <<v, c>> \in dropped
        PROVE  /\ v \notin Given(c)
               /\ c \in closed \/ (hub \in {"drop", "close"} /\ target = {c})
    <3>1. v \notin Given(c) /\ (c \in closed \/ AtDrop(c))
      BY <2>0, <2>2 DEF DroppedInv
    <3>2. AtDrop(c) => hub \in {"drop", "close"} /\ target = {c}
      BY <2>0 DEF AtDrop, HubInv
    <3> QED BY <3>1, <3>2
  <2> QED BY <2>1, <2>2 DEF EveryMemberServed
<1> QED BY <1>1, LiveInvariant, PTL

----------------------------------------------------------------------------
\* The locks of the hub and of wsClient and the goroutines of the connections, for any number
\* of them: unless all are at rest one of them can go on.  Whoever waits for the hub's lock
\* waits for one in close, who waits for a sender, and a sender never waits.
THEOREM NoDeadlock == Spec => []NobodyWaitsInVain
<1>1. PositionInv => NobodyWaitsInVain
  <2> SUFFICES ASSUME PositionInv, ~CanGoOn PROVE AtRest
    BY DEF NobodyWaitsInVain
  <2>1. ~HubCanGoOn /\ \A c \in Clients : ~HandlerCanGoOn(c) /\ ~PumpCanGoOn(c)
    BY DEF CanGoOn
  <2>2. hub # "send" /\ \A c \in Clients : handler[c] # "send" /\ handler[c] # "check"
    BY <2>1 DEF HubCanGoOn, HandlerCanGoOn, PositionInv, HubPosition
  <2>3. \A c \in Clients : ~ReadLocked(c)
    BY <2>2 DEF ReadLocked
  <2>4. ~Locked
    BY <2>1, <2>3 DEF Locked, HubCanGoOn, HandlerCanGoOn, PositionInv, HubPosition
  <2>5. hub = "idle" /\ channel = <<>>
    BY <2>1, <2>2, <2>4 DEF HubCanGoOn, Locked, PositionInv, HubPosition
  <2>6. ASSUME NEW c \in Clients
        PROVE  /\ handler[c] \in {"none", "gone"} \/ (handler[c] = "reading" /\ link[c] = "up")
               /\ pump[c] # "running" \/ (link[c] = "up" /\ queue[c] = <<>>)
    <3>1. handler[c] # "close"
      BY <2>4 DEF Locked
    <3> QED BY <2>1, <2>2, <2>3, <2>4, <3>1 DEF HandlerCanGoOn, PumpCanGoOn, PositionInv, LinkInv,
            connectionFunctions
  <2> QED BY <2>5, <2>6 DEF AtRest
<1> QED BY <1>1, PositionInvariant, PTL

LEMMA EmptyQueue ==
    ASSUME NEW r \in Seq(Nat)
    PROVE  r \o <<>> = r
OBVIOUS

\* Handle, writePump and Unregister: unless one of them can go on, hub, read loops and pumps
\* are at rest, and then every closed client has left the hub's map, and every peer that is
\* connected has all that was broadcast to it, for any number of connections and any sizes
\* of the queues.
THEOREM RestIsComplete == Spec => []NothingLeftUndone
<1>1. PositionInv /\ LiveInv /\ NobodyWaitsInVain => NothingLeftUndone
  <2> SUFFICES ASSUME PositionInv, LiveInv, AtRest
               PROVE  /\ closed \cap users = {}
                      /\ \A c \in Clients : due[c] \subseteq ToSet(received[c]) \/ link[c] = "down"
    BY DEF NothingLeftUndone
  <2>1. ASSUME NEW c \in closed, c \in users PROVE FALSE
    <3>1. c \in Clients /\ LinkInv(c)
      BY <2>1 DEF PositionInv, HubPosition
    <3> QED BY <2>1, <3>1 DEF AtRest, LinkInv
  <2>2. ASSUME NEW c \in Clients, link[c] = "up" PROVE due[c] \subseteq ToSet(received[c])
    <3>1. c \in users \ closed /\ queue[c] = <<>> /\ hub = "idle"
      BY <2>2 DEF PositionInv, LinkInv, AtRest
    <3>2. received[c] \in Seq(Nat) /\ ~Pending(c)
      BY <3>1 DEF LiveInv, ClientInv, HubInv, Pending
    <3>3. Given(c) \subseteq ToSet(received[c])
      BY <3>1, <3>2, EmptyQueue DEF Given, Frames
    <3> QED BY <3>1, <3>2, <3>3 DEF LiveInv, ClientInv
  <2>3. ASSUME NEW c \in Clients, link[c] = "none" PROVE due[c] = {}
    BY <2>3 DEF LiveInv, ClientInv
  <2>4. \A c \in Clients : link[c] \in {"none", "up", "down"}
    BY DEF PositionInv, connectionFunctions
  <2> QED BY <2>1, <2>2, <2>3, <2>4
<1> QED BY <1>1, NoDeadlock, PositionInvariant, LiveInvariant, PTL

----------------------------------------------------------------------------
\* What LiveInv and PositionInv leave open of the types.
FrameTypes ==
    /\ events \in 0 .. MaxEvents /\ from \in 0 .. events
    /\ sub # "forward" => batch = <<>>
    /\ Len(channel) <= Buffer
    /\ queue \in [Clients -> Seq(0 .. events)] /\ received \in [Clients -> Seq(0 .. events)]
    /\ \A c \in Clients : Len(queue[c]) <= QueueCap
    /\ due \in [Clients -> SUBSET Events] /\ pushes \subseteq Events \X Users
    /\ dropped \subseteq Events \X Clients
    /\ replies \in Nat /\ faults \in Nat

LEMMA FrameTypesInit == Init => FrameTypes
  BY LiveAssumption DEF Init, FrameTypes, LiveAssumption

\* An event number in someone's hands is one of the stream's.
LEMMA EventNumbers ==
    ASSUME LiveInv, FrameTypes
    PROVE  /\ MaxEvents \in Nat /\ events \in Nat /\ events <= MaxEvents /\ msg \in 0 .. events
           /\ hub # "idle" => msg \in Events
           /\ \A k \in 1 .. Len(channel) : channel[k] \in Events
           /\ sub = "forward" => \A k \in 1 .. Len(batch) : batch[k] \in Events
<1>1. MaxEvents \in Nat /\ events \in Nat /\ events <= MaxEvents
  BY LiveAssumption DEF FrameTypes, LiveAssumption
<1>2. BusInv /\ BusTypes /\ ChannelInv /\ HubInv /\ lastId \in Nat /\ lastId <= events
  BY DEF LiveInv, BusInv, BusTypes
<1>3. msg \in 0 .. events
  BY <1>1, <1>2 DEF ChannelInv
<1>4. hub # "idle" => msg \in Events
  BY <1>1, <1>2, <1>3 DEF HubInv, Events
<1>5. ASSUME NEW k \in 1 .. Len(channel) PROVE channel[k] \in Events
  <2>1. channel[k] \in Nat /\ msg < channel[k] /\ channel[k] <= lastId /\ msg \in Nat
    BY <1>2 DEF ChannelInv
  <2> QED BY <1>1, <1>2, <2>1 DEF Events
<1>6. ASSUME sub = "forward", NEW k \in 1 .. Len(batch) PROVE batch[k] \in Events
  <2>1. BatchInv /\ Len(batch) \in Nat /\ batch[1] \in Nat
    BY <1>2, <1>6 DEF BusInv, BatchInv
  <2>2. batch[k] = batch[1] + (k - 1) /\ batch[1] >= 1 /\ batch[1] + (Len(batch) - 1) <= events
    BY <2>1 DEF BatchInv
  <2> QED BY <1>1, <2>1, <2>2 DEF Events
<1> QED BY <1>1, <1>3, <1>4, <1>5, <1>6

LEMMA LongerStream ==
    ASSUME NEW n \in Nat, NEW f \in [Clients -> Seq(0 .. n)]
    PROVE  f \in [Clients -> Seq(0 .. n + 1)]
<1>1. ASSUME NEW c \in Clients PROVE f[c] \in Seq(0 .. n + 1)
  <2>1. f[c] \in Seq(0 .. n)
    OBVIOUS
  <2>2. \A i \in 1 .. Len(f[c]) : f[c][i] \in 0 .. n + 1
    BY <2>1
  <2>3. Len(f[c]) \in Nat /\ f[c] = [i \in 1 .. Len(f[c]) |-> f[c][i]]
    BY <2>1
  <2> QED BY <2>2, <2>3
<1> QED BY <1>1

\* The stream, the subscription and the hub.
LEMMA StreamKeepsTypes ==
    ASSUME LiveInv, FrameTypes, Publish \/ BusStep
    PROVE  FrameTypes'
<1>1. UNCHANGED <<queue, received, due, dropped, pushes, replies>>
  BY DEF Publish, BusStep, Xread, XreadReturns, Forward, hubVars, clientVars
<1>2. events \in Nat /\ MaxEvents \in Nat /\ from \in Nat /\ lastId \in Nat /\ lastId <= events
      /\ EventMaxLen \in Nat \ {0} /\ MaxFaults \in Nat /\ Buffer \in Nat
      /\ channel \in Seq(Nat)
  BY LiveAssumption
     DEF FrameTypes, LiveAssumption, LiveInv, BusInv, BusTypes, ChannelInv
<1>3. CASE Publish
  <2>1. events' = events + 1 /\ events < MaxEvents
        /\ UNCHANGED <<sub, from, batch, channel, faults>>
    BY <1>3 DEF Publish, busVars
  <2>2. queue' \in [Clients -> Seq(0 .. events')] /\ received' \in [Clients -> Seq(0 .. events')]
    BY <1>1, <1>2, <2>1, LongerStream DEF FrameTypes
  <2> QED BY <1>1, <1>2, <2>1, <2>2 DEF FrameTypes
<1>4. CASE Xread
  <2>1. sub' = "blocked" /\ UNCHANGED <<events, batch, channel, faults>> /\ sub = "between"
    BY <1>4 DEF Xread
  <2>2. from' \in 0 .. events
    <3>1. from' = events \/ from' = lastId \/ from' \in lastId .. events - EventMaxLen
      BY <1>4 DEF Xread
    <3> QED BY <1>2, <3>1
  <2> QED BY <1>1, <2>1, <2>2 DEF FrameTypes
<1>5. CASE XreadReturns
  <2>1. UNCHANGED <<events, from, channel>> /\ faults' \in Nat
    BY <1>2, <1>5 DEF XreadReturns, Fault, NoFault, FrameTypes
  <2>2. sub' # "forward" => batch' = <<>>
    BY <1>5 DEF XreadReturns, FrameTypes
  <2> QED BY <1>1, <2>1, <2>2 DEF FrameTypes
<1>6. CASE Forward
  <2>1. /\ UNCHANGED <<events, from, faults>> /\ batch' = Tail(batch) /\ sub = "forward"
        /\ sub' = IF Len(batch) = 1 THEN "between" ELSE "forward"
        /\ Len(channel) < Buffer /\ channel' = Append(channel, Head(batch))
    BY <1>6 DEF Forward
  <2>2. batch \in Seq(Nat) /\ batch # <<>> /\ Head(batch) \in Nat
    BY <2>1 DEF LiveInv, BusInv, BatchInv
  <2>3. Len(channel') <= Buffer
    BY <1>2, <2>1, <2>2
  <2>4. sub' # "forward" => batch' = <<>>
    BY <2>1, <2>2
  <2> QED BY <1>1, <2>1, <2>3, <2>4 DEF FrameTypes
<1> QED BY <1>3, <1>4, <1>5, <1>6 DEF BusStep

LEMMA HubKeepsTypes ==
    ASSUME LiveInv, FrameTypes, HubStep
    PROVE  FrameTypes'
<1>1. UNCHANGED <<events, from, sub, batch, received, replies>>
  BY DEF HubStep, HubTake, HubMember, HubEnqueue, HubSend, HubDrop, HubClose, busVars, clientVars
<1>2. /\ MaxEvents \in Nat /\ events \in Nat /\ events <= MaxEvents /\ msg \in 0 .. events
      /\ hub # "idle" => msg \in Events
      /\ \A k \in 1 .. Len(channel) : channel[k] \in Events
      /\ QueueCap \in Nat \ {0} /\ Buffer \in Nat /\ channel \in Seq(Nat) /\ HubInv
  BY EventNumbers, LiveAssumption DEF LiveAssumption, LiveInv, BusInv, ChannelInv
<1>3. CASE HubTake
  <2>1. channel # <<>> /\ channel' = Tail(channel) /\ UNCHANGED <<queue, dropped, pushes>>
    BY <1>3 DEF HubTake, clientVars
  <2>2. /\ Len(channel) \in Nat \ {0} /\ Len(Tail(channel)) = Len(channel) - 1
        /\ Head(channel) = channel[1]
    BY <1>2, <2>1, TailOf
  <2>3. Head(channel) \in Events /\ Len(channel') <= Buffer
    BY <1>2, <2>1, <2>2 DEF FrameTypes
  <2>4. due' \in [Clients -> SUBSET Events]
    <3> DEFINE v == Head(channel)
    <3>1. \/ due' = due
          \/ due' = [c \in Clients |-> IF c \in users \ closed /\ UserOf[c] \in todo'
                                         THEN due[c] \cup {v} ELSE due[c]]
      BY <1>3 DEF HubTake
    <3>2. v \in Events /\ due \in [Clients -> SUBSET Events]
      BY <2>3 DEF FrameTypes
    <3> HIDE DEF v
    <3> QED BY <3>1, <3>2
  <2>5. faults' \in Nat
    BY <1>3 DEF HubTake, FrameTypes, Fault, NoFault
  <2> QED BY <1>1, <2>1, <2>3, <2>4, <2>5 DEF FrameTypes
<1>4. CASE HubMember
  <2>1. UNCHANGED <<channel, queue, due, dropped, faults>>
    BY <1>4 DEF HubMember, clientVars
  <2>2. pushes' \subseteq Events \X Users
    <3>1. PICK u \in todo : pushes' = pushes \/ pushes' = pushes \cup {<<msg, u>>}
      BY <1>4 DEF HubMember
    <3>2. msg \in Events /\ u \in Users
      BY <1>2, <1>4 DEF HubMember, HubInv
    <3> QED BY <3>1, <3>2 DEF FrameTypes
  <2> QED BY <1>1, <2>1, <2>2 DEF FrameTypes
<1>d. ASSUME NEW c \in targets, hub # "idle",
             dropped' = dropped \/ dropped' = dropped \cup {<<msg, c>>}
      PROVE  dropped' \subseteq Events \X Clients
  <2>1. msg \in Events /\ c \in Clients
    BY <1>2, <1>d DEF HubInv
  <2> QED BY <1>d, <2>1 DEF FrameTypes
<1>5. CASE HubEnqueue \/ HubDrop \/ HubClose
  <2>1. UNCHANGED <<channel, queue, due, faults, pushes>>
    BY <1>5 DEF HubEnqueue, HubDrop, HubClose, clientVars
  <2>2. hub # "idle" /\ (dropped' = dropped
                         \/ \E c \in targets : dropped' = dropped \cup {<<msg, c>>})
    BY <1>5 DEF HubEnqueue, HubDrop, HubClose
  <2>3. dropped' \subseteq Events \X Clients
    BY <1>d, <2>2 DEF FrameTypes
  <2> QED BY <1>1, <2>1, <2>3 DEF FrameTypes
<1>6. CASE HubSend
  <2>1. UNCHANGED <<channel, due, faults, pushes>>
    BY <1>6 DEF HubSend
  <2>2. PICK c \in target : \/ ~Full(c) /\ queue' = [queue EXCEPT ![c] = Append(@, msg)]
                            \/ queue' = queue
    BY <1>6 DEF HubSend
  <2>3. c \in Clients /\ queue[c] \in Seq(0 .. events) /\ Len(queue[c]) \in Nat
        /\ Len(queue[c]) <= QueueCap
    BY <1>2 DEF HubInv, FrameTypes
  <2>4. Append(queue[c], msg) \in Seq(0 .. events)
        /\ (~Full(c) => Len(Append(queue[c], msg)) <= QueueCap)
    BY <1>2, <2>3 DEF Full
  <2>5. queue' \in [Clients -> Seq(0 .. events)] /\ \A d \in Clients : Len(queue'[d]) <= QueueCap
    BY <2>2, <2>3, <2>4 DEF FrameTypes
  <2>6. dropped' \subseteq Events \X Clients
    <3>1. \E d \in targets : dropped' = dropped \/ dropped' = dropped \cup {<<msg, d>>}
      BY <1>2, <1>6 DEF HubSend, HubInv
    <3> QED BY <1>6, <1>d, <3>1 DEF HubSend
  <2> QED BY <1>1, <2>1, <2>5, <2>6 DEF FrameTypes
<1> QED BY <1>3, <1>4, <1>5, <1>6 DEF HubStep

LEMMA TailIn ==
    ASSUME NEW S, NEW s \in Seq(S), s # <<>>
    PROVE  Tail(s) \in Seq(S) /\ Len(Tail(s)) = Len(s) - 1 /\ Head(s) \in S
OBVIOUS

LEMMA ConnectionKeepsTypes ==
    ASSUME LiveInv, FrameTypes, NEW c \in Clients,
           HandlerStep(c) \/ PumpStep(c) \/ Connect(c) \/ LoseLink(c) \/ Request(c)
    PROVE  FrameTypes'
<1>1. UNCHANGED <<events, from, sub, batch, channel, due, dropped, pushes>>
  BY DEF HandlerStep, PumpStep, ReplyCheck, ReplySend, Leave, LeaveClose, PumpWrite, PumpStop, Connect,
         LoseLink, Request, hubVars, busVars
<1>2. replies' \in Nat /\ faults' \in Nat
  BY DEF HandlerStep, PumpStep, ReplyCheck, ReplySend, Leave, LeaveClose, PumpWrite, PumpStop, Connect,
         LoseLink, Request, Fault, FrameTypes
<1>3. queue[c] \in Seq(0 .. events) /\ received[c] \in Seq(0 .. events) /\ events \in Nat
      /\ Len(queue[c]) \in Nat /\ Len(queue[c]) <= QueueCap /\ QueueCap \in Nat
  BY LiveAssumption DEF FrameTypes, LiveAssumption
<1>4. CASE ReplySend(c)
  <2>1. received' = received
        /\ queue' = [queue EXCEPT ![c] = IF Full(c) THEN @ ELSE Append(@, 0)]
    BY <1>4 DEF ReplySend
  <2>2. Append(queue[c], 0) \in Seq(0 .. events)
        /\ (~Full(c) => Len(Append(queue[c], 0)) <= QueueCap)
    BY <1>3 DEF Full
  <2>3. queue' \in [Clients -> Seq(0 .. events)] /\ \A d \in Clients : Len(queue'[d]) <= QueueCap
    BY <1>3, <2>1, <2>2 DEF FrameTypes
  <2> QED BY <1>1, <1>2, <2>1, <2>3 DEF FrameTypes
<1>5. CASE PumpWrite(c)
  <2>1. queue[c] # <<>> /\ queue' = [queue EXCEPT ![c] = Tail(@)]
        /\ received' = [received EXCEPT ![c] = Append(@, Head(queue[c]))]
    BY <1>5 DEF PumpWrite
  <2>2. /\ Tail(queue[c]) \in Seq(0 .. events) /\ Len(Tail(queue[c])) <= QueueCap
        /\ Append(received[c], Head(queue[c])) \in Seq(0 .. events)
    <3>1. /\ Tail(queue[c]) \in Seq(0 .. events) /\ Len(Tail(queue[c])) = Len(queue[c]) - 1
          /\ Head(queue[c]) \in 0 .. events
      BY <1>3, <2>1, TailIn
    <3> QED BY <1>3, <3>1
  <2>3. /\ queue' \in [Clients -> Seq(0 .. events)] /\ \A d \in Clients : Len(queue'[d]) <= QueueCap
        /\ received' \in [Clients -> Seq(0 .. events)]
    BY <2>1, <2>2 DEF FrameTypes
  <2> QED BY <1>1, <1>2, <2>3 DEF FrameTypes
<1>6. CASE ~ReplySend(c) /\ ~PumpWrite(c)
  <2>1. UNCHANGED <<queue, received>>
    BY <1>6 DEF HandlerStep, PumpStep, ReplyCheck, Leave, LeaveClose, PumpStop, Connect, LoseLink,
                Request
  <2> QED BY <1>1, <1>2, <2>1 DEF FrameTypes
<1> QED BY <1>4, <1>5, <1>6

LEMMA TypesFollow == LiveInv /\ PositionInv /\ FrameTypes => TypeOK
<1> SUFFICES ASSUME LiveInv, PositionInv, FrameTypes PROVE TypeOK
  OBVIOUS
<1>1. /\ MaxEvents \in Nat /\ events \in Nat /\ events <= MaxEvents /\ msg \in 0 .. events
      /\ \A k \in 1 .. Len(channel) : channel[k] \in Events
      /\ sub = "forward" => \A k \in 1 .. Len(batch) : batch[k] \in Events
  BY EventNumbers
<1>2. BusInv /\ BusTypes /\ ChannelInv /\ HubInv /\ ServedInv /\ clientFunctions
  BY DEF LiveInv, BusInv
<1>3. events \in 0 .. MaxEvents /\ lastId \in 0 .. events /\ from \in 0 .. events
      /\ sub \in {"between", "blocked", "forward"} /\ forwarded \subseteq Events
      /\ listed \subseteq Events
  BY <1>1, <1>2 DEF BusTypes, FrameTypes, ServedInv, Events
<1>4. batch \in Seq(Events) /\ (sub = "forward") = (batch # <<>>)
  <2>1. CASE sub = "forward"
    <3>1. batch \in Seq(Nat) /\ batch # <<>>
      BY <1>2, <2>1 DEF BusInv, BatchInv
    <3>2. Len(batch) \in Nat /\ batch = [k \in 1 .. Len(batch) |-> batch[k]]
      BY <3>1
    <3> QED BY <1>1, <2>1, <3>1, <3>2
  <2>2. CASE sub # "forward"
    BY <2>2 DEF FrameTypes
  <2> QED BY <2>1, <2>2
<1>5. channel \in Seq(Events) /\ Len(channel) <= Buffer
  <2>1. Len(channel) \in Nat /\ channel = [k \in 1 .. Len(channel) |-> channel[k]]
    BY <1>2 DEF ChannelInv
  <2>2. channel \in Seq(Events)
    BY <1>1, <2>1
  <2> QED BY <2>2 DEF FrameTypes
<1>6. /\ hub \in {"idle", "member", "client", "send", "drop", "close"} /\ todo \subseteq Users
      /\ targets \subseteq Clients /\ target \subseteq targets
      /\ hub = "idle" => todo = {}
      /\ hub = "member" => todo # {}
      /\ users \subseteq Clients /\ closed \subseteq Clients
  BY <1>2 DEF HubInv, PositionInv, HubPosition, clientFunctions
<1>7. (hub \in {"client", "send", "drop", "close"}) = (targets # {})
  BY DEF PositionInv, HubPosition
<1>8. /\ link \in [Clients -> {"none", "up", "down"}]
      /\ handler \in [Clients -> {"none", "reading", "check", "send", "close", "gone"}]
      /\ pump \in [Clients -> {"none", "running", "done"}]
  BY DEF PositionInv, connectionFunctions
<1> QED BY <1>1, <1>3, <1>4, <1>5, <1>6, <1>7, <1>8 DEF TypeOK, FrameTypes

\* Subscription, hub, read loops and pumps: every variable keeps its type, no queue and no
\* channel holds more than its capacity, and the hub's locals fit its position in the loops.
THEOREM LiveTypes == Spec => []TypeOK
<1>1. LiveInv /\ FrameTypes /\ [Next]_liveVars => FrameTypes'
  <2> SUFFICES ASSUME LiveInv, FrameTypes, [Next]_liveVars PROVE FrameTypes'
    OBVIOUS
  <2>1. CASE UNCHANGED liveVars
    BY <2>1 DEF liveVars, busVars, hubVars, clientVars, FrameTypes
  <2> QED BY <2>1, StreamKeepsTypes, HubKeepsTypes, ConnectionKeepsTypes DEF Next, ServerStep
<1> QED BY <1>1, FrameTypesInit, LiveInvariant, PositionInvariant, TypesFollow, PTL DEF Spec

----------------------------------------------------------------------------
\* The steps of the hub, the read loops and the pumps run out.
LEMMA HubStepsRunOut ==
    ASSUME LiveInv, PositionInv, HubStep
    PROVE  HubGetsOn
<1>1. CASE HubTake
  <2>1. channel \in Seq(Nat) /\ channel # <<>> /\ channel' = Tail(channel)
    BY <1>1 DEF HubTake, LiveInv, BusInv, ChannelInv
  <2>2. Len(channel) \in Nat \ {0} /\ Len(Tail(channel)) = Len(channel) - 1
    BY <2>1, TailOf
  <2>3. Len(Tail(channel)) < Len(channel)
    BY <2>2
  <2>4. Len(channel') < Len(channel)
    BY <2>1, <2>3
  <2> QED BY <2>4 DEF HubGetsOn
<1>2. CASE HubMember
  <2>1. channel' = channel /\ \E u \in todo : todo' = todo \ {u}
    BY <1>2 DEF HubMember
  <2> QED BY <2>1 DEF HubGetsOn
<1>3. CASE HubEnqueue
  BY <1>3 DEF HubEnqueue, HubGetsOn, HubRank
<1>4. CASE HubSend
  <2>1. target \subseteq targets /\ UNCHANGED <<channel, todo>> /\ hub = "send"
    BY <1>4 DEF HubSend, PositionInv, HubPosition
  <2>2. PICK c \in target : targets' = targets \ {c} \/ (hub' = "drop" /\ targets' = targets)
    BY <1>4 DEF HubSend, NextTarget
  <2> QED BY <2>1, <2>2 DEF HubGetsOn, HubRank
<1>5. CASE HubDrop \/ HubClose
  <2>1. target \subseteq targets /\ UNCHANGED <<channel, todo>>
    BY <1>5 DEF HubDrop, HubClose, PositionInv, HubPosition
  <2>2. PICK c \in target : \/ targets' = targets \ {c}
                            \/ hub = "drop" /\ hub' = "close" /\ targets' = targets
    BY <1>5 DEF HubDrop, HubClose, NextTarget
  <2> QED BY <2>1, <2>2 DEF HubGetsOn, HubRank
<1> QED BY <1>1, <1>2, <1>3, <1>4, <1>5 DEF HubStep

\* The frames of a queue after one was added to it or taken from it.
LEMMA QueueLengths ==
    ASSUME NEW q \in Seq(Nat), NEW v \in Nat
    PROVE  /\ Len(Append(q, v)) = Len(q) + 1
           /\ q # <<>> => Len(Tail(q)) < Len(q)
<1>1. Len(Append(q, v)) = Len(q) + 1
  OBVIOUS
<1>2. ASSUME q # <<>> PROVE Len(Tail(q)) < Len(q)
  <2>1. Len(q) \in Nat \ {0} /\ Len(Tail(q)) = Len(q) - 1
    BY <1>2, TailOf
  <2> QED BY <2>1
<1> QED BY <1>1, <1>2

LEMMA ConnectionStepsRunOut ==
    ASSUME LiveInv, PositionInv, Next, NEW c \in Clients
    PROVE  /\ handler'[c] # handler[c] => HandlerGetsOn(c)
           /\ pump'[c] # pump[c] \/ queue'[c] # queue[c] => PumpGetsOn(c)
<1> DEFINE Goal == /\ handler'[c] # handler[c] => HandlerGetsOn(c)
                   /\ pump'[c] # pump[c] \/ queue'[c] # queue[c] => PumpGetsOn(c)
<1>0. /\ connectionFunctions /\ DOMAIN queue = Clients /\ LinkInv(c)
      /\ queue[c] \in Seq(Nat) /\ msg \in Nat
  BY DEF LiveInv, PositionInv, clientFunctions, ClientInv, BusInv, ChannelInv
<1>1. ASSUME UNCHANGED <<handler, pump, queue>> PROVE Goal
  BY <1>1
<1>2. CASE HubSend
  <2>1. UNCHANGED <<handler, pump>> /\ hub = "send"
    BY <1>2 DEF HubSend
  <2>2. PICK d \in target : \/ /\ queue' = [queue EXCEPT ![d] = Append(@, msg)]
                               /\ NextTarget(targets \ {d})
                            \/ queue' = queue
    BY <1>2 DEF HubSend
  <2>3. CASE queue'[c] # queue[c]
    <3>1. queue'[c] = Append(queue[c], msg) /\ NextTarget(targets \ {d})
      BY <1>0, <2>2, <2>3
    <3>2. hub' # hub
      BY <2>1, <3>1 DEF NextTarget
    <3>3. hubVars' # hubVars
      BY <3>2 DEF hubVars
    <3>4. Len(queue'[c]) = Len(queue[c]) + 1
      BY <1>0, <3>1, QueueLengths
    <3> QED BY <2>1, <3>3, <3>4 DEF PumpGetsOn
  <2> QED BY <2>1, <2>3
<1>3. ASSUME NEW d \in Clients, d # c,
             HandlerStep(d) \/ PumpStep(d) \/ Connect(d) \/ LoseLink(d) \/ Request(d)
      PROVE  Goal
  <2>1. handler'[c] = handler[c] /\ pump'[c] = pump[c] /\ queue'[c] = queue[c]
    BY <1>0, <1>3 DEF HandlerStep, PumpStep, ReplyCheck, ReplySend, Leave, LeaveClose, PumpWrite,
       PumpStop, Connect, LoseLink, Request, connectionFunctions
  <2> QED BY <2>1
<1>4. CASE ReplySend(c)
  <2>1. /\ handler[c] = "send" /\ handler'[c] = "reading" /\ pump' = pump
        /\ queue'[c] = queue[c] \/ queue'[c] = Append(queue[c], 0)
    BY <1>0, <1>4 DEF ReplySend, connectionFunctions
  <2>2. HandlerGetsOn(c)
    BY <2>1 DEF HandlerGetsOn, HandlerRank
  <2>3. Len(Append(queue[c], 0)) = Len(queue[c]) + 1
    BY <1>0, QueueLengths
  <2>4. queue'[c] # queue[c] => PumpGetsOn(c)
    BY <2>1, <2>3 DEF PumpGetsOn
  <2> QED BY <2>1, <2>2, <2>4
<1>5. CASE PumpWrite(c)
  <2>1. /\ queue[c] # <<>> /\ queue'[c] = Tail(queue[c]) /\ UNCHANGED <<pump, handler>>
    BY <1>0, <1>5 DEF PumpWrite
  <2>2. Len(Tail(queue[c])) < Len(queue[c])
    BY <1>0, <2>1, QueueLengths
  <2> QED BY <2>1, <2>2 DEF PumpGetsOn
<1>6. CASE ReplyCheck(c) \/ Leave(c) \/ LeaveClose(c) \/ Request(c)
  <2>1. /\ UNCHANGED <<pump, queue>>
        /\ \/ handler[c] = "check" /\ handler'[c] \in {"reading", "send"}
           \/ handler[c] = "reading" /\ handler'[c] \in {"close", "gone"}
           \/ handler[c] = "close" /\ handler'[c] = "gone"
           \/ replies' = replies + 1
    BY <1>0, <1>6 DEF ReplyCheck, Leave, LeaveClose, Request, connectionFunctions
  <2> QED BY <2>1 DEF HandlerGetsOn, HandlerRank
<1>7. CASE Connect(c) \/ PumpStop(c) \/ LoseLink(c)
  <2>1. /\ queue' = queue
        /\ handler'[c] = handler[c] \/ handler[c] = "none"
        /\ \/ pump'[c] = pump[c] \/ pump[c] = "none"
           \/ pump[c] = "running" /\ pump'[c] = "done"
    BY <1>0, <1>7 DEF Connect, PumpStop, LoseLink, connectionFunctions, LinkInv
  <2> QED BY <2>1 DEF HandlerGetsOn, PumpGetsOn
<1>8. CASE Publish \/ BusStep \/ HubTake \/ HubMember \/ HubEnqueue \/ HubDrop \/ HubClose
  BY <1>1, <1>8 DEF Publish, BusStep, Xread, XreadReturns, Forward, HubTake, HubMember,
     HubEnqueue, HubDrop, HubClose, clientVars
<1> QED
  BY <1>2, <1>3, <1>4, <1>5, <1>6, <1>7, <1>8
     DEF Next, ServerStep, HubStep, HandlerStep, PumpStep

\* Run, Handle and writePump: every step of the hub goes down in the order of its loops, a
\* read loop answers each request once, and a pump only works off what the others put into
\* its queue, for any number of connections and any sizes.
THEOREM NobodyGoesInCircles == Spec => StepsRunOut
<1> DEFINE GetOn == /\ hubVars' # hubVars => HubGetsOn
                    /\ \A c \in Clients :
                          /\ handler'[c] # handler[c] => HandlerGetsOn(c)
                          /\ pump'[c] # pump[c] \/ queue'[c] # queue[c] => PumpGetsOn(c)
<1>1. LiveInv /\ PositionInv /\ [Next]_liveVars => [GetOn]_liveVars
  <2> SUFFICES ASSUME LiveInv, PositionInv, Next PROVE GetOn
    OBVIOUS
  <2>1. HubStep \/ hubVars' = hubVars
    BY DEF Next, BusStep, ServerStep, HandlerStep, PumpStep, Publish, Xread, XreadReturns, Forward,
           ReplyCheck, ReplySend, Leave, LeaveClose, PumpWrite, PumpStop, Connect, LoseLink, Request
  <2> QED BY <2>1, HubStepsRunOut, ConnectionStepsRunOut
<1> QED BY <1>1, LiveInvariant, PositionInvariant, PTL DEF Spec, StepsRunOut
=============================================================================
