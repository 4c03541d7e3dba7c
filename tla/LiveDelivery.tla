---------------------------- MODULE LiveDelivery ----------------------------
(***************************************************************************)
(* The way of an event from the Valkey event stream to the sockets of one  *)
(* server process: the subscription goroutine, the hub's loop and, for     *)
(* every connection, the read loop and the write pump.  Events are their   *)
(* positions in the stream; all of them belong to one room, whose members  *)
(* are Users.  A connection is used once; a user may have several.         *)
(*                                                                         *)
(* wsClient.enqueue holds the client's read lock from the test of `closed' *)
(* to the send; close needs the write lock, so it waits for senders.       *)
(* Unregister holds the hub's lock while it waits in close: meanwhile no   *)
(* connection is registered and the hub looks up nobody's sockets.         *)
(***************************************************************************)
EXTENDS Naturals, Sequences, SequencesExt

CONSTANTS
    Users, Clients,
    UserOf,     \* [Clients -> Users]
    MaxEvents,  \* bound on the published events
    Sender,     \* [1 .. MaxEvents -> Users]
    EventMaxLen, \* entries the event stream keeps, 50000 in the code
    QueueCap,   \* frames in a client's queue, 128 in the code
    Buffer,     \* events between subscription and hub, 256 in the code
    Batch,      \* events per XREAD, 100 in the code
    MaxReplies, \* bound on the responses a read loop enqueues
    MaxFaults   \* bound on failed store calls and lost links

Events == 1 .. MaxEvents

ASSUME LiveAssumption ==
    /\ MaxEvents \in Nat /\ MaxReplies \in Nat /\ MaxFaults \in Nat
    /\ EventMaxLen \in Nat \ {0} /\ QueueCap \in Nat \ {0}
    /\ Buffer \in Nat \ {0} /\ Batch \in Nat \ {0}
    /\ UserOf \in [Clients -> Users] /\ Sender \in [Events -> Users]

VARIABLES
    events,     \* the number of published events
    sub,        \* subscription: "between" two XREADs, "blocked" in one, "forward"
    lastId,     \* its position, 0 for "$"
    from,       \* where the running XREAD started
    batch,      \* events of the last XREAD still to be forwarded
    channel,    \* the Go channel between subscription and hub
    hub,        \* the hub loop: "idle", "member", "client", "send", "drop", "close"
    msg, todo, targets, target,  \* its locals
    users,      \* the connections in the hub's map
    closed,     \* clients whose queue is closed
    queue,      \* frames of a client: an event, or 0 for a response
    link,       \* the connection: "none", "up", "down"
    handler,    \* the read loop: "none", "reading", "check", "send", "close", "gone"
    pump,       \* the write pump: "none", "running", "done"
    received,   \* what reached the peer
    replies, faults,
    forwarded,  \* events the subscription handed on
    listed,     \* events for which ListMembers answered
    due,        \* events broadcast while a client was registered and open
    dropped,    \* <<event, client>>: the hub's frame was not taken
    pushes      \* <<event, user>>: handed to the push use case

busVars == <<sub, lastId, from, batch, forwarded>>
hubVars == <<hub, msg, todo, targets, target, listed, dropped, pushes>>
clientVars == <<users, closed, queue, link, handler, pump, received, replies>>
liveVars == <<events, busVars, channel, hubVars, clientVars, due, faults>>

Init ==
    /\ events = 0
    /\ sub = "between" /\ lastId = 0 /\ from = 0 /\ batch = <<>> /\ forwarded = {}
    /\ channel = <<>>
    /\ hub = "idle" /\ msg = 0 /\ todo = {} /\ targets = {} /\ target = {}
    /\ listed = {} /\ dropped = {} /\ pushes = {}
    /\ users = {} /\ closed = {}
    /\ queue = [c \in Clients |-> <<>>]
    /\ link = [c \in Clients |-> "none"]
    /\ handler = [c \in Clients |-> "none"]
    /\ pump = [c \in Clients |-> "none"]
    /\ received = [c \in Clients |-> <<>>]
    /\ replies = 0 /\ faults = 0
    /\ due = [c \in Clients |-> {}]

Fault == faults < MaxFaults /\ faults' = faults + 1
NoFault == UNCHANGED faults

----------------------------------------------------------------------------
\* The event stream and SubscribeMessageCreated.

Publish ==
    /\ events < MaxEvents
    /\ events' = events + 1
    /\ UNCHANGED <<busVars, channel, hubVars, clientVars, due, faults>>

\* "$" is the end of the stream at the time of the call.  PublishMessageCreated trims
\* with MAXLEN ~, so entries before the last EventMaxLen may be gone.
Xread ==
    /\ sub = "between"
    /\ sub' = "blocked"
    /\ from' \in IF lastId = 0 THEN {events} ELSE {lastId} \cup lastId .. events - EventMaxLen
    /\ UNCHANGED <<events, lastId, batch, forwarded, channel, hubVars, clientVars, due,
                   faults>>

XreadReturns ==
    /\ sub = "blocked"
    /\ \/ /\ events > from  \* entries
          /\ batch' = [k \in 1 .. Min({events - from, Batch}) |-> from + k]
          /\ sub' = "forward"
          /\ NoFault
       \/ /\ events = from  \* nothing for two seconds
          /\ sub' = "between"
          /\ NoFault /\ UNCHANGED batch
       \/ /\ Fault
          /\ sub' = "between"
          /\ UNCHANGED batch
    /\ UNCHANGED <<events, lastId, from, forwarded, channel, hubVars, clientVars, due>>

\* Faulty variant: a full channel drops the event.
ForwardOrDrop ==
    /\ sub = "forward"
    /\ channel' = IF Len(channel) < Buffer THEN Append(channel, Head(batch)) ELSE channel
    /\ forwarded' = IF Len(channel) < Buffer THEN forwarded \cup {Head(batch)} ELSE forwarded
    /\ lastId' = Head(batch)
    /\ batch' = Tail(batch)
    /\ sub' = IF Len(batch) = 1 THEN "between" ELSE "forward"
    /\ UNCHANGED <<events, from, hubVars, clientVars, due, faults>>

Forward ==
    /\ sub = "forward"
    /\ Len(channel) < Buffer
    /\ channel' = Append(channel, Head(batch))
    /\ forwarded' = forwarded \cup {Head(batch)}
    /\ lastId' = Head(batch)
    /\ batch' = Tail(batch)
    /\ sub' = IF Len(batch) = 1 THEN "between" ELSE "forward"
    /\ UNCHANGED <<events, from, hubVars, clientVars, due, faults>>

----------------------------------------------------------------------------
\* wsClient.

\* Faulty variant: the pump holds the lock while it takes frames from the queue.
ReadLockedByPump(c) ==
    pump[c] = "running" \/ handler[c] = "send" \/ (hub = "send" /\ target = {c})

\* Somebody is between the test of `closed' and the send.
ReadLocked(c) == handler[c] = "send" \/ (hub = "send" /\ target = {c})

Full(c) == Len(queue[c]) = QueueCap

\* closeOnce: the queue is closed and the connection with it.
Close(c) ==
    /\ ~ReadLocked(c)
    /\ closed' = closed \cup {c}
    /\ link' = [link EXCEPT ![c] = "down"]

\* The hub's lock is held across steps only by Unregister while it closes a client.
Locked == hub = "close" \/ \E c \in Clients : handler[c] = "close"

\* Unregister of a client whose user has no entry left returns at once, without close.
HasEntry(c) == \E d \in users : UserOf[d] = UserOf[c]

Unregister(c) == ~Locked /\ users' = users \ {c}

Register(c) == users' = users \cup {c}

ClientsForUser(u) == {c \in users : UserOf[c] = u}

----------------------------------------------------------------------------
\* WebSocketHub.Run and broadcastMessageCreated.

HubTake ==
    /\ hub = "idle"
    /\ channel # <<>>
    /\ channel' = Tail(channel)
    /\ msg' = Head(channel)
    /\ \/ /\ NoFault
          /\ todo' = Users \ {Sender[Head(channel)]}
          /\ hub' = IF todo' = {} THEN "idle" ELSE "member"
          /\ listed' = listed \cup {Head(channel)}
          /\ due' = [c \in Clients |->
                IF c \in users \ closed /\ UserOf[c] \in todo' THEN due[c] \cup {Head(channel)}
                                                            ELSE due[c]]
       \/ /\ Fault  \* ListMembers fails
          /\ UNCHANGED <<todo, hub, listed, due>>
    /\ UNCHANGED <<events, busVars, targets, target, dropped, pushes, clientVars>>

\* Faulty variant: members with sockets are pushed to as well.
HubMemberPushed ==
    /\ hub = "member" /\ ~Locked
    /\ \E u \in todo :
          LET sockets == ClientsForUser(u)
          IN /\ todo' = todo \ {u}
             /\ targets' = sockets
             /\ pushes' = pushes \cup {<<msg, u>>}
             /\ hub' = IF sockets # {} THEN "client"
                       ELSE IF todo' = {} THEN "idle" ELSE "member"
    /\ UNCHANGED <<events, busVars, channel, msg, target, listed, dropped, clientVars, due,
                   faults>>

\* The next member: the sockets it has here, or else the push.
HubMember ==
    /\ hub = "member" /\ ~Locked
    /\ \E u \in todo :
          LET sockets == ClientsForUser(u)
          IN /\ todo' = todo \ {u}
             /\ targets' = sockets
             /\ pushes' = IF sockets = {} THEN pushes \cup {<<msg, u>>} ELSE pushes
             /\ hub' = IF sockets # {} THEN "client"
                       ELSE IF todo' = {} THEN "idle" ELSE "member"
    /\ UNCHANGED <<events, busVars, channel, msg, target, listed, dropped, clientVars, due,
                   faults>>

NextTarget(rest) ==
    /\ targets' = rest
    /\ hub' = IF rest # {} THEN "client" ELSE IF todo = {} THEN "idle" ELSE "member"
    /\ target' = {}

\* Faulty variant: the client's state is read without the lock.
HubEnqueueUnchecked ==
    /\ hub = "client"
    /\ \E c \in targets :
          /\ target' = {c}
          /\ hub' = "send"
    /\ UNCHANGED <<events, busVars, channel, msg, todo, targets, listed, dropped, pushes,
                   clientVars, due, faults>>

HubEnqueue ==
    /\ hub = "client"
    /\ \E c \in targets :
          /\ target' = {c}
          /\ hub' = IF c \in closed THEN "drop" ELSE "send"
          /\ dropped' = IF c \in closed THEN dropped \cup {<<msg, c>>} ELSE dropped
    /\ UNCHANGED <<events, busVars, channel, msg, todo, targets, listed, pushes, clientVars,
                   due, faults>>

\* Faulty variant: a frame that finds the queue full is given up.
HubSendOrForget ==
    /\ hub = "send"
    /\ \E c \in target :
          /\ queue' = [queue EXCEPT ![c] = IF Full(c) THEN @ ELSE Append(@, msg)]
          /\ NextTarget(targets \ {c})
    /\ UNCHANGED <<events, busVars, channel, msg, todo, listed, dropped, pushes, users, closed,
                   link, handler, pump, received, replies, due, faults>>

HubSend ==
    /\ hub = "send"
    /\ \E c \in target :
          \/ /\ ~Full(c)
             /\ queue' = [queue EXCEPT ![c] = Append(@, msg)]
             /\ NextTarget(targets \ {c})
             /\ UNCHANGED dropped
          \/ /\ Full(c)
             /\ hub' = "drop"
             /\ dropped' = dropped \cup {<<msg, c>>}
             /\ UNCHANGED <<queue, targets, target>>
    /\ UNCHANGED <<events, busVars, channel, msg, todo, listed, pushes, users, closed, link,
                   handler, pump, received, replies, due, faults>>

\* The hub unregisters the client that did not take the frame.
HubDrop ==
    /\ hub = "drop"
    /\ \E c \in target :
          /\ Unregister(c)
          /\ \/ HasEntry(c) /\ hub' = "close" /\ UNCHANGED <<targets, target>>
             \/ ~HasEntry(c) /\ NextTarget(targets \ {c})
    /\ UNCHANGED <<events, busVars, channel, msg, todo, listed, dropped, pushes, closed, queue,
                   link, handler, pump, received, replies, due, faults>>

\* Faulty variant: the hub gives the message up with the client.
HubCloseAndReturn ==
    /\ hub = "close"
    /\ \E c \in target : Close(c)
    /\ hub' = "idle" /\ todo' = {} /\ targets' = {} /\ target' = {}
    /\ UNCHANGED <<events, busVars, channel, msg, listed, dropped, pushes, users, queue,
                   handler, pump, received, replies, due, faults>>

HubClose ==
    /\ hub = "close"
    /\ \E c \in target : Close(c) /\ NextTarget(targets \ {c})
    /\ UNCHANGED <<events, busVars, channel, msg, todo, listed, dropped, pushes, users, queue,
                   handler, pump, received, replies, due, faults>>

----------------------------------------------------------------------------
\* A connection: Handle with its read loop, and writePump.

Connect(c) ==
    /\ link[c] = "none" /\ ~Locked
    /\ link' = [link EXCEPT ![c] = "up"]
    /\ Register(c)
    /\ handler' = [handler EXCEPT ![c] = "reading"]
    /\ pump' = [pump EXCEPT ![c] = "running"]
    /\ UNCHANGED <<events, busVars, channel, hubVars, closed, queue, received, replies, due,
                   faults>>

LoseLink(c) ==
    /\ link[c] = "up"
    /\ Fault
    /\ link' = [link EXCEPT ![c] = "down"]
    /\ UNCHANGED <<events, busVars, channel, hubVars, users, closed, queue, handler, pump,
                   received, replies, due>>

\* ReadJSON returns a request.
Request(c) ==
    /\ handler[c] = "reading" /\ link[c] = "up"
    /\ replies < MaxReplies
    /\ replies' = replies + 1
    /\ handler' = [handler EXCEPT ![c] = "check"]
    /\ UNCHANGED <<events, busVars, channel, hubVars, users, closed, queue, link, pump,
                   received, due, faults>>

\* Every path through a request's handler ends in one enqueue of an answer; its result
\* is ignored.
ReplyCheck(c) ==
    /\ handler[c] = "check"
    /\ handler' = [handler EXCEPT ![c] = IF c \in closed THEN "reading" ELSE "send"]
    /\ UNCHANGED <<events, busVars, channel, hubVars, users, closed, queue, link, pump,
                   received, replies, due, faults>>

\* Faulty variant: an answer that finds the queue full is tried again.
ReplySendRetried(c) ==
    /\ handler[c] = "send"
    /\ queue' = [queue EXCEPT ![c] = IF Full(c) THEN @ ELSE Append(@, 0)]
    /\ handler' = [handler EXCEPT ![c] = IF Full(c) THEN "check" ELSE "reading"]
    /\ UNCHANGED <<events, busVars, channel, hubVars, users, closed, link, pump, received,
                   replies, due, faults>>

\* Faulty variant: the answer waits for room in the queue.
ReplySendBlocking(c) ==
    /\ handler[c] = "send" /\ ~Full(c)
    /\ queue' = [queue EXCEPT ![c] = Append(@, 0)]
    /\ handler' = [handler EXCEPT ![c] = "reading"]
    /\ UNCHANGED <<events, busVars, channel, hubVars, users, closed, link, pump, received,
                   replies, due, faults>>

ReplySend(c) ==
    /\ handler[c] = "send"
    /\ queue' = [queue EXCEPT ![c] = IF Full(c) THEN @ ELSE Append(@, 0)]
    /\ handler' = [handler EXCEPT ![c] = "reading"]
    /\ UNCHANGED <<events, busVars, channel, hubVars, users, closed, link, pump, received,
                   replies, due, faults>>

\* Faulty variant: Handle returns and leaves the client registered.
LeaveRegistered(c) ==
    /\ handler[c] = "reading" /\ link[c] = "down"
    /\ Close(c)
    /\ handler' = [handler EXCEPT ![c] = "gone"]
    /\ UNCHANGED <<events, busVars, channel, hubVars, users, queue, pump, received, replies,
                   due, faults>>

\* ReadJSON fails and Handle returns through Unregister.
Leave(c) ==
    /\ handler[c] = "reading" /\ link[c] = "down"
    /\ Unregister(c)
    /\ handler' = [handler EXCEPT ![c] = IF HasEntry(c) THEN "close" ELSE "gone"]
    /\ UNCHANGED <<events, busVars, channel, hubVars, closed, queue, link, pump, received,
                   replies, due, faults>>

LeaveClose(c) ==
    /\ handler[c] = "close"
    /\ Close(c)
    /\ handler' = [handler EXCEPT ![c] = "gone"]
    /\ UNCHANGED <<events, busVars, channel, hubVars, users, queue, pump, received, replies,
                   due, faults>>

PumpWrite(c) ==
    /\ pump[c] = "running" /\ link[c] = "up"
    /\ queue[c] # <<>>
    /\ received' = [received EXCEPT ![c] = Append(@, Head(queue[c]))]
    /\ queue' = [queue EXCEPT ![c] = Tail(@)]
    /\ UNCHANGED <<events, busVars, channel, hubVars, users, closed, link, handler, pump,
                   replies, due, faults>>

\* A write or a ping fails, or the queue is closed: the client is closed (again).
PumpStop(c) ==
    /\ pump[c] = "running" /\ link[c] = "down"
    /\ Close(c)
    /\ pump' = [pump EXCEPT ![c] = "done"]
    /\ UNCHANGED <<events, busVars, channel, hubVars, users, queue, handler, received,
                   replies, due, faults>>

BusStep == Xread \/ XreadReturns \/ Forward
HubStep == HubTake \/ HubMember \/ HubEnqueue \/ HubSend \/ HubDrop \/ HubClose
HandlerStep(c) == ReplyCheck(c) \/ ReplySend(c) \/ Leave(c) \/ LeaveClose(c)
PumpStep(c) == PumpWrite(c) \/ PumpStop(c)

\* What the goroutines of the hub and its connections do by themselves.
ServerStep == HubStep \/ \E c \in Clients : HandlerStep(c) \/ PumpStep(c)

Next ==
    \/ Publish
    \/ BusStep
    \/ ServerStep
    \/ \E c \in Clients : Connect(c) \/ LoseLink(c) \/ Request(c)

Spec == Init /\ [][Next]_liveVars

\* The goroutines of the server run; publishing, peers and links owe nothing.
FairSpec ==
    /\ Spec
    /\ WF_liveVars(HubStep)
    /\ \A c \in Clients : WF_liveVars(HandlerStep(c)) /\ WF_liveVars(PumpStep(c))

----------------------------------------------------------------------------
\* Types, and what the loops' positions imply about their locals.
TypeOK ==
    /\ events \in 0 .. MaxEvents
    /\ sub \in {"between", "blocked", "forward"}
    /\ lastId \in 0 .. events /\ from \in 0 .. events
    /\ batch \in Seq(Events) /\ (sub = "forward") = (batch # <<>>)
    /\ channel \in Seq(Events) /\ Len(channel) <= Buffer
    /\ hub \in {"idle", "member", "client", "send", "drop", "close"}
    /\ msg \in 0 .. events /\ todo \subseteq Users
    /\ targets \subseteq Clients /\ target \subseteq targets
    /\ hub = "idle" => todo = {}
    /\ hub = "member" => todo # {}
    /\ (hub \in {"client", "send", "drop", "close"}) = (targets # {})
    /\ users \subseteq Clients /\ closed \subseteq Clients
    /\ queue \in [Clients -> Seq(0 .. events)]
    /\ \A c \in Clients : Len(queue[c]) <= QueueCap
    /\ link \in [Clients -> {"none", "up", "down"}]
    /\ handler \in [Clients -> {"none", "reading", "check", "send", "close", "gone"}]
    /\ pump \in [Clients -> {"none", "running", "done"}]
    /\ received \in [Clients -> Seq(0 .. events)]
    /\ forwarded \subseteq Events /\ listed \subseteq Events
    /\ due \in [Clients -> SUBSET Events]
    /\ dropped \subseteq Events \X Clients /\ pushes \subseteq Events \X Users
    /\ replies \in Nat /\ faults \in Nat

\* The frames a client was given, in order, and the events among them.
Frames(c) == received[c] \o queue[c]
Given(c) == ToSet(Frames(c)) \ {0}

\* wsClient: nobody sends on a queue that has been closed, which would panic, although
\* the hub, the read loop, the pump and Unregister run side by side.
SendOnOpenQueue == \A c \in Clients : ReadLocked(c) => c \notin closed

\* A socket gets events in the order of the stream and none twice (HubSend, PumpWrite).
FramesInOrder ==
    \A c \in Clients : \A i, j \in DOMAIN Frames(c) :
        i < j /\ Frames(c)[i] # 0 /\ Frames(c)[j] # 0 => Frames(c)[i] < Frames(c)[j]

\* The hub never loses a frame silently: a client that is still registered and open
\* was given every event broadcast since it connected.  A client too slow for its
\* queue is disconnected, so that it will SYNC.
NoSilentLoss ==
    hub = "idle" => \A c \in users \ closed : due[c] \subseteq Given(c)

\* After its first event the subscription hands on every event, through timeouts,
\* errors, batches and a full channel, unless it is so late that the event was trimmed.
NothingSkippedAfterFirst ==
    \A i \in forwarded : \A j \in i .. lastId : j \in forwarded \/ j <= events - EventMaxLen

\* SubscribeMessageCreated, the hub and the write pump keep to the stream: from its first
\* event on nothing the stream still has is skipped, and every socket gets what it gets
\* in stream order, once.
StreamIsFollowed == FramesInOrder /\ NothingSkippedAfterFirst

\* broadcastMessageCreated serves every member but the sender once per event: every socket
\* the hub found gets the frame or, if it does not take it, is closed so that its peer will
\* SYNC; a member without sockets gets the push, and nobody gets both.
EveryMemberServed ==
    /\ \A v \in listed : \A u \in Users \ {Sender[v]} :
          LET sockets == {c \in Clients : UserOf[c] = u}
              tried == \E c \in sockets : v \in Given(c) \/ <<v, c>> \in dropped
              pushed == <<v, u>> \in pushes
          IN /\ ~(tried /\ pushed)
             /\ tried \/ pushed \/ (v = msg /\ hub # "idle")
    /\ \A v \in listed : \A c \in Clients :
          <<v, c>> \in dropped =>
              /\ v \notin Given(c)
              /\ c \in closed \/ (hub \in {"drop", "close"} /\ target = {c})

\* Where a goroutine of the hub or of a connection stands, and what it then needs.
HubCanGoOn ==
    \/ hub = "idle" /\ channel # <<>>
    \/ hub = "member" /\ todo # {} /\ ~Locked
    \/ hub = "client" /\ targets # {}
    \/ hub = "send" /\ target # {}
    \/ hub = "drop" /\ target # {} /\ ~Locked
    \/ hub = "close" /\ \E c \in target : ~ReadLocked(c)

HandlerCanGoOn(c) ==
    \/ handler[c] \in {"check", "send"}
    \/ handler[c] = "reading" /\ link[c] = "down" /\ ~Locked
    \/ handler[c] = "close" /\ ~ReadLocked(c)

PumpCanGoOn(c) ==
    /\ pump[c] = "running"
    /\ (link[c] = "up" /\ queue[c] # <<>>) \/ (link[c] = "down" /\ ~ReadLocked(c))

CanGoOn == HubCanGoOn \/ \E c \in Clients : HandlerCanGoOn(c) \/ PumpCanGoOn(c)

\* Everybody waits for the outside: the hub for an event, the read loops of open
\* connections for a request and their pumps for a frame; the others have returned.
AtRest ==
    /\ hub = "idle" /\ channel = <<>>
    /\ \A c \in Clients :
          /\ handler[c] \in {"none", "gone"} \/ (handler[c] = "reading" /\ link[c] = "up")
          /\ pump[c] # "running" \/ (link[c] = "up" /\ queue[c] = <<>>)

\* The locks of the hub and of wsClient and the goroutines of the connections: they never
\* all wait for each other.  Whoever waits for the hub's lock waits for one who waits in
\* close at most, and whoever waits in close waits for one who can go on.
NobodyWaitsInVain == CanGoOn \/ AtRest

\* wsClient, the hub and the goroutines of the connections: unless one of them can go on all
\* are at rest, and then nothing is left undone.  A client whose queue was closed, by
\* whomever, has left the hub's map, and a peer whose connection is up has everything that
\* was broadcast to it.
NothingLeftUndone ==
    /\ NobodyWaitsInVain
    /\ AtRest =>
          /\ closed \cap users = {}
          /\ \A c \in Clients : due[c] \subseteq ToSet(received[c]) \/ link[c] = "down"

\* Downwards in the order in which the hub's loops nest: events, members, sockets, and the
\* steps of one enqueue.
HubRank == [idle |-> 0, member |-> 0, client |-> 3, send |-> 2, drop |-> 1, close |-> 0]

HubGetsOn ==
    \/ Len(channel') < Len(channel)
    \/ channel' = channel /\ todo' \in (SUBSET todo) \ {todo}
    \/ channel' = channel /\ todo' = todo /\ targets' \in (SUBSET targets) \ {targets}
    \/ UNCHANGED <<channel, todo, targets>> /\ HubRank[hub'] < HubRank[hub]

\* A read loop answers each request once; new requests come from the peer.
HandlerRank == [check |-> 4, send |-> 3, reading |-> 2, close |-> 1, gone |-> 0]

HandlerGetsOn(c) ==
    \/ handler[c] = "none" \/ replies' = replies + 1
    \/ HandlerRank[handler'[c]] < HandlerRank[handler[c]]

\* A pump works its queue off, to which only a step of the hub or of the read loop adds.
PumpGetsOn(c) ==
    \/ pump[c] = "none"
    \/ pump[c] = "running" /\ pump'[c] = "done" /\ queue'[c] = queue[c]
    \/ pump'[c] = pump[c] /\ Len(queue'[c]) < Len(queue[c])
    \/ /\ pump'[c] = pump[c] /\ Len(queue'[c]) = Len(queue[c]) + 1
       /\ hubVars' # hubVars \/ handler'[c] # handler[c]

\* Run, Handle and writePump have finitely many steps to take between two events and
\* requests: none of them goes round in circles, with a full queue or a closed client
\* neither.  With NothingLeftUndone it follows that they come to rest, and with nothing
\* left undone.
StepsRunOut ==
    [][/\ hubVars' # hubVars => HubGetsOn
       /\ \A c \in Clients :
             /\ handler'[c] # handler[c] => HandlerGetsOn(c)
             /\ pump'[c] # pump[c] \/ queue'[c] # queue[c] => PumpGetsOn(c)]_liveVars

\* Handle, Unregister and writePump: a connection whose link is lost ends, with its client
\* out of the hub's map and both of its goroutines returned, whatever locks and queues the
\* others hold; and a frame broadcast to an open connection gets to the peer or the
\* connection is lost.
ConnectionsSettle ==
    \A c \in Clients :
        /\ link[c] = "down" ~> (c \notin users /\ handler[c] = "gone" /\ pump[c] = "done")
        /\ \A v \in Events :
              v \in due[c] ~> (v \in ToSet(received[c]) \/ link[c] = "down")
=============================================================================
