------------------------------ MODULE Presence ------------------------------
(***************************************************************************)
(* Presence of one user: the WebSocket handlers announce and withdraw a    *)
(* device, a goroutine per connection refreshes it, and the hub of another *)
(* process asks whether the user is online before it pushes a message.     *)
(*                                                                         *)
(* Valkey keeps a key with a time to live per device and a set of devices. *)
(* A Tick is one refresh period; the SetOnline of a refresh has a context  *)
(* of two seconds and takes less than that, the other calls, the handler's *)
(* first SetOnline among them, take any time.                              *)
(***************************************************************************)
EXTENDS Naturals, FiniteSets

CONSTANTS
    Conns,      \* WebSocket connections of the user, each used once
    Devices,    \* its device ids
    Pairings,   \* the ways the connections may belong to devices
    TTL,        \* life of a presence key, in refresh periods
    MaxFaults   \* bound on failed requests

Forever == 2 * TTL + 1   \* a set without a time to live

ASSUME PresenceAssumption ==
    /\ Pairings \subseteq [Conns -> Devices]
    /\ TTL \in Nat /\ TTL > 1 /\ MaxFaults \in Nat

VARIABLES
    dev,      \* the device id of a connection
    keyTtl,   \* presence:{user}:{device}, time left; 0 when the key is gone
    members,  \* presence_devices:{user}
    setTtl,   \* time left of that set
    pc,       \* the handler of a connection
    rpc,      \* its refresh goroutine
    due,      \* the goroutine's ticker has fired
    npc,      \* the push call: "idle", "members", "exists", "srem" or "notify"
    asked,    \* the device it asks about, as a set
    todo,     \* devices it still has to ask about
    online,   \* what it found so far
    faults,
    found,    \* "lost", "recovering" or "found": how IsOnline should see an open connection
    steady    \* connections that were found from the start of the push call on

valkeyVars == <<keyTtl, members, setTtl>>
connVars == <<dev, pc, rpc, due>>
pushVars == <<npc, asked, todo, online>>
vars == <<valkeyVars, connVars, pushVars, faults, found, steady>>

Init ==
    /\ dev \in Pairings
    /\ keyTtl = [d \in Devices |-> 0] /\ members = {} /\ setTtl = 0
    /\ pc = [c \in Conns |-> "off"]
    /\ rpc = [c \in Conns |-> "none"]
    /\ due = [c \in Conns |-> FALSE]
    /\ npc = "idle" /\ asked = {} /\ todo = {} /\ online = FALSE
    /\ faults = 0
    /\ found = [c \in Conns |-> "lost"]
    /\ steady = {}

----------------------------------------------------------------------------
\* Requests to Valkey.
SetKey(d) == keyTtl' = [keyTtl EXCEPT ![d] = TTL]

Sadd(d) ==
    /\ members' = members \cup {d}
    /\ setTtl' = IF members = {} THEN Forever ELSE setTtl

Expire == setTtl' = IF members = {} THEN 0 ELSE 2 * TTL

Del(d) == keyTtl' = [keyTtl EXCEPT ![d] = 0]

Srem(d) ==
    /\ members' = members \ {d}
    /\ setTtl' = IF members' = {} THEN 0 ELSE setTtl

\* Bookkeeping.  Removing a device's key or member hides its connections.
Hide(d) ==
    /\ found' = [c \in Conns |-> IF dev[c] = d THEN "lost" ELSE found[c]]
    /\ steady' = {c \in steady : dev[c] # d}

Lose(c) ==
    /\ found' = [found EXCEPT ![c] = "lost"]
    /\ steady' = steady \ {c}

Fault == faults < MaxFaults /\ faults' = faults + 1

----------------------------------------------------------------------------
\* SetOnline, for the handler ("h") or the goroutine ("r") of connection c.
At(c, who, where) ==
    \/ who = "h" /\ pc[c] = where
    \/ who = "r" /\ rpc[c] = where

Go(c, who, where) ==
    \/ /\ who = "h" /\ pc' = [pc EXCEPT ![c] = where]
       /\ UNCHANGED <<dev, rpc, due>>
    \/ /\ who = "r" /\ rpc' = [rpc EXCEPT ![c] = where]
       /\ UNCHANGED <<dev, pc, due>>

\* SetOnline returns: the handler starts the goroutine and reads, the goroutine
\* waits for its ticker.
EndOnline(c, who) ==
    \/ /\ who = "h"
       /\ pc' = [pc EXCEPT ![c] = "open"] /\ rpc' = [rpc EXCEPT ![c] = "wait"]
       /\ UNCHANGED <<dev, due>>
    \/ who = "r" /\ Go(c, "r", "wait")

OnlineSet(c, who) ==
    /\ At(c, who, "set")
    /\ SetKey(dev[c])
    /\ Go(c, who, "sadd")
    /\ found' = [found EXCEPT ![c] =
                    IF @ = "lost" /\ pc[c] \in {"set", "open"} THEN "recovering" ELSE @]
    /\ UNCHANGED <<members, setTtl, pushVars, faults, steady>>

\* Faulty variant: a refresh renews the key only.
OnlineSaddOnce(c, who) ==
    /\ At(c, who, "sadd")
    /\ IF who = "h" THEN Sadd(dev[c]) ELSE UNCHANGED <<members, setTtl>>
    /\ IF who = "h" THEN Go(c, who, "expire") ELSE EndOnline(c, who)
    /\ UNCHANGED <<keyTtl, pushVars, faults, found, steady>>

OnlineSadd(c, who) ==
    /\ At(c, who, "sadd")
    /\ Sadd(dev[c])
    /\ Go(c, who, "expire")
    /\ UNCHANGED <<keyTtl, pushVars, faults, found, steady>>

OnlineExpire(c, who) ==
    /\ At(c, who, "expire")
    /\ Expire
    /\ EndOnline(c, who)
    /\ found' = [found EXCEPT ![c] = IF @ = "recovering" THEN "found" ELSE @]
    /\ UNCHANGED <<keyTtl, members, pushVars, faults, steady>>

\* A request of SetOnline fails, before or after it took effect; the error is logged.
OnlineFails(c, who) ==
    /\ Fault
    /\ \/ /\ At(c, who, "set")
          /\ SetKey(dev[c]) \/ UNCHANGED keyTtl
          /\ UNCHANGED <<members, setTtl>>
       \/ /\ At(c, who, "sadd")
          /\ Sadd(dev[c]) \/ UNCHANGED <<members, setTtl>>
          /\ UNCHANGED keyTtl
       \/ /\ At(c, who, "expire")
          /\ Expire \/ UNCHANGED setTtl
          /\ UNCHANGED <<keyTtl, members>>
    /\ EndOnline(c, who)
    /\ Lose(c)
    /\ UNCHANGED pushVars

----------------------------------------------------------------------------
\* Handle: the upgrade and the registration in the hub.
Connect(c) ==
    /\ pc[c] = "off"
    /\ pc' = [pc EXCEPT ![c] = "set"]
    /\ UNCHANGED <<valkeyVars, dev, rpc, due, pushVars, faults, found, steady>>

\* ReadJSON fails; the deferred SetOffline comes first.
Disconnect(c) ==
    /\ pc[c] = "open"
    /\ pc' = [pc EXCEPT ![c] = "del"]
    /\ found' = [found EXCEPT ![c] = "lost"]
    /\ UNCHANGED <<valkeyVars, dev, rpc, due, pushVars, faults, steady>>

OfflineDel(c) ==
    /\ pc[c] = "del"
    /\ Del(dev[c])
    /\ pc' = [pc EXCEPT ![c] = "srem"]
    /\ Hide(dev[c])
    /\ UNCHANGED <<members, setTtl, dev, rpc, due, pushVars, faults>>

\* DEL fails, before or after it took effect: SetOffline returns without SREM.
OfflineDelFails(c) ==
    /\ Fault
    /\ pc[c] = "del"
    /\ \/ Del(dev[c]) /\ Hide(dev[c])
       \/ UNCHANGED keyTtl /\ Lose(c)
    /\ pc' = [pc EXCEPT ![c] = "gone"]
    /\ UNCHANGED <<members, setTtl, dev, rpc, due, pushVars>>

\* SREM; its error is ignored.  Then close(stopPresenceRefresh).
OfflineSrem(c) ==
    /\ pc[c] = "srem"
    /\ \/ Srem(dev[c]) /\ Hide(dev[c]) /\ UNCHANGED faults
       \/ Fault /\ UNCHANGED <<members, setTtl, found, steady>>
    /\ pc' = [pc EXCEPT ![c] = "gone"]
    /\ UNCHANGED <<keyTtl, dev, rpc, due, pushVars>>

\* refreshPresence: the ticker's case of the select.
RefreshStart(c) ==
    /\ rpc[c] = "wait" /\ due[c]
    /\ due' = [due EXCEPT ![c] = FALSE]
    /\ rpc' = [rpc EXCEPT ![c] = "set"]
    /\ UNCHANGED <<valkeyVars, dev, pc, pushVars, faults, found, steady>>

\* Faulty variant: stop is never closed.
StopNeverSeen(c) == FALSE /\ UNCHANGED vars

\* The stop case.
RefreshStop(c) ==
    /\ rpc[c] = "wait" /\ pc[c] = "gone"
    /\ rpc' = [rpc EXCEPT ![c] = "none"]
    /\ due' = [due EXCEPT ![c] = FALSE]
    /\ UNCHANGED <<valkeyVars, dev, pc, pushVars, faults, found, steady>>

----------------------------------------------------------------------------
\* NotifyOfflineMembers: the call of IsOnline.
NotifyStart ==
    /\ npc = "idle"
    /\ npc' = "members"
    /\ steady' = {c \in Conns : pc[c] = "open" /\ found[c] = "found"}
    /\ UNCHANGED <<valkeyVars, connVars, asked, todo, online, faults, found>>

\* The call returns.
Idle ==
    /\ npc' = "idle"
    /\ asked' = {} /\ todo' = {} /\ online' = FALSE

\* The loop's next device, or the end of IsOnline and, if nothing was found, the push.
NextDevice(rest, on) ==
    \/ \E d \in rest :
          /\ asked' = {d} /\ todo' = rest \ {d}
          /\ npc' = "exists" /\ online' = on
    \/ rest = {} /\ on /\ Idle
    \/ /\ rest = {} /\ ~on
       /\ npc' = "notify" /\ asked' = {} /\ todo' = {} /\ online' = FALSE

Smembers ==
    /\ npc = "members"
    /\ NextDevice(members, FALSE)
    /\ UNCHANGED <<valkeyVars, connVars, faults, found, steady>>

\* Faulty variant: only the last device counts.
ExistsLast ==
    /\ npc = "exists"
    /\ \E d \in asked :
          \/ keyTtl[d] > 0 /\ NextDevice(todo, TRUE)
          \/ /\ keyTtl[d] = 0
             /\ npc' = "srem" /\ online' = FALSE
             /\ UNCHANGED <<asked, todo>>
    /\ UNCHANGED <<valkeyVars, connVars, faults, found, steady>>

ExistsKey ==
    /\ npc = "exists"
    /\ \E d \in asked :
          \/ keyTtl[d] > 0 /\ NextDevice(todo, TRUE)
          \/ /\ keyTtl[d] = 0
             /\ npc' = "srem"
             /\ UNCHANGED <<asked, todo, online>>
    /\ UNCHANGED <<valkeyVars, connVars, faults, found, steady>>

\* SREM of a device without a key; its error is ignored.
SremStale ==
    /\ npc = "srem"
    /\ \/ \E d \in asked : Srem(d) /\ Hide(d) /\ UNCHANGED faults
       \/ Fault /\ UNCHANGED <<members, setTtl, found, steady>>
    /\ NextDevice(todo, online)
    /\ UNCHANGED <<keyTtl, connVars>>

\* SMEMBERS or EXISTS fails: no push.
IsOnlineFails ==
    /\ Fault
    /\ npc \in {"members", "exists"}
    /\ Idle
    /\ steady' = {}
    /\ UNCHANGED <<valkeyVars, connVars, found>>

\* ListByUser and NotifyMessage for every target.
Notify ==
    /\ npc = "notify"
    /\ Idle
    /\ steady' = {}
    /\ UNCHANGED <<valkeyVars, connVars, faults, found>>

----------------------------------------------------------------------------
\* Time passes.  A refresh that is due is done within a period; a connection whose handler
\* takes longer to announce it must wait for its first refresh.
Tick ==
    /\ \A c \in Conns : rpc[c] \in {"none", "wait"} /\ ~due[c]
    /\ keyTtl' = [d \in Devices |-> IF keyTtl[d] > 0 THEN keyTtl[d] - 1 ELSE 0]
    /\ setTtl' = IF setTtl \in {0, Forever} THEN setTtl ELSE setTtl - 1
    /\ members' = IF setTtl' = 0 THEN {} ELSE members
    /\ due' = [c \in Conns |-> rpc[c] = "wait"]
    /\ found' = [c \in Conns |-> IF pc[c] \in {"sadd", "expire"} THEN "lost" ELSE found[c]]
    /\ UNCHANGED <<dev, pc, rpc, pushVars, faults, steady>>

SetOnline(c) ==
    \E who \in {"h", "r"} :
        OnlineSet(c, who) \/ OnlineSadd(c, who) \/ OnlineExpire(c, who)

Step(c) ==
    \/ SetOnline(c) \/ OfflineDel(c) \/ OfflineSrem(c)
    \/ RefreshStart(c) \/ RefreshStop(c)

Push == NotifyStart \/ Smembers \/ ExistsKey \/ SremStale \/ Notify

Next ==
    \/ \E c \in Conns :
          \/ Step(c) \/ Connect(c) \/ Disconnect(c) \/ OfflineDelFails(c)
          \/ \E who \in {"h", "r"} : OnlineFails(c, who)
    \/ Push \/ IsOnlineFails \/ Tick

\* Started calls go on, time passes, and a select whose stop case is ready again and
\* again takes it (Go chooses at random among the ready cases).  Nobody has to connect,
\* disconnect or push.
Fairness ==
    /\ \A c \in Conns : WF_vars(SetOnline(c)) /\ WF_vars(OfflineDel(c) \/ OfflineSrem(c))
                        /\ WF_vars(RefreshStart(c)) /\ SF_vars(RefreshStop(c))
    /\ WF_vars(Smembers \/ ExistsKey \/ SremStale \/ Notify)
    /\ WF_vars(Tick)

Spec == Init /\ [][Next]_vars /\ Fairness

----------------------------------------------------------------------------
TypeOK ==
    /\ dev \in [Conns -> Devices]
    /\ keyTtl \in [Devices -> 0 .. TTL]
    /\ members \subseteq Devices
    /\ setTtl \in 0 .. Forever /\ (setTtl = 0 <=> members = {})
    /\ pc \in [Conns -> {"off", "set", "sadd", "expire", "open", "del", "srem", "gone"}]
    /\ rpc \in [Conns -> {"none", "wait", "set", "sadd", "expire"}]
    /\ due \in [Conns -> BOOLEAN]
    /\ npc \in {"idle", "members", "exists", "srem", "notify"}
    /\ asked \subseteq Devices /\ todo \subseteq Devices /\ online \in BOOLEAN
    /\ faults \in Nat
    /\ found \in [Conns -> {"lost", "recovering", "found"}]
    /\ steady \subseteq Conns

\* NotifyOfflineMembers: no push goes to a user one of whose connections stayed announced
\* during the whole call, that is, had its last refresh succeed and was not removed by a
\* SetOffline of the same device or by the clean-up in IsOnline.
NoPushToSteady == npc = "notify" => steady = {}

\* refreshPresence against the expiries of the key and the set, whose times to live other
\* connections of the user move, too: neither runs out under a connection whose last
\* SetOnline succeeded and whose device nobody has removed since.
AnnouncedIsOnline ==
    \A c \in Conns : found[c] = "found" => keyTtl[dev[c]] > 0 /\ dev[c] \in members

\* What an announced connection may rely on: IsOnline can see it, and nobody pushes past it.
AnnouncedIsReached == AnnouncedIsOnline /\ NoPushToSteady

\* refreshPresence: the device of a connection that stays open keeps its key and its place
\* in the set in the end, whatever removed them.
OnlineAgain ==
    \A c \in Conns : <>[](pc[c] = "open") =>
        <>[](keyTtl[dev[c]] > 0 /\ dev[c] \in members)

\* A device without connections is offline in the end, also after a late refresh.
OfflineInTheEnd ==
    \A d \in Devices :
        [](\A c \in Conns : dev[c] = d => pc[c] = "gone") ~> (keyTtl[d] = 0)
=============================================================================
