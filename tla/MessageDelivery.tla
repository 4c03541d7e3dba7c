-------------------------- MODULE MessageDelivery --------------------------
(***************************************************************************)
(* What the message pipeline promises, without its mechanism.  A message   *)
(* is stored once per key, only then enters its room's stream, only then   *)
(* is announced to connected clients; a message the sender was told is     *)
(* sent is stored, and is announced sooner or later.                       *)
(***************************************************************************)
CONSTANTS Requests, KeyOf

VARIABLES
    stored,     \* messages in the system of record
    streamed,   \* messages a SYNC can find
    announced,  \* messages sent to connected clients
    accepted    \* messages reported to their sender as sent

deliveryVars == <<stored, streamed, announced, accepted>>

Init ==
    /\ stored \in SUBSET Requests
    /\ \A m, n \in stored : KeyOf[m] = KeyOf[n] => m = n
    /\ streamed \in SUBSET stored
    /\ announced = {}
    /\ accepted \in SUBSET stored

Store(m) ==
    /\ \A n \in stored : KeyOf[n] # KeyOf[m]
    /\ stored' = stored \cup {m}
    /\ UNCHANGED <<streamed, announced, accepted>>

Stream(m) ==
    /\ m \in stored
    /\ streamed' = streamed \cup {m}
    /\ UNCHANGED <<stored, announced, accepted>>

Announce(m) ==
    /\ m \in streamed
    /\ announced' = announced \cup {m}
    /\ accepted' \in {accepted, accepted \cup {m}}
    /\ UNCHANGED <<stored, streamed>>

\* The sender is told `sent' and the announcement is left for later.
Defer(m) ==
    /\ m \in stored
    /\ accepted' = accepted \cup {m}
    /\ UNCHANGED <<stored, streamed, announced>>

Next == \E m \in Requests : Store(m) \/ Stream(m) \/ Announce(m) \/ Defer(m)

Safety == Init /\ [][Next]_deliveryVars

Promise == \A m \in Requests : m \in accepted ~> m \in announced

Spec == Safety /\ Promise
============================================================================
