------------------------- MODULE MCMessagePipeline -------------------------
(***************************************************************************)
(* Small instances of the message pipeline: a send, its retry under the    *)
(* same client message id, and a reply to the send.                        *)
(***************************************************************************)
EXTENDS MessagePipeline

CONSTANTS r1, r2, r3, w1, w2, k1, k2, room

MCRequests == {r1, r2, r3}
MCKeys     == {k1, k2}
MCKeyOf    == [r \in MCRequests |-> IF r = r3 THEN k2 ELSE k1]
MCRooms    == {room}
MCRoomOf   == [r \in MCRequests |-> room]
MCReplyTo  == [r \in MCRequests |-> IF r = r3 THEN r1 ELSE None]

\* Two messages that do not share a key, the second a reply to the first.
MCPair        == {r1, r3}
MCPairKeyOf   == [r \in MCPair |-> MCKeyOf[r]]
MCPairRoomOf  == [r \in MCPair |-> room]
MCPairReplyTo == [r \in MCPair |-> MCReplyTo[r]]
============================================================================
