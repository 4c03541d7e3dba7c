----------------------------- MODULE MCPresence -----------------------------
\* Two connections, of one device or of two.
EXTENDS Presence

CONSTANTS c1, c2, d1, d2

MCPairings == {[c \in Conns |-> d1], [c \in Conns |-> IF c = c1 THEN d1 ELSE d2]}
=============================================================================
