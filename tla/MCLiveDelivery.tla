--------------------------- MODULE MCLiveDelivery ---------------------------
\* Small instances of LiveDelivery: u1 sends everything, the sockets are u2's.
EXTENDS LiveDelivery, TLC

CONSTANTS u1, u2, c1, c2

MCSender == [v \in Events |-> u1]
MCUserOf == [c \in Clients |-> u2]
SocketSymmetry == Permutations(Clients)
=============================================================================
