--------------------------- MODULE MCSyncMessages ---------------------------
\* Small instances of SyncMessages.
EXTENDS SyncMessages, TLC

\* A replica's clock is behind Valkey's or ahead of it.
MCSkews == {-1, 1}

DeviceSymmetry == Permutations(Devices)
=============================================================================
