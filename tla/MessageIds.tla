----------------------------- MODULE MessageIds -----------------------------
(***************************************************************************)
(* Message ids of one process: the millisecond and ten bytes of entropy,   *)
(* drawn anew when the clock shows another millisecond and incremented     *)
(* within one.  New holds a mutex, so a call is one step.  The wall clock  *)
(* may be set back.                                                        *)
(***************************************************************************)
EXTENDS Naturals, Sequences

CONSTANTS
    Byte, EntropyBytes,   \* 256 and 10 in the code
    MaxMs, MaxIds         \* bounds on the clock and on the ids

EntropySize == Byte ^ EntropyBytes

ASSUME IdAssumption ==
    /\ Byte \in Nat \ {0} /\ EntropyBytes \in Nat \ {0} /\ MaxMs \in Nat \ {0} /\ MaxIds \in Nat
    /\ EntropySize \in Nat \ {0}

VARIABLES
    wall,       \* the wall clock
    lastMS, entropy,   \* the generator
    ids,        \* the ids given out, with the millisecond and the entropy of each
    setBack     \* the clock was set back

messageIdVars == <<wall, lastMS, entropy, ids, setBack>>

\* The zero value of a generator; its first id draws entropy.
MessageIdInit ==
    /\ wall = 1
    /\ lastMS = 0 /\ entropy = 0
    /\ ids = <<>> /\ setBack = FALSE

\* Faulty variant: the carry stops at the last byte.
IncrementLastByte(x) == (x - (x % Byte)) + ((x + 1) % Byte)

\* Byte by byte with a carry; all ones wrap to zero.
IncrementEntropy(x) == (x + 1) % EntropySize

NewId ==
    /\ Len(ids) < MaxIds
    /\ \/ wall # lastMS /\ entropy' \in 0 .. EntropySize - 1
       \/ wall = lastMS /\ entropy' = IncrementEntropy(entropy)
    /\ lastMS' = wall
    /\ ids' = Append(ids, <<wall, entropy'>>)
    /\ UNCHANGED <<wall, setBack>>

ClockMoves ==
    /\ \E t \in 1 .. MaxMs \ {wall} : wall' = t /\ setBack' = (setBack \/ t < wall)
    /\ UNCHANGED <<lastMS, entropy, ids>>

MessageIdNext == NewId \/ ClockMoves

MessageIdSpec == MessageIdInit /\ [][MessageIdNext]_messageIdVars

----------------------------------------------------------------------------
MessageIdTypeOK ==
    /\ wall \in 1 .. MaxMs /\ lastMS \in 0 .. MaxMs
    /\ entropy \in 0 .. EntropySize - 1
    /\ ids \in Seq((1 .. MaxMs) \X (0 .. EntropySize - 1))

\* IDGenerator.New: an id comes again only when the clock was set back, or after as many
\* ids of one millisecond as the entropy has values, however often the entropy carries
\* or wraps.
MessageIdsAreDistinct ==
    \A i, j \in 1 .. Len(ids) :
        i < j /\ ids[i] = ids[j] => setBack \/ j - i >= EntropySize
=============================================================================
