------------------------------- MODULE RoomIds ------------------------------
(***************************************************************************)
(* Room ids: a counter in Valkey, a Feistel network that scatters it over  *)
(* the id space, and a fixed-width encoding; then the insert into Postgres *)
(* that may find the id taken.  Round stands for the mixing function of    *)
(* the code with its mask: nothing here depends on what it computes.       *)
(*                                                                         *)
(* In the code HalfBase is 62^4, Radix 62 and WordSize 2^32.               *)
(***************************************************************************)
EXTENDS Integers, FiniteSets

CONSTANTS
    HalfBase, WordSize, Radix,
    Round,      \* [0 .. 5 -> [Half -> Half]]
    Calls,      \* CreateRoom calls
    Start,      \* rooms created before
    MaxLosses   \* bound on losses of the Valkey counter

Half == 0 .. HalfBase - 1
RoomIDSpace == HalfBase * HalfBase
Digits == 0 .. Radix - 1

ASSUME RoomIdAssumption ==
    /\ HalfBase \in Nat \ {0} /\ Radix \in Nat \ {0}
    /\ WordSize \in Nat /\ 2 * HalfBase <= WordSize
    /\ RoomIDSpace = Radix * (Radix * (Radix * (Radix * (Radix * (Radix * (Radix * Radix))))))
    /\ Round \in [0 .. 5 -> [Half -> Half]]
    /\ Start \in Nat /\ MaxLosses \in Nat

----------------------------------------------------------------------------
\* Faulty variant: the left half does not enter the sum.
FeistelRoundLossy(k, x) == <<x[2], Round[k][x[2]]>>

\* One round on <<left, right>>; the sum is taken in 32 bits.
FeistelRound(k, x) == <<x[2], ((x[1] + Round[k][x[2]]) % WordSize) % HalfBase>>

Rounds(x) ==
    FeistelRound(5, FeistelRound(4, FeistelRound(3,
        FeistelRound(2, FeistelRound(1, FeistelRound(0, x))))))

FeistelObfuscate(seq) ==
    LET x == Rounds(<<seq \div HalfBase, seq % HalfBase>>)
    IN x[1] * HalfBase + x[2]

\* Eight digits, the least significant one last.
EncodeBase62Fixed(v) ==
    LET q1 == v \div Radix
        q2 == q1 \div Radix
        q3 == q2 \div Radix
        q4 == q3 \div Radix
        q5 == q4 \div Radix
        q6 == q5 \div Radix
        q7 == q6 \div Radix
    IN <<q7 % Radix, q6 % Radix, q5 % Radix, q4 % Radix,
         q3 % Radix, q2 % Radix, q1 % Radix, v % Radix>>

RoomId(n) == EncodeBase62Fixed(FeistelObfuscate((n - 1) % RoomIDSpace))

----------------------------------------------------------------------------
VARIABLES
    sequence,  \* the counter in Valkey
    rooms,     \* ids of the rooms in Postgres
    createAt,        \* "next", "create" or "done"
    drawn,     \* the number a call drew
    createAnswer,    \* "none", "ok", "exists" or "error"
    losses     \* how often the counter was lost

idVars == <<sequence, rooms, createAt, drawn, createAnswer, losses>>

RoomIdInit ==
    /\ sequence = Start
    /\ rooms = {RoomId(n) : n \in 1 .. Start}
    /\ createAt = [c \in Calls |-> "next"]
    /\ drawn = [c \in Calls |-> 0]
    /\ createAnswer = [c \in Calls |-> "none"]
    /\ losses = 0

CreateReturn(c, a) ==
    /\ createAt' = [createAt EXCEPT ![c] = "done"]
    /\ createAnswer' = [createAnswer EXCEPT ![c] = a]

\* INCR.
NextNumber(c) ==
    /\ createAt[c] = "next"
    /\ sequence' = sequence + 1
    /\ drawn' = [drawn EXCEPT ![c] = sequence + 1]
    /\ createAt' = [createAt EXCEPT ![c] = "create"]
    /\ UNCHANGED <<rooms, createAnswer, losses>>

\* INCR fails, before or after it took effect.
NextFails(c) ==
    /\ createAt[c] = "next"
    /\ sequence' \in {sequence, sequence + 1}
    /\ CreateReturn(c, "error")
    /\ UNCHANGED <<rooms, drawn, losses>>

InsertRoom(c) ==
    /\ createAt[c] = "create"
    /\ \/ /\ RoomId(drawn[c]) \notin rooms
          /\ rooms' = rooms \cup {RoomId(drawn[c])}
          /\ CreateReturn(c, "ok")
       \/ /\ RoomId(drawn[c]) \in rooms
          /\ CreateReturn(c, "exists")
          /\ UNCHANGED rooms
    /\ UNCHANGED <<sequence, drawn, losses>>

\* The insert fails, before or after it took effect.
CreateFails(c) ==
    /\ createAt[c] = "create"
    /\ rooms' \in {rooms, rooms \cup {RoomId(drawn[c])}}
    /\ CreateReturn(c, "error")
    /\ UNCHANGED <<sequence, drawn, losses>>

\* Valkey comes back without the key; INCR starts again at 1.
LoseSequence ==
    /\ losses < MaxLosses
    /\ losses' = losses + 1
    /\ sequence' = 0
    /\ UNCHANGED <<rooms, createAt, drawn, createAnswer>>

RoomIdNext ==
    \/ \E c \in Calls : NextNumber(c) \/ NextFails(c) \/ InsertRoom(c) \/ CreateFails(c)
    \/ LoseSequence

RoomIdSpec == RoomIdInit /\ [][RoomIdNext]_idVars

----------------------------------------------------------------------------
\* Types; an id has eight digits of the alphabet.
RoomIdTypeOK ==
    /\ sequence \in Nat /\ losses \in Nat
    /\ rooms \subseteq Digits \X Digits \X Digits \X Digits
                       \X Digits \X Digits \X Digits \X Digits
    /\ createAt \in [Calls -> {"next", "create", "done"}]
    /\ drawn \in [Calls -> Nat]
    /\ \A c \in Calls : createAt[c] = "create" => drawn[c] > 0
    /\ createAnswer \in [Calls -> {"none", "ok", "exists", "error"}]

\* The generator: the id of the number a call has drawn is the id of no other number
\* of that turn through the id space, whatever the mixing function and the mask are.
IdsAreDistinct ==
    \A c \in Calls : drawn[c] \in 1 .. RoomIDSpace =>
        \A n \in 1 .. RoomIDSpace : RoomId(n) = RoomId(drawn[c]) => n = drawn[c]

\* CreateRoom meets an id that is taken only if the counter was lost or has gone
\* through the whole id space: concurrent calls, lost numbers and failed inserts
\* never lead to a conflict.
ConflictOnlyAfterLossOrWrap ==
    \A c \in Calls : createAnswer[c] = "exists" => losses > 0 \/ sequence > RoomIDSpace
=============================================================================
