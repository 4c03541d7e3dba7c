------------------------ MODULE SyncMessagesProofs -------------------------
(***************************************************************************)
(* What SYNC and ACK promise, for any number of messages and devices, any  *)
(* page size, stream length, resolution and skew of clocks, and any faults. *)
(***************************************************************************)
EXTENDS SyncMessages, SequenceTheorems, WellFoundedInduction, TLAPS

----------------------------------------------------------------------------
\* Numbers.

\* A set of numbers has a least one.
LEMMA LeastNumber ==
    ASSUME NEW S, S \subseteq Nat, S # {}
    PROVE  Min(S) \in S /\ \A k \in S : Min(S) <= k
<1>1. \E x \in S : \A y \in S : ~(<<y, x>> \in OpToRel(<, Nat))
  BY NatLessThanWellFounded, WFMin
<1>2. PICK x \in S : \A y \in S : ~(<<y, x>> \in OpToRel(<, Nat))
  BY <1>1
<1>3. ASSUME NEW a \in Nat, NEW b \in Nat, a < b PROVE <<a, b>> \in OpToRel(<, Nat)
  BY <1>3, Zenon DEF OpToRel
<1>4. \A y \in S : ~(y < x)
  BY <1>2, <1>3, Zenon
<1>5. \A y \in S : x <= y
  BY <1>4
<1> QED BY <1>5 DEF Min

\* The elements of a sequence after the a-th, up to the b-th.
LEMMA Window ==
    ASSUME NEW S, NEW s \in Seq(S), NEW a \in Nat, NEW b \in Nat, a <= b, b <= Len(s)
    PROVE  /\ SubSeq(s, a + 1, b) \in Seq(S) /\ Len(SubSeq(s, a + 1, b)) = b - a
           /\ \A i \in 1 .. b - a : SubSeq(s, a + 1, b)[i] = s[i + a]
<1>1. a + 1 \in Int /\ b \in Int
  OBVIOUS
<1>2. \A i \in a + 1 .. b : s[i] \in S
  OBVIOUS
<1> DEFINE c == a + 1
           t == SubSeq(s, c, b)
<1> HIDE DEF c
<1>3. /\ t \in Seq(S) /\ Len(t) = IF c <= b THEN b - c + 1 ELSE 0
      /\ \A i \in 1 .. b - c + 1 : t[i] = s[c + i - 1]
  BY <1>1, <1>2, SubSeqProperties DEF c
<1> HIDE DEF t
<1>4. \A i \in 1 .. b - a : c + i - 1 = i + a /\ i \in 1 .. b - c + 1
  BY DEF c
<1>5. (IF c <= b THEN b - c + 1 ELSE 0) = b - a
  BY DEF c
<1>6. /\ t \in Seq(S) /\ Len(t) = b - a
      /\ \A i \in 1 .. b - a : t[i] = s[i + a]
  BY <1>3, <1>4, <1>5
<1> QED BY <1>6 DEF t, c

LEMMA Milliseconds ==
    ASSUME NEW a \in Nat
    PROVE  /\ a \div TicksPerMs \in Nat
           /\ (a \div TicksPerMs) * TicksPerMs <= a
           /\ a < ((a \div TicksPerMs) + 1) * TicksPerMs
<1>1. TicksPerMs \in Nat \ {0}
  BY SyncAssumption DEF SyncAssumption
<1>2. \A b \in Nat \ {0} : /\ a \div b \in Nat /\ (a \div b) * b <= a
                           /\ a < ((a \div b) + 1) * b
  BY SMT
<1> QED BY <1>1, <1>2

\* A multiple of a millisecond that is not after a is not after a's millisecond.
LEMMA WholeMilliseconds ==
    ASSUME NEW a \in Nat, NEW q \in Nat, q * TicksPerMs <= a
    PROVE  q <= a \div TicksPerMs
<1> DEFINE p == a \div TicksPerMs
<1>1. TicksPerMs \in Nat \ {0} /\ p \in Nat /\ a < (p + 1) * TicksPerMs
  BY Milliseconds, SyncAssumption DEF SyncAssumption
<1> HIDE DEF p
<1>2. q >= p + 1 => q * TicksPerMs >= (p + 1) * TicksPerMs
  BY <1>1
<1>3. q * TicksPerMs \in Nat /\ (p + 1) * TicksPerMs \in Nat
  BY <1>1
<1>4. ~(q >= p + 1)
  BY <1>1, <1>2, <1>3
<1> QED BY <1>1, <1>4 DEF p

LEMMA MillisecondsGrow ==
    ASSUME NEW a \in Nat, NEW b \in Nat, a <= b
    PROVE  a \div TicksPerMs <= b \div TicksPerMs
<1> DEFINE q == a \div TicksPerMs
<1>1. q \in Nat /\ q * TicksPerMs <= a /\ q * TicksPerMs \in Nat
  BY Milliseconds, SyncAssumption DEF SyncAssumption
<1> HIDE DEF q
<1>2. q * TicksPerMs <= b
  BY <1>1
<1> QED BY <1>1, <1>2, WholeMilliseconds DEF q

\* No replica's clock shows this time before the end of Valkey's millisecond.
Latest(ms) == (ms + 1) * TicksPerMs + MaxSkew

LEMMA LatestGrows ==
    ASSUME NEW a \in Nat, NEW b \in Nat, a <= b
    PROVE  Latest(a) \in Nat /\ Latest(b) \in Nat /\ Latest(a) <= Latest(b)
<1>1. TicksPerMs \in Nat /\ MaxSkew \in Nat
  BY SyncAssumption DEF SyncAssumption
<1>2. \A t \in Nat : /\ (a + 1) * t \in Nat /\ (b + 1) * t \in Nat
                     /\ (a + 1) * t <= (b + 1) * t
  BY SMT
<1>3. /\ (a + 1) * TicksPerMs \in Nat /\ (b + 1) * TicksPerMs \in Nat
      /\ (a + 1) * TicksPerMs <= (b + 1) * TicksPerMs
  BY <1>1, <1>2
<1> QED BY <1>1, <1>3 DEF Latest

LEMMA WithinSkew ==
    ASSUME NEW c \in Int, NEW t \in Nat, c <= t + MaxSkew
    PROVE  c < Latest(t \div TicksPerMs)
<1> DEFINE x == (t \div TicksPerMs + 1) * TicksPerMs
<1>1. t < x
  BY Milliseconds
<1>2. MaxSkew \in Nat /\ x \in Int
  <2>1. \A y, z \in Nat : (y + 1) * z \in Int
    OBVIOUS
  <2>2. t \div TicksPerMs \in Nat /\ TicksPerMs \in Nat
    BY Milliseconds, SyncAssumption DEF SyncAssumption
  <2> QED BY <2>1, <2>2, SyncAssumption DEF SyncAssumption
<1> HIDE DEF x
<1>3. c < x + MaxSkew
  BY <1>1, <1>2
<1> QED BY <1>3 DEF x, Latest

----------------------------------------------------------------------------
\* Ids.

LEMMA IdOrder ==
    ASSUME NEW i \in Ids, NEW j \in Ids
    PROVE  /\ Before(i, j) \/ AtOrBefore(j, i)
           /\ ~(Before(i, j) /\ AtOrBefore(j, i))
           /\ AtOrBefore(i, j) => i[1] <= j[1]
           /\ i[1] \in Nat /\ i[2] \in Nat
BY DEF Ids, Before, AtOrBefore

LEMMA IdTransitive ==
    ASSUME NEW i \in Ids, NEW j \in Ids, NEW k \in Ids
    PROVE  /\ AtOrBefore(i, j) /\ AtOrBefore(j, k) => AtOrBefore(i, k)
           /\ Before(i, j) /\ AtOrBefore(j, k) => Before(i, k)
           /\ AtOrBefore(i, j) /\ Before(j, k) => Before(i, k)
BY DEF Ids, Before, AtOrBefore

\* A position someone holds: an id of the present stream, or one of an earlier millisecond.
Position(p) == p \in Ids /\ (AtOrBefore(p, lastId) \/ p[1] < now \div TicksPerMs)

ClockInv ==
    /\ now \in Nat /\ now \div TicksPerMs >= 1
    /\ lastId \in Ids /\ lastId[1] <= now \div TicksPerMs

\* The next id is after every position and in the clock's millisecond.
LEMMA NextIdIsNew ==
    ASSUME ClockInv
    PROVE  /\ NextId \in Ids /\ NextId[1] = now \div TicksPerMs
           /\ Before(lastId, NextId)
           /\ \A p : Position(p) => Before(p, NextId)
<1> DEFINE ms == now \div TicksPerMs
<1>1. ms \in Nat /\ ms >= 1 /\ lastId \in Ids /\ lastId[1] <= ms
  BY Milliseconds DEF ClockInv
<1>2. NextId = IF ms > lastId[1] THEN <<ms, 0>> ELSE <<lastId[1], lastId[2] + 1>>
  BY DEF NextId
<1>3. \A p : Position(p) => p \in Ids /\ (AtOrBefore(p, lastId) \/ p[1] < ms)
  BY DEF Position
<1> HIDE DEF ms
<1>4. NextId \in Ids /\ NextId[1] = ms /\ Before(lastId, NextId)
  BY <1>1, <1>2 DEF Ids, Before
<1>5. ASSUME NEW p, Position(p) PROVE Before(p, NextId)
  <2>1. CASE AtOrBefore(p, lastId)
    BY <1>1, <1>3, <1>4, <1>5, <2>1, IdTransitive
  <2>2. CASE p[1] < ms
    BY <1>4, <2>2 DEF Before
  <2> QED BY <1>3, <1>5, <2>1, <2>2
<1> QED BY <1>4, <1>5 DEF ms

----------------------------------------------------------------------------
\* The stream.

\* Its entries are in the order of their ids; each is of a stored message, created before
\* the end of the millisecond it was appended in as far as clocks agree.
StreamInv ==
    /\ stream \in Seq(EntryType)
    /\ \A i, j \in 1 .. Len(stream) : i < j => Before(stream[i].id, stream[j].id)
    /\ \A e \in Entries :
          /\ e \in EntryType /\ AtOrBefore(e.id, lastId) /\ e.id[1] >= 1 /\ e.msg \in Stored
          /\ created[e.msg] < Latest(e.id[1])

\* A message that was appended is there, unless the stream has lost entries.
PresentInv == trimmed \/ \A m \in Appended : \E e \in Entries : e.msg = m

MessageTypes ==
    /\ created \in [Msgs -> Int]
    /\ phase \in [Msgs -> {"new", "composed", "stored", "appended"}]
    /\ trimmed \in BOOLEAN
    /\ \A m \in Msgs : created[m] <= now + MaxSkew

StoreInv == ClockInv /\ MessageTypes /\ StreamInv /\ PresentInv

Entry(m) == [id |-> NextId, msg |-> m]

LEMMA AppendEffect ==
    ASSUME StoreInv, NEW m \in Stored, AppendMessage(m),
           UNCHANGED <<now, created>>, Stored \subseteq Stored'
    PROVE  /\ ClockInv' /\ StreamInv'
           /\ Entries' \subseteq Entries \cup {Entry(m)}
           /\ Entry(m) \in Entries'
           /\ trimmed' \/ (~trimmed /\ Entries' = Entries \cup {Entry(m)})
           /\ trimmed' \in BOOLEAN
           /\ \A p : Position(p) => Position(p)'
           /\ \A p : p = NextId => Position(p)'
<1> DEFINE longer == Append(stream, Entry(m))
           n == Len(stream)
<1>0. /\ ClockInv /\ StreamInv /\ stream \in Seq(EntryType) /\ n \in Nat
      /\ now \in Nat /\ created \in [Msgs -> Int] /\ trimmed \in BOOLEAN /\ m \in Msgs
      /\ created[m] \in Int /\ created[m] <= now + MaxSkew
  BY DEF StoreInv, StreamInv, ClockInv, MessageTypes, Stored
<1>1. /\ NextId \in Ids /\ NextId[1] = now \div TicksPerMs /\ Before(lastId, NextId)
      /\ \A p : Position(p) => Before(p, NextId)
  BY <1>0, NextIdIsNew
<1>2. /\ lastId' = NextId
      /\ \/ stream' = longer /\ trimmed' = trimmed
         \/ /\ Len(longer) - RoomMaxLen > 0
            /\ stream' = SubSeq(longer, Len(longer) - RoomMaxLen + 1, Len(longer))
            /\ trimmed' = TRUE
  BY DEF AppendMessage, Entry
<1>3. Entry(m) \in EntryType
  BY <1>0, <1>1 DEF Entry, EntryType
<1>4. /\ longer \in Seq(EntryType) /\ Len(longer) = n + 1 /\ longer[n + 1] = Entry(m)
      /\ \A i \in 1 .. n : longer[i] = stream[i]
  BY <1>0, <1>3
<1> HIDE DEF longer
<1>5. /\ RoomMaxLen \in Nat \ {0}
      /\ \A x \in Ids, y \in Ids : AtOrBefore(x, y) /\ Before(y, NextId) => Before(x, NextId)
  BY <1>1, IdTransitive, SyncAssumption DEF SyncAssumption
<1>6. \A i \in 1 .. n : stream[i] \in Entries /\ stream[i].id \in Ids
  BY <1>0 DEF Entries, StreamInv, EntryType
<1>7. \A i \in 1 .. n : Before(stream[i].id, NextId)
  BY <1>0, <1>1, <1>5, <1>6 DEF StreamInv, ClockInv
<1>8. ASSUME NEW i \in 1 .. n + 1, NEW j \in 1 .. n + 1, i < j
      PROVE  Before(longer[i].id, longer[j].id)
  <2>1. i \in 1 .. n /\ (j \in 1 .. n \/ j = n + 1)
    BY <1>0, <1>8
  <2>2. longer[n + 1].id = NextId
    BY <1>4 DEF Entry
  <2> QED BY <1>0, <1>4, <1>7, <1>8, <2>1, <2>2 DEF StreamInv
\* Whatever was trimmed, the new stream is the end of the longer one.
<1>9. PICK k \in 0 .. n : /\ stream' \in Seq(EntryType) /\ Len(stream') = n + 1 - k
                          /\ \A i \in 1 .. n + 1 - k : stream'[i] = longer[i + k]
                          /\ trimmed' \/ (~trimmed /\ k = 0)
  <2>1. CASE stream' = longer /\ trimmed' = trimmed
    <3>1. 0 \in 0 .. n /\ n + 1 - 0 = n + 1 /\ \A i \in 1 .. n + 1 : i + 0 = i
      BY <1>0
    <3>2. stream' \in Seq(EntryType) /\ Len(stream') = n + 1
      BY <1>4, <2>1
    <3>3. trimmed' \/ ~trimmed
      BY <2>1
    <3> QED BY <2>1, <3>1, <3>2, <3>3
  <2>2. CASE /\ Len(longer) - RoomMaxLen > 0
             /\ stream' = SubSeq(longer, Len(longer) - RoomMaxLen + 1, Len(longer))
             /\ trimmed' = TRUE
    <3> DEFINE x == Len(longer) - RoomMaxLen
    <3>1. x \in 0 .. n /\ x \in Nat /\ x <= n + 1 /\ n + 1 \in Nat
      BY <1>0, <1>4, <1>5, <2>2
    <3> HIDE DEF x
    <3>2. stream' = SubSeq(longer, x + 1, n + 1) /\ trimmed' = TRUE
      BY <1>4, <2>2 DEF x
    <3>3. /\ SubSeq(longer, x + 1, n + 1) \in Seq(EntryType)
          /\ Len(SubSeq(longer, x + 1, n + 1)) = n + 1 - x
          /\ \A i \in 1 .. n + 1 - x : SubSeq(longer, x + 1, n + 1)[i] = longer[i + x]
      BY <1>4, <3>1, Window
    <3>4. /\ stream' \in Seq(EntryType) /\ Len(stream') = n + 1 - x
          /\ \A i \in 1 .. n + 1 - x : stream'[i] = longer[i + x]
      BY <3>2, <3>3, Zenon
    <3> QED BY <3>1, <3>2, <3>4, Zenon
  <2> QED BY <1>2, <2>1, <2>2
<1>10. Entries' \subseteq Entries \cup {Entry(m)}
  <2>1. ASSUME NEW i \in 1 .. Len(stream') PROVE stream'[i] \in Entries \cup {Entry(m)}
    <3>1. i \in 1 .. n + 1 - k
      BY <1>9
    <3>2. i + k \in 1 .. n \/ i + k = n + 1
      BY <1>0, <3>1
    <3>3. stream'[i] = longer[i + k]
      BY <1>9, <3>1
    <3> QED BY <1>4, <1>6, <3>2, <3>3
  <2> QED BY <2>1 DEF Entries
<1>11. Entry(m) \in Entries'
  <2>1. n + 1 - k \in 1 .. Len(stream') /\ (n + 1 - k) + k = n + 1
    BY <1>0, <1>9
  <2>2. stream'[n + 1 - k] = Entry(m)
    BY <1>4, <1>9, <2>1
  <2> QED BY <2>1, <2>2 DEF Entries
<1>12. trimmed' \/ (~trimmed /\ Entries' = Entries \cup {Entry(m)})
  <2>1. ASSUME k = 0 PROVE Entries \subseteq Entries'
    <3>1. ASSUME NEW i \in 1 .. n PROVE stream[i] \in Entries'
      <4>1. i \in 1 .. Len(stream') /\ i \in 1 .. n + 1 - k /\ i + k = i
        BY <1>0, <1>9, <2>1
      <4>2. stream'[i] = stream[i]
        BY <1>4, <1>9, <4>1
      <4> QED BY <4>1, <4>2 DEF Entries
    <3> QED BY <3>1 DEF Entries
  <2> QED BY <1>9, <1>10, <1>11, <2>1
<1>13. \A i, j \in 1 .. Len(stream') : i < j => Before(stream'[i].id, stream'[j].id)
  <2>1. ASSUME NEW i \in 1 .. Len(stream'), NEW j \in 1 .. Len(stream'), i < j
        PROVE  Before(stream'[i].id, stream'[j].id)
    <3>1. i + k \in 1 .. n + 1 /\ j + k \in 1 .. n + 1 /\ i + k < j + k
      BY <1>0, <1>9, <2>1
    <3>2. stream'[i] = longer[i + k] /\ stream'[j] = longer[j + k]
      BY <1>9
    <3> QED BY <1>8, <3>1, <3>2
  <2> QED BY <2>1
<1>14. ClockInv'
  <2>1. NextId[1] <= now \div TicksPerMs
    BY <1>0, <1>1, Milliseconds
  <2> QED BY <1>0, <1>1, <1>2, <2>1 DEF ClockInv
<1>15. ASSUME NEW e \in Entries'
       PROVE  /\ e \in EntryType /\ AtOrBefore(e.id, lastId') /\ e.id[1] >= 1 /\ e.msg \in Stored'
              /\ created[e.msg] < Latest(e.id[1])
  <2>1. CASE e \in Entries
    <3>1. /\ e \in EntryType /\ e.id \in Ids /\ AtOrBefore(e.id, lastId) /\ e.id[1] >= 1
          /\ e.msg \in Stored /\ created[e.msg] < Latest(e.id[1])
      BY <1>0, <2>1 DEF StreamInv, EntryType
    <3>2. Before(e.id, NextId)
      BY <1>0, <1>1, <1>5, <3>1 DEF ClockInv
    <3> QED BY <1>2, <3>1, <3>2 DEF AtOrBefore
  <2>2. CASE e = Entry(m)
    <3>1. e.id = NextId /\ e.msg = m
      BY <2>2 DEF Entry
    <3>2. created[m] < Latest(now \div TicksPerMs)
      BY <1>0, WithinSkew
    <3>3. now \div TicksPerMs >= 1
      BY <1>0 DEF ClockInv
    <3> QED BY <1>1, <1>2, <1>3, <2>2, <3>1, <3>2, <3>3 DEF AtOrBefore
  <2> QED BY <1>10, <2>1, <2>2
<1>16. StreamInv'
  BY <1>9, <1>13, <1>15 DEF StreamInv
<1>17. ASSUME NEW p, Position(p) PROVE Position(p)'
  BY <1>1, <1>2, <1>17 DEF Position, AtOrBefore
<1>18. ASSUME NEW p, p = NextId PROVE Position(p)'
  BY <1>1, <1>2, <1>18 DEF Position, AtOrBefore
<1>19. trimmed' \in BOOLEAN
  BY <1>0, <1>2
<1> QED BY <1>10, <1>11, <1>12, <1>14, <1>16, <1>17, <1>18, <1>19

----------------------------------------------------------------------------
\* A page.

\* XREAD returns entries of the stream; nothing comes back only if the cursor is past them
\* all, and up to the end of the page nothing after the cursor is left out.
LEMMA PageIsContiguous ==
    ASSUME StreamInv, NEW from \in Ids, NEW page, page = ReadFrom(from)
    PROVE  /\ page \in Seq(EntryType)
           /\ page = <<>> => \A e \in Entries : AtOrBefore(e.id, from)
           /\ \A k \in 1 .. Len(page) : page[k] \in Entries
           /\ page # <<>> =>
                 /\ Len(page) \in 1 .. Len(page)
                 /\ \A e \in Entries : AtOrBefore(e.id, page[Len(page)].id)
                       => AtOrBefore(e.id, from) \/ \E k \in 1 .. Len(page) : page[k] = e
<1> DEFINE n == Len(stream)
<1>0. /\ stream \in Seq(EntryType) /\ n \in Nat
      /\ \A i \in 1 .. n : stream[i] \in EntryType /\ stream[i].id \in Ids
      /\ \A i \in 1 .. n : stream[i] \in Entries
      /\ \A i, j \in 1 .. n : i < j => Before(stream[i].id, stream[j].id)
      /\ Limit \in Nat \ {0}
  BY SyncAssumption DEF StreamInv, SyncAssumption, EntryType, Entries
<1>1. CASE Later(from) = {}
  <2>1. page = <<>>
    BY <1>1 DEF ReadFrom
  <2>2. \A e \in Entries : AtOrBefore(e.id, from)
    <3>1. ASSUME NEW i \in 1 .. n PROVE AtOrBefore(stream[i].id, from)
      <4>1. ~Before(from, stream[i].id)
        BY <1>1 DEF Later
      <4> QED BY <1>0, <4>1, IdOrder
    <3> QED BY <3>1 DEF Entries
  <2>3. Len(<<>>) = 0 /\ <<>> \in Seq(EntryType) /\ \A k \in 1 .. 0 : FALSE
    OBVIOUS
  <2> QED BY <2>1, <2>2, <2>3
<1>2. CASE Later(from) # {}
  <2> DEFINE first == Min(Later(from))
             last == IF n < first + Limit - 1 THEN n ELSE first + Limit - 1
  <2>1. first \in Later(from) /\ \A k \in Later(from) : first <= k
    <3>1. Later(from) \subseteq Nat
      BY <1>0 DEF Later
    <3> QED BY <1>2, <3>1, LeastNumber
  <2>2. page = SubSeq(stream, first, last)
    BY <1>2 DEF ReadFrom
  <2>3. first \in 1 .. n
    BY <2>1 DEF Later
  <2> HIDE DEF first
  <2>4. last \in first .. n
    BY <1>0, <2>3
  <2> HIDE DEF last
  <2> DEFINE a == first - 1
  <2>5. a \in Nat /\ a + 1 = first /\ a <= last /\ last \in Nat /\ last <= n
    BY <1>0, <2>3, <2>4
  <2>6. last - a \in Nat /\ last - a >= 1 /\ (last - a) + a = last
    BY <1>0, <2>3, <2>4
  <2> HIDE DEF a
  <2>7. /\ page \in Seq(EntryType) /\ Len(page) = last - a
        /\ \A k \in 1 .. last - a : page[k] = stream[k + a]
    <3>1. /\ SubSeq(stream, a + 1, last) \in Seq(EntryType)
          /\ Len(SubSeq(stream, a + 1, last)) = last - a
          /\ \A k \in 1 .. last - a : SubSeq(stream, a + 1, last)[k] = stream[k + a]
      BY <1>0, <2>5, Window
    <3>2. page = SubSeq(stream, a + 1, last)
      BY <2>2, <2>5, Zenon
    <3> QED BY <3>1, <3>2, Zenon
  <2>8. ASSUME NEW k \in 1 .. Len(page) PROVE page[k] \in Entries
    <3>1. k \in 1 .. last - a /\ k + a \in 1 .. n
      BY <1>0, <2>5, <2>6, <2>7
    <3>2. page[k] = stream[k + a]
      BY <2>7, <3>1
    <3> QED BY <1>0, <3>1, <3>2
  <2>9. Len(page) \in 1 .. Len(page) /\ page[Len(page)] = stream[last] /\ page # <<>>
    BY <2>6, <2>7
  <2>10. ASSUME NEW e \in Entries, AtOrBefore(e.id, stream[last].id), ~AtOrBefore(e.id, from)
         PROVE  \E k \in 1 .. Len(page) : page[k] = e
    <3>1. PICK i \in 1 .. n : e = stream[i]
      BY DEF Entries
    <3>2. e.id \in Ids /\ stream[last].id \in Ids /\ last \in 1 .. n /\ i \in Nat
      BY <1>0, <2>3, <2>4, <3>1
    <3>3. Before(from, e.id)
      BY <2>10, <3>2, IdOrder
    <3>4. first <= i
      BY <2>1, <3>1, <3>3 DEF Later
    <3>5. ~Before(stream[last].id, e.id)
      BY <2>10, <3>2, IdOrder
    <3>6. ~(last < i)
      BY <1>0, <3>1, <3>2, <3>5
    <3>7. i - a \in 1 .. last - a /\ (i - a) + a = i
      BY <1>0, <2>5, <3>2, <3>4, <3>6
    <3>8. page[i - a] = e
      BY <2>7, <3>1, <3>7
    <3> QED BY <2>7, <3>7, <3>8
  <2> QED BY <2>7, <2>8, <2>9, <2>10
<1> QED BY <1>1, <1>2

----------------------------------------------------------------------------
\* A device.

OutMsgs(d) == {out[d][k].msg : k \in 1 .. Len(out[d])}

\* The device has received the entry, or it overtook one of the device's backfills.
Accounted(d, e) == e.msg \in seen[d] \/ e.id \in overtaken[d]

Covers(d, p) == \A e \in Entries : AtOrBefore(e.id, p) => Accounted(d, e)

\* What the running SYNC has collected accounts for the rest: for the whole stream while it
\* recovers, up to the last entry of the page once there is one.
Collects(d) ==
    /\ Backfilling(d) => \A e \in Entries : Accounted(d, e) \/ e.msg \in OutMsgs(d)
    /\ pc[d] = "reply" /\ out[d] # <<>> =>
          \A e \in Entries : AtOrBefore(e.id, out[d][Len(out[d])].id)
                                => Accounted(d, e) \/ e.msg \in OutMsgs(d)

Holds(d) ==
    /\ Position(ack[d]) /\ Position(got[d]) /\ Position(cursor[d])
    /\ out[d] \in Seq(EntryType)
    /\ \A k \in 1 .. Len(out[d]) : Position(out[d][k].id)

DeviceInv(d) ==
    /\ Holds(d)
    /\ Covers(d, ack[d]) /\ Covers(d, got[d]) /\ Covers(d, cursor[d])
    /\ Collects(d)
    /\ pc[d] \in {"idle", "read", "recover"} => out[d] = <<>>
    /\ pc[d] # "backfill" => history[d] = {}
    /\ \A m \in history[d] : m \in Stored /\ created[m] > Since(cursor[d])
    /\ known[d] \subseteq Appended
    /\ pc[d] \in {"recover", "reply"} /\ out[d] = <<>> /\ ~trimmed /\ overtaken[d] = {}
          => known[d] \subseteq seen[d]

\* Together the invariant is inductive.
SyncInv == TypeOK /\ StoreInv /\ \A d \in Devices : DeviceInv(d)

\* What a device holds itself stays as it is.
SameDevice(d) ==
    /\ ack'[d] = ack[d] /\ got'[d] = got[d] /\ cursor'[d] = cursor[d] /\ pc'[d] = pc[d]
    /\ out'[d] = out[d] /\ history'[d] = history[d] /\ seen'[d] = seen[d]
    /\ known'[d] = known[d]

\* What a step does to the stores, as a device that takes no part in it sees it: positions
\* stay positions, and a new entry is after all of them and overtakes a running backfill.
StoreStep(d) ==
    /\ \A p : Position(p) => Position(p)'
    /\ \A e \in Entries' :
          e \in Entries \/ /\ \A p : Position(p) => ~AtOrBefore(e.id, p)
                           /\ Backfilling(d) => e.id \in overtaken'[d]
    /\ trimmed => trimmed'
    /\ overtaken[d] \subseteq overtaken'[d]
    /\ Appended \subseteq Appended'
    /\ \A m \in Stored : m \in Stored' /\ created'[m] = created[m]

LEMMA Elsewhere ==
    ASSUME NEW d \in Devices, DeviceInv(d), SameDevice(d), StoreStep(d)
    PROVE  DeviceInv(d)'
<1>1. Holds(d)'
  BY DEF DeviceInv, Holds, SameDevice, StoreStep
<1>2. \A e : Accounted(d, e) => Accounted(d, e)'
  BY DEF Accounted, SameDevice, StoreStep
<1>3. ASSUME NEW p, Position(p), Covers(d, p)
      PROVE  \A e \in Entries' : AtOrBefore(e.id, p) => Accounted(d, e)'
  <2>1. \A e \in Entries' : AtOrBefore(e.id, p) => e \in Entries
    BY <1>3 DEF StoreStep
  <2> QED BY <1>2, <1>3, <2>1 DEF Covers
<1>4. Covers(d, ack[d])' /\ Covers(d, got[d])' /\ Covers(d, cursor[d])'
  <2>1. /\ Position(ack[d]) /\ Position(got[d]) /\ Position(cursor[d])
        /\ Covers(d, ack[d]) /\ Covers(d, got[d]) /\ Covers(d, cursor[d])
    BY DEF DeviceInv, Holds
  <2>2. ack'[d] = ack[d] /\ got'[d] = got[d] /\ cursor'[d] = cursor[d]
    BY DEF SameDevice
  <2>3. /\ \A e \in Entries' : AtOrBefore(e.id, ack[d]) => Accounted(d, e)'
        /\ \A e \in Entries' : AtOrBefore(e.id, got[d]) => Accounted(d, e)'
        /\ \A e \in Entries' : AtOrBefore(e.id, cursor[d]) => Accounted(d, e)'
    BY <1>3, <2>1
  <2> QED BY <2>2, <2>3 DEF Covers
<1>5. Collects(d)'
  <2>1. OutMsgs(d)' = OutMsgs(d) /\ pc'[d] = pc[d] /\ out'[d] = out[d]
    BY DEF OutMsgs, SameDevice
  <2>2. ASSUME Backfilling(d)', NEW e \in Entries'
        PROVE  Accounted(d, e)' \/ e.msg \in OutMsgs(d)'
    <3>1. Backfilling(d)
      BY <2>1, <2>2 DEF Backfilling
    <3>2. CASE e \in Entries
      <4>1. Accounted(d, e) \/ e.msg \in OutMsgs(d)
        BY <3>1, <3>2 DEF DeviceInv, Collects
      <4> QED BY <1>2, <2>1, <4>1
    <3>3. CASE e \notin Entries
      <4>1. e.id \in overtaken'[d]
        BY <2>2, <3>1, <3>3 DEF StoreStep
      <4> QED BY <4>1 DEF Accounted
    <3> QED BY <3>2, <3>3
  <2>3. ASSUME pc'[d] = "reply", out'[d] # <<>>, NEW e \in Entries',
               AtOrBefore(e.id, out'[d][Len(out'[d])].id), out[d] \in Seq(EntryType)
        PROVE  Accounted(d, e)' \/ e.msg \in OutMsgs(d)'
    <3>1. Len(out[d]) \in 1 .. Len(out[d]) /\ pc[d] = "reply" /\ out[d] # <<>>
      BY <2>1, <2>3
    <3>2. Position(out[d][Len(out[d])].id) /\ AtOrBefore(e.id, out[d][Len(out[d])].id)
      BY <2>1, <2>3, <3>1 DEF DeviceInv, Holds
    <3>3. e \in Entries
      BY <3>2 DEF StoreStep
    <3>4. Accounted(d, e) \/ e.msg \in OutMsgs(d)
      BY <3>1, <3>2, <3>3 DEF DeviceInv, Collects
    <3> QED BY <1>2, <2>1, <3>4
  <2>4. out[d] \in Seq(EntryType)
    BY DEF DeviceInv, Holds
  <2> QED BY <2>2, <2>3, <2>4 DEF Collects
<1>6. /\ pc'[d] \in {"idle", "read", "recover"} => out'[d] = <<>>
      /\ pc'[d] # "backfill" => history'[d] = {}
  BY DEF DeviceInv, SameDevice
<1>7. \A m \in history'[d] : m \in Stored' /\ created'[m] > Since(cursor[d])'
  <2>1. Since(cursor[d])' = Since(cursor[d]) /\ history'[d] = history[d]
    BY DEF SameDevice, Since
  <2>2. \A m \in history[d] : m \in Stored /\ created[m] > Since(cursor[d])
    BY DEF DeviceInv
  <2>3. \A m \in Stored : m \in Stored' /\ created'[m] = created[m]
    BY DEF StoreStep
  <2> QED BY <2>1, <2>2, <2>3
<1>8. known'[d] \subseteq Appended'
  BY DEF DeviceInv, SameDevice, StoreStep
<1>9. pc'[d] \in {"recover", "reply"} /\ out'[d] = <<>> /\ ~trimmed' /\ overtaken'[d] = {}
        => known'[d] \subseteq seen'[d]
  BY DEF DeviceInv, SameDevice, StoreStep
<1> QED BY <1>1, <1>4, <1>5, <1>6, <1>7, <1>8, <1>9 DEF DeviceInv

\* A step that touches neither the stream nor the clock.
LEMMA QuietStep ==
    ASSUME NEW d \in Devices, UNCHANGED <<now, stream, lastId, trimmed, overtaken>>,
           Appended \subseteq Appended',
           \A m \in Stored : m \in Stored' /\ created'[m] = created[m]
    PROVE  StoreStep(d)
<1>1. Entries' = Entries
  BY DEF Entries
<1>2. \A p : Position(p)' <=> Position(p)
  BY DEF Position
<1> QED BY <1>1, <1>2 DEF StoreStep

LEMMA AppendStep ==
    ASSUME StoreInv, NEW m \in Stored, AppendMessage(m), UNCHANGED <<now, created>>,
           Stored \subseteq Stored', Appended \subseteq Appended',
           NEW actors, Overtake(actors), NEW d \in Devices, d \notin actors
    PROVE  StoreStep(d)
<1>1. /\ Entries' \subseteq Entries \cup {Entry(m)} /\ (trimmed => trimmed')
      /\ \A p : Position(p) => Position(p)'
  BY AppendEffect
<1>2. NextId \in Ids /\ \A p : Position(p) => p \in Ids /\ Before(p, NextId)
  BY NextIdIsNew DEF StoreInv, Position
<1>3. \A p : Position(p) => ~AtOrBefore(NextId, p)
  BY <1>2, IdOrder
<1>4. Entry(m).id = NextId
  BY DEF Entry
<1>5. overtaken'[d] = IF Backfilling(d) THEN overtaken[d] \cup {NextId} ELSE overtaken[d]
  BY DEF Overtake
<1> QED BY <1>1, <1>3, <1>4, <1>5 DEF StoreStep

LEMMA OvertakeType ==
    ASSUME TypeOK, StoreInv, NEW actors, Overtake(actors)
    PROVE  overtaken' \in [Devices -> SUBSET Ids]
<1>1. NextId \in Ids
  BY NextIdIsNew DEF StoreInv
<1> QED BY <1>1 DEF TypeOK, Overtake

----------------------------------------------------------------------------
\* The stores, step by step.

LEMMA StoresKept ==
    ASSUME StoreInv, UNCHANGED <<now, stream, lastId, trimmed, created>>,
           phase' \in [Msgs -> {"new", "composed", "stored", "appended"}],
           Stored \subseteq Stored', Appended' = Appended
    PROVE  StoreInv'
<1>1. Entries' = Entries
  BY DEF Entries
<1>2. ClockInv' /\ MessageTypes'
  BY DEF StoreInv, ClockInv, MessageTypes
<1>3. StreamInv'
  BY <1>1 DEF StoreInv, StreamInv
<1>4. PresentInv'
  BY <1>1 DEF StoreInv, PresentInv
<1> QED BY <1>2, <1>3, <1>4 DEF StoreInv

LEMMA StoresAppended ==
    ASSUME StoreInv, NEW m \in Stored, AppendMessage(m), UNCHANGED <<now, created>>,
           phase' \in [Msgs -> {"new", "composed", "stored", "appended"}],
           Stored \subseteq Stored', Appended' \subseteq Appended \cup {m}
    PROVE  StoreInv' /\ stream' \in Seq(EntryType) /\ lastId' \in Ids /\ trimmed' \in BOOLEAN
<1>1. /\ ClockInv' /\ StreamInv' /\ trimmed' \in BOOLEAN
      /\ trimmed' \/ (~trimmed /\ Entries' = Entries \cup {Entry(m)})
  BY AppendEffect
<1>2. MessageTypes'
  BY <1>1 DEF StoreInv, MessageTypes
<1>3. PresentInv'
  <2>1. Entry(m).msg = m
    BY DEF Entry
  <2>2. trimmed \/ \A a \in Appended : \E e \in Entries : e.msg = a
    BY DEF StoreInv, PresentInv
  <2>3. trimmed' \/ \A a \in Appended' : \E e \in Entries' : e.msg = a
    BY <1>1, <2>1, <2>2
  <2> QED BY <2>3 DEF PresentInv
<1> QED BY <1>1, <1>2, <1>3 DEF StoreInv, StreamInv, ClockInv

LEMMA ComposeKeeps ==
    ASSUME SyncInv, NEW m \in Msgs, Compose(m)
    PROVE  SyncInv'
<1>0. TypeOK /\ StoreInv /\ \A d \in Devices : DeviceInv(d)
  BY DEF SyncInv
<1> PICK skew \in Skews : created' = [created EXCEPT ![m] = now + skew]
  BY DEF Compose
<1>1. /\ phase[m] = "new" /\ phase' = [phase EXCEPT ![m] = "composed"]
      /\ created' = [created EXCEPT ![m] = now + skew]
      /\ UNCHANGED <<now, streamVars, deviceVars, overtaken, faults>>
  BY DEF Compose
<1>7. MaxSkew \in Nat /\ skew \in Int /\ skew <= MaxSkew
  <2>1. MaxSkew \in Nat /\ skew \in -MaxSkew .. MaxSkew
    BY SyncAssumption DEF SyncAssumption
  <2> QED BY <2>1
<1>2. /\ phase' \in [Msgs -> {"new", "composed", "stored", "appended"}]
      /\ created' \in [Msgs -> Int] /\ now \in Nat
      /\ \A a \in Msgs : a # m => phase'[a] = phase[a] /\ created'[a] = created[a]
      /\ phase'[m] = "composed" /\ created'[m] = now + skew
  BY <1>0, <1>1, <1>7 DEF TypeOK
<1>3. /\ Stored' = Stored /\ Appended' = Appended /\ m \notin Stored
      /\ \A a \in Stored : created'[a] = created[a]
  BY <1>1, <1>2 DEF Stored, Appended
<1>4. TypeOK'
  BY <1>0, <1>1, <1>2 DEF TypeOK, streamVars, deviceVars
<1>5. StoreInv'
  <2>1. Entries' = Entries
    BY <1>1 DEF Entries, streamVars
  <2>2. ClockInv'
    BY <1>0, <1>1 DEF StoreInv, ClockInv, streamVars
  <2>3. MessageTypes'
    <3>1. \A a \in Msgs : created[a] <= now + MaxSkew
      BY <1>0 DEF StoreInv, MessageTypes
    <3>2. now' = now /\ now + skew <= now + MaxSkew
      BY <1>1, <1>2, <1>7
    <3>3. \A a \in Msgs : created'[a] <= now' + MaxSkew
      BY <1>2, <3>1, <3>2
    <3> QED BY <1>0, <1>1, <1>2, <3>3 DEF StoreInv, MessageTypes, streamVars
  <2>4. StreamInv'
    BY <1>0, <1>1, <1>3, <2>1 DEF StoreInv, StreamInv, streamVars
  <2>5. PresentInv'
    BY <1>0, <1>1, <1>3, <2>1 DEF StoreInv, PresentInv, streamVars
  <2> QED BY <2>2, <2>3, <2>4, <2>5 DEF StoreInv
<1>6. ASSUME NEW d \in Devices PROVE DeviceInv(d)'
  <2>1. SameDevice(d)
    BY <1>1 DEF SameDevice, deviceVars
  <2>2. StoreStep(d)
    BY <1>1, <1>3, QuietStep DEF streamVars
  <2> QED BY <1>0, <2>1, <2>2, Elsewhere
<1> QED BY <1>4, <1>5, <1>6 DEF SyncInv

LEMMA StoreMessageKeeps ==
    ASSUME SyncInv, NEW m \in Msgs, StoreMessage(m)
    PROVE  SyncInv'
<1>0. TypeOK /\ StoreInv /\ \A d \in Devices : DeviceInv(d)
  BY DEF SyncInv
<1>1. /\ phase[m] = "composed" /\ phase' = [phase EXCEPT ![m] = "stored"]
      /\ UNCHANGED <<now, created, streamVars, deviceVars, overtaken, faults>>
  BY DEF StoreMessage
<1>2. /\ phase' \in [Msgs -> {"new", "composed", "stored", "appended"}]
      /\ \A a \in Msgs : a # m => phase'[a] = phase[a]
      /\ phase'[m] = "stored"
  BY <1>0, <1>1 DEF TypeOK
<1>3. Stored \subseteq Stored' /\ Appended' = Appended
  BY <1>1, <1>2 DEF Stored, Appended
<1>4. TypeOK'
  BY <1>0, <1>1, <1>2 DEF TypeOK, streamVars, deviceVars
<1>5. StoreInv'
  BY <1>0, <1>1, <1>2, <1>3, StoresKept DEF streamVars
<1>6. ASSUME NEW d \in Devices PROVE DeviceInv(d)'
  <2>1. SameDevice(d)
    BY <1>1 DEF SameDevice, deviceVars
  <2>2. StoreStep(d)
    BY <1>1, <1>3, QuietStep DEF streamVars
  <2> QED BY <1>0, <2>1, <2>2, Elsewhere
<1> QED BY <1>4, <1>5, <1>6 DEF SyncInv

LEMMA SenderAppendKeeps ==
    ASSUME SyncInv, NEW m \in Msgs, SenderAppend(m)
    PROVE  SyncInv'
<1>0. TypeOK /\ StoreInv /\ \A d \in Devices : DeviceInv(d)
  BY DEF SyncInv
<1>1. /\ phase[m] = "stored" /\ phase' = [phase EXCEPT ![m] = "appended"]
      /\ AppendMessage(m) /\ Overtake({})
      /\ UNCHANGED <<now, created, deviceVars, faults>>
  BY DEF SenderAppend
<1>2. /\ phase' \in [Msgs -> {"new", "composed", "stored", "appended"}]
      /\ \A a \in Msgs : a # m => phase'[a] = phase[a]
      /\ phase'[m] = "appended"
  BY <1>0, <1>1 DEF TypeOK
<1>3. /\ Stored \subseteq Stored' /\ Appended' = Appended \cup {m} /\ m \in Stored
  BY <1>1, <1>2 DEF Stored, Appended
<1>4. StoreInv' /\ stream' \in Seq(EntryType) /\ lastId' \in Ids /\ trimmed' \in BOOLEAN
  BY <1>0, <1>1, <1>2, <1>3, StoresAppended
<1>5. overtaken' \in [Devices -> SUBSET Ids]
  BY <1>0, <1>1, OvertakeType
<1>6. TypeOK'
  BY <1>0, <1>1, <1>2, <1>4, <1>5 DEF TypeOK, deviceVars
<1>7. ASSUME NEW d \in Devices PROVE DeviceInv(d)'
  <2>1. SameDevice(d)
    BY <1>1 DEF SameDevice, deviceVars
  <2>2. Appended \subseteq Appended' /\ d \notin {}
    BY <1>3
  <2>3. StoreStep(d)
    BY <1>0, <1>1, <1>3, <2>2, AppendStep
  <2> QED BY <1>0, <2>1, <2>3, Elsewhere
<1> QED BY <1>4, <1>6, <1>7 DEF SyncInv

\* Time passes, whether or not the stream is lost with it: positions stay positions.
LEMMA LaterPosition ==
    ASSUME StoreInv, NEW p, Position(p), now' \in Nat,
           \/ now <= now' /\ lastId' = lastId
           \/ now \div TicksPerMs < now' \div TicksPerMs
    PROVE  Position(p)'
<1>1. /\ p \in Ids /\ p[1] \in Nat /\ lastId \in Ids /\ lastId[1] \in Nat
      /\ AtOrBefore(p, lastId) \/ p[1] < now \div TicksPerMs
      /\ lastId[1] <= now \div TicksPerMs /\ now \in Nat
  BY DEF StoreInv, ClockInv, Position, Ids
<1>2. now \div TicksPerMs \in Nat /\ now' \div TicksPerMs \in Nat
  BY <1>1, Milliseconds
<1>3. CASE now <= now' /\ lastId' = lastId
  <2>1. now \div TicksPerMs <= now' \div TicksPerMs
    BY <1>1, <1>3, MillisecondsGrow
  <2>2. AtOrBefore(p, lastId') \/ p[1] < now' \div TicksPerMs
    BY <1>1, <1>2, <1>3, <2>1
  <2> QED BY <1>1, <2>2 DEF Position
<1>4. CASE now \div TicksPerMs < now' \div TicksPerMs
  <2>1. AtOrBefore(p, lastId) => p[1] <= lastId[1]
    BY <1>1, IdOrder
  <2>2. p[1] < now' \div TicksPerMs
    BY <1>1, <1>2, <1>4, <2>1
  <2> QED BY <1>1, <2>2 DEF Position
<1> QED BY <1>3, <1>4

LEMMA LaterTypes ==
    ASSUME MessageTypes, now \in Nat, now' \in Nat, now <= now', trimmed' \in BOOLEAN,
           UNCHANGED <<created, phase>>
    PROVE  MessageTypes'
<1>1. ASSUME NEW m \in Msgs PROVE created[m] <= now' + MaxSkew
  <2>1. created[m] \in Int /\ created[m] <= now + MaxSkew /\ MaxSkew \in Nat
    BY SyncAssumption DEF MessageTypes, SyncAssumption
  <2> QED BY <2>1
<1> QED BY <1>1 DEF MessageTypes

LEMMA TickKeeps ==
    ASSUME SyncInv, Tick
    PROVE  SyncInv'
<1>0. TypeOK /\ StoreInv /\ \A d \in Devices : DeviceInv(d)
  BY DEF SyncInv
<1>1. /\ now' = now + 1
      /\ UNCHANGED <<created, phase, streamVars, deviceVars, overtaken, faults>>
  BY DEF Tick
<1>2. now \in Nat /\ now' \in Nat /\ now <= now'
  BY <1>0, <1>1 DEF TypeOK
<1>3. TypeOK'
  BY <1>0, <1>1, <1>2 DEF TypeOK, streamVars, deviceVars
<1>4. Entries' = Entries /\ Stored' = Stored /\ Appended' = Appended
  BY <1>1 DEF Entries, Stored, Appended, streamVars
<1>5. StoreInv'
  <2>1. /\ now \div TicksPerMs <= now' \div TicksPerMs
        /\ now \div TicksPerMs \in Nat /\ now' \div TicksPerMs \in Nat
    BY <1>2, Milliseconds, MillisecondsGrow
  <2>2. ClockInv'
    <3>1. lastId \in Ids /\ lastId[1] \in Nat /\ lastId' = lastId
      BY <1>0, <1>1 DEF StoreInv, ClockInv, Ids, streamVars
    <3> QED BY <1>0, <1>2, <2>1, <3>1 DEF StoreInv, ClockInv
  <2>3. MessageTypes'
    BY <1>0, <1>1, <1>2, LaterTypes DEF StoreInv, TypeOK, streamVars
  <2>4. StreamInv'
    BY <1>0, <1>1, <1>4 DEF StoreInv, StreamInv, streamVars
  <2>5. PresentInv'
    BY <1>0, <1>1, <1>4 DEF StoreInv, PresentInv, streamVars
  <2> QED BY <2>2, <2>3, <2>4, <2>5 DEF StoreInv
<1>6. ASSUME NEW d \in Devices PROVE DeviceInv(d)'
  <2>1. SameDevice(d)
    BY <1>1 DEF SameDevice, deviceVars
  <2>2. \A p : Position(p) => Position(p)'
    BY <1>0, <1>1, <1>2, LaterPosition DEF streamVars
  <2>3. StoreStep(d)
    BY <1>1, <1>4, <2>2 DEF StoreStep, streamVars
  <2> QED BY <1>0, <2>1, <2>3, Elsewhere
<1> QED BY <1>3, <1>5, <1>6 DEF SyncInv

LEMMA LoseStreamKeeps ==
    ASSUME SyncInv, LoseStream
    PROVE  SyncInv'
<1>0. TypeOK /\ StoreInv /\ \A d \in Devices : DeviceInv(d)
  BY DEF SyncInv
<1> DEFINE ms == now \div TicksPerMs
<1>1. /\ now' = (ms + 1) * TicksPerMs /\ faults' = faults + 1
      /\ stream' = <<>> /\ lastId' = Zero /\ trimmed' = TRUE
      /\ UNCHANGED <<created, phase, deviceVars, overtaken>>
  BY DEF LoseStream, Fault
<1>2. TicksPerMs \in Nat /\ now \in Nat /\ ms \in Nat /\ now < (ms + 1) * TicksPerMs
  BY <1>0, Milliseconds, SyncAssumption DEF TypeOK, SyncAssumption
<1>3. now' \in Nat /\ now <= now' /\ ms < now' \div TicksPerMs /\ now' \div TicksPerMs >= 1
      /\ now' \div TicksPerMs \in Nat
  <2>1. now' \in Nat /\ (ms + 1) * TicksPerMs <= now' /\ now <= now' /\ ms + 1 \in Nat
    <3>1. ms + 1 \in Nat /\ \A x, y \in Nat : x * y \in Nat
      BY <1>2
    <3>2. now' \in Nat /\ now' = (ms + 1) * TicksPerMs
      BY <1>1, <1>2, <3>1
    <3>3. now < now'
      BY <1>2, <3>2, Zenon
    <3>4. (ms + 1) * TicksPerMs <= now'
      <4>1. \A x \in Nat : x <= x
        OBVIOUS
      <4> QED BY <3>2, <4>1, Zenon
    <3>5. now \in Nat /\ now' \in Nat
      BY <1>2, <3>2
    <3>6. now <= now'
      BY ONLY <3>3, <3>5
    <3> QED BY <3>1, <3>4, <3>5, <3>6
  <2>2. ms + 1 <= now' \div TicksPerMs /\ now' \div TicksPerMs \in Nat
    BY <2>1, WholeMilliseconds, Milliseconds
  <2>3. ms \in Nat /\ now' \in Nat /\ now <= now'
    BY <1>2, <2>1
  <2> DEFINE later == now' \div TicksPerMs
  <2>4. ms + 1 <= later /\ later \in Nat
    BY <2>2
  <2> HIDE DEF ms, later
  <2>5. ms < later /\ later >= 1
    BY ONLY <2>3, <2>4
  <2> QED BY <2>3, <2>4, <2>5 DEF later
<1>4. Entries' = {} /\ Stored' = Stored /\ Appended' = Appended
  BY <1>1 DEF Entries, Stored, Appended
<1>5. Zero \in Ids /\ Zero[1] = 0
  BY DEF Zero, Ids
<1>6. TypeOK'
  BY <1>0, <1>1, <1>3, <1>5 DEF TypeOK, deviceVars
<1>7. StoreInv'
  <2>1. ClockInv'
    BY <1>1, <1>3, <1>5 DEF ClockInv
  <2>2. MessageTypes'
    BY <1>0, <1>1, <1>2, <1>3, LaterTypes DEF StoreInv
  <2>3. StreamInv'
    BY <1>1, <1>4 DEF StreamInv
  <2>4. PresentInv'
    BY <1>1 DEF PresentInv
  <2> QED BY <2>1, <2>2, <2>3, <2>4 DEF StoreInv
<1>8. ASSUME NEW d \in Devices PROVE DeviceInv(d)'
  <2>1. SameDevice(d)
    BY <1>1 DEF SameDevice, deviceVars
  <2>2. \A p : Position(p) => Position(p)'
    BY <1>0, <1>3, LaterPosition
  <2>3. StoreStep(d)
    BY <1>1, <1>4, <2>2 DEF StoreStep
  <2> QED BY <1>0, <2>1, <2>3, Elsewhere
<1> QED BY <1>6, <1>7, <1>8 DEF SyncInv

----------------------------------------------------------------------------
\* A device's own steps.

\* A step that leaves the stores alone.
Quiet == UNCHANGED <<now, created, phase, stream, lastId, trimmed, overtaken>>

LEMMA QuietFacts ==
    ASSUME Quiet
    PROVE  /\ Entries' = Entries /\ Stored' = Stored /\ Appended' = Appended
           /\ trimmed' = trimmed /\ overtaken' = overtaken /\ created' = created
           /\ \A p : Position(p)' <=> Position(p)
BY DEF Quiet, Entries, Stored, Appended, Position

LEMMA OthersKept ==
    ASSUME SyncInv, NEW d \in Devices, Quiet, \A x \in Devices \ {d} : SameDevice(x),
           TypeOK', DeviceInv(d)'
    PROVE  SyncInv'
<1>1. TypeOK /\ StoreInv /\ \A x \in Devices : DeviceInv(x)
  BY DEF SyncInv
<1>2. StoreInv'
  BY <1>1, QuietFacts, StoresKept DEF Quiet, TypeOK
<1>3. ASSUME NEW x \in Devices \ {d} PROVE DeviceInv(x)'
  <2>1. StoreStep(x)
    BY QuietFacts, QuietStep DEF Quiet
  <2> QED BY <1>1, <1>3, <2>1, Elsewhere
<1> QED BY <1>2, <1>3 DEF SyncInv

\* Zero stands for no position: no entry is at or before it.
LEMMA NoPosition ==
    ASSUME StoreInv
    PROVE  /\ Zero \in Ids /\ Position(Zero)
           /\ \A e \in Entries : ~AtOrBefore(e.id, Zero)
<1>1. Zero \in Ids /\ Zero[1] = 0 /\ Zero[2] = 0
  BY DEF Zero, Ids
<1>2. lastId \in Ids /\ lastId[1] \in Nat /\ lastId[2] \in Nat
  BY DEF StoreInv, ClockInv, Ids
<1>3. AtOrBefore(Zero, lastId)
  BY <1>1, <1>2 DEF Ids, AtOrBefore, Before
<1>4. ASSUME NEW e \in Entries PROVE ~AtOrBefore(e.id, Zero)
  <2>1. e.id \in Ids /\ e.id[1] \in Nat /\ e.id[1] >= 1
    BY DEF StoreInv, StreamInv, EntryType, Ids
  <2> QED BY <1>1, <2>1 DEF AtOrBefore, Before
<1> QED BY <1>1, <1>3, <1>4 DEF Position

LEMMA AckKeeps ==
    ASSUME SyncInv, NEW d \in Devices, AckMessage(d) \/ ExpireAck(d)
    PROVE  SyncInv'
<1>0. TypeOK /\ StoreInv /\ DeviceInv(d)
  BY DEF SyncInv
<1>1. PICK p \in {got[d], Zero} : ack' = [ack EXCEPT ![d] = p]
  BY DEF AckMessage, ExpireAck
<1>2. /\ Quiet
      /\ UNCHANGED <<pc, cursor, history, out, got, seen, known, syncs>>
      /\ faults' \in {faults, faults + 1}
  BY DEF AckMessage, ExpireAck, Fault, Quiet, streamVars
<1>3. p \in Ids /\ Position(p) /\ Covers(d, p)
  BY <1>0, NoPosition DEF TypeOK, DeviceInv, Holds, Covers
<1>4. ack' \in [Devices -> Ids] /\ ack'[d] = p /\ \A x \in Devices \ {d} : ack'[x] = ack[x]
  BY <1>0, <1>1, <1>3 DEF TypeOK
<1>5. TypeOK'
  BY <1>0, <1>2, <1>4 DEF TypeOK, Quiet
<1>6. \A x \in Devices \ {d} : SameDevice(x)
  BY <1>2, <1>4 DEF SameDevice
<1>7. DeviceInv(d)'
  <2>1. /\ Entries' = Entries /\ Stored' = Stored /\ Appended' = Appended
        /\ trimmed' = trimmed /\ overtaken' = overtaken /\ created' = created
        /\ \A q : Position(q)' <=> Position(q)
    BY <1>2, QuietFacts
  <2>2. Holds(d)'
    BY <1>0, <1>2, <1>3, <1>4, <2>1 DEF DeviceInv, Holds
  <2>3. Covers(d, ack[d])' /\ Covers(d, got[d])' /\ Covers(d, cursor[d])'
    BY <1>0, <1>2, <1>3, <1>4, <2>1 DEF DeviceInv, Covers, Accounted
  <2>4. Collects(d)'
    BY <1>0, <1>2, <2>1 DEF DeviceInv, Collects, Accounted, OutMsgs, Backfilling
  <2>5. Since(cursor[d])' = Since(cursor[d])
    BY <1>2 DEF Since
  <2> QED BY <1>0, <1>2, <2>1, <2>2, <2>3, <2>4, <2>5 DEF DeviceInv
<1> QED BY <1>2, <1>5, <1>6, <1>7, OthersKept

LEMMA StartSyncKeeps ==
    ASSUME SyncInv, NEW d \in Devices, StartSync(d)
    PROVE  SyncInv'
<1>0. TypeOK /\ StoreInv /\ DeviceInv(d)
  BY DEF SyncInv
<1>1. PICK p \in {ack[d], got[d]} : cursor' = [cursor EXCEPT ![d] = p]
  BY DEF StartSync
<1>2. /\ pc[d] = "idle" /\ Quiet /\ UNCHANGED <<ack, history, out, got, seen, faults>>
      /\ syncs' = syncs + 1 /\ pc' = [pc EXCEPT ![d] = "read"]
      /\ known' = [known EXCEPT ![d] = Appended]
  BY DEF StartSync, Quiet, streamVars
<1>3. p \in Ids /\ Position(p) /\ Covers(d, p) /\ Appended \subseteq Msgs
  BY <1>0 DEF TypeOK, DeviceInv, Holds, Appended
<1>4. /\ cursor' \in [Devices -> Ids] /\ cursor'[d] = p
      /\ pc'[d] = "read" /\ known'[d] = Appended
      /\ \A x \in Devices \ {d} : cursor'[x] = cursor[x] /\ pc'[x] = pc[x] /\ known'[x] = known[x]
  BY <1>0, <1>1, <1>2, <1>3 DEF TypeOK
<1>5. TypeOK'
  <2>1. /\ pc' \in [Devices -> {"idle", "read", "recover", "backfill", "reply"}]
        /\ known' \in [Devices -> SUBSET Msgs]
    BY <1>0, <1>2, <1>3 DEF TypeOK
  <2>2. \A x \in Devices : pc'[x] = "backfill" => history'[x] # {}
    BY <1>0, <1>2, <1>4 DEF TypeOK
  <2> QED BY <1>0, <1>2, <1>4, <2>1, <2>2 DEF TypeOK, Quiet
<1>6. \A x \in Devices \ {d} : SameDevice(x)
  BY <1>2, <1>4 DEF SameDevice
<1>7. DeviceInv(d)'
  <2>1. /\ Entries' = Entries /\ Stored' = Stored /\ Appended' = Appended
        /\ trimmed' = trimmed /\ overtaken' = overtaken /\ created' = created
        /\ \A q : Position(q)' <=> Position(q)
    BY <1>2, QuietFacts
  <2>2. Holds(d)'
    BY <1>0, <1>2, <1>3, <1>4, <2>1 DEF DeviceInv, Holds
  <2>3. Covers(d, ack[d])' /\ Covers(d, got[d])' /\ Covers(d, cursor[d])'
    BY <1>0, <1>2, <1>3, <1>4, <2>1 DEF DeviceInv, Covers, Accounted
  <2>4. Collects(d)'
    BY <1>4 DEF Collects, Backfilling
  <2>5. history[d] = {} /\ out[d] = <<>>
    BY <1>0, <1>2 DEF DeviceInv
  <2> QED BY <1>2, <1>4, <2>1, <2>2, <2>3, <2>4, <2>5 DEF DeviceInv
<1> QED BY <1>2, <1>5, <1>6, <1>7, OthersKept

LEMMA SyncReadKeeps ==
    ASSUME SyncInv, NEW d \in Devices, SyncRead(d)
    PROVE  SyncInv'
<1>0. TypeOK /\ StoreInv /\ DeviceInv(d)
  BY DEF SyncInv
<1> DEFINE page == ReadFrom(cursor[d])
           step == IF page = <<>> THEN "recover" ELSE "reply"
<1>1. /\ pc[d] = "read" /\ Quiet
      /\ UNCHANGED <<ack, cursor, history, got, seen, known, syncs, faults>>
      /\ out' = [out EXCEPT ![d] = page] /\ pc' = [pc EXCEPT ![d] = step]
  BY DEF SyncRead, Quiet, streamVars
<1>2. cursor[d] \in Ids /\ StreamInv
  BY <1>0 DEF TypeOK, StoreInv
<1>3. /\ page \in Seq(EntryType)
      /\ page = <<>> => \A e \in Entries : AtOrBefore(e.id, cursor[d])
      /\ \A k \in 1 .. Len(page) : page[k] \in Entries
      /\ page # <<>> =>
            /\ Len(page) \in 1 .. Len(page)
            /\ \A e \in Entries : AtOrBefore(e.id, page[Len(page)].id)
                  => AtOrBefore(e.id, cursor[d]) \/ \E k \in 1 .. Len(page) : page[k] = e
  BY <1>2, PageIsContiguous
<1> HIDE DEF page
<1>4. /\ out' \in [Devices -> Seq(EntryType)] /\ out'[d] = page /\ pc'[d] = step
      /\ pc' \in [Devices -> {"idle", "read", "recover", "backfill", "reply"}]
      /\ \A x \in Devices \ {d} : out'[x] = out[x] /\ pc'[x] = pc[x]
  BY <1>0, <1>1, <1>3 DEF TypeOK
<1>5. TypeOK'
  <2>1. \A x \in Devices : pc'[x] = "backfill" => history'[x] # {}
    BY <1>0, <1>1, <1>4 DEF TypeOK
  <2> QED BY <1>0, <1>1, <1>4, <2>1 DEF TypeOK, Quiet
<1>6. \A x \in Devices \ {d} : SameDevice(x)
  BY <1>1, <1>4 DEF SameDevice
<1>7. DeviceInv(d)'
  <2>1. /\ Entries' = Entries /\ Stored' = Stored /\ Appended' = Appended
        /\ trimmed' = trimmed /\ overtaken' = overtaken /\ created' = created
        /\ \A q : Position(q)' <=> Position(q)
    BY <1>1, QuietFacts
  <2>2. \A e \in Entries : Position(e.id)
    BY <1>0 DEF StoreInv, StreamInv, Position, EntryType
  <2>3. Holds(d)'
    BY <1>0, <1>1, <1>3, <1>4, <2>1, <2>2 DEF DeviceInv, Holds
  <2>4. Covers(d, ack[d])' /\ Covers(d, got[d])' /\ Covers(d, cursor[d])'
    BY <1>0, <1>1, <2>1 DEF DeviceInv, Covers, Accounted
  <2>5. \A e \in Entries : AtOrBefore(e.id, cursor[d]) => Accounted(d, e)
    BY <1>0 DEF DeviceInv, Covers
  <2>6. \A e : Accounted(d, e)' <=> Accounted(d, e)
    BY <1>1, <2>1 DEF Accounted
  <2>7. OutMsgs(d)' = {page[k].msg : k \in 1 .. Len(page)}
    BY <1>4 DEF OutMsgs
  <2>8. Collects(d)'
    <3>1. CASE page = <<>>
      BY <1>3, <1>4, <2>1, <2>5, <2>6, <3>1 DEF Collects, Backfilling
    <3>2. CASE page # <<>>
      <4>1. ASSUME NEW e \in Entries, AtOrBefore(e.id, page[Len(page)].id)
            PROVE  Accounted(d, e) \/ e.msg \in OutMsgs(d)'
        BY <1>3, <2>5, <2>7, <3>2, <4>1
      <4> QED BY <1>4, <2>1, <2>6, <3>2, <4>1 DEF Collects, Backfilling
    <3> QED BY <3>1, <3>2
  <2>9. ASSUME page = <<>>, ~trimmed, overtaken[d] = {} PROVE known[d] \subseteq seen[d]
    <3>1. ASSUME NEW m \in known[d] PROVE m \in seen[d]
      <4>1. PICK e \in Entries : e.msg = m
        BY <1>0, <2>9, <3>1 DEF DeviceInv, StoreInv, PresentInv
      <4>2. Accounted(d, e)
        BY <1>3, <2>5, <2>9, <4>1
      <4> QED BY <2>9, <4>1, <4>2 DEF Accounted
    <3> QED BY <3>1
  <2>10. history[d] = {} /\ known[d] \subseteq Appended
    BY <1>0, <1>1 DEF DeviceInv
  <2>11. pc'[d] \in {"idle", "read", "recover"} => out'[d] = <<>>
    BY <1>4
  <2> QED BY <1>1, <1>4, <2>1, <2>3, <2>4, <2>8, <2>9, <2>10, <2>11 DEF DeviceInv
<1> QED BY <1>1, <1>5, <1>6, <1>7, OthersKept

LEMMA RecoverKeeps ==
    ASSUME SyncInv, NEW d \in Devices, Recover(d)
    PROVE  SyncInv'
<1>0. TypeOK /\ StoreInv /\ DeviceInv(d)
  BY DEF SyncInv
<1> DEFINE rows == ListByRoom(Since(cursor[d]))
           step == IF rows = {} THEN "reply" ELSE "backfill"
<1>1. /\ pc[d] = "recover" /\ Quiet
      /\ UNCHANGED <<ack, cursor, out, got, seen, known, syncs, faults>>
      /\ history' = [history EXCEPT ![d] = rows] /\ pc' = [pc EXCEPT ![d] = step]
  BY DEF Recover, Quiet, streamVars
<1>2. \A m \in rows : m \in Stored /\ m \in Msgs /\ created[m] > Since(cursor[d])
  BY DEF ListByRoom, Stored
<1> HIDE DEF rows
<1>3. /\ history' \in [Devices -> SUBSET Msgs] /\ history'[d] = rows /\ pc'[d] = step
      /\ pc' \in [Devices -> {"idle", "read", "recover", "backfill", "reply"}]
      /\ \A x \in Devices \ {d} : history'[x] = history[x] /\ pc'[x] = pc[x]
  BY <1>0, <1>1, <1>2 DEF TypeOK
<1>4. TypeOK'
  <2>1. \A x \in Devices : pc'[x] = "backfill" => history'[x] # {}
    BY <1>0, <1>3 DEF TypeOK
  <2> QED BY <1>0, <1>1, <1>3, <2>1 DEF TypeOK, Quiet
<1>5. \A x \in Devices \ {d} : SameDevice(x)
  BY <1>1, <1>3 DEF SameDevice
<1>6. DeviceInv(d)'
  <2>1. /\ Entries' = Entries /\ Stored' = Stored /\ Appended' = Appended
        /\ trimmed' = trimmed /\ overtaken' = overtaken /\ created' = created
        /\ \A q : Position(q)' <=> Position(q)
    BY <1>1, QuietFacts
  <2>2. Holds(d)'
    BY <1>0, <1>1, <2>1 DEF DeviceInv, Holds
  <2>3. Covers(d, ack[d])' /\ Covers(d, got[d])' /\ Covers(d, cursor[d])'
    BY <1>0, <1>1, <2>1 DEF DeviceInv, Covers, Accounted
  <2>4. out[d] = <<>> /\ Backfilling(d)
    BY <1>0, <1>1 DEF DeviceInv, Backfilling
  <2>5. Collects(d)'
    <3>1. \A e \in Entries : Accounted(d, e) \/ e.msg \in OutMsgs(d)
      BY <1>0, <2>4 DEF DeviceInv, Collects
    <3>2. OutMsgs(d)' = OutMsgs(d) /\ \A e : Accounted(d, e)' <=> Accounted(d, e)
      BY <1>1, <2>1 DEF OutMsgs, Accounted
    <3> QED BY <1>1, <2>1, <2>4, <3>1, <3>2 DEF Collects
  <2>6. Since(cursor[d])' = Since(cursor[d])
    BY <1>1 DEF Since
  <2>7. \A m \in history'[d] : m \in Stored' /\ created'[m] > Since(cursor[d])'
    BY <1>2, <1>3, <2>1, <2>6
  <2>8. /\ pc'[d] \in {"idle", "read", "recover"} => out'[d] = <<>>
        /\ pc'[d] # "backfill" => history'[d] = {}
    BY <1>3
  <2>9. /\ known[d] \subseteq Appended
        /\ ~trimmed /\ overtaken[d] = {} => known[d] \subseteq seen[d]
    BY <1>0, <1>1, <2>4 DEF DeviceInv
  <2> QED BY <1>1, <2>1, <2>2, <2>3, <2>5, <2>7, <2>8, <2>9 DEF DeviceInv
<1> QED BY <1>1, <1>4, <1>5, <1>6, OthersKept

\* What ends a SYNC: the result reaches the device or is dropped.
LEMMA FinishKeeps ==
    ASSUME SyncInv, NEW d \in Devices, Reply(d) \/ SyncFail(d)
    PROVE  SyncInv'
<1>0. TypeOK /\ StoreInv /\ DeviceInv(d)
  BY DEF SyncInv
<1> DEFINE last == out[d][Len(out[d])].id
<1>1. /\ Quiet /\ UNCHANGED <<ack, syncs>> /\ faults' \in {faults, faults + 1}
      /\ Finish(d)
  BY DEF Reply, SyncFail, Fault, Quiet, streamVars
<1>2. PICK s \in SUBSET Msgs, p \in Ids :
        /\ seen' = [seen EXCEPT ![d] = s] /\ got' = [got EXCEPT ![d] = p]
        /\ seen[d] \subseteq s
        /\ \/ p = got[d]
           \/ pc[d] = "reply" /\ out[d] # <<>> /\ p = last /\ OutMsgs(d) \subseteq s
  <2>0. /\ out[d] \in Seq(EntryType) /\ seen[d] \in SUBSET Msgs /\ got[d] \in Ids
        /\ seen \in [Devices -> SUBSET Msgs] /\ got \in [Devices -> Ids]
    BY <1>0 DEF TypeOK
  <2>1. /\ OutMsgs(d) \subseteq Msgs
        /\ out[d] # <<>> => last \in Ids
    <3>1. \A k \in 1 .. Len(out[d]) : out[d][k] \in EntryType
      BY <2>0
    <3>2. \A e \in EntryType : e.id \in Ids /\ e.msg \in Msgs
      BY DEF EntryType
    <3>3. \A k \in 1 .. Len(out[d]) : out[d][k].id \in Ids /\ out[d][k].msg \in Msgs
      BY <3>1, <3>2
    <3>4. out[d] # <<>> => Len(out[d]) \in 1 .. Len(out[d])
      BY <2>0
    <3> QED BY <3>3, <3>4 DEF OutMsgs
  <2>2. CASE Reply(d)
    <3>1. /\ pc[d] = "reply" /\ seen' = [seen EXCEPT ![d] = seen[d] \cup OutMsgs(d)]
          /\ got' = [got EXCEPT ![d] = IF out[d] = <<>> THEN got[d] ELSE last]
      BY <2>2 DEF Reply, OutMsgs
    <3>2. seen[d] \cup OutMsgs(d) \in SUBSET Msgs
      BY <2>0, <2>1
    <3>3. CASE out[d] = <<>>
      BY <2>0, <3>1, <3>2, <3>3
    <3>4. CASE out[d] # <<>>
      BY <2>0, <2>1, <3>1, <3>2, <3>4
    <3> QED BY <3>3, <3>4
  <2>3. CASE SyncFail(d)
    <3>1. seen' = [seen EXCEPT ![d] = seen[d]] /\ got' = [got EXCEPT ![d] = got[d]]
      BY <2>0, <2>3 DEF SyncFail
    <3> QED BY <2>0, <3>1
  <2> QED BY <2>2, <2>3
<1>3. Zero \in Ids /\ Position(Zero) /\ \A e \in Entries : ~AtOrBefore(e.id, Zero)
  BY <1>0, NoPosition
<1>4. /\ pc'[d] = "idle" /\ out'[d] = <<>> /\ history'[d] = {} /\ cursor'[d] = Zero
      /\ known'[d] = {} /\ seen'[d] = s /\ got'[d] = p
      /\ \A x \in Devices \ {d} :
            /\ pc'[x] = pc[x] /\ out'[x] = out[x] /\ history'[x] = history[x]
            /\ cursor'[x] = cursor[x] /\ known'[x] = known[x]
            /\ seen'[x] = seen[x] /\ got'[x] = got[x]
  BY <1>0, <1>1, <1>2 DEF TypeOK, Finish
<1>5. TypeOK'
  <2>1. \A x \in Devices : pc'[x] = "backfill" => history'[x] # {}
    BY <1>0, <1>4 DEF TypeOK
  <2>2. /\ pc' \in [Devices -> {"idle", "read", "recover", "backfill", "reply"}]
        /\ out' \in [Devices -> Seq(EntryType)] /\ history' \in [Devices -> SUBSET Msgs]
        /\ cursor' \in [Devices -> Ids] /\ known' \in [Devices -> SUBSET Msgs]
    BY <1>0, <1>1, <1>3 DEF TypeOK, Finish
  <2>3. seen' \in [Devices -> SUBSET Msgs] /\ got' \in [Devices -> Ids]
    BY <1>0, <1>2 DEF TypeOK
  <2> QED BY <1>0, <1>1, <2>1, <2>2, <2>3 DEF TypeOK, Quiet
<1>6. \A x \in Devices \ {d} : SameDevice(x)
  BY <1>1, <1>4 DEF SameDevice
<1>7. DeviceInv(d)'
  <2>1. /\ Entries' = Entries /\ Stored' = Stored /\ Appended' = Appended
        /\ trimmed' = trimmed /\ overtaken' = overtaken /\ created' = created
        /\ \A q : Position(q)' <=> Position(q)
    BY <1>1, QuietFacts
  <2>2. Position(p)
    <3>1. out[d] # <<>> => Len(out[d]) \in 1 .. Len(out[d])
      BY <1>0 DEF TypeOK
    <3> QED BY <1>0, <1>2, <3>1 DEF DeviceInv, Holds
  <2>3. Holds(d)'
    BY <1>0, <1>1, <1>3, <1>4, <2>1, <2>2 DEF DeviceInv, Holds
  <2>4. \A e : Accounted(d, e) => Accounted(d, e)'
    BY <1>2, <1>4, <2>1 DEF Accounted
  <2>5. Covers(d, got[d])'
    <3>1. CASE p = got[d]
      BY <1>0, <1>4, <2>1, <2>4, <3>1 DEF DeviceInv, Covers
    <3>2. CASE pc[d] = "reply" /\ out[d] # <<>> /\ p = last /\ OutMsgs(d) \subseteq s
      <4>1. \A e \in Entries : AtOrBefore(e.id, p) => Accounted(d, e) \/ e.msg \in OutMsgs(d)
        BY <1>0, <3>2 DEF DeviceInv, Collects
      <4>2. \A e : e.msg \in OutMsgs(d) => Accounted(d, e)'
        BY <1>4, <3>2 DEF Accounted
      <4> QED BY <1>4, <2>1, <2>4, <4>1, <4>2 DEF Covers
    <3> QED BY <1>2, <3>1, <3>2
  <2>6. Covers(d, ack[d])' /\ Covers(d, cursor[d])'
    BY <1>0, <1>1, <1>3, <1>4, <2>1, <2>4 DEF DeviceInv, Covers
  <2>7. Collects(d)'
    BY <1>4 DEF Collects, Backfilling
  <2> QED BY <1>4, <2>1, <2>3, <2>5, <2>6, <2>7 DEF DeviceInv
<1> QED BY <1>1, <1>5, <1>6, <1>7, OthersKept

LEMMA BackfillKeeps ==
    ASSUME SyncInv, NEW d \in Devices, Backfill(d)
    PROVE  SyncInv'
<1>0. TypeOK /\ StoreInv /\ \A x \in Devices : DeviceInv(x)
  BY DEF SyncInv
<1>1. PICK m \in history[d] :
        /\ AppendMessage(m)
        /\ out' = [out EXCEPT ![d] = Append(@, [id |-> NextId, msg |-> m])]
        /\ history' = [history EXCEPT ![d] = @ \ {m}]
        /\ pc' = [pc EXCEPT ![d] = IF history[d] = {m} THEN "reply" ELSE "backfill"]
  BY DEF Backfill
<1>2. /\ pc[d] = "backfill" /\ Overtake({d})
      /\ UNCHANGED <<now, created, phase, ack, cursor, got, seen, known, syncs, faults>>
  BY DEF Backfill
<1>3. m \in Stored /\ m \in Msgs
  BY <1>0 DEF DeviceInv, Stored
<1>4. Stored' = Stored /\ Appended' = Appended /\ phase' = phase
  BY <1>2 DEF Stored, Appended
<1>5. StoreInv' /\ stream' \in Seq(EntryType) /\ lastId' \in Ids /\ trimmed' \in BOOLEAN
  <2>1. phase' \in [Msgs -> {"new", "composed", "stored", "appended"}]
    BY <1>0, <1>4 DEF TypeOK
  <2> QED BY <1>0, <1>1, <1>2, <1>3, <1>4, <2>1, StoresAppended
<1>6. /\ Entries' \subseteq Entries \cup {Entry(m)}
      /\ \A p : Position(p) => Position(p)'
      /\ \A p : p = NextId => Position(p)'
  BY <1>0, <1>1, <1>2, <1>3, <1>4, AppendEffect
<1>7. NextId \in Ids /\ Entry(m) \in EntryType /\ Entry(m).id = NextId /\ Entry(m).msg = m
  BY <1>0, <1>3, NextIdIsNew DEF StoreInv, Entry, EntryType
<1>8. \A p : Position(p) => ~AtOrBefore(NextId, p)
  <2>1. \A p : Position(p) => p \in Ids /\ Before(p, NextId)
    BY <1>0, NextIdIsNew DEF StoreInv, Position
  <2> QED BY <1>7, <2>1, IdOrder
<1>9. /\ out' \in [Devices -> Seq(EntryType)] /\ out'[d] = Append(out[d], Entry(m))
      /\ \A x \in Devices \ {d} : out'[x] = out[x]
  <2>1. out' = [out EXCEPT ![d] = Append(out[d], Entry(m))]
    BY <1>1 DEF Entry
  <2>2. out \in [Devices -> Seq(EntryType)] /\ Append(out[d], Entry(m)) \in Seq(EntryType)
    BY <1>0, <1>7 DEF TypeOK
  <2> QED BY <2>1, <2>2
<1>10. /\ history' \in [Devices -> SUBSET Msgs] /\ history'[d] = history[d] \ {m}
       /\ pc' \in [Devices -> {"idle", "read", "recover", "backfill", "reply"}]
       /\ pc'[d] = IF history[d] = {m} THEN "reply" ELSE "backfill"
       /\ \A x \in Devices \ {d} : history'[x] = history[x] /\ pc'[x] = pc[x]
  BY <1>0, <1>1 DEF TypeOK
<1>11. TypeOK'
  <2>1. overtaken' \in [Devices -> SUBSET Ids]
    BY <1>0, <1>2, OvertakeType
  <2>2. \A x \in Devices : pc'[x] = "backfill" => history'[x] # {}
    <3>1. \A x \in Devices \ {d} : pc'[x] = "backfill" => history'[x] # {}
      BY <1>0, <1>10 DEF TypeOK
    <3>2. pc'[d] = "backfill" => history'[d] # {}
      BY <1>10
    <3> QED BY <3>1, <3>2
  <2> QED BY <1>0, <1>2, <1>5, <1>9, <1>10, <2>1, <2>2 DEF TypeOK
<1>12. ASSUME NEW x \in Devices \ {d} PROVE DeviceInv(x)'
  <2>1. SameDevice(x)
    BY <1>2, <1>9, <1>10 DEF SameDevice
  <2>2. StoreStep(x)
    <3>1. x \in Devices /\ x \notin {d} /\ Appended \subseteq Appended' /\ Stored \subseteq Stored'
      BY <1>4
    <3> QED BY <1>0, <1>1, <1>2, <1>3, <3>1, AppendStep
  <2> QED BY <1>0, <2>1, <2>2, Elsewhere
<1>13. DeviceInv(d)'
  <2>0. DeviceInv(d) /\ Backfilling(d) /\ out[d] \in Seq(EntryType)
    BY <1>0, <1>2 DEF Backfilling, TypeOK
  <2> DEFINE n == Len(out[d])
  <2>1. /\ Len(out'[d]) = n + 1 /\ n \in Nat /\ out'[d][n + 1] = Entry(m) /\ out'[d] # <<>>
        /\ out'[d] \in Seq(EntryType) /\ \A k \in 1 .. n : out'[d][k] = out[d][k]
    BY <1>7, <1>9, <2>0
  <2> HIDE DEF n
  <2>2. \A k \in 1 .. n + 1 : k \in 1 .. n \/ k = n + 1
    BY <2>1
  <2>3. Holds(d)'
    <3>1. \A k \in 1 .. n : Position(out[d][k].id)
      BY <2>0 DEF DeviceInv, Holds, n
    <3>2. Position(ack[d]) /\ Position(got[d]) /\ Position(cursor[d])
      BY <2>0 DEF DeviceInv, Holds
    <3>3. \A k \in 1 .. Len(out'[d]) : Position(out[d][k].id)'
      <4>1. ASSUME NEW k \in 1 .. n PROVE Position(out[d][k].id)'
        BY <1>6, <2>1, <3>1
      <4>2. ASSUME NEW k \in 1 .. n + 1, k = n + 1 PROVE Position(out[d][k].id)'
        BY <1>6, <1>7, <2>1, <4>2
      <4> QED BY <2>1, <2>2, <4>1, <4>2
    <3>4. Position(ack[d])' /\ Position(got[d])' /\ Position(cursor[d])'
      BY <1>2, <1>6, <3>2
    <3> QED BY <2>1, <3>3, <3>4 DEF Holds
  <2>4. OutMsgs(d) \subseteq OutMsgs(d)' /\ m \in OutMsgs(d)'
    <3>1. OutMsgs(d)' = {out'[d][k].msg : k \in 1 .. n + 1}
      BY <2>1 DEF OutMsgs
    <3>2. OutMsgs(d) = {out[d][k].msg : k \in 1 .. n}
      BY DEF OutMsgs, n
    <3>3. n + 1 \in 1 .. n + 1 /\ \A k \in 1 .. n : k \in 1 .. n + 1
      BY <2>1
    <3> QED BY <1>7, <2>1, <3>1, <3>2, <3>3
  <2>5. overtaken'[d] = overtaken[d]
    BY <1>2 DEF Overtake
  <2>6. \A e : Accounted(d, e)' <=> Accounted(d, e)
    BY <1>2, <2>5 DEF Accounted
  <2>7. Covers(d, ack[d])' /\ Covers(d, got[d])' /\ Covers(d, cursor[d])'
    <3>1. ASSUME NEW p, Position(p), Covers(d, p)
          PROVE  \A e \in Entries' : AtOrBefore(e.id, p) => Accounted(d, e)'
      BY <1>6, <1>7, <1>8, <2>6, <3>1 DEF Covers
    <3>2. /\ Position(ack[d]) /\ Position(got[d]) /\ Position(cursor[d])
          /\ Covers(d, ack[d]) /\ Covers(d, got[d]) /\ Covers(d, cursor[d])
      BY <2>0 DEF DeviceInv, Holds
    <3>3. /\ \A e \in Entries' : AtOrBefore(e.id, ack[d]) => Accounted(d, e)'
          /\ \A e \in Entries' : AtOrBefore(e.id, got[d]) => Accounted(d, e)'
          /\ \A e \in Entries' : AtOrBefore(e.id, cursor[d]) => Accounted(d, e)'
      BY <3>1, <3>2
    <3> QED BY <1>2, <3>3 DEF Covers
  <2>8. Collects(d)'
    <3>1. \A e \in Entries : Accounted(d, e) \/ e.msg \in OutMsgs(d)
      BY <2>0 DEF DeviceInv, Collects
    <3>2. \A e \in Entries' : Accounted(d, e)' \/ e.msg \in OutMsgs(d)'
      BY <1>6, <1>7, <2>4, <2>6, <3>1
    <3> QED BY <3>2 DEF Collects
  <2>9. Since(cursor[d])' = Since(cursor[d])
    BY <1>2 DEF Since
  <2>10. \A a \in history'[d] : a \in Stored' /\ created'[a] > Since(cursor[d])'
    BY <1>2, <1>4, <1>10, <2>0, <2>9 DEF DeviceInv
  <2>11. /\ pc'[d] \in {"reply", "backfill"}
         /\ pc'[d] # "backfill" => history'[d] = {}
         /\ known'[d] \subseteq Appended'
    BY <1>2, <1>4, <1>10, <2>0 DEF DeviceInv
  <2> QED BY <2>1, <2>3, <2>7, <2>8, <2>10, <2>11 DEF DeviceInv
<1> QED BY <1>5, <1>11, <1>12, <1>13 DEF SyncInv

----------------------------------------------------------------------------
\* The specification.

LEMMA SyncInitially == Init => SyncInv
<1> SUFFICES ASSUME Init PROVE SyncInv
  OBVIOUS
<1>1. TicksPerMs \in Nat \ {0} /\ now = TicksPerMs
  BY SyncAssumption DEF SyncAssumption, Init
<1>2. Zero \in Ids /\ Zero[1] = 0
  BY DEF Zero, Ids
<1>3. TypeOK
  <2>1. /\ now \in Nat /\ created \in [Msgs -> Int]
        /\ phase \in [Msgs -> {"new", "composed", "stored", "appended"}]
        /\ trimmed \in BOOLEAN /\ syncs \in Nat /\ faults \in Nat
    <3>1. 0 \in Int /\ now \in Nat
      BY <1>1
    <3> QED BY <3>1 DEF Init
  <2>2. <<>> \in Seq(EntryType)
    OBVIOUS
  <2>3. /\ stream \in Seq(EntryType) /\ lastId \in Ids
        /\ ack \in [Devices -> Ids] /\ cursor \in [Devices -> Ids] /\ got \in [Devices -> Ids]
        /\ out \in [Devices -> Seq(EntryType)]
    BY <1>2, <2>2 DEF Init
  <2>4. /\ pc \in [Devices -> {"idle", "read", "recover", "backfill", "reply"}]
        /\ \A d \in Devices : pc[d] = "backfill" => history[d] # {}
    BY DEF Init
  <2>5. /\ history \in [Devices -> SUBSET Msgs] /\ seen \in [Devices -> SUBSET Msgs]
        /\ known \in [Devices -> SUBSET Msgs] /\ overtaken \in [Devices -> SUBSET Ids]
    BY DEF Init
  <2> QED BY <2>1, <2>3, <2>4, <2>5 DEF TypeOK
<1>4. Entries = {} /\ Stored = {} /\ Appended = {}
  BY DEF Init, Entries, Stored, Appended
<1>5. now \div TicksPerMs >= 1 /\ now \div TicksPerMs \in Nat
  <2>1. 1 * TicksPerMs <= now
    BY <1>1
  <2> QED BY <1>1, <2>1, WholeMilliseconds, Milliseconds
<1>6. StoreInv
  <2>1. ClockInv
    BY <1>1, <1>2, <1>5 DEF Init, ClockInv
  <2>2. MessageTypes
    <3>1. \A m \in Msgs : created[m] = 0
      BY DEF Init
    <3>2. now \in Nat /\ 0 <= now + MaxSkew
      BY <1>1, SyncAssumption DEF SyncAssumption
    <3> QED BY <1>3, <3>1, <3>2 DEF TypeOK, MessageTypes
  <2>3. StreamInv /\ PresentInv
    BY <1>4 DEF Init, StreamInv, PresentInv
  <2> QED BY <2>1, <2>2, <2>3 DEF StoreInv
<1>7. Position(Zero)
  BY <1>6, NoPosition
<1>8. ASSUME NEW d \in Devices PROVE DeviceInv(d)
  <2>1. Holds(d)
    BY <1>7 DEF Init, Holds
  <2>2. Covers(d, ack[d]) /\ Covers(d, got[d]) /\ Covers(d, cursor[d]) /\ Collects(d)
    BY <1>4 DEF Covers, Collects
  <2> QED BY <2>1, <2>2 DEF Init, DeviceInv
<1> QED BY <1>3, <1>6, <1>8 DEF SyncInv

LEMMA SyncNext == SyncInv /\ [Next]_syncVars => SyncInv'
<1> SUFFICES ASSUME SyncInv, [Next]_syncVars PROVE SyncInv'
  OBVIOUS
<1>1. ASSUME NEW m \in Msgs, Compose(m) \/ StoreMessage(m) \/ SenderAppend(m) PROVE SyncInv'
  BY <1>1, ComposeKeeps, StoreMessageKeeps, SenderAppendKeeps
<1>2. ASSUME NEW d \in Devices, SyncStep(d) PROVE SyncInv'
  <2>1. CASE StartSync(d)
    BY <2>1, StartSyncKeeps
  <2>2. CASE SyncRead(d)
    BY <2>2, SyncReadKeeps
  <2>3. CASE Recover(d)
    BY <2>3, RecoverKeeps
  <2>4. CASE Backfill(d)
    BY <2>4, BackfillKeeps
  <2>5. CASE Reply(d) \/ SyncFail(d)
    BY <2>5, FinishKeeps
  <2>6. CASE AckMessage(d) \/ ExpireAck(d)
    BY <2>6, AckKeeps
  <2> QED BY <1>2, <2>1, <2>2, <2>3, <2>4, <2>5, <2>6 DEF SyncStep
<1>3. CASE Tick
  BY <1>3, TickKeeps
<1>4. CASE LoseStream
  BY <1>4, LoseStreamKeeps
<1>5. CASE UNCHANGED syncVars
  <2>1. Quiet /\ TypeOK /\ StoreInv
    BY <1>5 DEF syncVars, streamVars, Quiet, SyncInv
  <2>2. TypeOK'
    BY <1>5, <2>1 DEF TypeOK, syncVars, streamVars, deviceVars
  <2>3. StoreInv'
    BY <2>1, QuietFacts, StoresKept DEF Quiet, TypeOK
  <2>4. ASSUME NEW d \in Devices PROVE DeviceInv(d)'
    <3>1. StoreStep(d)
      BY <2>1, QuietFacts, QuietStep DEF Quiet
    <3>2. SameDevice(d)
      BY <1>5 DEF SameDevice, syncVars, deviceVars
    <3> QED BY <3>1, <3>2, Elsewhere DEF SyncInv
  <2> QED BY <2>2, <2>3, <2>4 DEF SyncInv
<1> QED BY <1>1, <1>2, <1>3, <1>4, <1>5 DEF Next

LEMMA SyncInvHolds == Spec => []SyncInv
BY SyncInitially, SyncNext, PTL DEF Spec

\* The types of SyncMessages hold in every state; in particular recoverAndBackfill never
\* goes on without rows to append.
THEOREM SyncTypes == Spec => []TypeOK
<1>1. SyncInv => TypeOK
  BY DEF SyncInv
<1> QED BY <1>1, SyncInvHolds, PTL

\* A position passes over an entry the device never received only if somebody else appended
\* it while recoverAndBackfill was appending for that device.
THEOREM GapsAreBackfills == Spec => []GapOnlyWhileBackfilling
<1>1. SyncInv => GapOnlyWhileBackfilling
  BY DEF SyncInv, DeviceInv, Covers, Accounted, GapOnlyWhileBackfilling
<1> QED BY <1>1, SyncInvHolds, PTL

\* An empty answer to SYNC means that the device has what was in the stream when it asked,
\* if the stream has lost nothing and nobody overtook the device's backfills.
THEOREM EmptyAnswerIsTrue == Spec => []EmptySyncMeansCaughtUp
<1>1. SyncInv => EmptySyncMeansCaughtUp
  BY DEF SyncInv, DeviceInv, EmptySyncMeansCaughtUp
<1> QED BY <1>1, SyncInvHolds, PTL

\* recoverAndBackfill repeats an entry from before the cursor only for a message created
\* after the start of the cursor's millisecond and, by Valkey's clock, not after its end.
THEOREM ReplayIsWithinSkew == Spec => []ReplayOnlyWithinSkew
<1>1. ASSUME SyncInv, NEW d \in Devices, NEW e \in Entries,
             e.msg \in history[d], AtOrBefore(e.id, cursor[d])
      PROVE  /\ created[e.msg] > cursor[d][1] * TicksPerMs
             /\ created[e.msg] < Latest(cursor[d][1])
  <2> DEFINE c == created[e.msg]
             q == cursor[d][1]
  <2>1. TypeOK /\ StoreInv /\ DeviceInv(d)
    BY <1>1 DEF SyncInv
  <2>2. /\ e.id \in Ids /\ cursor[d] \in Ids /\ q \in Nat /\ c \in Int
        /\ c < Latest(e.id[1])
    BY <1>1, <2>1 DEF TypeOK, StoreInv, StreamInv, EntryType, Ids
  <2>3. e.id[1] <= q /\ e.id[1] \in Nat
    BY <1>1, <2>2, IdOrder
  <2>4. cursor[d] # Zero
    BY <1>1, <2>1, NoPosition
  <2>5. c > q * TicksPerMs
    BY <1>1, <2>1, <2>4 DEF DeviceInv, Since
  <2>6. /\ Latest(e.id[1]) \in Nat /\ Latest(q) \in Nat
        /\ Latest(e.id[1]) <= Latest(q)
    BY <2>2, <2>3, LatestGrows
  <2>7. c < Latest(q)
    BY <2>2, <2>6
  <2> QED BY <2>5, <2>7
<1>2. SyncInv => ReplayOnlyWithinSkew
  BY <1>1 DEF ReplayOnlyWithinSkew, Latest
<1> QED BY <1>2, SyncInvHolds, PTL
============================================================================
