--------------------------- MODULE ComponentProofs --------------------------
(***************************************************************************)
(* The components that are checked alone: the room id generator, the       *)
(* circuit breakers, the push tokens, the request metrics, the key cache,  *)
(* the message ids and the rate limiter.  Their modules share no variable, *)
(* so each theorem is about the specification of one of them.              *)
(***************************************************************************)
EXTENDS RoomIds, RateLimiter, JwksCache, MessageIds, CircuitBreaker, RequestMetrics,
        PushTokens, FiniteSetTheorems, SequenceTheorems, TLAPS

\* Arithmetic of \div and %.
LEMMA DivMod ==
    ASSUME NEW a \in Nat, NEW b \in Nat \ {0}
    PROVE  /\ a \div b \in Nat
           /\ a % b \in 0 .. b - 1
           /\ a = (a \div b) * b + (a % b)
BY SMT

\* Quotient and remainder are unique.
LEMMA DivModUnique ==
    ASSUME NEW q \in Int, NEW p \in Int, NEW b \in Nat \ {0},
           NEW r \in 0 .. b - 1, NEW s \in 0 .. b - 1,
           q * b + r = p * b + s
    PROVE  q = p /\ r = s
<1>1. (q - p) * b = s - r
  BY SMT
<1>2. ~(q - p >= 1)
  <2>1. q - p >= 1 => (q - p) * b >= b
    BY SMT
  <2> QED BY <2>1, <1>1, SMT
<1>3. ~(q - p <= -1)
  <2>1. q - p <= -1 => (q - p) * b <= -b
    BY SMT
  <2> QED BY <2>1, <1>1, SMT
<1> QED BY <1>1, <1>2, <1>3, SMT

\* A number below the modulus is its own remainder.
LEMMA ModSmall ==
    ASSUME NEW a \in Nat, NEW b \in Nat \ {0}, a < b
    PROVE  a % b = a
<1>1. a % b \in 0 .. b - 1 /\ a \div b \in Nat /\ a = (a \div b) * b + (a % b)
  BY DivMod
<1>2. a \in 0 .. b - 1 /\ 0 * b + a = (a \div b) * b + (a % b)
  BY <1>1, SMT
<1> QED BY <1>1, <1>2, DivModUnique, SMT

\* Equal quotients and remainders come from equal numbers.
LEMMA DivModInjective ==
    ASSUME NEW a \in Nat, NEW c \in Nat, NEW b \in Nat \ {0},
           a \div b = c \div b, a % b = c % b
    PROVE  a = c
<1>1. a = (a \div b) * b + (a % b) /\ c = (c \div b) * b + (c % b)
  BY DivMod
<1> QED BY <1>1

\* A quotient's bound.
LEMMA DivBound ==
    ASSUME NEW a \in Nat, NEW b \in Nat \ {0}, NEW m \in Nat, a < b * m
    PROVE  a \div b \in Nat /\ a \div b < m
<1> DEFINE q == a \div b
<1>1. q \in Nat /\ a % b \in 0 .. b - 1 /\ a = q * b + (a % b)
  BY DivMod
<1>2. q * b <= a
  BY <1>1, SMT
<1>3. q >= m => q * b >= m * b
  BY <1>1, SMT
<1>4. m * b = b * m
  BY SMT
<1> QED BY <1>1, <1>2, <1>3, <1>4, SMT

----------------------------------------------------------------------------
\* Adding the same number modulo b is injective on 0 .. b - 1.
LEMMA ModSumInjective ==
    ASSUME NEW b \in Nat \ {0}, NEW x \in 0 .. b - 1, NEW y \in 0 .. b - 1,
           NEW f \in 0 .. b - 1, (x + f) % b = (y + f) % b
    PROVE  x = y
<1>1. /\ x + f \in Nat /\ y + f \in Nat
      /\ (x + f) \div b \in Nat /\ (x + f) % b \in 0 .. b - 1
      /\ (y + f) \div b \in Nat /\ (y + f) % b \in 0 .. b - 1
      /\ x + f = ((x + f) \div b) * b + ((x + f) % b)
      /\ y + f = ((y + f) \div b) * b + ((y + f) % b)
  <2>1. x + f \in Nat /\ y + f \in Nat
    BY SMT
  <2> QED BY <2>1, DivMod
<1> DEFINE p == (x + f) \div b
           q == (y + f) \div b
           r == (x + f) % b
<1>2. x - y = (p - q) * b
  <2>1. x + f = p * b + r /\ y + f = q * b + r /\ p \in Nat /\ q \in Nat /\ r \in Nat
    BY <1>1
  <2> HIDE DEF p, q, r
  <2> QED BY <2>1, SMT
<1>3. p \in Nat /\ q \in Nat
  BY <1>1
<1> HIDE DEF p, q, r
<1>4. p * b + 0 = q * b + (x - y) /\ q * b + 0 = p * b + (y - x)
  BY <1>2, <1>3, SMT
<1>5. CASE x >= y
  <2>1. x - y \in 0 .. b - 1 /\ 0 \in 0 .. b - 1
    BY <1>5, SMT
  <2>2. 0 = x - y
    BY <1>3, <1>4, <2>1, DivModUnique
  <2> QED BY <2>2, SMT
<1>6. CASE y > x
  <2>1. y - x \in 0 .. b - 1 /\ 0 \in 0 .. b - 1
    BY <1>6, SMT
  <2>2. 0 = y - x
    BY <1>3, <1>4, <2>1, DivModUnique
  <2> QED BY <2>2, SMT
<1> QED BY <1>5, <1>6, SMT

Pair == Half \X Half

\* A round maps halves to halves, the 32-bit sum never wraps, and different inputs
\* give different outputs.
LEMMA RoundInjective ==
    ASSUME NEW k \in 0 .. 5, NEW x \in Pair
    PROVE  /\ FeistelRound(k, x) \in Pair
           /\ \A y \in Pair : FeistelRound(k, x) = FeistelRound(k, y) => x = y
<1>1. HalfBase \in Nat \ {0} /\ WordSize \in Nat \ {0} /\ 2 * HalfBase <= WordSize
  BY RoomIdAssumption, SMT
<1>2. ASSUME NEW z \in Pair
      PROVE  /\ z[1] \in Half /\ z[2] \in Half /\ Round[k][z[2]] \in Half
             /\ z = <<z[1], z[2]>>
  BY RoomIdAssumption DEF Pair
<1>3. ASSUME NEW z \in Pair
      PROVE  FeistelRound(k, z) = <<z[2], (z[1] + Round[k][z[2]]) % HalfBase>>
  <2>1. z[1] + Round[k][z[2]] \in Nat /\ z[1] + Round[k][z[2]] < WordSize
    BY <1>1, <1>2, SMT DEF Half
  <2>2. (z[1] + Round[k][z[2]]) % WordSize = z[1] + Round[k][z[2]]
    BY <1>1, <2>1, ModSmall
  <2> QED BY <2>2 DEF FeistelRound
<1>4. FeistelRound(k, x) \in Pair
  <2>1. x[1] + Round[k][x[2]] \in Nat
    BY <1>1, <1>2, SMT DEF Half
  <2>2. (x[1] + Round[k][x[2]]) % HalfBase \in Half
    BY <1>1, <2>1, DivMod DEF Half
  <2> QED BY <1>2, <1>3, <2>2 DEF Pair
<1>5. ASSUME NEW y \in Pair, FeistelRound(k, x) = FeistelRound(k, y)
      PROVE  x = y
  <2>1. x[2] = y[2]
    BY <1>3, <1>5
  <2>2. (x[1] + Round[k][x[2]]) % HalfBase = (y[1] + Round[k][x[2]]) % HalfBase
    BY <1>3, <1>5, <2>1
  <2>3. x[1] = y[1]
    BY <1>1, <1>2, <2>2, ModSumInjective DEF Half
  <2> QED BY <1>2, <2>1, <2>3
<1> QED BY <1>4, <1>5

\* Six rounds.
LEMMA RoundsInjective ==
    ASSUME NEW x \in Pair
    PROVE  /\ Rounds(x) \in Pair
           /\ \A y \in Pair : Rounds(x) = Rounds(y) => x = y
<1> DEFINE R(k, z) == FeistelRound(k, z)
           T1(z) == R(0, z)
           T2(z) == R(1, T1(z))
           T3(z) == R(2, T2(z))
           T4(z) == R(3, T3(z))
           T5(z) == R(4, T4(z))
           T6(z) == R(5, T5(z))
<1>1. \A k \in 0 .. 5 : \A z \in Pair :
         R(k, z) \in Pair /\ \A y \in Pair : R(k, z) = R(k, y) => z = y
  BY RoundInjective
<1>2. \A z : Rounds(z) = T6(z)
  BY DEF Rounds
<1>3. 0 \in 0 .. 5 /\ 1 \in 0 .. 5 /\ 2 \in 0 .. 5 /\ 3 \in 0 .. 5 /\ 4 \in 0 .. 5 /\ 5 \in 0 .. 5
  BY SMT
<1> HIDE DEF R
<1>4. ASSUME NEW z \in Pair
      PROVE  /\ T1(z) \in Pair /\ T2(z) \in Pair /\ T3(z) \in Pair
             /\ T4(z) \in Pair /\ T5(z) \in Pair /\ T6(z) \in Pair
  BY <1>1, <1>3, Zenon
<1>5. ASSUME NEW y \in Pair, T6(x) = T6(y)
      PROVE  x = y
  <2>1. T5(x) = T5(y)
    BY <1>1, <1>3, <1>4, <1>5, Zenon
  <2>2. T4(x) = T4(y)
    BY <1>1, <1>3, <1>4, <2>1, Zenon
  <2>3. T3(x) = T3(y)
    BY <1>1, <1>3, <1>4, <2>2, Zenon
  <2>4. T2(x) = T2(y)
    BY <1>1, <1>3, <1>4, <2>3, Zenon
  <2>5. T1(x) = T1(y)
    BY <1>1, <1>3, <1>4, <2>4, Zenon
  <2> QED BY <1>1, <1>3, <2>5, Zenon
<1> QED BY <1>2, <1>4, <1>5

\* The whole network, from 0 .. RoomIDSpace - 1 to itself.
LEMMA ObfuscateInjective ==
    ASSUME NEW a \in 0 .. RoomIDSpace - 1
    PROVE  /\ FeistelObfuscate(a) \in 0 .. RoomIDSpace - 1
           /\ \A b \in 0 .. RoomIDSpace - 1 :
                 FeistelObfuscate(a) = FeistelObfuscate(b) => a = b
<1> DEFINE S(n) == <<n \div HalfBase, n % HalfBase>>
           J(x) == x[1] * HalfBase + x[2]
<1>1. HalfBase \in Nat \ {0} /\ RoomIDSpace \in Nat /\ RoomIDSpace = HalfBase * HalfBase
  BY RoomIdAssumption, SMT DEF RoomIDSpace
<1>2. ASSUME NEW n \in 0 .. RoomIDSpace - 1
      PROVE  S(n) \in Pair /\ FeistelObfuscate(n) = J(Rounds(S(n)))
  <2>1. n \in Nat /\ n < HalfBase * HalfBase
    BY <1>1, SMT
  <2>2. n \div HalfBase \in Half
    BY <1>1, <2>1, DivBound DEF Half
  <2>3. n % HalfBase \in Half
    BY <1>1, <2>1, DivMod DEF Half
  <2> QED BY <2>2, <2>3 DEF Pair, FeistelObfuscate
<1>3. ASSUME NEW x \in Pair
      PROVE  J(x) \in 0 .. RoomIDSpace - 1 /\ x[1] \in Half /\ x[2] \in Half
             /\ x = <<x[1], x[2]>>
  <2>1. x[1] \in Half /\ x[2] \in Half /\ x = <<x[1], x[2]>>
    BY DEF Pair
  <2>2. x[1] * HalfBase <= (HalfBase - 1) * HalfBase /\ x[1] * HalfBase \in Nat
    BY <1>1, <2>1, SMT DEF Half
  <2>3. (HalfBase - 1) * HalfBase = HalfBase * HalfBase - HalfBase
    BY <1>1, SMT
  <2> QED BY <1>1, <2>1, <2>2, <2>3, SMT DEF Half
<1>4. ASSUME NEW x \in Pair, NEW y \in Pair, J(x) = J(y)
      PROVE  x = y
  <2> DEFINE x1 == x[1]  x2 == x[2]  y1 == y[1]  y2 == y[2]
  <2>1. x1 \in Int /\ y1 \in Int /\ x2 \in 0 .. HalfBase - 1 /\ y2 \in 0 .. HalfBase - 1
    BY <1>1, <1>3, SMT DEF Half
  <2> DEFINE K(q, r) == q * HalfBase + r
  <2>2. K(x1, x2) = K(y1, y2)
    BY <1>4
  <2>3. x = <<x1, x2>> /\ y = <<y1, y2>>
    BY <1>3
  <2> HIDE DEF x1, x2, y1, y2
  <2>4. \A q, p \in Int, r, s \in 0 .. HalfBase - 1 :
           K(q, r) = K(p, s) => q = p /\ r = s
    BY <1>1, DivModUnique
  <2> HIDE DEF K
  <2>5. x1 = y1 /\ x2 = y2
    BY <2>1, <2>2, <2>4
  <2> QED BY <2>3, <2>5
<1>5. ASSUME NEW b \in 0 .. RoomIDSpace - 1, FeistelObfuscate(a) = FeistelObfuscate(b)
      PROVE  a = b
  <2>1. S(a) \in Pair /\ S(b) \in Pair /\ J(Rounds(S(a))) = J(Rounds(S(b)))
    BY <1>2, <1>5
  <2>2. Rounds(S(a)) \in Pair /\ Rounds(S(b)) \in Pair
    BY <2>1, RoundsInjective
  <2>3. Rounds(S(a)) = Rounds(S(b))
    BY <1>4, <2>1, <2>2
  <2>4. S(a) = S(b)
    BY <2>1, <2>3, RoundsInjective
  <2>5. a \in Nat /\ b \in Nat /\ a \div HalfBase = b \div HalfBase /\ a % HalfBase = b % HalfBase
    BY <1>1, <2>4, SMT
  <2> QED BY <1>1, <2>5, DivModInjective
<1>6. FeistelObfuscate(a) \in 0 .. RoomIDSpace - 1
  BY <1>2, <1>3, RoundsInjective
<1> QED BY <1>5, <1>6

IdType == Digits \X Digits \X Digits \X Digits \X Digits \X Digits \X Digits \X Digits

\* Eight digits of the alphabet, and no two values below the id space share them all.
LEMMA EncodeInjective ==
    ASSUME NEW a \in 0 .. RoomIDSpace - 1
    PROVE  /\ EncodeBase62Fixed(a) \in IdType
           /\ \A b \in 0 .. RoomIDSpace - 1 :
                 EncodeBase62Fixed(a) = EncodeBase62Fixed(b) => a = b
<1> DEFINE Q(v) == v \div Radix
           q1(v) == Q(v)
           q2(v) == Q(q1(v))
           q3(v) == Q(q2(v))
           q4(v) == Q(q3(v))
           q5(v) == Q(q4(v))
           q6(v) == Q(q5(v))
           q7(v) == Q(q6(v))
           M2 == Radix * Radix
           M3 == Radix * M2
           M4 == Radix * M3
           M5 == Radix * M4
           M6 == Radix * M5
           M7 == Radix * M6
<1>1. Radix \in Nat \ {0} /\ RoomIDSpace = Radix * M7
  BY RoomIdAssumption
<1>2. /\ M2 \in Nat /\ M3 \in Nat /\ M4 \in Nat /\ M5 \in Nat /\ M6 \in Nat /\ M7 \in Nat
  <2>1. M2 \in Nat BY <1>1, SMT
  <2> HIDE DEF M2
  <2>2. M3 \in Nat BY <1>1, <2>1, SMT
  <2> HIDE DEF M3
  <2>3. M4 \in Nat BY <1>1, <2>2, SMT
  <2> HIDE DEF M4
  <2>4. M5 \in Nat BY <1>1, <2>3, SMT
  <2> HIDE DEF M5
  <2>5. M6 \in Nat BY <1>1, <2>4, SMT
  <2> HIDE DEF M6
  <2>6. M7 \in Nat BY <1>1, <2>5, SMT
  <2> QED BY <2>1, <2>2, <2>3, <2>4, <2>5, <2>6
<1>3. ASSUME NEW v \in 0 .. RoomIDSpace - 1
      PROVE  /\ v \in Nat /\ q1(v) \in Nat /\ q2(v) \in Nat /\ q3(v) \in Nat /\ q4(v) \in Nat
             /\ q5(v) \in Nat /\ q6(v) \in Nat /\ q7(v) \in Nat /\ q7(v) < Radix
  <2>0. RoomIDSpace \in Nat
    BY RoomIdAssumption, SMT DEF RoomIDSpace
  <2>1. v \in Nat /\ v < Radix * M7
    <3> HIDE DEF M7
    <3> QED BY <1>1, <2>0, SMT
  <2> HIDE DEF M7
  <2>2. q1(v) \in Nat /\ q1(v) < M7 BY <1>1, <1>2, <2>1, DivBound
  <2> USE DEF M7
  <2> HIDE DEF M6, q1
  <2>3. q2(v) \in Nat /\ q2(v) < M6 BY <1>1, <1>2, <2>2, DivBound
  <2> USE DEF M6
  <2> HIDE DEF M5, q2
  <2>4. q3(v) \in Nat /\ q3(v) < M5 BY <1>1, <1>2, <2>3, DivBound
  <2> USE DEF M5
  <2> HIDE DEF M4, q3
  <2>5. q4(v) \in Nat /\ q4(v) < M4 BY <1>1, <1>2, <2>4, DivBound
  <2> USE DEF M4
  <2> HIDE DEF M3, q4
  <2>6. q5(v) \in Nat /\ q5(v) < M3 BY <1>1, <1>2, <2>5, DivBound
  <2> USE DEF M3
  <2> HIDE DEF M2, q5
  <2>7. q6(v) \in Nat /\ q6(v) < M2 BY <1>1, <1>2, <2>6, DivBound
  <2> USE DEF M2
  <2> HIDE DEF q6
  <2>8. q7(v) \in Nat /\ q7(v) < Radix BY <1>1, <1>2, <2>7, DivBound
  <2> QED BY <2>1, <2>2, <2>3, <2>4, <2>5, <2>6, <2>7, <2>8
<1>4. \A v : EncodeBase62Fixed(v) =
        <<q7(v) % Radix, q6(v) % Radix, q5(v) % Radix, q4(v) % Radix,
          q3(v) % Radix, q2(v) % Radix, q1(v) % Radix, v % Radix>>
  BY DEF EncodeBase62Fixed
<1>5. \A n \in Nat : n % Radix \in Digits
  BY <1>1, DivMod DEF Digits
<1>6. EncodeBase62Fixed(a) \in IdType
  <2> HIDE DEF q1, q2, q3, q4, q5, q6, q7
  <2> QED BY <1>3, <1>4, <1>5 DEF IdType
<1>7. ASSUME NEW b \in 0 .. RoomIDSpace - 1, EncodeBase62Fixed(a) = EncodeBase62Fixed(b)
      PROVE  a = b
  <2>1. /\ q7(a) % Radix = q7(b) % Radix /\ q6(a) % Radix = q6(b) % Radix
        /\ q5(a) % Radix = q5(b) % Radix /\ q4(a) % Radix = q4(b) % Radix
        /\ q3(a) % Radix = q3(b) % Radix /\ q2(a) % Radix = q2(b) % Radix
        /\ q1(a) % Radix = q1(b) % Radix /\ a % Radix = b % Radix
    <3> HIDE DEF q1, q2, q3, q4, q5, q6, q7
    <3> QED BY <1>4, <1>7
  <2>0. /\ q1(a) = a \div Radix /\ q2(a) = q1(a) \div Radix /\ q3(a) = q2(a) \div Radix
        /\ q4(a) = q3(a) \div Radix /\ q5(a) = q4(a) \div Radix
        /\ q6(a) = q5(a) \div Radix /\ q7(a) = q6(a) \div Radix
        /\ q1(b) = b \div Radix /\ q2(b) = q1(b) \div Radix /\ q3(b) = q2(b) \div Radix
        /\ q4(b) = q3(b) \div Radix /\ q5(b) = q4(b) \div Radix
        /\ q6(b) = q5(b) \div Radix /\ q7(b) = q6(b) \div Radix
    OBVIOUS
  <2>n. /\ a \in Nat /\ q1(a) \in Nat /\ q2(a) \in Nat /\ q3(a) \in Nat /\ q4(a) \in Nat
        /\ q5(a) \in Nat /\ q6(a) \in Nat /\ q7(a) \in Nat /\ q7(a) < Radix
        /\ b \in Nat /\ q1(b) \in Nat /\ q2(b) \in Nat /\ q3(b) \in Nat /\ q4(b) \in Nat
        /\ q5(b) \in Nat /\ q6(b) \in Nat /\ q7(b) \in Nat /\ q7(b) < Radix
    BY <1>3
  <2> HIDE DEF q1, q2, q3, q4, q5, q6, q7
  <2>2. q7(a) = q7(b)
    BY <1>1, <2>n, <2>1, ModSmall
  <2>i. \A u, v \in Nat : u \div Radix = v \div Radix /\ u % Radix = v % Radix => u = v
    BY <1>1, DivModInjective
  <2>3. q6(a) = q6(b)
    BY <2>n, <2>0, <2>1, <2>2, <2>i, Zenon
  <2>4. q5(a) = q5(b)
    BY <2>n, <2>0, <2>1, <2>3, <2>i, Zenon
  <2>5. q4(a) = q4(b)
    BY <2>n, <2>0, <2>1, <2>4, <2>i, Zenon
  <2>6. q3(a) = q3(b)
    BY <2>n, <2>0, <2>1, <2>5, <2>i, Zenon
  <2>7. q2(a) = q2(b)
    BY <2>n, <2>0, <2>1, <2>6, <2>i, Zenon
  <2>8. q1(a) = q1(b)
    BY <2>n, <2>0, <2>1, <2>7, <2>i, Zenon
  <2>9. a = b
    BY <2>n, <2>0, <2>1, <2>8, <2>i, Zenon
  <2> QED BY <2>9
<1> QED BY <1>6, <1>7

\* The ids of one turn through the id space are all different.
LEMMA NumbersDistinct ==
    \A m, n \in 1 .. RoomIDSpace : RoomId(m) = RoomId(n) => m = n
<1> SUFFICES ASSUME NEW m \in 1 .. RoomIDSpace, NEW n \in 1 .. RoomIDSpace,
                    RoomId(m) = RoomId(n)
             PROVE  m = n
  OBVIOUS
<1>1. RoomIDSpace \in Nat
  BY RoomIdAssumption, SMT DEF RoomIDSpace
<1>2. /\ m - 1 \in Nat /\ m - 1 < RoomIDSpace /\ n - 1 \in Nat /\ n - 1 < RoomIDSpace
      /\ RoomIDSpace \in Nat \ {0}
      /\ m - 1 \in 0 .. RoomIDSpace - 1 /\ n - 1 \in 0 .. RoomIDSpace - 1
  BY <1>1, SMT
<1>3. (m - 1) % RoomIDSpace = m - 1 /\ (n - 1) % RoomIDSpace = n - 1
  BY <1>2, ModSmall
<1>4. EncodeBase62Fixed(FeistelObfuscate(m - 1)) = EncodeBase62Fixed(FeistelObfuscate(n - 1))
  BY <1>3 DEF RoomId
<1>5. FeistelObfuscate(m - 1) = FeistelObfuscate(n - 1)
  BY <1>2, <1>4, EncodeInjective, ObfuscateInjective
<1>6. m - 1 = n - 1
  BY <1>2, <1>5, ObfuscateInjective
<1> QED BY <1>1, <1>6, SMT

\* room_id_generator.go New: a number that was drawn shares its id with no other number
\* of the turn, for every size of the id space, every mixing function and mask.
THEOREM DistinctIds == RoomIdSpec => []IdsAreDistinct
<1>1. IdsAreDistinct
  BY NumbersDistinct DEF IdsAreDistinct
<1> QED BY <1>1, PTL

----------------------------------------------------------------------------
\* Every number is given an id of eight digits.
LEMMA IdWellFormed ==
    ASSUME NEW n \in Nat, n > 0
    PROVE  RoomId(n) \in IdType
<1>1. RoomIDSpace \in Nat \ {0} /\ n - 1 \in Nat
  <2>1. HalfBase \in Nat \ {0}
    BY RoomIdAssumption
  <2>2. HalfBase * HalfBase \in Nat /\ HalfBase * HalfBase >= HalfBase
    BY <2>1, SMT
  <2> QED BY <2>1, <2>2, SMT DEF RoomIDSpace
<1>2. (n - 1) % RoomIDSpace \in 0 .. RoomIDSpace - 1
  BY <1>1, DivMod
<1>3. FeistelObfuscate((n - 1) % RoomIDSpace) \in 0 .. RoomIDSpace - 1
  BY <1>2, ObfuscateInjective
<1> QED BY <1>3, EncodeInjective DEF RoomId

\* room_id_generator.go, room_id_sequence.go, room_repo.go: types, and ids of eight digits.
THEOREM IdTypes == RoomIdSpec => []RoomIdTypeOK
<1>1. RoomIdInit => RoomIdTypeOK
  <2> SUFFICES ASSUME RoomIdInit PROVE RoomIdTypeOK
    OBVIOUS
  <2>1. rooms \subseteq IdType
    <3>1. \A n \in 1 .. Start : n \in Nat /\ n > 0
      BY RoomIdAssumption, SMT
    <3> QED BY <3>1, IdWellFormed DEF RoomIdInit
  <2> QED BY <2>1, RoomIdAssumption DEF RoomIdInit, RoomIdTypeOK, IdType
<1>2. RoomIdTypeOK /\ [RoomIdNext]_idVars => RoomIdTypeOK'
  <2> SUFFICES ASSUME RoomIdTypeOK, [RoomIdNext]_idVars PROVE RoomIdTypeOK'
    OBVIOUS
  <2>1. ASSUME NEW c \in Calls, NextNumber(c) PROVE RoomIdTypeOK'
    BY <2>1 DEF NextNumber, RoomIdTypeOK
  <2>2. ASSUME NEW c \in Calls, NextFails(c) PROVE RoomIdTypeOK'
    BY <2>2 DEF NextFails, CreateReturn, RoomIdTypeOK
  <2>3. ASSUME NEW c \in Calls, InsertRoom(c) \/ CreateFails(c) PROVE RoomIdTypeOK'
    <3>1. RoomId(drawn[c]) \in IdType
      <4>1. drawn[c] \in Nat /\ drawn[c] > 0
        BY <2>3 DEF InsertRoom, CreateFails, RoomIdTypeOK
      <4> QED BY <4>1, IdWellFormed
    <3>2. rooms' \in {rooms, rooms \cup {RoomId(drawn[c])}}
      BY <2>3 DEF InsertRoom, CreateFails
    <3>3. rooms' \subseteq IdType
      BY <3>1, <3>2 DEF RoomIdTypeOK, IdType
    <3>4. /\ sequence' = sequence /\ drawn' = drawn /\ losses' = losses
          /\ createAt' = [createAt EXCEPT ![c] = "done"]
          /\ \E r \in {"ok", "exists", "error"} : createAnswer' = [createAnswer EXCEPT ![c] = r]
      BY <2>3 DEF InsertRoom, CreateFails, CreateReturn
    <3> HIDE DEF IdType
    <3>5. /\ createAt' \in [Calls -> {"next", "create", "done"}]
          /\ createAnswer' \in [Calls -> {"none", "ok", "exists", "error"}]
          /\ \A d \in Calls : createAt'[d] = "create" => drawn'[d] > 0
      BY <3>4 DEF RoomIdTypeOK
    <3> QED BY <3>3, <3>4, <3>5 DEF RoomIdTypeOK, IdType
  <2>4. CASE LoseSequence
    BY <2>4 DEF LoseSequence, RoomIdTypeOK
  <2>5. CASE UNCHANGED idVars
    BY <2>5 DEF idVars, RoomIdTypeOK
  <2> QED BY <2>1, <2>2, <2>3, <2>4, <2>5 DEF RoomIdNext
<1> QED BY <1>1, <1>2, PTL DEF RoomIdSpec

----------------------------------------------------------------------------
\* Before the first loss and the first wrap, the rooms have ids of numbers that were
\* drawn, and the numbers the calls hold are drawn, different, and not used yet.
Fresh == losses = 0 /\ sequence <= RoomIDSpace

RoomsDrawn == \A r \in rooms : \E n \in 1 .. sequence : r = RoomId(n)

CallsDistinct ==
    \A c \in Calls : createAt[c] = "create" =>
        /\ drawn[c] \in 1 .. sequence
        /\ RoomId(drawn[c]) \notin rooms
        /\ \A d \in Calls : createAt[d] = "create" /\ d # c => drawn[d] # drawn[c]

NoConflict == \A c \in Calls : createAnswer[c] # "exists"

IdInv == Fresh => RoomsDrawn /\ CallsDistinct /\ NoConflict

\* What NumbersDistinct says of two numbers drawn while the counter is fresh.
LEMMA FreshIds ==
    ASSUME NEW s \in Nat, s <= RoomIDSpace
    PROVE  \A m, n \in 1 .. s : RoomId(m) = RoomId(n) => m = n
<1>1. RoomIDSpace \in Nat
  BY RoomIdAssumption, SMT DEF RoomIDSpace
<1>2. \A m \in 1 .. s : m \in 1 .. RoomIDSpace
  BY <1>1, SMT
<1> QED BY <1>2, NumbersDistinct

LEMMA IdInvInit == RoomIdInit => IdInv
  BY RoomIdAssumption DEF RoomIdInit, IdInv, Fresh, RoomsDrawn, CallsDistinct, NoConflict

LEMMA IdInvStep == RoomIdTypeOK /\ IdInv /\ [RoomIdNext]_idVars => IdInv'
<1> SUFFICES ASSUME RoomIdTypeOK, IdInv, [RoomIdNext]_idVars, Fresh'
             PROVE  RoomsDrawn' /\ CallsDistinct' /\ NoConflict'
  BY DEF IdInv
<1>t. RoomIDSpace \in Nat /\ sequence \in Nat /\ losses \in Nat
  BY RoomIdAssumption, SMT DEF RoomIDSpace, RoomIdTypeOK
<1>1. ASSUME NEW c \in Calls, NextNumber(c)
      PROVE  RoomsDrawn' /\ CallsDistinct' /\ NoConflict'
  <2>1. /\ RoomsDrawn /\ CallsDistinct /\ NoConflict
        /\ sequence + 1 \in Nat /\ sequence + 1 <= RoomIDSpace
    BY <1>t, <1>1 DEF NextNumber, Fresh, IdInv
  <2>2. \A m, n \in 1 .. sequence + 1 : RoomId(m) = RoomId(n) => m = n
    BY <2>1, FreshIds
  <2>3. \A m \in 1 .. sequence : m \in 1 .. sequence + 1 /\ m # sequence + 1
    BY <1>t, SMT
  <2>4. sequence + 1 \in 1 .. sequence + 1
    BY <1>t, SMT
  <2>5. RoomId(sequence + 1) \notin rooms
    BY <2>1, <2>2, <2>3, <2>4 DEF RoomsDrawn
  <2>6. RoomsDrawn'
    BY <1>1, <2>1, <2>3 DEF NextNumber, RoomsDrawn
  <2>7. CallsDistinct'
    <3>1. /\ \A d \in Calls \ {c} : createAt'[d] = createAt[d] /\ drawn'[d] = drawn[d]
          /\ drawn'[c] = sequence + 1 /\ sequence' = sequence + 1 /\ rooms' = rooms
      BY <1>1 DEF NextNumber, RoomIdTypeOK
    <3>2. ASSUME NEW d \in Calls, d # c, createAt'[d] = "create"
          PROVE  /\ drawn'[d] \in 1 .. sequence + 1 /\ drawn'[d] # sequence + 1
                 /\ RoomId(drawn'[d]) \notin rooms
      BY <2>1, <2>3, <3>1, <3>2 DEF CallsDistinct
    <3>3. ASSUME NEW d \in Calls, NEW f \in Calls, d # c, f # c, f # d,
                 createAt'[d] = "create", createAt'[f] = "create"
          PROVE  drawn'[d] # drawn'[f]
      BY <2>1, <3>1, <3>3 DEF CallsDistinct
    <3> QED BY <2>4, <2>5, <3>1, <3>2, <3>3 DEF CallsDistinct
  <2> QED BY <1>1, <2>1, <2>6, <2>7 DEF NextNumber, NoConflict
<1>2. ASSUME NEW c \in Calls, NextFails(c)
      PROVE  RoomsDrawn' /\ CallsDistinct' /\ NoConflict'
  <2>1. RoomsDrawn /\ CallsDistinct /\ NoConflict
    BY <1>t, <1>2 DEF NextFails, Fresh, IdInv
  <2>2. \A m \in 1 .. sequence : m \in 1 .. sequence'
    BY <1>t, <1>2, SMT DEF NextFails
  <2>3. RoomsDrawn'
    BY <1>2, <2>1, <2>2 DEF NextFails, RoomsDrawn
  <2>4. /\ \A d \in Calls : createAt'[d] = "create" => createAt[d] = "create"
        /\ \A d \in Calls : createAnswer'[d] # "exists"
        /\ drawn' = drawn /\ rooms' = rooms
    BY <1>2, <2>1 DEF NextFails, CreateReturn, RoomIdTypeOK, NoConflict
  <2>5. CallsDistinct'
    BY <2>1, <2>2, <2>4 DEF CallsDistinct
  <2> QED BY <2>3, <2>4, <2>5 DEF NoConflict
<1>3. ASSUME NEW c \in Calls, InsertRoom(c) \/ CreateFails(c)
      PROVE  RoomsDrawn' /\ CallsDistinct' /\ NoConflict'
  <2>1. /\ RoomsDrawn /\ CallsDistinct /\ NoConflict /\ createAt[c] = "create"
        /\ sequence' = sequence /\ drawn' = drawn /\ sequence <= RoomIDSpace
        /\ rooms' \in {rooms, rooms \cup {RoomId(drawn[c])}}
    BY <1>3 DEF InsertRoom, CreateFails, Fresh, IdInv
  <2>2. RoomId(drawn[c]) \notin rooms /\ drawn[c] \in 1 .. sequence
    BY <2>1 DEF CallsDistinct
  <2>3. /\ createAt' = [createAt EXCEPT ![c] = "done"]
        /\ \E r \in {"ok", "error"} : createAnswer' = [createAnswer EXCEPT ![c] = r]
    BY <1>3, <2>2 DEF InsertRoom, CreateFails, CreateReturn
  <2>4. \A m, n \in 1 .. sequence : RoomId(m) = RoomId(n) => m = n
    BY <1>t, <2>1, FreshIds
  <2>5. RoomsDrawn'
    BY <2>1, <2>2 DEF RoomsDrawn
  <2>6. ASSUME NEW d \in Calls, createAt'[d] = "create"
        PROVE  d # c /\ createAt[d] = "create"
    BY <2>3, <2>6 DEF RoomIdTypeOK
  <2>7. ASSUME NEW d \in Calls, createAt'[d] = "create"
        PROVE  drawn[d] \in 1 .. sequence /\ RoomId(drawn[d]) \notin rooms'
    <3>1. /\ drawn[d] \in 1 .. sequence /\ RoomId(drawn[d]) \notin rooms
          /\ drawn[d] # drawn[c]
      BY <2>1, <2>6, <2>7 DEF CallsDistinct
    <3>2. RoomId(drawn[d]) # RoomId(drawn[c])
      BY <2>2, <2>4, <3>1
    <3> QED BY <2>1, <3>1, <3>2
  <2>8. CallsDistinct'
    BY <2>1, <2>6, <2>7 DEF CallsDistinct
  <2>9. NoConflict'
    BY <2>1, <2>3 DEF NoConflict, RoomIdTypeOK
  <2> QED BY <2>5, <2>8, <2>9
<1>4. CASE LoseSequence
  BY <1>4, <1>t DEF LoseSequence, Fresh
<1>5. CASE UNCHANGED idVars
  BY <1>5 DEF idVars, IdInv, Fresh, RoomsDrawn, CallsDistinct, NoConflict
<1> QED BY <1>1, <1>2, <1>3, <1>4, <1>5 DEF RoomIdNext

\* create_room.go CreateRoom: an id is taken only after the counter was lost or wrapped.
THEOREM ConflictsExplained == RoomIdSpec => []ConflictOnlyAfterLossOrWrap
<1>1. RoomIdTypeOK /\ IdInv => ConflictOnlyAfterLossOrWrap
  <2> SUFFICES ASSUME RoomIdTypeOK, IdInv, NEW c \in Calls, createAnswer[c] = "exists"
               PROVE  losses > 0 \/ sequence > RoomIDSpace
    BY DEF ConflictOnlyAfterLossOrWrap
  <2>1. ~Fresh
    BY DEF IdInv, NoConflict
  <2>2. RoomIDSpace \in Nat
    BY RoomIdAssumption, SMT DEF RoomIDSpace
  <2> QED BY <2>1, <2>2 DEF Fresh, RoomIdTypeOK
<1> QED BY <1>1, IdTypes, IdInvInit, IdInvStep, PTL DEF RoomIdSpec

----------------------------------------------------------------------------
\* CircuitBreaker.

\* The counters keep their types, and a call behind the breaker is one of the operations
\* the breaker wraps.
BreakerCounts ==
    /\ wrapped \in Wrapped /\ state \in {"closed", "open", "half-open"}
    /\ flight \in [Callers -> [op : {"none"} \cup wrapped, gen : Nat]]
    /\ generation \in Nat /\ inARow \in 0 .. Threshold /\ requests \in Nat
    /\ subscribed \subseteq Callers /\ fresh \subseteq Callers /\ errors \in Nat

\* While the breaker is closed the calls begun since it closed are those of its generation,
\* and gobreaker has counted no failure that is not an error of one of them.
BreakerInv ==
    /\ BreakerCounts
    /\ \A c \in Callers : flight[c].gen <= generation
    /\ state = "closed" =>
          /\ \A c \in Callers : c \in fresh <=> flight[c] # NoFlight /\ flight[c].gen = generation
          /\ inARow <= errors
    /\ CutOffOnlyByErrorsInARow

LEMMA BreakerInvInit == BreakerInit => BreakerInv
  BY BreakerAssumption DEF BreakerAssumption, BreakerInit, BreakerInv, BreakerCounts, NoFlight,
                           CutOffOnlyByErrorsInARow

LEMMA WrappedIsNamed == \A w \in Wrapped : "none" \notin w
  BY DEF Wrapped, RoomOps, AckOps, PresenceOps, PushTokenOps, StreamOps, RoomIdOps, ClientOps,
         NotifierOps

LEMMA ReturnsKeepsBreaker ==
    ASSUME BreakerInv, NEW c \in Callers, Returns(c)
    PROVE  BreakerInv'
<1>0. Threshold \in Nat
  BY BreakerAssumption DEF BreakerAssumption
<1>1. PICK success \in {storeUp, FALSE} : AfterRequest(c, success) /\ Noted(c, success)
  BY DEF Returns
<1>2. /\ flight[c] # NoFlight /\ flight' = [flight EXCEPT ![c] = NoFlight]
      /\ UNCHANGED <<wrapped, subscribed>>
  BY DEF Returns
<1>3. /\ flight'[c] = NoFlight /\ \A d \in Callers \ {c} : flight'[d] = flight[d]
      /\ flight' \in [Callers -> [op : {"none"} \cup wrapped, gen : Nat]]
  BY <1>2 DEF BreakerInv, BreakerCounts, NoFlight
<1>4. ASSUME UNCHANGED <<state, generation, inARow, requests>>,
             \/ state # "closed"
             \/ c \notin fresh /\ flight[c].gen # generation
      PROVE  BreakerInv'
  <2>1. errors' = errors /\ fresh' = fresh \ {c}
    BY <1>1, <1>4 DEF Noted
  <2> QED BY <1>2, <1>3, <1>4, <2>1
          DEF BreakerInv, BreakerCounts, NoFlight, CutOffOnlyByErrorsInARow
<1>5. CASE flight[c].gen # generation
  <2>1. UNCHANGED <<state, generation, inARow, requests>>
    BY <1>1, <1>5 DEF AfterRequest, counts
  <2>2. state = "closed" => c \notin fresh
    BY <1>5 DEF BreakerInv
  <2> QED BY <1>4, <1>5, <2>1, <2>2
<1>6. CASE flight[c].gen = generation /\ state = "closed"
  <2>1. c \in fresh /\ inARow <= errors
    BY <1>2, <1>6 DEF BreakerInv
  <2>2. fresh' = fresh \ {c} /\ errors' = IF success THEN 0 ELSE errors + 1
    BY <1>1, <1>6, <2>1 DEF Noted
  <2>3. CASE success
    <3>1. UNCHANGED <<state, generation, requests>> /\ inARow' = 0
      BY <1>1, <1>6, <2>3 DEF AfterRequest, OnSuccess
    <3> QED BY <1>0, <1>2, <1>3, <1>6, <2>2, <2>3, <3>1
            DEF BreakerInv, BreakerCounts, NoFlight, CutOffOnlyByErrorsInARow
  <2>4. CASE ~success /\ inARow < Threshold
    <3>0. ~(inARow >= Threshold)
      BY <1>0, <2>4 DEF BreakerInv, BreakerCounts
    <3>1. UNCHANGED <<state, generation, requests>> /\ inARow' = inARow + 1
      BY <1>1, <1>6, <2>4, <3>0 DEF AfterRequest, OnFailure
    <3>2. inARow' \in 0 .. Threshold /\ inARow' <= errors' /\ errors' \in Nat
      BY <1>0, <2>1, <2>2, <2>4, <3>1 DEF BreakerInv, BreakerCounts
    <3> QED BY <1>2, <1>3, <1>6, <2>2, <3>1, <3>2
            DEF BreakerInv, BreakerCounts, NoFlight, CutOffOnlyByErrorsInARow
  <2>5. CASE ~success /\ ~(inARow < Threshold)
    <3>1. state' = "open" /\ generation' = generation + 1 /\ inARow' = 0 /\ requests' = 0
      BY <1>1, <1>6, <2>5 DEF AfterRequest, OnFailure, SetState
    <3>2. errors' \in Nat /\ errors' > Threshold
      BY <1>0, <2>1, <2>2, <2>5 DEF BreakerInv, BreakerCounts
    <3>3. \A d \in Callers : flight'[d].gen <= generation'
      BY <1>3, <3>1 DEF BreakerInv, BreakerCounts, NoFlight
    <3> QED BY <1>0, <1>2, <1>3, <2>2, <3>1, <3>2, <3>3
            DEF BreakerInv, BreakerCounts, CutOffOnlyByErrorsInARow
  <2> QED BY <2>3, <2>4, <2>5
<1>7. CASE flight[c].gen = generation /\ state # "closed"
  <2>0. \A d \in Callers : flight'[d].gen <= generation /\ flight'[d].gen \in Nat
    BY <1>3 DEF BreakerInv, BreakerCounts, NoFlight
  <2>1. /\ state' \in {"open", "closed"} /\ generation' = generation + 1
        /\ inARow' = 0 /\ requests' = 0
    BY <1>1, <1>7 DEF AfterRequest, OnSuccess, OnFailure, SetState
  <2>2. \A d \in Callers : flight'[d].gen < generation'
    BY <2>0, <2>1 DEF BreakerInv, BreakerCounts
  <2>3. CASE state' = "closed"
    <3>1. fresh' = {} /\ errors' = 0
      BY <1>1, <1>7, <2>3 DEF Noted
    <3> QED BY <1>0, <1>2, <1>3, <2>0, <2>1, <2>2, <2>3, <3>1
            DEF BreakerInv, BreakerCounts, CutOffOnlyByErrorsInARow
  <2>4. CASE state' = "open"
    <3>1. fresh' = fresh \ {c} /\ errors' = errors
      BY <1>1, <1>7, <2>4 DEF Noted
    <3> QED BY <1>0, <1>2, <1>3, <1>7, <2>0, <2>1, <2>2, <2>4, <3>1
            DEF BreakerInv, BreakerCounts, CutOffOnlyByErrorsInARow
  <2> QED BY <2>1, <2>3, <2>4
<1> QED BY <1>5, <1>6, <1>7

LEMMA BreakerInvStep == BreakerInv /\ [BreakerNext]_breakerVars => BreakerInv'
<1> SUFFICES ASSUME BreakerInv, [BreakerNext]_breakerVars PROVE BreakerInv'
  OBVIOUS
<1>0. Threshold \in Nat
  BY BreakerAssumption DEF BreakerAssumption
<1>1. ASSUME NEW c \in Callers, BeforeRequest(c) PROVE BreakerInv'
  <2>1. PICK op \in wrapped : flight' = [flight EXCEPT ![c] = [op |-> op, gen |-> generation]]
    BY <1>1 DEF BeforeRequest
  <2>2. /\ UNCHANGED <<wrapped, state, generation, inARow, subscribed, errors>>
        /\ fresh' = fresh \cup {c} /\ requests' = requests + 1
    BY <1>1 DEF BeforeRequest
  <2>3. op # "none"
    BY WrappedIsNamed DEF BreakerInv, BreakerCounts
  <2>4. /\ flight'[c] = [op |-> op, gen |-> generation] /\ flight'[c] # NoFlight
        /\ flight' \in [Callers -> [op : {"none"} \cup wrapped, gen : Nat]]
        /\ \A d \in Callers \ {c} : flight'[d] = flight[d]
    BY <2>1, <2>3 DEF BreakerInv, BreakerCounts, NoFlight
  <2> QED BY <2>2, <2>4 DEF BreakerInv, BreakerCounts, CutOffOnlyByErrorsInARow
<1>2. ASSUME NEW c \in Callers, Returns(c) PROVE BreakerInv'
  BY <1>2, ReturnsKeepsBreaker
<1>3. ASSUME NEW c \in Callers, Subscribe(c) PROVE BreakerInv'
  <2>1. UNCHANGED <<wrapped, state, generation, inARow, requests, flight, fresh, errors>>
        /\ subscribed' = subscribed \cup {c}
    BY <1>3 DEF Subscribe, counts, history
  <2> QED BY <2>1 DEF BreakerInv, BreakerCounts, CutOffOnlyByErrorsInARow
<1>4. CASE Timeout
  <2>1. /\ state = "open" /\ state' = "half-open" /\ generation' = generation + 1 /\ inARow' = 0
        /\ requests' = 0 /\ UNCHANGED <<wrapped, flight, subscribed, fresh, errors>>
    BY <1>4 DEF Timeout, SetState, history
  <2>2. \A c \in Callers : flight[c].gen <= generation + 1
    BY DEF BreakerInv, BreakerCounts
  <2> QED BY <1>0, <2>1, <2>2 DEF BreakerInv, BreakerCounts, CutOffOnlyByErrorsInARow
<1>5. CASE StoreFlips \/ UNCHANGED breakerVars
  <2>1. UNCHANGED <<wrapped, state, generation, inARow, requests, flight, subscribed, fresh, errors>>
    BY <1>5 DEF StoreFlips, counts, history, breakerVars
  <2> QED BY <2>1 DEF BreakerInv, BreakerCounts, CutOffOnlyByErrorsInARow
<1> QED BY <1>1, <1>2, <1>3, <1>4, <1>5 DEF BreakerNext

\* The decorators around the repositories, for any threshold and any number of callers: calls
\* are turned away only after more than Threshold errors in a row of calls begun since the
\* breaker last closed, in whatever order the answers come.
THEOREM OnlyErrorsInARowCutOff == BreakerSpec => []CutOffOnlyByErrorsInARow
<1>1. BreakerInv => CutOffOnlyByErrorsInARow
  BY DEF BreakerInv
<1> QED BY <1>1, BreakerInvInit, BreakerInvStep, PTL DEF BreakerSpec

----------------------------------------------------------------------------
\* PushTokens.

PushTypes ==
    /\ day \in 0 .. MaxDay /\ expireAt \in Nat
    /\ tokens \in [Devices -> PushCalls \cup {NoToken}]
    /\ pushOp \in [PushCalls -> PushOps]
    /\ pushAt \in [PushCalls -> {"register", "expire", "delete", "notify", "push", "done"}]
    /\ pushResult \in [PushCalls -> {"none", "ok", "error"}]
    /\ ackDay \in [PushCalls -> Nat] /\ \A c \in PushCalls : ackDay[c] <= day
    /\ targets \in [PushCalls -> SUBSET (PushCalls \cup {NoToken})]
    /\ tried \in [PushCalls -> SUBSET (PushCalls \cup {NoToken})]
    /\ expected \in [PushCalls -> SUBSET PushCalls]

\* A call is at a request of its kind, and has a result when it is done.
PositionInv ==
    \A c \in PushCalls :
        /\ pushAt[c] \in {"register", "expire"} => pushOp[c].kind = "register"
        /\ pushAt[c] = "delete" => pushOp[c].kind = "delete"
        /\ pushAt[c] \in {"notify", "push"} => pushOp[c].kind = "notify"
        /\ (pushResult[c] = "none") <=> (pushAt[c] # "done")

\* A registration that was neither replaced, deleted nor cut in two by the expiry is in the
\* hash, which lives as long as the last acknowledgement promised.
Kept(c) ==
    /\ pushAt[c] = "expire" => tokens[Device(c)] = c
    /\ pushResult[c] = "ok" =>
          \/ tokens[Device(c)] = c /\ expireAt >= ackDay[c] + TokenTtl
          \/ day >= ackDay[c] + TokenTtl

HashInv ==
    \A c \in PushCalls :
        pushOp[c].kind = "register" /\ c \notin removed \cup slipped => Kept(c)

\* What a notification must push to it has pushed to or has still in its list.
NotifyInv ==
    \A n \in PushCalls : pushAt[n] = "push" =>
        \A c \in expected[n] :
            PlatformOf[Device(c)] \in Endpoints => c \in targets[n] \cup tried[n]

PushInv ==
    /\ PushTypes /\ PositionInv /\ HashInv /\ NotifyInv
    /\ RegisteredDeviceIsTried /\ EndlessOnlyAfterFailure

LEMMA PushInvInit == PushInit => PushInv
<1> SUFFICES ASSUME PushInit PROVE PushInv
  OBVIOUS
<1>1. PushTypes
  BY PushAssumption DEF PushAssumption, PushInit, PushTypes, PushOps, Never
<1>2. PositionInv /\ NotifyInv /\ RegisteredDeviceIsTried
  BY DEF PushInit, PushOps, PositionInv, NotifyInv, RegisteredDeviceIsTried
<1>3. HashInv
  BY DEF PushInit, PushOps, HashInv, Kept
<1>4. EndlessOnlyAfterFailure
  BY DEF PushInit, EndlessOnlyAfterFailure, Present
<1> QED BY <1>1, <1>2, <1>3, <1>4 DEF PushInv

\* A call that returns or goes on, and what that leaves of the others.
LEMMA PushMoves ==
    ASSUME PushTypes, NEW c \in PushCalls, NEW r \in {"ok", "error"}, NEW l
    PROVE  /\ PushReturn(c, r) =>
                 /\ pushAt'[c] = "done" /\ pushResult'[c] = r
                 /\ \A d \in PushCalls \ {c} :
                       pushAt'[d] = pushAt[d] /\ pushResult'[d] = pushResult[d]
                 /\ pushAt' \in [PushCalls -> {"register", "expire", "delete", "notify",
                                               "push", "done"}]
                 /\ pushResult' \in [PushCalls -> {"none", "ok", "error"}]
           /\ PushGoto(c, l) =>
                 /\ pushAt'[c] = l /\ pushResult' = pushResult
                 /\ \A d \in PushCalls \ {c} : pushAt'[d] = pushAt[d]
                 /\ l \in {"expire", "push"} =>
                       pushAt' \in [PushCalls -> {"register", "expire", "delete", "notify",
                                                  "push", "done"}]
BY DEF PushTypes, PushReturn, PushGoto

LEMMA HsetKeeps ==
    ASSUME PushInv, NEW c \in PushCalls, Hset(c)
    PROVE  PushInv'
<1> USE DEF PushInv
<1>0. /\ UNCHANGED <<day, pushOp, ackDay, targets, tried, expected, slipped>>
      /\ pushAt[c] = "register" /\ pushOp[c].kind = "register" /\ Device(c) \in Devices
      /\ pushResult[c] = "none"
  BY DEF Hset, notifyVars, PositionInv, PushTypes, PushOps, Device
<1>1. /\ \/ pushAt'[c] = "expire" /\ pushResult'[c] = "none"
         \/ pushAt'[c] = "done" /\ pushResult'[c] = "error"
      /\ \A d \in PushCalls \ {c} : pushAt'[d] = pushAt[d] /\ pushResult'[d] = pushResult[d]
      /\ pushAt' \in [PushCalls -> {"register", "expire", "delete", "notify", "push", "done"}]
      /\ pushResult' \in [PushCalls -> {"none", "ok", "error"}]
  BY <1>0, PushMoves DEF Hset, PushTypes
<1>2. /\ expireAt' = expireAt
      /\ \/ tokens' = tokens /\ removed' = removed /\ pushAt'[c] = "done"
         \/ /\ tokens' = [tokens EXCEPT ![Device(c)] = c]
            /\ removed' = removed \cup ({tokens[Device(c)]} \ {NoToken})
  BY <1>1, PushMoves DEF Hset, HsetEffect, hash
<1>3. PushTypes'
  BY <1>0, <1>1, <1>2 DEF PushTypes
<1>4. PositionInv'
  BY <1>0, <1>1 DEF PositionInv
<1>5. HashInv'
  <2> SUFFICES ASSUME NEW d \in PushCalls, pushOp[d].kind = "register",
                      d \notin (removed \cup slipped)'
               PROVE  Kept(d)'
    BY <1>0 DEF HashInv
  <2>1. CASE d = c
    BY <2>1, <1>0, <1>1, <1>2 DEF Kept, Device, PushTypes
  <2>2. CASE d # c
    <3>1. Kept(d)
      BY <1>0, <1>2 DEF HashInv
    <3>2. pushOp'[d] = pushOp[d] /\ pushAt'[d] = pushAt[d] /\ pushResult'[d] = pushResult[d]
      BY <1>0, <1>1, <2>2
    <3>3. tokens[Device(d)] = d => tokens'[Device(d)] = d
      <4>1. d # NoToken
        BY PushAssumption DEF PushAssumption
      <4>2. Device(d) \in Devices
        BY DEF PushTypes, PushOps, Device
      <4> QED BY <1>2, <4>1, <4>2 DEF PushTypes
    <3> QED BY <1>0, <1>2, <3>1, <3>2, <3>3 DEF Kept, Device
  <2> QED BY <2>1, <2>2
<1>6. NotifyInv' /\ RegisteredDeviceIsTried'
  BY <1>0, <1>1 DEF NotifyInv, RegisteredDeviceIsTried, Device
<1>7. EndlessOnlyAfterFailure'
  BY <1>0, <1>1 DEF EndlessOnlyAfterFailure
<1> QED BY <1>3, <1>4, <1>5, <1>6, <1>7

LEMMA ExpireKeeps ==
    ASSUME PushInv, NEW c \in PushCalls, Expire(c)
    PROVE  PushInv'
<1> USE DEF PushInv
<1>0. /\ UNCHANGED <<day, tokens, pushOp, targets, tried, expected, removed, slipped>>
      /\ pushAt[c] = "expire" /\ pushOp[c].kind = "register" /\ Device(c) \in Devices
      /\ pushResult[c] = "none"
  BY DEF Expire, notifyVars, marks, PositionInv, PushTypes, PushOps, Device
<1>1. /\ pushAt'[c] = "done"
      /\ \A d \in PushCalls \ {c} : pushAt'[d] = pushAt[d] /\ pushResult'[d] = pushResult[d]
      /\ pushAt' \in [PushCalls -> {"register", "expire", "delete", "notify", "push", "done"}]
      /\ pushResult' \in [PushCalls -> {"none", "ok", "error"}]
      /\ \/ pushResult'[c] = "ok" /\ ExpireEffect /\ ackDay' = [ackDay EXCEPT ![c] = day]
         \/ /\ pushResult'[c] = "error" /\ ackDay' = ackDay
            /\ ExpireEffect \/ expireAt' = expireAt
  BY PushMoves DEF Expire
<1>2. /\ day + TokenTtl \in Nat /\ Never \in Nat /\ day + TokenTtl < Never
      /\ \A d \in PushCalls : ackDay[d] + TokenTtl <= day + TokenTtl
  BY PushAssumption DEF PushAssumption, PushTypes, Never
<1>3. PushTypes'
  BY <1>0, <1>1, <1>2 DEF PushTypes, ExpireEffect
<1>4. PositionInv'
  BY <1>0, <1>1 DEF PositionInv
<1>5. HashInv'
  <2> SUFFICES ASSUME NEW d \in PushCalls, pushOp[d].kind = "register",
                      d \notin removed \cup slipped
               PROVE  Kept(d)'
    BY <1>0 DEF HashInv
  <2>1. CASE d = c
    <3>1. tokens[Device(c)] = c
      BY <2>1, <1>0 DEF HashInv, Kept
    <3>2. Present(tokens) # {}
      BY <3>1, <1>0, PushAssumption DEF PushAssumption, Present
    <3>3. pushResult'[c] = "ok" => expireAt' = day + TokenTtl /\ ackDay'[c] = day
      BY <3>2, <1>1 DEF ExpireEffect, PushTypes
    <3> QED BY <2>1, <1>0, <1>1, <1>2, <3>1, <3>3 DEF Kept, Device
  <2>2. CASE d # c
    <3>1. Kept(d)
      BY DEF HashInv
    <3>2. /\ pushOp'[d] = pushOp[d] /\ pushAt'[d] = pushAt[d]
          /\ pushResult'[d] = pushResult[d] /\ ackDay'[d] = ackDay[d]
      BY <1>0, <1>1, <2>2 DEF PushTypes
    <3>3. tokens[Device(d)] = d /\ expireAt >= ackDay[d] + TokenTtl
            => expireAt' >= ackDay[d] + TokenTtl
      BY <1>1, <1>2, PushAssumption DEF PushAssumption, ExpireEffect, PushTypes
    <3> QED BY <1>0, <3>1, <3>2, <3>3 DEF Kept, Device
  <2> QED BY <2>1, <2>2
<1>6. NotifyInv' /\ RegisteredDeviceIsTried'
  BY <1>0, <1>1 DEF NotifyInv, RegisteredDeviceIsTried, Device
<1>7. EndlessOnlyAfterFailure'
  <2>1. CASE pushResult'[c] = "error"
    BY <1>0, <2>1 DEF EndlessOnlyAfterFailure
  <2>2. CASE pushResult'[c] = "ok"
    BY <1>0, <1>1, <1>2, <2>2 DEF EndlessOnlyAfterFailure, ExpireEffect, Present
  <2> QED BY <1>1, <2>1, <2>2
<1> QED BY <1>3, <1>4, <1>5, <1>6, <1>7

LEMMA DeleteKeeps ==
    ASSUME PushInv, NEW c \in PushCalls, Delete(c)
    PROVE  PushInv'
<1> USE DEF PushInv
<1>0. /\ UNCHANGED <<day, pushOp, ackDay, targets, tried, expected, slipped>>
      /\ pushAt[c] = "delete" /\ pushOp[c].kind = "delete" /\ Device(c) \in Devices
      /\ pushResult[c] = "none"
  BY DEF Delete, notifyVars, PositionInv, PushTypes, PushOps, Device
<1>1. /\ pushAt'[c] = "done" /\ pushResult'[c] \in {"ok", "error"}
      /\ \A d \in PushCalls \ {c} : pushAt'[d] = pushAt[d] /\ pushResult'[d] = pushResult[d]
      /\ pushAt' \in [PushCalls -> {"register", "expire", "delete", "notify", "push", "done"}]
      /\ pushResult' \in [PushCalls -> {"none", "ok", "error"}]
  BY PushMoves DEF Delete
<1>2. \/ tokens' = tokens /\ removed' = removed /\ expireAt' = expireAt
      \/ /\ tokens' = [tokens EXCEPT ![Device(c)] = NoToken]
         /\ expireAt' = IF Present(tokens') = {} THEN Never ELSE expireAt
         /\ removed' = removed \cup ({tokens[Device(c)]} \ {NoToken})
  BY DEF Delete, HdelEffect, hash
<1>3. Never \in Nat
  BY PushAssumption DEF PushAssumption, Never
<1>4. PushTypes'
  BY <1>0, <1>1, <1>2, <1>3 DEF PushTypes
<1>5. PositionInv'
  BY <1>0, <1>1 DEF PositionInv
<1>6. HashInv'
  <2> SUFFICES ASSUME NEW d \in PushCalls, pushOp[d].kind = "register",
                      d \notin (removed \cup slipped)'
               PROVE  Kept(d)'
    BY <1>0 DEF HashInv
  <2>1. d # c /\ Device(d) \in Devices /\ d # NoToken
    BY <1>0, PushAssumption DEF PushTypes, PushOps, Device, PushAssumption
  <2>2. Kept(d)
    BY <1>0, <1>2 DEF HashInv
  <2>3. pushOp'[d] = pushOp[d] /\ pushAt'[d] = pushAt[d] /\ pushResult'[d] = pushResult[d]
    BY <1>0, <1>1, <2>1
  <2>4. tokens[Device(d)] = d => tokens'[Device(d)] = d
    BY <1>2, <2>1 DEF PushTypes
  <2>5. tokens'[Device(d)] = d => expireAt' = expireAt
    BY <1>2, <2>1 DEF Present
  <2> QED BY <1>0, <2>2, <2>3, <2>4, <2>5 DEF Kept, Device
<1>7. NotifyInv' /\ RegisteredDeviceIsTried'
  BY <1>0, <1>1 DEF NotifyInv, RegisteredDeviceIsTried, Device
<1>8. EndlessOnlyAfterFailure'
  <2>1. Present(tokens') # {} /\ expireAt' = Never => Present(tokens) # {} /\ expireAt = Never
    BY <1>0, <1>2 DEF Present, PushTypes
  <2>2. ASSUME NEW d \in PushCalls, pushOp[d].kind = "register",
               pushAt[d] = "expire" \/ pushResult[d] = "error"
        PROVE  /\ pushOp'[d].kind = "register"
               /\ pushAt'[d] = "expire" \/ pushResult'[d] = "error"
    BY <1>0, <1>1, <2>2
  <2>3. EndlessOnlyAfterFailure
    OBVIOUS
  <2> HIDE DEF PushInv
  <2> QED BY <2>1, <2>2, <2>3 DEF EndlessOnlyAfterFailure
<1> QED BY <1>4, <1>5, <1>6, <1>7, <1>8

LEMMA NotificationKeeps ==
    ASSUME PushInv, NEW n \in PushCalls, ListByUser(n) \/ NotifyMessage(n)
    PROVE  PushInv'
<1> USE DEF PushInv
<1>0. /\ UNCHANGED <<day, tokens, expireAt, pushOp, ackDay, removed, slipped>>
      /\ pushAt[n] \in {"notify", "push"} /\ pushOp[n].kind = "notify"
      /\ pushResult[n] = "none"
  BY DEF ListByUser, NotifyMessage, hash, marks, PositionInv
<1>1. /\ \A d \in PushCalls \ {n} : pushAt'[d] = pushAt[d] /\ pushResult'[d] = pushResult[d]
      /\ pushAt' \in [PushCalls -> {"register", "expire", "delete", "notify", "push", "done"}]
      /\ pushResult' \in [PushCalls -> {"none", "ok", "error"}]
      /\ \/ pushAt'[n] = "push" /\ pushResult'[n] = "none"
         \/ pushAt'[n] = "done" /\ pushResult'[n] \in {"ok", "error"}
  BY <1>0, PushMoves DEF ListByUser, NotifyMessage, PushTypes
<1>2. /\ targets' \in [PushCalls -> SUBSET (PushCalls \cup {NoToken})]
      /\ tried' \in [PushCalls -> SUBSET (PushCalls \cup {NoToken})]
      /\ expected' \in [PushCalls -> SUBSET PushCalls]
      /\ \A m \in PushCalls \ {n} : /\ targets'[m] = targets[m] /\ tried'[m] = tried[m]
                                     /\ expected'[m] = expected[m]
  BY DEF ListByUser, NotifyMessage, PushTypes, Present
<1>3. PushTypes'
  BY <1>0, <1>1, <1>2 DEF PushTypes
<1>4. PositionInv'
  BY <1>0, <1>1 DEF PositionInv
<1>5. HashInv'
  BY <1>0, <1>1 DEF HashInv, Kept, Device
<1>6. EndlessOnlyAfterFailure'
  BY <1>0, <1>1 DEF EndlessOnlyAfterFailure
<1>7. ASSUME ListByUser(n), pushAt'[n] = "push", NEW c \in expected'[n]
      PROVE  c \in targets'[n]
  <2>1. c \in PushCalls /\ Valid(c)
    BY <1>7 DEF ListByUser, PushTypes
  <2>2. tokens[Device(c)] = c
    BY <2>1, PushAssumption DEF Valid, HashInv, Kept, PushTypes, PushAssumption
  <2>3. c \in Present(tokens)
    BY <2>1, <2>2, PushAssumption DEF PushAssumption, Present, PushTypes, PushOps, Device
  <2>4. targets'[n] = Present(tokens)
    BY <1>7, PushMoves DEF ListByUser, PushTypes
  <2> QED BY <2>3, <2>4
<1>8. ASSUME NotifyMessage(n) PROVE expected' = expected
  BY <1>8 DEF NotifyMessage
<1>9. ASSUME NotifyMessage(n), pushAt'[n] = "push", NEW c \in expected[n],
             PlatformOf[Device(c)] \in Endpoints
      PROVE  c \in targets'[n] \cup tried'[n]
  <2>1. c \in targets[n] \cup tried[n]
    BY <1>9 DEF NotifyInv, NotifyMessage
  <2>2. PICK d \in targets[n] :
           /\ targets' = [targets EXCEPT ![n] = @ \ {d}]
           /\ tried' = IF PlatformOf[Device(d)] \in Endpoints
                       THEN [tried EXCEPT ![n] = @ \cup {d}] ELSE tried
    BY <1>9, PushMoves DEF NotifyMessage
  <2> QED BY <1>9, <2>1, <2>2 DEF PushTypes
<1>10. NotifyInv'
  <2> SUFFICES ASSUME NEW m \in PushCalls, pushAt'[m] = "push", NEW c \in expected'[m],
                      PlatformOf[Device(c)'] \in Endpoints
               PROVE  c \in targets'[m] \cup tried'[m]
    BY DEF NotifyInv
  <2>1. Device(c)' = Device(c)
    BY <1>0 DEF Device
  <2>2. CASE m = n
    BY <2>1, <2>2, <1>7, <1>8, <1>9
  <2>3. CASE m # n
    BY <2>1, <2>3, <1>1, <1>2 DEF NotifyInv
  <2> QED BY <2>2, <2>3
<1>11. RegisteredDeviceIsTried'
  <2> SUFFICES ASSUME NEW m \in PushCalls, pushOp[m].kind = "notify", pushResult'[m] = "ok",
                      NEW c \in expected'[m], PlatformOf[Device(c)] \in Endpoints
               PROVE  c \in tried'[m]
    BY <1>0 DEF RegisteredDeviceIsTried, Device
  <2>1. CASE m # n
    BY <2>1, <1>1, <1>2 DEF RegisteredDeviceIsTried
  <2>2. CASE m = n
    <3>1. NotifyMessage(n) /\ targets[n] = {} /\ UNCHANGED <<targets, tried>>
      BY <2>2, <1>0, PushMoves DEF ListByUser, NotifyMessage, PushTypes
    <3> QED BY <2>2, <3>1, <1>8 DEF NotifyMessage, NotifyInv
  <2> QED BY <2>1, <2>2
<1> QED BY <1>3, <1>4, <1>5, <1>6, <1>10, <1>11

LEMMA NextDayKeeps == PushInv /\ NextDay => PushInv'
<1> SUFFICES ASSUME PushInv, NextDay PROVE PushInv'
  OBVIOUS
<1> USE DEF PushInv
<1>0. /\ UNCHANGED <<pushOp, pushAt, pushResult, ackDay, targets, tried, expected, removed>>
      /\ day' = day + 1 /\ day < MaxDay
  BY DEF NextDay, notifyVars
<1>1. \/ /\ expireAt <= day + 1
         /\ tokens' = [d \in Devices |-> NoToken] /\ expireAt' = Never
         /\ slipped' = slipped \cup {c \in PushCalls : pushAt[c] = "expire"}
      \/ UNCHANGED <<tokens, expireAt, slipped>>
  BY <1>0 DEF NextDay, hash
<1>2. Never \in Nat
  BY PushAssumption DEF PushAssumption, Never
<1>3. PushTypes'
  BY <1>0, <1>1, <1>2, PushAssumption DEF PushTypes, PushAssumption
<1>4. PositionInv' /\ NotifyInv' /\ RegisteredDeviceIsTried'
  BY <1>0 DEF PositionInv, NotifyInv, RegisteredDeviceIsTried, Device
<1>5. HashInv'
  <2> SUFFICES ASSUME NEW c \in PushCalls, pushOp[c].kind = "register",
                      c \notin (removed \cup slipped)'
               PROVE  Kept(c)'
    BY <1>0 DEF HashInv
  <2>1. Kept(c)
    BY <1>0, <1>1 DEF HashInv
  <2>2. ackDay[c] \in Nat /\ day \in Nat
    BY DEF PushTypes
  <2> QED BY <1>0, <1>1, <2>1, <2>2, PushAssumption DEF Kept, Device, PushTypes, PushAssumption
<1>6. EndlessOnlyAfterFailure'
  BY <1>0, <1>1 DEF EndlessOnlyAfterFailure, Present
<1> QED BY <1>3, <1>4, <1>5, <1>6

LEMMA PushInvariant == PushSpec => []PushInv
<1>1. PushInv /\ [PushNext]_pushVars => PushInv'
  <2> SUFFICES ASSUME PushInv, [PushNext]_pushVars PROVE PushInv'
    OBVIOUS
  <2>1. CASE UNCHANGED pushVars
    <3>1. PushTypes' /\ PositionInv' /\ NotifyInv' /\ RegisteredDeviceIsTried'
      BY <2>1 DEF pushVars, PushInv, PushTypes, PositionInv, NotifyInv,
                  RegisteredDeviceIsTried, Device
    <3>2. HashInv'
      BY <2>1 DEF pushVars, PushInv, HashInv, Kept, Device
    <3>3. EndlessOnlyAfterFailure'
      BY <2>1 DEF pushVars, PushInv, EndlessOnlyAfterFailure, Present
    <3> QED BY <3>1, <3>2, <3>3 DEF PushInv
  <2> QED BY <2>1, HsetKeeps, ExpireKeeps, DeleteKeeps, NotificationKeeps, NextDayKeeps
          DEF PushNext
<1> QED BY <1>1, PushInvInit, PTL DEF PushSpec

\* RegisterPushToken and NotifyOfflineMembers: a notification that ends well has tried every
\* device whose registration was acknowledged less than the life of the hash ago and not
\* taken back, for any number of devices and calls.
THEOREM AcknowledgedTokenIsUsed == PushSpec => []RegisteredDeviceIsTried
<1>1. PushInv => RegisteredDeviceIsTried
  BY DEF PushInv
<1> QED BY <1>1, PushInvariant, PTL

\* Upsert: a hash without an expiry is the work of a registration that is under way or was
\* reported as failed.
THEOREM EndlessHashIsReported == PushSpec => []EndlessOnlyAfterFailure
<1>1. PushInv => EndlessOnlyAfterFailure
  BY DEF PushInv
<1> QED BY <1>1, PushInvariant, PTL

\* Upsert, Delete and NotifyMessage: tokens are used as long as promised and kept no longer,
\* for any number of devices and calls.
THEOREM TokensStayAsPromised == PushSpec => []TokensAreKept
<1>1. RegisteredDeviceIsTried /\ EndlessOnlyAfterFailure => TokensAreKept
  BY DEF TokensAreKept
<1> QED BY <1>1, AcknowledgedTokenIsUsed, EndlessHashIsReported, PTL

----------------------------------------------------------------------------
\* RequestMetrics.

MetricTypes ==
    /\ phase \in [Exchanges -> {"serving", "serve_done", "route", "done"}]
    /\ wroteHeader \in [Exchanges -> BOOLEAN] /\ hijacked \in [Exchanges -> BOOLEAN]
    /\ statusCode \in [Exchanges -> Statuses \cup {101}]
    /\ wire \in [Exchanges -> Statuses \cup {101, Unsent}]
    /\ routeCounts \in [Statuses \cup {101} -> Nat] /\ totalRequests \in Nat

\* The writer has noted a status after a Hijack and when the handler has returned, and what
\* it has noted is on the wire.
NotedIsSent(x) ==
    /\ hijacked[x] \/ phase[x] # "serving" => wroteHeader[x]
    /\ x \notin early \cup failedHijack =>
          wire[x] = IF wroteHeader[x] THEN statusCode[x] ELSE Unsent

CountedUnder(s) == {x \in Exchanges : phase[x] = "done" /\ statusCode[x] = s}
CountedInTotal == {x \in Exchanges : phase[x] \in {"route", "done"}}

\* The counters are the numbers of exchanges counted so far, finitely many.
CountersFit ==
    /\ \A s \in Statuses \cup {101} :
          IsFiniteSet(CountedUnder(s)) /\ routeCounts[s] = Cardinality(CountedUnder(s))
    /\ IsFiniteSet(CountedInTotal) /\ totalRequests = Cardinality(CountedInTotal)

MetricInv == MetricTypes /\ (\A x \in Exchanges : NotedIsSent(x)) /\ CountersFit

LEMMA MetricInvInit == MetricsInit => MetricInv
<1> SUFFICES ASSUME MetricsInit PROVE MetricInv
  OBVIOUS
<1>1. MetricTypes
  BY MetricsAssumption DEF MetricsAssumption, MetricsInit, MetricTypes
<1>2. \A x \in Exchanges : NotedIsSent(x)
  BY DEF MetricsInit, NotedIsSent
<1>3. CountedInTotal = {} /\ \A s \in Statuses \cup {101} : CountedUnder(s) = {}
  BY DEF MetricsInit, CountedInTotal, CountedUnder
<1>4. CountersFit
  BY <1>3, FS_EmptySet DEF CountersFit, MetricsInit
<1> QED BY <1>1, <1>2, <1>4 DEF MetricInv

\* A call of the handler, or its return, concerns one exchange and no counter.
LEMMA HandlerKeeps ==
    ASSUME MetricInv, NEW x \in Exchanges,
           HandlerWritesHeader(x) \/ HandlerWrites(x) \/ Flush(x) \/ Hijack(x)
             \/ HandlerReturns(x)
    PROVE  MetricInv'
<1> USE DEF MetricInv
<1>0. phase[x] = "serving" /\ UNCHANGED <<totalRequests, routeCounts>>
  BY DEF HandlerWritesHeader, HandlerWrites, Flush, Hijack, HandlerReturns, HandlerCalls, totals
<1>1. /\ \A y \in Exchanges \ {x} :
            /\ wroteHeader'[y] = wroteHeader[y] /\ statusCode'[y] = statusCode[y]
            /\ hijacked'[y] = hijacked[y] /\ wire'[y] = wire[y] /\ phase'[y] = phase[y]
      /\ early \subseteq early' /\ failedHijack \subseteq failedHijack'
  BY DEF HandlerWritesHeader, HandlerWrites, Flush, Hijack, HandlerReturns, HandlerCalls,
         WriteHeader, NoteStatus, Send, faultMarks, MetricTypes
<1>2. phase' = phase \/ phase' = [phase EXCEPT ![x] = "serve_done"]
  BY DEF HandlerWritesHeader, HandlerWrites, Flush, Hijack, HandlerReturns, HandlerCalls
<1>3. MetricTypes'
  <2>1. /\ statusCode' \in [Exchanges -> Statuses \cup {101}]
        /\ wire' \in [Exchanges -> Statuses \cup {101, Unsent}]
    BY MetricsAssumption
    DEF MetricsAssumption, HandlerWritesHeader, HandlerWrites, Flush, Hijack, HandlerReturns,
        WriteHeader, NoteStatus, Send, MetricTypes
  <2>2. /\ wroteHeader' \in [Exchanges -> BOOLEAN] /\ hijacked' \in [Exchanges -> BOOLEAN]
    <3>1. /\ wroteHeader' = wroteHeader \/ wroteHeader' = [wroteHeader EXCEPT ![x] = TRUE]
          /\ hijacked' = hijacked \/ hijacked' = [hijacked EXCEPT ![x] = TRUE]
      BY DEF HandlerWritesHeader, HandlerWrites, Flush, Hijack, HandlerReturns,
             WriteHeader, NoteStatus
    <3> QED BY <3>1, Zenon DEF MetricTypes
  <2> QED BY <1>0, <1>2, <2>1, <2>2 DEF MetricTypes
<1>4. NotedIsSent(x)'
  <2>0. NotedIsSent(x) /\ 200 # Unsent /\ 101 # Unsent /\ statusCode[x] # Unsent
    BY MetricsAssumption DEF MetricsAssumption, MetricTypes, Unsent
  <2>1. CASE HandlerWritesHeader(x)
    <3>1. PICK s \in Statuses : WriteHeader(x, s)
      BY <2>1 DEF HandlerWritesHeader
    <3>2. UNCHANGED <<hijacked, early, failedHijack, phase>>
      BY <2>1 DEF HandlerWritesHeader, HandlerCalls, faultMarks
    <3> QED BY <1>0, <2>0, <3>1, <3>2
            DEF WriteHeader, NoteStatus, Send, NotedIsSent, MetricTypes
  <2>2. CASE HandlerWrites(x)
    BY <1>0, <2>0, <2>2 DEF HandlerWrites, HandlerCalls, faultMarks, WriteHeader, NoteStatus,
                            Send, NotedIsSent, MetricTypes
  <2>3. CASE Flush(x)
    BY <1>0, <2>0, <2>3 DEF Flush, HandlerCalls, Send, NotedIsSent, MetricTypes
  <2>4. CASE Hijack(x)
    BY <1>0, <2>0, <2>4 DEF Hijack, HandlerCalls, NoteStatus, Send, NotedIsSent, MetricTypes
  <2>5. CASE HandlerReturns(x)
    BY <1>0, <2>0, <2>5 DEF HandlerReturns, faultMarks, WriteHeader, NoteStatus,
                            Send, NotedIsSent, MetricTypes
  <2> QED BY <2>1, <2>2, <2>3, <2>4, <2>5
<1>5. ASSUME NEW y \in Exchanges \ {x} PROVE NotedIsSent(y)'
  BY <1>1 DEF NotedIsSent
<1>6. CountersFit'
  <2>1. \A s \in Statuses \cup {101} : CountedUnder(s)' = CountedUnder(s)
    BY <1>0, <1>1, <1>2 DEF CountedUnder, MetricTypes
  <2>2. CountedInTotal' = CountedInTotal
    BY <1>0, <1>1, <1>2 DEF CountedInTotal, MetricTypes
  <2> QED BY <1>0, <2>1, <2>2 DEF CountersFit
<1> QED BY <1>3, <1>4, <1>5, <1>6

LEMMA CountTotalKeeps ==
    ASSUME MetricInv, NEW x \in Exchanges, CountTotal(x)
    PROVE  MetricInv'
<1> USE DEF MetricInv
<1>1. /\ phase[x] = "serve_done" /\ phase' = [phase EXCEPT ![x] = "route"]
      /\ totalRequests' = totalRequests + 1
      /\ UNCHANGED <<wroteHeader, statusCode, hijacked, wire, early, failedHijack, routeCounts>>
  BY DEF CountTotal, faultMarks
<1>2. MetricTypes' /\ \A y \in Exchanges : NotedIsSent(y)'
  BY <1>1 DEF MetricTypes, NotedIsSent
<1>3. \A s \in Statuses \cup {101} : CountedUnder(s)' = CountedUnder(s)
  BY <1>1 DEF CountedUnder, MetricTypes
<1>4. CountedInTotal' = CountedInTotal \cup {x} /\ x \notin CountedInTotal
  BY <1>1 DEF CountedInTotal, MetricTypes
<1>5. /\ IsFiniteSet(CountedInTotal \cup {x})
      /\ Cardinality(CountedInTotal \cup {x}) = Cardinality(CountedInTotal) + 1
  BY <1>4, FS_AddElement DEF CountersFit
<1> QED BY <1>1, <1>2, <1>3, <1>4, <1>5 DEF CountersFit

LEMMA CountRouteKeeps ==
    ASSUME MetricInv, NEW x \in Exchanges, CountRoute(x)
    PROVE  MetricInv'
<1> USE DEF MetricInv
<1>1. /\ phase[x] = "route" /\ phase' = [phase EXCEPT ![x] = "done"]
      /\ routeCounts' = [routeCounts EXCEPT ![statusCode[x]] = @ + 1]
      /\ UNCHANGED <<wroteHeader, statusCode, hijacked, wire, early, failedHijack, totalRequests>>
  BY DEF CountRoute, faultMarks
<1>2. MetricTypes' /\ \A y \in Exchanges : NotedIsSent(y)'
  BY <1>1 DEF MetricTypes, NotedIsSent
<1>3. CountedInTotal' = CountedInTotal
  BY <1>1 DEF CountedInTotal, MetricTypes
<1>4. ASSUME NEW s \in Statuses \cup {101}
      PROVE  /\ IsFiniteSet(CountedUnder(s)')
             /\ routeCounts'[s] = Cardinality(CountedUnder(s)')
  <2>1. CASE s # statusCode[x]
    <3>1. CountedUnder(s)' = CountedUnder(s) /\ routeCounts'[s] = routeCounts[s]
      BY <1>1, <2>1 DEF CountedUnder, MetricTypes
    <3> QED BY <3>1 DEF CountersFit
  <2>2. CASE s = statusCode[x]
    <3>1. /\ CountedUnder(s)' = CountedUnder(s) \cup {x} /\ x \notin CountedUnder(s)
          /\ routeCounts'[s] = routeCounts[s] + 1
      BY <1>1, <2>2 DEF CountedUnder, MetricTypes
    <3>2. /\ IsFiniteSet(CountedUnder(s) \cup {x})
          /\ Cardinality(CountedUnder(s) \cup {x}) = Cardinality(CountedUnder(s)) + 1
      BY <3>1, FS_AddElement DEF CountersFit
    <3> QED BY <3>1, <3>2 DEF CountersFit
  <2> QED BY <2>1, <2>2
<1> QED BY <1>1, <1>2, <1>3, <1>4 DEF CountersFit

LEMMA MetricInvariant == MetricsSpec => []MetricInv
<1>1. MetricInv /\ [MetricsNext]_metricVars => MetricInv'
  <2> SUFFICES ASSUME MetricInv, [MetricsNext]_metricVars PROVE MetricInv'
    OBVIOUS
  <2>1. CASE UNCHANGED metricVars
    BY <2>1 DEF metricVars, MetricInv, MetricTypes, NotedIsSent, CountersFit, CountedUnder,
                CountedInTotal
  <2> QED BY <2>1, HandlerKeeps, CountTotalKeeps, CountRouteKeeps DEF MetricsNext
<1> QED BY <1>1, MetricInvInit, PTL DEF MetricsSpec

\* WithRequestMetrics: however many exchanges run at once and whatever their handlers do with
\* the writer, each is counted once, under the status it was sent with, save for the two
\* cases CountedAsSent names.
THEOREM RequestsAreCountedAsSent == MetricsSpec => []CountedAsSent
<1>1. MetricInv => CountedAsSent
  BY DEF MetricInv, CountersFit, CountedAsSent, CountedUnder, CountedInTotal, NotedIsSent
<1> QED BY <1>1, MetricInvariant, PTL

----------------------------------------------------------------------------
\* JwksCache.

\* Nobody has a version the provider has not published.
KnownVersions ==
    /\ cached # NoVersion => cached <= version
    /\ \A c \in Lookups : snap[c] <= version

\* A key that has been published since its call began is in whatever the call fetched, and
\* in the cache once that is stored, unless an older answer was stored later.
LastingInv ==
    \A c \in lasting :
        /\ lookupAt[c] # "idle"
        /\ lookupAt[c] # "done" => kid[c] \in KeysOf(version)
        /\ lookupAt[c] = "store" => kid[c] \in KeysOf(snap[c])
        /\ lookupAt[c] = "reread" => Holds(kid[c]) \/ c \in late

\* A fetch takes at most its timeout; what it brought was the provider's key set when it
\* began, or later, and so was what the cache holds one timeout before it was stored.
AgeInv ==
    /\ \A c \in Lookups : lookupAt[c] \in {"fetch", "store"} => time <= began[c] + FetchTime
    /\ \A c \in Lookups : lookupAt[c] = "store" =>
          \A v \in Versions : snap[c] < v /\ v <= version => began[c] <= since[v]
    /\ cached # NoVersion =>
          \A v \in Versions : cached < v /\ v <= version => fetchedAt <= since[v] + FetchTime
    /\ \A c \in Lookups : lookupAt[c] = "reread" => fetchedAt = time /\ cached # NoVersion

KeyInv ==
    /\ KeyTypeOK /\ KnownVersions /\ LastingInv /\ AgeInv /\ MissOnlyAfterLateStore
    /\ \A c \in Lookups : lookupAt[c] # "done" => found[c] = "none"

LEMMA KeyInvInit == KeyInit => KeyInv
<1> SUFFICES ASSUME KeyInit PROVE KeyInv
  OBVIOUS
<1>1. KeyTypeOK
  BY JwksAssumption DEF JwksAssumption, KeyInit, KeyTypeOK, Versions, Kids
<1>2. /\ KnownVersions /\ LastingInv /\ AgeInv /\ MissOnlyAfterLateStore
      /\ \A c \in Lookups : lookupAt[c] # "done" => found[c] = "none"
  BY DEF KeyInit, KnownVersions, LastingInv, AgeInv, MissOnlyAfterLateStore
<1> QED BY <1>1, <1>2 DEF KeyInv

\* Keys of a version between two that have it.
LEMMA KeysBetween ==
    ASSUME NEW k \in Nat, NEW u \in Nat, NEW v \in Nat, NEW w \in Nat,
           k \in KeysOf(u), k \in KeysOf(w), u <= v, v <= w
    PROVE  k \in KeysOf(v)
BY DEF KeysOf

LEMMA LookupKeyKeeps ==
    ASSUME KeyInv, NEW c \in Lookups, LookupKey(c)
    PROVE  KeyInv'
<1> USE DEF KeyInv
<1>1. /\ lookupAt[c] = "idle" /\ c \notin lasting
      /\ UNCHANGED <<time, version, since, cached, fetchedAt, late>>
  BY DEF LookupKey, cacheVars, LastingInv
<1>2. PICK k \in Kids :
        /\ kid' = [kid EXCEPT ![c] = k]
        /\ lasting' = IF k \in KeysOf(version) THEN lasting \cup {c} ELSE lasting
  BY DEF LookupKey, StartLookup
<1>3. \/ /\ lookupAt' = [lookupAt EXCEPT ![c] = "done"]
         /\ found' = [found EXCEPT ![c] = "key"]
         /\ began' = [began EXCEPT ![c] = 0] /\ snap' = [snap EXCEPT ![c] = 0]
      \/ /\ lookupAt' = [lookupAt EXCEPT ![c] = "fetch"]
         /\ began' = [began EXCEPT ![c] = time]
         /\ UNCHANGED <<found, snap>>
  BY DEF LookupKey, ReturnKey, BeginFetch
<1>0. 0 \in Versions /\ 0 <= version /\ 0 \in 0 .. time /\ time \in 0 .. time
  BY JwksAssumption DEF JwksAssumption, KeyTypeOK, Versions
<1>4. KeyTypeOK'
  <2>1. /\ began' \in [Lookups -> 0 .. time] /\ snap' \in [Lookups -> Versions]
        /\ kid' \in [Lookups -> Kids] /\ lasting' \subseteq Lookups
    BY <1>0, <1>2, <1>3 DEF KeyTypeOK
  <2>2. /\ lookupAt' \in [Lookups -> {"idle", "fetch", "store", "reread", "done"}]
        /\ found' \in [Lookups -> {"none", "key", "unauthorized", "error"}]
    BY <1>3 DEF KeyTypeOK
  <2> QED BY <1>1, <2>1, <2>2 DEF KeyTypeOK
<1>5. KnownVersions'
  BY <1>0, <1>1, <1>3 DEF KnownVersions, KeyTypeOK
<1>6. LastingInv'
  <2>1. CASE c \in lasting'
    <3>1. kid'[c] \in KeysOf(version) /\ lookupAt'[c] \in {"done", "fetch"}
      BY <2>1, <1>1, <1>2, <1>3 DEF KeyTypeOK
    <3>2. \A d \in lasting \ {c} : kid'[d] = kid[d] /\ lookupAt'[d] = lookupAt[d] /\ snap'[d] = snap[d]
      BY <1>1, <1>2, <1>3 DEF KeyTypeOK
    <3>3. lasting' \subseteq lasting \cup {c}
      BY <1>2
    <3> QED BY <1>1, <3>1, <3>2, <3>3 DEF LastingInv, Holds
  <2>2. CASE c \notin lasting'
    <3>1. \A d \in lasting : kid'[d] = kid[d] /\ lookupAt'[d] = lookupAt[d] /\ snap'[d] = snap[d]
      BY <1>1, <1>2, <1>3 DEF KeyTypeOK
    <3>2. lasting' = lasting
      BY <2>2, <1>2
    <3> QED BY <1>1, <3>1, <3>2 DEF LastingInv, Holds
  <2> QED BY <2>1, <2>2
<1>7. AgeInv'
  <2>1. \A d \in Lookups \ {c} :
           began'[d] = began[d] /\ lookupAt'[d] = lookupAt[d] /\ snap'[d] = snap[d]
    BY <1>3 DEF KeyTypeOK
  <2>2. lookupAt'[c] = "done" \/ (lookupAt'[c] = "fetch" /\ began'[c] = time)
    BY <1>3 DEF KeyTypeOK
  <2>3. time <= time + FetchTime
    BY JwksAssumption DEF KeyTypeOK, JwksAssumption
  <2> QED BY <1>1, <2>1, <2>2, <2>3 DEF AgeInv
<1>8. /\ MissOnlyAfterLateStore'
      /\ \A d \in Lookups : lookupAt'[d] # "done" => found'[d] = "none"
  <2>1. found'[c] \in {"none", "key"}
    BY <1>1, <1>3 DEF KeyTypeOK
  <2>2. \A d \in Lookups \ {c} : found'[d] = found[d] /\ lookupAt'[d] = lookupAt[d]
    BY <1>3 DEF KeyTypeOK
  <2>3. lookupAt'[c] # "done" => found'[c] = found[c]
    BY <1>3 DEF KeyTypeOK
  <2> QED BY <1>1, <1>2, <2>1, <2>2, <2>3 DEF MissOnlyAfterLateStore
<1> QED BY <1>4, <1>5, <1>6, <1>7, <1>8

LEMMA FetchKeysKeeps ==
    ASSUME KeyInv, NEW c \in Lookups, FetchKeys(c)
    PROVE  KeyInv'
<1> USE DEF KeyInv
<1>1. /\ lookupAt[c] = "fetch"
      /\ snap' = [snap EXCEPT ![c] = version]
      /\ lookupAt' = [lookupAt EXCEPT ![c] = "store"]
      /\ UNCHANGED <<time, version, since, cached, fetchedAt, kid, began, found, lasting, late>>
  BY DEF FetchKeys, cacheVars
<1>2. /\ snap'[c] = version /\ lookupAt'[c] = "store"
      /\ \A d \in Lookups \ {c} : snap'[d] = snap[d] /\ lookupAt'[d] = lookupAt[d]
  BY <1>1 DEF KeyTypeOK
<1>3. version \in Nat /\ \A v \in Versions : v \in Nat
  BY JwksAssumption DEF JwksAssumption, KeyTypeOK, Versions
<1>4. KeyTypeOK'
  BY <1>1 DEF KeyTypeOK
<1>5. KnownVersions'
  BY <1>1, <1>2, <1>3 DEF KnownVersions
<1>6. LastingInv'
  BY <1>1, <1>2 DEF LastingInv, Holds, KeyTypeOK
<1>7. AgeInv'
  BY <1>1, <1>2, <1>3 DEF AgeInv
<1>8. /\ MissOnlyAfterLateStore'
      /\ \A d \in Lookups : lookupAt'[d] # "done" => found'[d] = "none"
  BY <1>1, <1>2 DEF MissOnlyAfterLateStore
<1> QED BY <1>4, <1>5, <1>6, <1>7, <1>8

\* A call ends; only one whose key is missing in the cache returns unauthorized.
LEMMA ReturnKeyKeeps ==
    ASSUME KeyInv, NEW c \in Lookups, FetchFails(c) \/ Reread(c)
    PROVE  KeyInv'
<1> USE DEF KeyInv
<1>1. PICK r \in {"key", "unauthorized", "error"} :
        /\ lookupAt' = [lookupAt EXCEPT ![c] = "done"]
        /\ found' = [found EXCEPT ![c] = r]
        /\ began' = [began EXCEPT ![c] = 0] /\ snap' = [snap EXCEPT ![c] = 0]
        /\ r = "unauthorized" => lookupAt[c] = "reread" /\ ~Holds(kid[c])
  BY DEF FetchFails, Reread, ReturnKey
<1>2. UNCHANGED <<time, version, since, cached, fetchedAt, kid, lasting, late>>
  BY DEF FetchFails, Reread, cacheVars
<1>3. /\ snap'[c] = 0 /\ lookupAt'[c] = "done" /\ found'[c] = r
      /\ \A d \in Lookups \ {c} : /\ snap'[d] = snap[d] /\ lookupAt'[d] = lookupAt[d]
                                   /\ began'[d] = began[d] /\ found'[d] = found[d]
  BY <1>1 DEF KeyTypeOK
<1>4. 0 \in Versions /\ 0 <= version /\ 0 \in 0 .. time
  BY JwksAssumption DEF JwksAssumption, KeyTypeOK, Versions
<1>5. KeyTypeOK'
  <2>1. began' \in [Lookups -> 0 .. time] /\ snap' \in [Lookups -> Versions]
    BY <1>1, <1>4 DEF KeyTypeOK
  <2>2. /\ lookupAt' \in [Lookups -> {"idle", "fetch", "store", "reread", "done"}]
        /\ found' \in [Lookups -> {"none", "key", "unauthorized", "error"}]
    BY <1>1 DEF KeyTypeOK
  <2> QED BY <1>2, <2>1, <2>2 DEF KeyTypeOK
<1>6. KnownVersions'
  BY <1>2, <1>3, <1>4 DEF KnownVersions
<1>7. LastingInv'
  BY <1>2, <1>3 DEF LastingInv, Holds, KeyTypeOK
<1>8. AgeInv'
  BY <1>2, <1>3 DEF AgeInv
<1>9. /\ MissOnlyAfterLateStore'
      /\ \A d \in Lookups : lookupAt'[d] # "done" => found'[d] = "none"
  BY <1>1, <1>2, <1>3 DEF MissOnlyAfterLateStore, LastingInv
<1> QED BY <1>5, <1>6, <1>7, <1>8, <1>9

LEMMA StoreKeysKeeps ==
    ASSUME KeyInv, NEW c \in Lookups, StoreKeys(c)
    PROVE  KeyInv'
<1> USE DEF KeyInv
<1>1. /\ lookupAt[c] = "store" /\ cached' = snap[c] /\ fetchedAt' = time
      /\ lookupAt' = [lookupAt EXCEPT ![c] = "reread"]
      /\ late' = IF cached # NoVersion /\ snap[c] < cached THEN late \cup Active ELSE late
      /\ UNCHANGED <<time, version, since, kid, began, snap, found, lasting>>
  BY DEF StoreKeys
<1>2. /\ lookupAt'[c] = "reread"
      /\ \A d \in Lookups \ {c} : lookupAt'[d] = lookupAt[d]
  BY <1>1 DEF KeyTypeOK
<1>3. /\ snap[c] \in Versions /\ snap[c] # NoVersion /\ snap[c] \in Nat /\ time \in Nat
      /\ version \in Nat /\ cached \in Nat /\ began[c] \in Nat /\ FetchTime \in Nat
      /\ \A v \in Versions : v \in Nat /\ since[v] \in Nat
      /\ \A d \in Lookups : kid[d] \in Nat
  BY JwksAssumption DEF JwksAssumption, KeyTypeOK, Versions, NoVersion, Kids
<1>4. KeyTypeOK'
  <2>1. late' \subseteq Lookups
    BY <1>1 DEF Active, KeyTypeOK
  <2> QED BY <1>1, <1>3, <2>1 DEF KeyTypeOK
<1>5. KnownVersions'
  BY <1>1 DEF KnownVersions
<1>6. LastingInv'
  <2> SUFFICES ASSUME NEW d \in lasting
               PROVE  /\ lookupAt'[d] # "idle"
                      /\ lookupAt'[d] # "done" => kid[d] \in KeysOf(version)
                      /\ lookupAt'[d] = "store" => kid[d] \in KeysOf(snap[d])
                      /\ lookupAt'[d] = "reread" => Holds(kid[d])' \/ d \in late'
    BY <1>1 DEF LastingInv, Holds
  <2>0. d \in Lookups
    BY DEF KeyTypeOK
  <2>1. CASE d = c
    BY <2>1, <1>1, <1>2, <1>3 DEF LastingInv, Holds
  <2>2. CASE d # c
    <3>1. lookupAt'[d] = lookupAt[d]
      BY <1>2, <2>0, <2>2
    <3>2. ASSUME lookupAt[d] = "reread", d \notin late' PROVE Holds(kid[d])'
      <4>1. d \in Active
        BY <3>2, <2>0 DEF Active
      <4>2. ~(cached # NoVersion /\ snap[c] < cached) /\ d \notin late
        BY <3>2, <4>1, <1>1
      <4>3. cached # NoVersion /\ kid[d] \in KeysOf(cached)
        BY <3>2, <4>2 DEF LastingInv, Holds
      <4>4. kid[d] \in KeysOf(version) /\ snap[c] <= version /\ cached <= snap[c]
        BY <3>2, <4>2, <4>3, <1>3 DEF LastingInv, KnownVersions
      <4>5. kid[d] \in KeysOf(snap[c])
        BY <4>3, <4>4, <1>3, <2>0, KeysBetween
      <4> QED BY <4>5, <1>1, <1>3 DEF Holds
    <3> QED BY <3>1, <3>2 DEF LastingInv
  <2> QED BY <2>1, <2>2
<1>7. AgeInv'
  <2>1. ASSUME NEW v \in Versions, snap[c] < v, v <= version
        PROVE  time <= since[v] + FetchTime
    BY <2>1, <1>1, <1>3 DEF AgeInv
  <2>2. \A d \in Lookups : lookupAt'[d] = "reread" => fetchedAt' = time' /\ cached' # NoVersion
    BY <1>1, <1>3
  <2> QED BY <1>1, <1>2, <2>1, <2>2 DEF AgeInv
<1>8. /\ MissOnlyAfterLateStore'
      /\ \A d \in Lookups : lookupAt'[d] # "done" => found'[d] = "none"
  BY <1>1, <1>2 DEF MissOnlyAfterLateStore
<1> QED BY <1>4, <1>5, <1>6, <1>7, <1>8

LEMMA RotateKeeps == KeyInv /\ Rotate => KeyInv'
<1> SUFFICES ASSUME KeyInv, Rotate PROVE KeyInv'
  OBVIOUS
<1> USE DEF KeyInv
<1>1. /\ version < MaxVersion /\ version' = version + 1
      /\ since' = [since EXCEPT ![version + 1] = time]
      /\ lasting' = {c \in lasting : lookupAt[c] = "done" \/ kid[c] \in KeysOf(version')}
      /\ UNCHANGED <<time, cached, fetchedAt, lookupAt, kid, began, snap, found, late>>
  BY DEF Rotate, cacheVars
<1>2. /\ version \in Nat /\ version + 1 \in Versions /\ cached \in Nat /\ time \in Nat
      /\ fetchedAt \in Nat /\ fetchedAt <= time /\ FetchTime \in Nat
      /\ \A v \in Versions : v \in Nat
      /\ \A c \in Lookups : snap[c] \in Nat /\ began[c] \in Nat /\ began[c] <= time
  BY <1>1, JwksAssumption DEF JwksAssumption, KeyTypeOK, Versions, NoVersion
<1>3. /\ since'[version + 1] = time
      /\ \A v \in Versions : v <= version => since'[v] = since[v]
  BY <1>1, <1>2 DEF KeyTypeOK
<1>4. KeyTypeOK'
  BY <1>1, <1>2 DEF KeyTypeOK
<1>5. KnownVersions'
  BY <1>1, <1>2 DEF KnownVersions
<1>6. LastingInv'
  BY <1>1 DEF LastingInv, Holds
<1>7. AgeInv'
  <2>1. ASSUME NEW c \in Lookups, lookupAt[c] = "store", NEW v \in Versions,
               snap[c] < v, v <= version + 1
        PROVE  began[c] <= since'[v]
    <3>1. CASE v = version + 1
      BY <3>1, <1>2, <1>3
    <3>2. CASE v <= version
      BY <2>1, <3>2, <1>3 DEF AgeInv
    <3> QED BY <2>1, <3>1, <3>2, <1>2
  <2>2. ASSUME cached # NoVersion, NEW v \in Versions, cached < v, v <= version + 1
        PROVE  fetchedAt <= since'[v] + FetchTime
    <3>1. CASE v = version + 1
      BY <3>1, <1>2, <1>3
    <3>2. CASE v <= version
      BY <2>2, <3>2, <1>3 DEF AgeInv
    <3> QED BY <2>2, <3>1, <3>2, <1>2
  <2> QED BY <1>1, <2>1, <2>2 DEF AgeInv
<1>8. /\ MissOnlyAfterLateStore'
      /\ \A d \in Lookups : lookupAt'[d] # "done" => found'[d] = "none"
  BY <1>1 DEF MissOnlyAfterLateStore
<1> QED BY <1>4, <1>5, <1>6, <1>7, <1>8

LEMMA KeyTickKeeps == KeyInv /\ KeyTick => KeyInv'
<1> SUFFICES ASSUME KeyInv, KeyTick PROVE KeyInv'
  OBVIOUS
<1> USE DEF KeyInv
<1>1. /\ time < MaxKeyTime /\ time' = time + 1
      /\ \A c \in Lookups :
            /\ lookupAt[c] \in {"fetch", "store"} => time - began[c] < FetchTime
            /\ lookupAt[c] # "reread"
      /\ UNCHANGED <<version, since, cached, fetchedAt, lookupAt, kid, began, snap, found,
                     lasting, late>>
  BY DEF KeyTick, cacheVars
<1>2. time \in Nat /\ FetchTime \in Nat /\ \A c \in Lookups : began[c] \in Nat
  BY JwksAssumption DEF JwksAssumption, KeyTypeOK
<1>3. KeyTypeOK'
  <2>1. time' \in 0 .. MaxKeyTime /\ 0 .. time \subseteq 0 .. time'
    BY <1>1, <1>2, JwksAssumption DEF JwksAssumption
  <2>2. began' \in [Lookups -> 0 .. time'] /\ fetchedAt' \in 0 .. time'
    BY <1>1, <2>1 DEF KeyTypeOK
  <2> QED BY <1>1, <2>1, <2>2 DEF KeyTypeOK
<1>4. KnownVersions' /\ LastingInv' /\ MissOnlyAfterLateStore'
  BY <1>1 DEF KnownVersions, LastingInv, MissOnlyAfterLateStore, Holds
<1>5. AgeInv'
  BY <1>1, <1>2 DEF AgeInv
<1> QED BY <1>1, <1>3, <1>4, <1>5

LEMMA KeyInvariant == KeySpec => []KeyInv
<1>1. KeyInv /\ [KeyNext]_keyVars => KeyInv'
  <2> SUFFICES ASSUME KeyInv, [KeyNext]_keyVars PROVE KeyInv'
    OBVIOUS
  <2>1. CASE UNCHANGED keyVars
    BY <2>1 DEF keyVars, KeyInv, KeyTypeOK, KnownVersions, LastingInv, AgeInv, Holds,
                MissOnlyAfterLateStore
  <2> QED BY <2>1, LookupKeyKeeps, FetchKeysKeeps, ReturnKeyKeeps, StoreKeysKeeps, RotateKeeps,
             KeyTickKeeps DEF KeyNext
<1> QED BY <1>1, KeyInvInit, PTL DEF KeySpec

\* lookupKey: however many calls refresh the keys at once and whenever the provider rotates
\* them, a key it published all the time is refused only after a late store.
THEOREM PublishedKeyIsAccepted == KeySpec => []MissOnlyAfterLateStore
<1>1. KeyInv => MissOnlyAfterLateStore
  BY DEF KeyInv
<1> QED BY <1>1, KeyInvariant, PTL

\* A step that returns a key returns one of the cache, which is fresh or was just stored.
LEMMA ReturnedKeyIsYoung ==
    ASSUME KeyInv, [KeyNext]_keyVars, NEW c \in Lookups, found[c] = "none", found'[c] = "key"
    PROVE  \/ kid'[c] >= version
           \/ time <= since[kid'[c] + 1] + CacheTtl + FetchTime
<1> USE DEF KeyInv
<1>1. ASSUME NEW d \in Lookups, d # c,
             LookupKey(d) \/ FetchKeys(d) \/ FetchFails(d) \/ StoreKeys(d) \/ Reread(d)
      PROVE  FALSE
  <2>1. found'[c] = found[c]
    BY <1>1 DEF LookupKey, FetchKeys, FetchFails, StoreKeys, Reread, ReturnKey, BeginFetch,
                KeyTypeOK
  <2> QED BY <2>1
<1>2. LookupKey(c) \/ Reread(c)
  <2>1. ASSUME FetchKeys(c) \/ FetchFails(c) \/ StoreKeys(c) \/ Rotate \/ KeyTick
               \/ UNCHANGED keyVars
        PROVE  FALSE
    <3>1. found'[c] # "key"
      BY <2>1 DEF FetchKeys, FetchFails, StoreKeys, Rotate, KeyTick, keyVars, ReturnKey, KeyTypeOK
    <3> QED BY <3>1
  <2> QED BY <1>1, <2>1 DEF KeyNext
<1>3. Holds(kid'[c]) /\ time < fetchedAt + CacheTtl /\ kid'[c] \in Kids
  <2>1. CASE LookupKey(c)
    <3>1. Holds(kid'[c]) /\ time - fetchedAt < CacheTtl
      BY <2>1 DEF LookupKey, BeginFetch
    <3>2. kid'[c] \in Kids
      BY <2>1 DEF LookupKey, StartLookup, KeyTypeOK
    <3> QED BY <3>1, <3>2, JwksAssumption DEF JwksAssumption, KeyTypeOK
  <2>2. CASE Reread(c)
    <3>1. kid' = kid /\ lookupAt[c] = "reread" /\ Holds(kid[c])
      BY <2>2 DEF Reread, ReturnKey, KeyTypeOK
    <3>2. fetchedAt = time
      BY <3>1 DEF AgeInv
    <3> QED BY <3>1, <3>2, JwksAssumption DEF JwksAssumption, KeyTypeOK
  <2> QED BY <1>2, <2>1, <2>2
<1>4. CASE kid'[c] < version
  <2>1. /\ kid'[c] + 1 \in Versions /\ cached < kid'[c] + 1 /\ kid'[c] + 1 <= version
        /\ cached # NoVersion /\ since[kid'[c] + 1] \in Nat
    <3>1. /\ kid'[c] \in Nat /\ cached \in Nat /\ version \in Nat /\ version <= MaxVersion
          /\ MaxVersion \in Nat
      BY <1>3, JwksAssumption DEF JwksAssumption, KeyTypeOK, Versions, Kids, NoVersion
    <3>2. cached # NoVersion /\ cached <= kid'[c]
      BY <1>3, <3>1 DEF Holds, KeysOf
    <3>3. kid'[c] + 1 \in Versions
      BY <1>4, <3>1 DEF Versions
    <3>4. since[kid'[c] + 1] \in Nat
      BY <3>3 DEF KeyTypeOK
    <3> QED BY <1>4, <3>1, <3>2, <3>3, <3>4
  <2>2. fetchedAt <= since[kid'[c] + 1] + FetchTime
    BY <2>1 DEF AgeInv
  <2> QED BY <1>3, <2>1, <2>2, JwksAssumption DEF JwksAssumption, KeyTypeOK
<1> QED BY <1>3, <1>4 DEF KeyTypeOK, Versions, Kids

\* lookupKey: a key it returns was still published at most the life of the cache and one
\* fetch before, also when a slow fetch stores its answer after a faster one.
THEOREM ReturnedKeysAreYoung == KeySpec => NoStaleKey
<1>1. KeyInv /\ [KeyNext]_keyVars =>
        [\A c \in Lookups : found'[c] = "key" /\ found[c] = "none" =>
            \/ kid'[c] >= version
            \/ time <= since[kid'[c] + 1] + CacheTtl + FetchTime]_keyVars
  BY ReturnedKeyIsYoung
<1> QED BY <1>1, KeyInvariant, PTL DEF KeySpec, NoStaleKey

----------------------------------------------------------------------------
\* MessageIds.

\* Incrementing modulo b a number known modulo b.
LEMMA ModIncrement ==
    ASSUME NEW a \in Nat, NEW b \in Nat \ {0}
    PROVE  ((a % b) + 1) % b = (a + 1) % b
<1> DEFINE q == a \div b
           r == a % b
           p == (r + 1) \div b
           t == (r + 1) % b
           v == (a + 1) \div b
           w == (a + 1) % b
<1>1. r \in 0 .. b - 1 /\ q \in Nat /\ a = q * b + r
  BY DivMod
<1>2. r + 1 \in Nat /\ a + 1 \in Nat
  BY <1>1, SMT
<1>3. t \in 0 .. b - 1 /\ p \in Nat /\ r + 1 = p * b + t
  BY <1>2, DivMod
<1>4. w \in 0 .. b - 1 /\ v \in Nat /\ a + 1 = v * b + w
  BY <1>2, DivMod
<1> HIDE DEF q, r, p, t, v, w
<1>5. (q + p) * b = q * b + p * b
  BY <1>1, <1>3, SMT
<1>6. q * b \in Int /\ p * b \in Int /\ v * b \in Int
  BY <1>1, <1>3, <1>4, SMT
<1>7. (q + p) * b + t = v * b + w
  BY <1>1, <1>3, <1>4, <1>5, <1>6, SMT
<1>8. q + p \in Int /\ v \in Int
  BY <1>1, <1>3, <1>4, SMT
<1>9. \A x, y \in Int : \A m, k \in 0 .. b - 1 : x * b + m = y * b + k => m = k
  BY DivModUnique
<1>10. t = w
  BY <1>3, <1>4, <1>7, <1>8, <1>9, Zenon
<1> QED BY <1>10 DEF r, t, w

\* Fewer than b increments do not come back.
LEMMA ModNoReturn ==
    ASSUME NEW b \in Nat \ {0}, NEW a \in 0 .. b - 1, NEW k \in 1 .. b - 1
    PROVE  (a + k) % b # a
<1> SUFFICES ASSUME (a + k) % b = a PROVE FALSE
  OBVIOUS
<1>1. a + k \in Nat
  BY SMT
<1>2. (a + k) \div b \in Nat /\ a + k = ((a + k) \div b) * b + a
  BY <1>1, DivMod
<1> DEFINE q == (a + k) \div b
<1>3. q \in Int /\ q * b + 0 = 0 * b + k /\ 0 \in 0 .. b - 1 /\ k \in 0 .. b - 1
  BY <1>2, SMT
<1> HIDE DEF q
<1>4. k = 0
  BY <1>3, DivModUnique, SMT
<1> QED BY <1>4, SMT

IdPairs == Nat \X (0 .. EntropySize - 1)

\* While the clock is never set back the milliseconds of the ids do not fall, the last id is
\* the generator's state, and within a millisecond each id is one increment on.
IdOrder ==
    /\ lastMS <= wall
    /\ ids = <<>> => lastMS = 0
    /\ ids # <<>> => ids[Len(ids)] = <<lastMS, entropy>>
    /\ \A i \in 1 .. Len(ids) : ids[i][1] <= lastMS
    /\ \A i, j \in 1 .. Len(ids) : i < j /\ ids[i][1] = ids[j][1] =>
          ids[j][2] = (ids[i][2] + (j - i)) % EntropySize

MessageIdInv ==
    /\ wall \in Nat \ {0} /\ lastMS \in Nat /\ entropy \in 0 .. EntropySize - 1
    /\ ids \in Seq(IdPairs) /\ setBack \in BOOLEAN
    /\ ~setBack => IdOrder

LEMMA MessageIdInvInit == MessageIdInit => MessageIdInv
<1>1. 0 \in 0 .. EntropySize - 1
  BY IdAssumption DEF IdAssumption
<1>2. <<>> \in Seq(IdPairs) /\ Len(<<>>) = 0
  OBVIOUS
<1> SUFFICES ASSUME MessageIdInit PROVE MessageIdInv
  OBVIOUS
<1>3. setBack \in BOOLEAN
  BY Zenon DEF MessageIdInit
<1>4. IdOrder
  BY <1>2 DEF MessageIdInit, IdOrder
<1> QED BY <1>1, <1>2, <1>3, <1>4 DEF MessageIdInit, MessageIdInv

LEMMA NewIdKeeps == MessageIdInv /\ NewId => MessageIdInv'
<1> SUFFICES ASSUME MessageIdInv, NewId PROVE MessageIdInv'
  OBVIOUS
<1> USE DEF MessageIdInv
<1> DEFINE n == Len(ids)
<1>0. EntropySize \in Nat \ {0}
  BY IdAssumption DEF IdAssumption
<1>1. /\ \/ wall # lastMS /\ entropy' \in 0 .. EntropySize - 1
         \/ wall = lastMS /\ entropy' = (entropy + 1) % EntropySize
      /\ lastMS' = wall /\ ids' = Append(ids, <<wall, entropy'>>)
      /\ UNCHANGED <<wall, setBack>>
  BY DEF NewId, IncrementEntropy
<1>2. entropy' \in 0 .. EntropySize - 1
  <2>1. entropy + 1 \in Nat
    BY <1>0, SMT
  <2>2. (entropy + 1) % EntropySize \in 0 .. EntropySize - 1
    BY <1>0, <2>1, DivMod
  <2> QED BY <1>1, <2>2
<1>3. /\ n \in Nat /\ <<wall, entropy'>> \in IdPairs /\ ids' \in Seq(IdPairs)
      /\ Len(ids') = n + 1 /\ ids'[n + 1] = <<wall, entropy'>>
      /\ \A i \in 1 .. n : ids'[i] = ids[i]
  BY <1>1, <1>2 DEF IdPairs
<1>4. ASSUME ~setBack PROVE IdOrder'
  <2>0. IdOrder
    BY <1>4
  <2>t. \A i \in 1 .. n : ids[i][1] \in Nat /\ ids[i][2] \in 0 .. EntropySize - 1
    BY DEF IdPairs
  <2> HIDE DEF n
  <2>1. ASSUME NEW i \in 1 .. n, ids[i][1] = wall
        PROVE  entropy' = (ids[i][2] + (n + 1 - i)) % EntropySize
    <3>1. wall = lastMS /\ entropy' = (entropy + 1) % EntropySize
      BY <2>0, <2>1, <2>t, <1>1 DEF IdOrder, n
    <3>2. ids # <<>> /\ ids[n] = <<lastMS, entropy>> /\ n \in 1 .. n
      BY <2>0, <2>1, <1>3 DEF IdOrder, n
    <3>3. CASE i = n
      <4>1. ids[i][2] = entropy /\ n + 1 - i = 1
        BY <3>2, <3>3, <1>3
      <4> QED BY <3>1, <4>1
    <3>4. CASE i < n
      <4>1. entropy = (ids[i][2] + (n - i)) % EntropySize
        BY <2>0, <2>1, <3>1, <3>2, <3>4 DEF IdOrder, n
      <4>t. ids[i][2] \in Nat
        BY <2>t, <1>0
      <4>2. /\ ids[i][2] + (n - i) \in Nat
            /\ (ids[i][2] + (n - i)) + 1 = ids[i][2] + (n + 1 - i)
        <5>1. \A x \in Nat : x + (n - i) \in Nat /\ (x + (n - i)) + 1 = x + (n + 1 - i)
          BY <3>4, <1>3
        <5> QED BY <4>t, <5>1
      <4>3. entropy' = ((ids[i][2] + (n - i)) + 1) % EntropySize
        BY <1>0, <3>1, <4>1, <4>2, ModIncrement
      <4> QED BY <4>2, <4>3
    <3> QED BY <1>3, <3>3, <3>4
  <2>2. ASSUME NEW i \in 1 .. n + 1, NEW j \in 1 .. n + 1, i < j, ids'[i][1] = ids'[j][1]
        PROVE  ids'[j][2] = (ids'[i][2] + (j - i)) % EntropySize
    <3>1. i \in 1 .. n /\ ids'[i] = ids[i]
      BY <2>2, <1>3
    <3>2. CASE j \in 1 .. n
      BY <2>0, <2>2, <3>1, <3>2, <1>3 DEF IdOrder, n
    <3>3. CASE j = n + 1
      BY <2>1, <2>2, <3>1, <3>3, <1>3
    <3> QED BY <1>3, <3>2, <3>3
  <2>3. \A i \in 1 .. n + 1 : ids'[i][1] <= wall
    BY <2>0, <2>t, <1>3 DEF IdOrder, n
  <2>4. ids' # <<>> /\ ids'[Len(ids')] = <<wall, entropy'>>
    BY <1>1, <1>3
  <2> QED BY <2>2, <2>3, <2>4, <1>1, <1>3 DEF IdOrder
<1> QED BY <1>1, <1>2, <1>3, <1>4

LEMMA ClockMovesKeeps == MessageIdInv /\ ClockMoves => MessageIdInv'
<1> SUFFICES ASSUME MessageIdInv, ClockMoves PROVE MessageIdInv'
  OBVIOUS
<1> USE DEF MessageIdInv
<1>1. PICK t \in 1 .. MaxMs : wall' = t /\ setBack' = (setBack \/ t < wall)
  BY DEF ClockMoves
<1>2. UNCHANGED <<lastMS, entropy, ids>> /\ t \in Nat \ {0}
  BY IdAssumption DEF ClockMoves, IdAssumption
<1>3. ~setBack' => ~setBack /\ wall <= wall'
  <2>1. ~setBack' => ~setBack /\ ~(t < wall)
    BY <1>1, Zenon
  <2> QED BY <1>1, <1>2, <2>1
<1>4. setBack' \in BOOLEAN
  BY <1>1
<1> QED BY <1>1, <1>2, <1>3, <1>4 DEF IdOrder

LEMMA MessageIdInvariant == MessageIdSpec => []MessageIdInv
<1>1. MessageIdInv /\ UNCHANGED messageIdVars => MessageIdInv'
  BY DEF messageIdVars, MessageIdInv, IdOrder
<1> QED BY <1>1, MessageIdInvInit, NewIdKeeps, ClockMovesKeeps, PTL
        DEF MessageIdSpec, MessageIdNext

\* IDGenerator.New: for every size of the entropy, an id comes again only after the clock
\* was set back or after a whole round of the entropy.
THEOREM MessageIdsStayDistinct == MessageIdSpec => []MessageIdsAreDistinct
<1>1. MessageIdInv => MessageIdsAreDistinct
  <2> SUFFICES ASSUME MessageIdInv, ~setBack,
                      NEW i \in 1 .. Len(ids), NEW j \in 1 .. Len(ids),
                      i < j, ids[i] = ids[j], ~(j - i >= EntropySize)
               PROVE  FALSE
    BY Zenon DEF MessageIdsAreDistinct
  <2>1. EntropySize \in Nat \ {0} /\ ids[i][2] \in 0 .. EntropySize - 1
    BY IdAssumption DEF IdAssumption, MessageIdInv, IdPairs
  <2>2. ids[i][2] = (ids[i][2] + (j - i)) % EntropySize
    BY DEF MessageIdInv, IdOrder
  <2>3. j - i \in 1 .. EntropySize - 1
    BY <2>1 DEF MessageIdInv
  <2> QED BY <2>1, <2>2, <2>3, ModNoReturn
<1> QED BY <1>1, MessageIdInvariant, PTL

----------------------------------------------------------------------------
\* RateLimiter.

Labels ==
    {"idle", "entry", "seen", "start", "cas", "store", "add", "undo", "sweep", "delete"}

\* Callers that may still create an entry, that will store and that will undo a count.
Entering == {p \in Threads : allowAt[p] = "entry"}
Storing(i) == {p \in Threads : allowAt[p] = "store" /\ e[p] = i}
Undoing(i) == {p \in Threads : allowAt[p] = "undo" /\ e[p] = i}

\* Every entry was created by a call of its own, so that there are enough numbers.
EntryBound ==
    /\ started \in 0 .. MaxCalls
    /\ IsFiniteSet(Entering) /\ Cardinality(Entering) + used <= started

LimiterTypes ==
    /\ used \in Nat /\ entries \in 0 .. used
    /\ count \in [EntryIds -> Int] /\ admitted \in [EntryIds -> Nat]
    /\ allowAt \in [Threads -> Labels]
    /\ e \in [Threads -> 0 .. used]
    /\ \A p \in Threads : allowAt[p] \notin {"idle", "entry"} => e[p] # NoEntry

\* An entry whose window did not begin in a race has one caller between the swap and the
\* Store, and then nothing but the swap is admitted; or the count is what was admitted and
\* what will be taken back, and something is taken back only when the window is full.
Settled(i) ==
    /\ count[i] = admitted[i] + Cardinality(Undoing(i))
    /\ admitted[i] <= Max
    /\ Undoing(i) # {} => admitted[i] >= Max

WindowInv(i) ==
    /\ IsFiniteSet(Undoing(i))
    /\ i \notin raced =>
          /\ \A p, q \in Storing(i) : p = q
          /\ Storing(i) # {} => admitted[i] = 1
          /\ Storing(i) = {} => Settled(i)

LimiterInv == LimiterTypes /\ EntryBound /\ \A i \in EntryIds : WindowInv(i)

LEMMA LimiterInvInit == LimiterInit => LimiterInv
<1> SUFFICES ASSUME LimiterInit PROVE LimiterInv
  OBVIOUS
<1>1. LimiterTypes
  BY DEF LimiterInit, LimiterTypes, Labels, NoEntry
<1>2. Entering = {} /\ \A i \in EntryIds : Storing(i) = {} /\ Undoing(i) = {}
  BY DEF LimiterInit, Entering, Storing, Undoing
<1>3. EntryBound
  BY <1>2, FS_EmptySet, LimiterAssumption DEF LimiterInit, EntryBound, LimiterAssumption
<1>4. ASSUME NEW i \in EntryIds PROVE WindowInv(i)
  BY <1>2, FS_EmptySet, LimiterAssumption DEF LimiterInit, WindowInv, Settled, LimiterAssumption
<1> QED BY <1>1, <1>3, <1>4 DEF LimiterInv

\* A caller past the map holds a numbered entry.
LEMMA EntryHeld ==
    ASSUME LimiterInv, NEW p \in Threads, allowAt[p] \notin {"idle", "entry"}
    PROVE  e[p] \in EntryIds
<1>1. Cardinality(Entering) \in Nat
  BY FS_CardinalityType DEF LimiterInv, EntryBound
<1> QED BY <1>1, LimiterAssumption
        DEF LimiterInv, LimiterTypes, EntryBound, EntryIds, NoEntry, LimiterAssumption

\* The bound on entries: a call begins, enters the map, or does neither.
LEMMA EntryBoundKept ==
    ASSUME EntryBound, used \in Nat, NEW p \in Threads,
           \/ UNCHANGED <<started, used>> /\ Entering' = Entering
           \/ /\ started < MaxCalls /\ started' = started + 1 /\ used' = used
              /\ Entering' = Entering \cup {p} /\ p \notin Entering
           \/ /\ started' = started /\ used' \in {used, used + 1}
              /\ Entering' = Entering \ {p} /\ p \in Entering
    PROVE  EntryBound'
<1>1. Cardinality(Entering) \in Nat /\ started \in Nat /\ MaxCalls \in Nat
  BY FS_CardinalityType, LimiterAssumption DEF EntryBound, LimiterAssumption
<1>2. /\ IsFiniteSet(Entering \cup {p}) /\ IsFiniteSet(Entering \ {p})
      /\ p \notin Entering => Cardinality(Entering \cup {p}) = Cardinality(Entering) + 1
      /\ p \in Entering => Cardinality(Entering \ {p}) = Cardinality(Entering) - 1
  BY FS_AddElement, FS_RemoveElement DEF EntryBound
<1> QED BY <1>1, <1>2 DEF EntryBound

\* A window is left alone by whoever neither stores, counts nor undoes.
LEMMA WindowUntouched ==
    ASSUME NEW i \in EntryIds, WindowInv(i),
           Storing(i)' = Storing(i), Undoing(i)' = Undoing(i),
           count'[i] = count[i], admitted'[i] = admitted[i],
           i \in raced => i \in raced'
    PROVE  WindowInv(i)'
<1>1. Settled(i) => Settled(i)'
  BY DEF Settled
<1> QED BY <1>1 DEF WindowInv

\* The steps that only move the caller.
Bystander(p) ==
    \/ Allow(p) \/ LoadOrStore(p) \/ StoreLastSeen(p) \/ LoadStart(p)
    \/ (CompareAndSwap(p) /\ windowStart[e[p]] # start[p])
    \/ MaybeCleanup(p) \/ DeleteEntry(p)

LEMMA BystanderKeeps ==
    ASSUME LimiterInv, NEW p \in Threads, Bystander(p)
    PROVE  LimiterInv'
<1> USE DEF LimiterInv
<1>1. /\ UNCHANGED <<count, admitted, raced>>
      /\ allowAt[p] \notin {"store", "undo"}
      /\ \E l \in Labels \ {"store", "undo"} : allowAt' = [allowAt EXCEPT ![p] = l]
  BY DEF Bystander, Allow, LoadOrStore, StoreLastSeen, LoadStart, CompareAndSwap, MaybeCleanup,
         DeleteEntry, At, AllowGoto, entryVars, ghosts, Labels
<1>2. \A q \in Threads \ {p} : allowAt'[q] = allowAt[q] /\ e'[q] = e[q]
  BY DEF Bystander, Allow, LoadOrStore, StoreLastSeen, LoadStart, CompareAndSwap, MaybeCleanup,
         DeleteEntry, AllowGoto, LimiterTypes
<1>3. \A i \in EntryIds : Storing(i)' = Storing(i) /\ Undoing(i)' = Undoing(i)
  BY <1>1, <1>2 DEF Storing, Undoing, LimiterTypes
<1>4. LimiterTypes' /\ EntryBound'
  <2>1. CASE Allow(p)
    <3>1. Entering' = Entering \cup {p} /\ p \notin Entering
      BY <2>1, <1>2 DEF Allow, At, AllowGoto, Entering, LimiterTypes
    <3>2. EntryBound'
      BY <2>1, <3>1, EntryBoundKept DEF Allow, LimiterTypes
    <3> QED BY <2>1, <3>2 DEF Allow, At, AllowGoto, LimiterTypes, entryVars, ghosts, Labels
  <2>2. CASE LoadOrStore(p)
    <3>1. Entering' = Entering \ {p} /\ p \in Entering
      BY <2>2, <1>2 DEF LoadOrStore, At, AllowGoto, Entering, LimiterTypes
    <3>2. EntryBound'
      BY <2>2, <3>1, EntryBoundKept DEF LoadOrStore, LimiterTypes
    <3>3. /\ used' \in Nat /\ entries' \in 0 .. used' /\ 0 .. used \subseteq 0 .. used'
          /\ \E x \in 1 .. used' : e' = [e EXCEPT ![p] = x]
      BY <2>2 DEF LoadOrStore, LimiterTypes, NoEntry
    <3>4. e' \in [Threads -> 0 .. used'] /\ e'[p] # NoEntry
      BY <3>3 DEF LimiterTypes, NoEntry
    <3>5. \A q \in Threads \ {p} : allowAt'[q] \notin {"idle", "entry"} => e'[q] # NoEntry
      BY <1>2 DEF LimiterTypes
    <3> QED BY <1>1, <3>2, <3>3, <3>4, <3>5 DEF LimiterTypes
  <2>3. CASE ~Allow(p) /\ ~LoadOrStore(p)
    <3>1. /\ UNCHANGED <<used, e, started>> /\ entries' \in {entries, NoEntry}
          /\ allowAt[p] \notin {"idle", "entry"}
          /\ allowAt'[p] # "entry"
      BY <2>3 DEF Bystander, StoreLastSeen, LoadStart, CompareAndSwap, MaybeCleanup,
             DeleteEntry, At, AllowGoto, LimiterTypes
    <3>2. Entering' = Entering
      BY <3>1, <1>2 DEF Entering
    <3>3. EntryBound'
      BY <3>1, <3>2, EntryBoundKept DEF LimiterTypes
    <3> QED BY <1>1, <1>2, <3>1, <3>3 DEF LimiterTypes, NoEntry
  <2> QED BY <2>1, <2>2, <2>3
<1>5. ASSUME NEW i \in EntryIds PROVE WindowInv(i)'
  BY <1>1, <1>3, WindowUntouched
<1> QED BY <1>4, <1>5

\* What the steps on a window have in common.
LEMMA WindowStep ==
    ASSUME LimiterInv, NEW p \in Threads, NEW from \in {"cas", "store", "add", "undo"},
           NEW to \in {"store", "undo", "sweep"},
           allowAt[p] = from, allowAt' = [allowAt EXCEPT ![p] = to],
           UNCHANGED <<used, entries, started, e>>,
           count' \in [EntryIds -> Int], admitted' \in [EntryIds -> Nat],
           \A i \in EntryIds \ {e[p]} :
              count'[i] = count[i] /\ admitted'[i] = admitted[i] /\ (i \in raced => i \in raced')
    PROVE  /\ LimiterTypes' /\ EntryBound' /\ e[p] \in EntryIds
           /\ Storing(e[p])' = (Storing(e[p]) \ {p}) \cup IF to = "store" THEN {p} ELSE {}
           /\ Undoing(e[p])' = (Undoing(e[p]) \ {p}) \cup IF to = "undo" THEN {p} ELSE {}
           /\ \A i \in EntryIds \ {e[p]} : WindowInv(i)'
<1> USE DEF LimiterInv
<1>1. /\ e[p] \in EntryIds /\ allowAt'[p] = to
      /\ \A q \in Threads \ {p} : allowAt'[q] = allowAt[q]
  BY EntryHeld DEF LimiterTypes
<1>2. LimiterTypes'
  BY <1>1 DEF LimiterTypes, Labels
<1>3. EntryBound'
  <2>1. Entering' = Entering
    BY <1>1 DEF Entering
  <2> QED BY <2>1, EntryBoundKept DEF LimiterTypes
<1>4. /\ Storing(e[p])' = (Storing(e[p]) \ {p}) \cup IF to = "store" THEN {p} ELSE {}
      /\ Undoing(e[p])' = (Undoing(e[p]) \ {p}) \cup IF to = "undo" THEN {p} ELSE {}
  BY <1>1 DEF Storing, Undoing
<1>5. ASSUME NEW i \in EntryIds \ {e[p]} PROVE WindowInv(i)'
  <2>1. Storing(i)' = Storing(i) /\ Undoing(i)' = Undoing(i)
    BY <1>1, <1>5 DEF Storing, Undoing
  <2>2. count'[i] = count[i] /\ admitted'[i] = admitted[i]
    BY <1>5 DEF LimiterTypes
  <2> QED BY <2>1, <2>2, <1>5, WindowUntouched
<1> QED BY <1>1, <1>2, <1>3, <1>4, <1>5

\* The caller opens a window: nothing else counts towards it before the Store.
LEMMA WindowOpens ==
    ASSUME LimiterInv, NEW p \in Threads, CompareAndSwap(p), windowStart[e[p]] = start[p]
    PROVE  LimiterInv'
<1>1. /\ allowAt[p] = "cas" /\ allowAt' = [allowAt EXCEPT ![p] = "store"]
      /\ admitted' = [admitted EXCEPT ![e[p]] = 1]
      /\ raced' = IF Other(p, "store") THEN raced \cup {e[p]} ELSE raced \ {e[p]}
      /\ UNCHANGED <<used, entries, started, e, count>>
  BY DEF CompareAndSwap, At, AllowGoto
<1>w. /\ e[p] \in EntryIds
      /\ count' \in [EntryIds -> Int] /\ admitted' \in [EntryIds -> Nat]
      /\ \A i \in EntryIds \ {e[p]} :
            count'[i] = count[i] /\ admitted'[i] = admitted[i] /\ (i \in raced => i \in raced')
  BY <1>1, EntryHeld DEF LimiterInv, LimiterTypes
<1>2. /\ LimiterTypes' /\ EntryBound' /\ e[p] \in EntryIds
      /\ Storing(e[p])' = (Storing(e[p]) \ {p}) \cup {p}
      /\ Undoing(e[p])' = Undoing(e[p]) \ {p}
      /\ \A j \in EntryIds \ {e[p]} : WindowInv(j)'
  BY <1>1, <1>w, WindowStep
<1>3. IsFiniteSet(Undoing(e[p]) \ {p})
  BY <1>2, FS_RemoveElement DEF LimiterInv, WindowInv
<1>4. e[p] \notin raced' => \A q \in Storing(e[p]) : q = p
  BY <1>1 DEF Other, At, Storing
<1>5. admitted'[e[p]] = 1
  BY <1>1, <1>2 DEF LimiterInv, LimiterTypes
<1>6. WindowInv(e[p])'
  BY <1>1, <1>2, <1>3, <1>4, <1>5 DEF WindowInv
<1> QED BY <1>1, <1>2, <1>6 DEF LimiterInv

\* It sets the count to one: the window begins with it alone, or in a race.
LEMMA WindowBegins ==
    ASSUME LimiterInv, NEW p \in Threads, StoreCount(p)
    PROVE  LimiterInv'
<1>1. /\ allowAt[p] = "store" /\ allowAt' = [allowAt EXCEPT ![p] = "sweep"]
      /\ count' = [count EXCEPT ![e[p]] = 1]
      /\ raced' = IF Other(p, "store") \/ Other(p, "undo") THEN raced \cup {e[p]} ELSE raced
      /\ UNCHANGED <<used, entries, started, e, admitted>>
  BY DEF StoreCount, At, AllowGoto, Mark, Answer
<1>w. /\ e[p] \in EntryIds
      /\ count' \in [EntryIds -> Int] /\ admitted' \in [EntryIds -> Nat]
      /\ \A i \in EntryIds \ {e[p]} :
            count'[i] = count[i] /\ admitted'[i] = admitted[i] /\ (i \in raced => i \in raced')
  BY <1>1, EntryHeld DEF LimiterInv, LimiterTypes
<1>2. /\ LimiterTypes' /\ EntryBound' /\ e[p] \in EntryIds
      /\ Storing(e[p])' = Storing(e[p]) \ {p}
      /\ Undoing(e[p])' = Undoing(e[p]) \ {p}
      /\ \A j \in EntryIds \ {e[p]} : WindowInv(j)'
  BY <1>1, <1>w, WindowStep
<1>3. IsFiniteSet(Undoing(e[p]) \ {p})
  BY <1>2, FS_RemoveElement DEF LimiterInv, WindowInv
<1>4. ASSUME e[p] \notin raced'
      PROVE  Storing(e[p])' = {} /\ Undoing(e[p])' = {} /\ admitted[e[p]] = 1
  <2>1. ~Other(p, "store") /\ ~Other(p, "undo") /\ e[p] \notin raced
    BY <1>1, <1>4
  <2>2. p \in Storing(e[p])
    BY <1>1 DEF Storing
  <2>3. \A q \in Threads : q # p => q \notin Storing(e[p]) /\ q \notin Undoing(e[p])
    BY <2>1 DEF Other, At, Storing, Undoing
  <2>4. WindowInv(e[p])
    BY <1>2 DEF LimiterInv
  <2>5. admitted[e[p]] = 1
    BY <2>1, <2>2, <2>4 DEF WindowInv
  <2>6. Storing(e[p]) \ {p} = {} /\ Undoing(e[p]) \ {p} = {}
    BY <2>3 DEF Storing, Undoing
  <2> QED BY <1>2, <2>5, <2>6
<1>5. count'[e[p]] = 1
  BY <1>1, <1>2 DEF LimiterInv, LimiterTypes
<1>6. WindowInv(e[p])'
  <2>1. Undoing(e[p])' = {} => Cardinality(Undoing(e[p])') = 0
    BY FS_EmptySet
  <2> QED BY <1>1, <1>2, <1>3, <1>4, <1>5, <2>1, LimiterAssumption
          DEF WindowInv, Settled, LimiterAssumption
<1> QED BY <1>1, <1>2, <1>6 DEF LimiterInv

\* A call is counted, and admitted or turned away.
LEMMA CallCounted ==
    ASSUME LimiterInv, NEW p \in Threads, AddCount(p)
    PROVE  LimiterInv'
<1>1. /\ allowAt[p] = "add"
      /\ count' = [count EXCEPT ![e[p]] = @ + 1]
      /\ raced' = IF Other(p, "store") THEN raced \cup {e[p]} ELSE raced
      /\ UNCHANGED <<used, entries, started, e>>
  BY DEF AddCount, At, Mark
<1>2. e[p] \in EntryIds
  BY <1>1, EntryHeld
<1>3. count'[e[p]] = count[e[p]] + 1 /\ count[e[p]] \in Int /\ admitted[e[p]] \in Nat
  BY <1>1, <1>2 DEF LimiterInv, LimiterTypes
<1>4. /\ IsFiniteSet(Undoing(e[p])) /\ p \notin Undoing(e[p]) /\ p \notin Storing(e[p])
      /\ Cardinality(Undoing(e[p])) \in Nat
      /\ IsFiniteSet(Undoing(e[p]) \cup {p})
      /\ Cardinality(Undoing(e[p]) \cup {p}) = Cardinality(Undoing(e[p])) + 1
  BY <1>1, <1>2, FS_AddElement, FS_CardinalityType
  DEF LimiterInv, WindowInv, Undoing, Storing
<1>5. e[p] \notin raced' => Storing(e[p]) = {} /\ Settled(e[p])
  BY <1>1, <1>2, <1>4 DEF Other, At, Storing, LimiterInv, WindowInv
<1>6. Undoing(e[p]) = {} => Cardinality(Undoing(e[p])) = 0
  BY FS_EmptySet
<1>7. Max \in Nat
  BY LimiterAssumption DEF LimiterAssumption
<1>8. CASE count'[e[p]] <= Max
  <2>1. /\ admitted' = [admitted EXCEPT ![e[p]] = @ + 1]
        /\ allowAt' = [allowAt EXCEPT ![p] = "sweep"]
    BY <1>8, <1>3, <1>7 DEF AddCount, Answer, AllowGoto
  <2>2. admitted'[e[p]] = admitted[e[p]] + 1
    BY <1>2, <2>1 DEF LimiterInv, LimiterTypes
  <2>w. /\ count' \in [EntryIds -> Int] /\ admitted' \in [EntryIds -> Nat]
        /\ \A i \in EntryIds \ {e[p]} :
              /\ count'[i] = count[i] /\ admitted'[i] = admitted[i]
              /\ i \in raced => i \in raced'
    BY <1>1, <1>2, <2>1 DEF LimiterInv, LimiterTypes
  <2>3. /\ LimiterTypes' /\ EntryBound'
        /\ Storing(e[p])' = Storing(e[p]) /\ Undoing(e[p])' = Undoing(e[p])
        /\ \A j \in EntryIds \ {e[p]} : WindowInv(j)'
    <3>1. /\ LimiterTypes' /\ EntryBound'
          /\ Storing(e[p])' = Storing(e[p]) \ {p} /\ Undoing(e[p])' = Undoing(e[p]) \ {p}
          /\ \A j \in EntryIds \ {e[p]} : WindowInv(j)'
      BY <1>1, <2>1, <2>w, WindowStep
    <3> QED BY <3>1, <1>4
  <2>4. WindowInv(e[p])'
    BY <1>1, <1>3, <1>4, <1>5, <1>6, <1>7, <1>8, <2>2, <2>3 DEF WindowInv, Settled
  <2> QED BY <1>1, <2>3, <2>4 DEF LimiterInv
<1>9. CASE count'[e[p]] > Max
  <2>1. admitted' = admitted /\ allowAt' = [allowAt EXCEPT ![p] = "undo"]
    BY <1>9, <1>3, <1>7 DEF AddCount, Answer, AllowGoto
  <2>w. /\ count' \in [EntryIds -> Int] /\ admitted' \in [EntryIds -> Nat]
        /\ \A i \in EntryIds \ {e[p]} :
              /\ count'[i] = count[i] /\ admitted'[i] = admitted[i]
              /\ i \in raced => i \in raced'
    BY <1>1, <1>2, <2>1 DEF LimiterInv, LimiterTypes
  <2>2. /\ LimiterTypes' /\ EntryBound'
        /\ Storing(e[p])' = Storing(e[p]) /\ Undoing(e[p])' = Undoing(e[p]) \cup {p}
        /\ \A j \in EntryIds \ {e[p]} : WindowInv(j)'
    <3>1. /\ LimiterTypes' /\ EntryBound'
          /\ Storing(e[p])' = Storing(e[p]) \ {p}
          /\ Undoing(e[p])' = (Undoing(e[p]) \ {p}) \cup {p}
          /\ \A j \in EntryIds \ {e[p]} : WindowInv(j)'
      BY <1>1, <2>1, <2>w, WindowStep
    <3> QED BY <3>1, <1>4
  <2>3. WindowInv(e[p])'
    BY <1>1, <1>3, <1>4, <1>5, <1>6, <1>7, <1>9, <2>1, <2>2 DEF WindowInv, Settled
  <2> QED BY <1>1, <2>2, <2>3 DEF LimiterInv
<1> QED BY <1>3, <1>7, <1>8, <1>9

\* A call that was turned away takes its count back.
LEMMA CountTakenBack ==
    ASSUME LimiterInv, NEW p \in Threads, UndoCount(p)
    PROVE  LimiterInv'
<1>1. /\ allowAt[p] = "undo" /\ allowAt' = [allowAt EXCEPT ![p] = "sweep"]
      /\ count' = [count EXCEPT ![e[p]] = @ - 1]
      /\ UNCHANGED <<used, entries, started, e, admitted, raced>>
  BY DEF UndoCount, At, AllowGoto, Answer, ghosts
<1>2. e[p] \in EntryIds
  BY <1>1, EntryHeld
<1>3. count'[e[p]] = count[e[p]] - 1 /\ count[e[p]] \in Int /\ admitted[e[p]] \in Nat
  BY <1>1, <1>2 DEF LimiterInv, LimiterTypes
<1>4. /\ p \in Undoing(e[p]) /\ p \notin Storing(e[p])
      /\ Cardinality(Undoing(e[p])) \in Nat
      /\ IsFiniteSet(Undoing(e[p]) \ {p})
      /\ Cardinality(Undoing(e[p]) \ {p}) = Cardinality(Undoing(e[p])) - 1
  BY <1>1, <1>2, FS_RemoveElement, FS_CardinalityType
  DEF LimiterInv, WindowInv, Undoing, Storing
<1>5. /\ LimiterTypes' /\ EntryBound'
      /\ Storing(e[p])' = Storing(e[p]) /\ Undoing(e[p])' = Undoing(e[p]) \ {p}
      /\ \A j \in EntryIds \ {e[p]} : WindowInv(j)'
  <2>1. /\ count' \in [EntryIds -> Int] /\ admitted' \in [EntryIds -> Nat]
        /\ \A i \in EntryIds \ {e[p]} :
              count'[i] = count[i] /\ admitted'[i] = admitted[i] /\ (i \in raced => i \in raced')
    BY <1>1, <1>2 DEF LimiterInv, LimiterTypes
  <2>2. /\ LimiterTypes' /\ EntryBound'
        /\ Storing(e[p])' = Storing(e[p]) \ {p} /\ Undoing(e[p])' = Undoing(e[p]) \ {p}
        /\ \A j \in EntryIds \ {e[p]} : WindowInv(j)'
    BY <1>1, <2>1, WindowStep
  <2> QED BY <2>2, <1>4
<1>6. WindowInv(e[p])
  BY <1>2 DEF LimiterInv
<1>7. WindowInv(e[p])'
  BY <1>1, <1>3, <1>4, <1>5, <1>6 DEF WindowInv, Settled
<1> QED BY <1>1, <1>5, <1>7 DEF LimiterInv

LEMMA LimiterInvariant == LimiterSpec => []LimiterInv
<1>1. LimiterInv /\ [LimiterNext]_limiterVars => LimiterInv'
  <2> SUFFICES ASSUME LimiterInv, [LimiterNext]_limiterVars PROVE LimiterInv'
    OBVIOUS
  <2>1. CASE ClockTick \/ UNCHANGED limiterVars
    <3>1. UNCHANGED <<used, entries, started, allowAt, e, count, admitted, raced>>
      BY <2>1 DEF ClockTick, limiterVars, entryVars, ghosts
    <3> QED BY <3>1 DEF LimiterInv, LimiterTypes, EntryBound, WindowInv, Settled, Entering,
                        Storing, Undoing
  <2>2. ASSUME NEW p \in Threads, CompareAndSwap(p) PROVE LimiterInv'
    BY <2>2, WindowOpens, BystanderKeeps DEF Bystander
  <2>3. ASSUME NEW p \in Threads, Allow(p) \/ AllowStep(p) PROVE LimiterInv'
    BY <2>2, <2>3, BystanderKeeps, WindowBegins, CallCounted, CountTakenBack
    DEF AllowStep, Bystander
  <2> QED BY <2>1, <2>3 DEF LimiterNext
<1> QED BY <1>1, LimiterInvInit, PTL DEF LimiterSpec

\* FixedWindowLimiter.Allow: for any number of callers, whatever they interleave, an entry
\* admits at most Max calls in a window that did not begin in a race.
THEOREM LimitHolds == LimiterSpec => []WithinLimitUnlessRaced
<1>1. LimiterInv => WithinLimitUnlessRaced
  BY LimiterAssumption
  DEF LimiterInv, WindowInv, Settled, WithinLimitUnlessRaced, LimiterAssumption
<1> QED BY <1>1, LimiterInvariant, PTL

\* Whoever is turned away was counted over the limit of its window.
LEMMA DeniedWhenFull ==
    ASSUME LimiterInv, [LimiterNext]_limiterVars, NEW p \in Threads,
           allowAt[p] = "add", allowAt'[p] = "undo"
    PROVE  admitted[e[p]] >= Max \/ e[p] \in raced'
<1>1. e[p] \in EntryIds
  BY EntryHeld
<1>2. AddCount(p) /\ count'[e[p]] > Max
  <2>0. allowAt' # allowAt /\ allowAt \in [Threads -> Labels]
    BY DEF LimiterInv, LimiterTypes
  <2>1. ASSUME NEW q \in Threads, q # p, Allow(q) \/ AllowStep(q) PROVE FALSE
    <3>1. \E l : allowAt' = [allowAt EXCEPT ![q] = l]
      BY <2>1 DEF Allow, AllowStep, LoadOrStore, StoreLastSeen, LoadStart, CompareAndSwap,
                  StoreCount, AddCount, UndoCount, MaybeCleanup, DeleteEntry, AllowGoto, Answer
    <3> QED BY <2>0, <2>1, <3>1
  <2>2. Allow(p) \/ AllowStep(p)
    BY <2>0, <2>1 DEF LimiterNext, ClockTick, limiterVars
  <2>3. AddCount(p)
    BY <2>2 DEF Allow, AllowStep, LoadOrStore, StoreLastSeen, LoadStart, CompareAndSwap,
                StoreCount, UndoCount, MaybeCleanup, DeleteEntry, At
  <2> QED BY <2>0, <2>3 DEF AddCount, Answer, AllowGoto
<1>3. count'[e[p]] = count[e[p]] + 1 /\ count[e[p]] \in Int /\ admitted[e[p]] \in Nat
  BY <1>1, <1>2 DEF AddCount, LimiterInv, LimiterTypes
<1>4. e[p] \notin raced' => Settled(e[p])
  BY <1>1, <1>2 DEF AddCount, At, Mark, Other, Storing, LimiterInv, WindowInv
<1>5. Undoing(e[p]) = {} => Cardinality(Undoing(e[p])) = 0
  BY FS_EmptySet
<1> QED BY <1>2, <1>3, <1>4, <1>5, LimiterAssumption DEF Settled, LimiterAssumption

\* Allow: a call is turned away only from a full window or from one that began in a race.
THEOREM NobodyIsDeniedEarly == LimiterSpec => DeniedOnlyWhenFull
<1>1. LimiterInv /\ [LimiterNext]_limiterVars =>
        [\A p \in Threads : At(p, "add") /\ allowAt'[p] = "undo"
            => admitted[e[p]] >= Max \/ e[p] \in raced']_limiterVars
  BY DeniedWhenFull DEF At
<1> QED BY <1>1, LimiterInvariant, PTL DEF LimiterSpec, DeniedOnlyWhenFull

----------------------------------------------------------------------------
\* Types, where the invariants above leave something of them open.

\* The key cache keeps its types: versions, times and positions of lookups.
THEOREM KeyTypes == KeySpec => []KeyTypeOK
<1>1. KeyInv => KeyTypeOK
  BY DEF KeyInv
<1> QED BY <1>1, KeyInvariant, PTL

\* The writer of the metrics middleware and its counters keep their types.
THEOREM MetricsTypes == MetricsSpec => []MetricsTypeOK
<1>1. MetricInv => MetricsTypeOK
  BY DEF MetricInv, MetricTypes, MetricsTypeOK
<1> QED BY <1>1, MetricInvariant, PTL

\* gobreaker's counters keep their types; the failures in a row never exceed the threshold.
THEOREM BreakerTypes == BreakerSpec => []BreakerTypeOK
<1>1. BreakerInv => BreakerTypeOK
  <2> SUFFICES ASSUME BreakerInv PROVE BreakerTypeOK
    OBVIOUS
  <2>1. wrapped \subseteq UNION Wrapped
    BY DEF BreakerInv, BreakerCounts
  <2>2. flight \in [Callers -> [op : {"none"} \cup UNION Wrapped, gen : Nat]]
    BY <2>1 DEF BreakerInv, BreakerCounts
  <2> QED BY <2>2 DEF BreakerInv, BreakerCounts, BreakerTypeOK
<1> QED BY <1>1, BreakerInvInit, BreakerInvStep, PTL DEF BreakerSpec

\* The generator and its ids keep to the milliseconds the clock shows and to the entropy.
THEOREM MessageIdTypes == MessageIdSpec => []MessageIdTypeOK
<1>0. /\ 1 \in 1 .. MaxMs /\ 0 \in 0 .. MaxMs /\ 0 \in 0 .. EntropySize - 1
      /\ \A S : <<>> \in Seq(S)
  BY IdAssumption DEF IdAssumption
<1>1. MessageIdInit => MessageIdTypeOK
  BY <1>0 DEF MessageIdInit, MessageIdTypeOK
<1>2. MessageIdTypeOK /\ [MessageIdNext]_messageIdVars => MessageIdTypeOK'
  <2> SUFFICES ASSUME MessageIdTypeOK, [MessageIdNext]_messageIdVars PROVE MessageIdTypeOK'
    OBVIOUS
  <2>1. CASE NewId
    <3>1. entropy' \in 0 .. EntropySize - 1
      <4>1. IncrementEntropy(entropy) \in 0 .. EntropySize - 1
        BY DivMod, IdAssumption DEF IncrementEntropy, MessageIdTypeOK, IdAssumption
      <4> QED BY <2>1, <4>1 DEF NewId
    <3>2. /\ wall' = wall /\ lastMS' = wall /\ ids' = Append(ids, <<wall, entropy'>>)
          /\ wall \in 1 .. MaxMs
      BY <2>1 DEF NewId, MessageIdTypeOK
    <3>3. ids' \in Seq((1 .. MaxMs) \X (0 .. EntropySize - 1))
      <4> DEFINE Pairs == (1 .. MaxMs) \X (0 .. EntropySize - 1)
      <4>1. <<wall, entropy'>> \in Pairs /\ ids \in Seq(Pairs)
        BY <3>1, <3>2 DEF MessageIdTypeOK
      <4> HIDE DEF Pairs
      <4>2. ids' \in Seq(Pairs)
        BY <3>2, <4>1, AppendProperties
      <4> QED BY <4>2 DEF Pairs
    <3>4. wall \in 0 .. MaxMs
      BY <3>2, IdAssumption DEF IdAssumption
    <3> QED BY <3>1, <3>2, <3>3, <3>4 DEF MessageIdTypeOK
  <2>2. CASE ClockMoves
    BY <2>2 DEF ClockMoves, MessageIdTypeOK
  <2>3. CASE UNCHANGED messageIdVars
    BY <2>3 DEF messageIdVars, MessageIdTypeOK
  <2> QED BY <2>1, <2>2, <2>3 DEF MessageIdNext
<1> QED BY <1>1, <1>2, PTL DEF MessageIdSpec

\* The token hash and the calls on it keep their types; an expiry is never set past `Never'.
THEOREM PushCallTypes == PushSpec => []PushTypeOK
<1> DEFINE ExpiryOK == expireAt \in 0 .. Never
<1>0. Never \in Nat /\ \A d \in 0 .. MaxDay : d + TokenTtl \in 0 .. Never
  BY PushAssumption DEF PushAssumption, Never
<1>1. PushInit => ExpiryOK
  BY <1>0 DEF PushInit
<1>2. PushInv /\ ExpiryOK /\ [PushNext]_pushVars => ExpiryOK'
  <2> SUFFICES ASSUME PushInv, expireAt \in 0 .. Never, [PushNext]_pushVars
               PROVE  expireAt' \in 0 .. Never
    OBVIOUS
  <2>1. Never \in 0 .. Never /\ day + TokenTtl \in 0 .. Never
    BY <1>0 DEF PushInv, PushTypes
  <2>2. expireAt' \in {expireAt, Never, day + TokenTtl}
    BY DEF PushNext, Hset, HsetEffect, Expire, ExpireEffect, Delete, HdelEffect, ListByUser,
           NotifyMessage, NextDay, hash, pushVars
  <2> QED BY <2>1, <2>2
<1>3. PushInv /\ ExpiryOK => PushTypeOK
  BY DEF PushInv, PushTypes, PushTypeOK
<1> HIDE DEF ExpiryOK
<1> QED BY <1>1, <1>2, <1>3, PushInvInit, PushInvariant, PTL DEF PushSpec

\* What LimiterInv leaves open of the limiter's types.
TimeTypes ==
    /\ clock \in Nat /\ calls \in Nat
    /\ windowStart \in [EntryIds -> Nat] /\ lastSeen \in [EntryIds -> Nat]
    /\ allowNow \in [Threads -> Nat] /\ start \in [Threads -> Nat]
    /\ allowed \in [Threads -> BOOLEAN]
    /\ raced \subseteq EntryIds

LEMMA TimeTypesStep == LimiterInv /\ TimeTypes /\ [LimiterNext]_limiterVars => TimeTypes'
<1> SUFFICES ASSUME LimiterInv, TimeTypes, [LimiterNext]_limiterVars PROVE TimeTypes'
  OBVIOUS
<1>1. CASE ClockTick \/ UNCHANGED limiterVars
  BY <1>1 DEF ClockTick, limiterVars, entryVars, ghosts, TimeTypes
<1>2. ASSUME NEW p \in Threads, Allow(p) PROVE TimeTypes'
  BY <1>2 DEF Allow, entryVars, ghosts, TimeTypes
<1>3. ASSUME NEW p \in Threads, LoadOrStore(p) PROVE TimeTypes'
  BY <1>3 DEF LoadOrStore, NewEntry, ghosts, TimeTypes
<1>4. ASSUME NEW p \in Threads, StoreLastSeen(p) \/ LoadStart(p) PROVE TimeTypes'
  <2>1. e[p] \in EntryIds
    BY <1>4, EntryHeld DEF StoreLastSeen, LoadStart, At
  <2> QED BY <1>4, <2>1 DEF StoreLastSeen, LoadStart, entryVars, ghosts, TimeTypes
<1>5. ASSUME NEW p \in Threads,
             CompareAndSwap(p) \/ StoreCount(p) \/ AddCount(p) \/ UndoCount(p)
      PROVE  TimeTypes'
  <2>1. e[p] \in EntryIds
    BY <1>5, EntryHeld DEF CompareAndSwap, StoreCount, AddCount, UndoCount, At
  <2>2. /\ UNCHANGED <<clock, calls, lastSeen, allowNow, start>>
        /\ windowStart' \in [EntryIds -> Nat] /\ raced' \subseteq EntryIds
    BY <1>5, <2>1 DEF CompareAndSwap, StoreCount, AddCount, UndoCount, Mark, ghosts, TimeTypes
  <2>3. allowed' \in [Threads -> BOOLEAN]
    BY <1>5 DEF CompareAndSwap, StoreCount, AddCount, UndoCount, Answer, TimeTypes
  <2> QED BY <2>2, <2>3 DEF TimeTypes
<1>6. ASSUME NEW p \in Threads, MaybeCleanup(p) \/ DeleteEntry(p) PROVE TimeTypes'
  BY <1>6 DEF MaybeCleanup, DeleteEntry, entryVars, ghosts, TimeTypes
<1> QED BY <1>1, <1>2, <1>3, <1>4, <1>5, <1>6 DEF LimiterNext, AllowStep

\* Allow and maybeCleanup keep their types: a caller past the map holds an entry that exists,
\* and there are never more entries than calls.
THEOREM LimiterStateTypes == LimiterSpec => []LimiterTypeOK
<1>1. LimiterInit => TimeTypes
  BY DEF LimiterInit, TimeTypes
<1>2. LimiterInv /\ TimeTypes => LimiterTypeOK
  <2> SUFFICES ASSUME LimiterInv, TimeTypes PROVE LimiterTypeOK
    OBVIOUS
  <2>1. used \in 0 .. MaxCalls
    <3>1. Cardinality(Entering) \in Nat
      BY FS_CardinalityType DEF LimiterInv, EntryBound
    <3> QED BY <3>1, LimiterAssumption DEF LimiterInv, EntryBound, LimiterTypes, LimiterAssumption
  <2>2. started \in Nat
    BY DEF LimiterInv, EntryBound
  <2> QED BY <2>1, <2>2 DEF LimiterInv, LimiterTypes, Labels, TimeTypes, LimiterTypeOK
<1> QED BY <1>1, <1>2, LimiterInvInit, LimiterInvariant, TimeTypesStep, PTL DEF LimiterSpec
=============================================================================
