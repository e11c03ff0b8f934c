----------------------------- MODULE ValueProofs -----------------------------
(***************************************************************************)
(* Theorems about Value, for bytes of any even number of values, and texts *)
(* and lengths of any kind.                                                *)
(***************************************************************************)
EXTENDS Value, Induction

-----------------------------------------------------------------------------
(* Numbers and their parts. *)

\* The radix and its half.
LEMMA HalfRadix ==
  \E h \in Nat : Radix = 2 * h /\ h >= 1
<1>1. PICK r \in Nat : r = Radix /\ r >= 2 /\ r % 2 = 0
  BY RadixIsEven
<1>2. r = 2 * (r \div 2) /\ r \div 2 \in Nat /\ r \div 2 >= 1
  BY SMT, <1>1
<1>. QED
  BY <1>1, <1>2

\* Division, and that there is but one.
LEMMA DivMod ==
  ASSUME NEW x \in Int, NEW y \in Nat, y >= 1
  PROVE  /\ x \div y \in Int /\ x % y \in Nat /\ x % y < y
         /\ x = y * (x \div y) + (x % y)
BY SMT

LEMMA DivUnique ==
  ASSUME NEW x \in Int, NEW y \in Nat, NEW q \in Int, NEW r \in Nat, r < y, x = y * q + r
  PROVE  x \div y = q /\ x % y = r
<1>1. PICK p \in Int, s \in Nat : p = x \div y /\ s = x % y /\ s < y /\ x = y * p + s
  BY DivMod
<1>2. y * (p - q) = r - s
  BY SMT, <1>1
<1>3. p - q \in Int /\ (p - q >= 1 \/ p - q <= -1 \/ p - q = 0)
  BY SMT
<1>4. CASE p - q >= 1
  BY SMT, <1>1, <1>2, <1>4
<1>5. CASE p - q <= -1
  BY SMT, <1>1, <1>2, <1>5
<1>6. CASE p - q = 0
  BY SMT, <1>1, <1>2, <1>6
<1>. QED
  BY <1>3, <1>4, <1>5, <1>6

\* To divide by a product is to divide twice.
LEMMA DivTwice ==
  ASSUME NEW x \in Nat, NEW a \in Nat, NEW b \in Nat, a >= 1, b >= 1
  PROVE  x \div (a * b) = (x \div a) \div b
<1>1. PICK q \in Int, r \in Nat : q = x \div a /\ r < a /\ x = a * q + r
  BY DivMod
<1>2. PICK p \in Int, s \in Nat : p = q \div b /\ s < b /\ q = b * p + s
  BY DivMod
<1>3. PICK y \in Nat, t \in Nat : y = a * b /\ t = a * s + r
  BY SMT, <1>1, <1>2
<1>4. x = y * p + t
  <2>1. x = a * (b * p + s) + r
    BY <1>1, <1>2, Zenon
  <2>2. a * (b * p + s) = (a * b) * p + a * s
    BY SMT
  <2>. QED
    BY SMT, <1>3, <2>1, <2>2
<1>5. t < y
  <2>1. a * s + a <= a * b
    BY SMT, <1>2
  <2>. QED
    BY SMT, <1>1, <1>3, <2>1
<1>6. x \div y = p
  BY <1>4, <1>5, DivUnique
<1>. QED
  BY <1>1, <1>2, <1>3, <1>6

-----------------------------------------------------------------------------
(* Powers of the radix. *)

\* The local function of Power().
Pows(p, n) == p = [k \in 0..n |-> IF k = 0 THEN 1 ELSE Radix * p[k-1]]

LEMMA PowerIs ==
  ASSUME NEW n
  PROVE  Power(n) = (CHOOSE p : Pows(p, n))[n]
BY DEF Power, Pows

LEMMA PowsExists ==
  ASSUME NEW n \in Nat
  PROVE  \E p : Pows(p, n)
<1> DEFINE step == [k \in 1..n |-> [v \in Nat |-> Radix * v]]
<1>1. Radix \in Nat /\ 1 \in Nat
  BY RadixIsEven
<1>2. step \in [1..n -> [Nat -> Nat]]
  BY <1>1
<1>3. \A k \in 1..n, v \in Nat : step[k][v] = Radix * v
  OBVIOUS
<1> HIDE DEF step
<1>4. PICK p \in [0..n -> Nat] : Recurs(p, n, 1, step)
  BY <1>1, <1>2, RecursionExists
<1>5. \A k \in 0..n : p[k] = IF k = 0 THEN 1 ELSE Radix * p[k-1]
  <2> SUFFICES ASSUME NEW k \in 0..n, k # 0 PROVE p[k] = Radix * p[k-1]
    BY <1>4 DEF Recurs
  <2>1. k \in 1..n /\ k - 1 \in 0..n
    OBVIOUS
  <2>. QED
    BY <1>3, <1>4, <2>1 DEF Recurs
<1>6. p = [k \in 0..n |-> IF k = 0 THEN 1 ELSE Radix * p[k-1]]
  BY <1>5, Zenon
<1>. QED
  BY <1>6 DEF Pows

\* Place by place.
LEMMA PowsAt ==
  ASSUME NEW n \in Nat, NEW p, Pows(p, n)
  PROVE  p[0] = 1 /\ \A k \in 0..n : k + 1 <= n => p[k+1] = Radix * p[k]
<1> DEFINE g == [k \in 0..n |-> IF k = 0 THEN 1 ELSE Radix * p[k-1]]
<1>1. p = g
  BY Zenon DEF Pows
<1>2. g[0] = 1 /\ \A k \in 1..n : g[k] = Radix * p[k-1]
  OBVIOUS
<1> HIDE DEF g
<1>3. p[0] = 1 /\ \A k \in 1..n : p[k] = Radix * p[k-1]
  BY <1>1, <1>2, Zenon
<1>4. ASSUME NEW k \in 0..n, k + 1 <= n
      PROVE  p[k+1] = Radix * p[k]
  <2>1. k + 1 \in 1..n /\ k + 1 - 1 = k
    BY <1>4
  <2>. QED
    BY <1>3, <2>1
<1>. QED
  BY <1>3, <1>4

\* Two of them agree where both are.
LEMMA PowsAgree ==
  ASSUME NEW n \in Nat, NEW m \in Nat, NEW p, NEW q, Pows(p, n), Pows(q, m)
  PROVE  \A k \in Nat : k <= n /\ k <= m => p[k] = q[k]
<1> DEFINE T == {k \in Nat : k <= n /\ k <= m => p[k] = q[k]}
<1>1. 0 \in T
  BY PowsAt
<1>2. ASSUME NEW k \in Nat, k \in T
      PROVE  k + 1 \in T
  <2> SUFFICES ASSUME k + 1 <= n, k + 1 <= m PROVE p[k+1] = q[k+1]
    OBVIOUS
  <2>1. k \in 0..n /\ k \in 0..m /\ p[k] = q[k]
    BY <1>2
  <2>2. p[k+1] = Radix * p[k]
    BY <2>1, PowsAt
  <2>3. q[k+1] = Radix * q[k]
    BY <2>1, PowsAt
  <2>. QED
    BY <2>1, <2>2, <2>3
<1> HIDE DEF T
<1>3. Nat \subseteq T
  BY <1>1, <1>2, NatSetInduction
<1>. QED
  BY <1>3 DEF T

(* Power() is one, and grows by one factor after the other.                  *)
LEMMA PowerSteps ==
  /\ Power(0) = 1
  /\ \A n \in Nat : Power(n + 1) = Radix * Power(n)
<1>1. \A n \in Nat : Pows(CHOOSE p : Pows(p, n), n)
  BY PowsExists, Zenon
<1>2. Power(0) = 1
  BY <1>1, PowerIs, PowsAt
<1>3. ASSUME NEW n \in Nat
      PROVE  Power(n + 1) = Radix * Power(n)
  <2>1. n + 1 \in Nat /\ n \in 0..n+1 /\ n + 1 <= n + 1 /\ n <= n /\ n <= n + 1
    OBVIOUS
  <2>2. PICK p : Pows(p, n) /\ p = CHOOSE g : Pows(g, n)
    BY <1>1
  <2>3. PICK q : Pows(q, n + 1) /\ q = CHOOSE g : Pows(g, n + 1)
    BY <1>1, <2>1
  <2>4. q[n+1] = Radix * q[n]
    BY <2>1, <2>3, PowsAt
  <2>5. p[n] = q[n]
    BY <2>1, <2>2, <2>3, PowsAgree
  <2>6. Power(n) = p[n] /\ Power(n + 1) = q[n+1]
    BY <2>2, <2>3, PowerIs, Zenon
  <2>. QED
    BY <2>4, <2>5, <2>6, Zenon
<1>. QED
  BY <1>2, <1>3

LEMMA PowerNat ==
  \A n \in Nat : Power(n) \in Nat /\ Power(n) >= 1
<1> DEFINE T == {n \in Nat : Power(n) \in Nat /\ Power(n) >= 1}
<1>1. 0 \in T
  BY PowerSteps
<1>2. ASSUME NEW n \in Nat, n \in T
      PROVE  n + 1 \in T
  <2>1. PICK x \in Nat, h \in Nat : x = Power(n) /\ x >= 1 /\ Radix = 2 * h /\ h >= 1
    BY <1>2, HalfRadix
  <2>2. PICK r \in Nat : r = Radix /\ r >= 1
    BY <2>1
  <2>3. r * x \in Nat /\ r * x >= 1
    BY SMT, <2>1, <2>2
  <2>4. Power(n + 1) = r * x
    BY <2>1, <2>2, PowerSteps, Zenon
  <2>. QED
    BY <2>3, <2>4
<1> HIDE DEF T
<1>3. Nat \subseteq T
  BY <1>1, <1>2, NatSetInduction
<1>. QED
  BY <1>3 DEF T

\* A power of one or more is twice something, and no less than twice the one before.
LEMMA PowerEven ==
  ASSUME NEW n \in Nat
  PROVE  \E h \in Nat : Power(n + 1) = 2 * h /\ h >= Power(n)
<1>1. PICK x \in Nat, h \in Nat : x = Power(n) /\ x >= 1 /\ Radix = 2 * h /\ h >= 1
  BY PowerNat, HalfRadix
<1>2. PICK y \in Nat : y = h * x
  BY SMT
<1>3. y >= x
  BY SMT, <1>1, <1>2
<1>4. (2 * h) * x = 2 * y
  BY SMT, <1>2
<1>5. Power(n + 1) = (2 * h) * x
  BY <1>1, PowerSteps, Zenon
<1>. QED
  BY <1>1, <1>3, <1>4, <1>5

LEMMA PowerGrows ==
  ASSUME NEW m \in Nat
  PROVE  \A n \in Nat : Power(m) <= Power(m + n)
<1> DEFINE T == {n \in Nat : Power(m) <= Power(m + n)}
<1>1. 0 \in T
  BY PowerNat
<1>2. ASSUME NEW n \in Nat, n \in T
      PROVE  n + 1 \in T
  <2>1. PICK k \in Nat : k = m + n /\ m + (n + 1) = k + 1
    OBVIOUS
  <2>2. PICK h \in Nat : Power(k + 1) = 2 * h /\ h >= Power(k)
    BY PowerEven
  <2>3. Power(m) <= Power(k) /\ Power(m) \in Nat /\ Power(k) \in Nat
    BY <1>2, <2>1, PowerNat
  <2>. QED
    BY <2>1, <2>2, <2>3
<1> HIDE DEF T
<1>3. Nat \subseteq T
  BY <1>1, <1>2, NatSetInduction
<1>. QED
  BY <1>3 DEF T
-----------------------------------------------------------------------------
(* Number() and BigEndian() undo one another. *)

ByteSeq == Seq(Byte)

\* The local function of Number().
Nums(num, bytes) ==
  num = [k \in 0..Len(bytes) |-> IF k = 0 THEN 0 ELSE Radix * num[k-1] + bytes[k]]

LEMMA NumberIs ==
  ASSUME NEW bytes
  PROVE  Number(bytes) = (CHOOSE num : Nums(num, bytes))[Len(bytes)]
BY DEF Number, Nums

LEMMA ByteIs ==
  \A b : b \in Byte <=> b \in Nat /\ b < Radix
BY RadixIsEven DEF Byte

\* One more byte at the end.
LEMMA AppendIs ==
  ASSUME NEW s \in ByteSeq, NEW b \in Byte, NEW n \in Nat, n = Len(s)
  PROVE  /\ Append(s, b) \in ByteSeq /\ Len(Append(s, b)) = n + 1
         /\ Append(s, b)[n + 1] = b
         /\ \A k \in 1..n : Append(s, b)[k] = s[k]
<1>1. /\ Append(s, b) \in Seq(Byte) /\ Len(Append(s, b)) = Len(s) + 1
      /\ \A k \in 1..Len(s) : Append(s, b)[k] = s[k]
      /\ Append(s, b)[Len(s) + 1] = b
  BY AppendProperties DEF ByteSeq
<1>. QED
  BY <1>1 DEF ByteSeq

LEMMA NumsExists ==
  ASSUME NEW s \in ByteSeq
  PROVE  \E num : Nums(num, s)
<1> DEFINE n == Len(s)
           step == [k \in 1..n |-> [v \in Nat |-> Radix * v + s[k]]]
<1>1. n \in Nat /\ Radix \in Nat /\ 0 \in Nat
  BY RadixIsEven, LenProperties DEF ByteSeq
<1>2. \A k \in 1..n : s[k] \in Nat
  BY ElementOfSeq, ByteIs DEF ByteSeq
<1>3. step \in [1..n -> [Nat -> Nat]]
  BY <1>1, <1>2
<1>4. \A k \in 1..n, v \in Nat : step[k][v] = Radix * v + s[k]
  OBVIOUS
<1> HIDE DEF step, n
<1>5. PICK num \in [0..n -> Nat] : Recurs(num, n, 0, step)
  BY <1>1, <1>3, RecursionExists
<1>6. \A k \in 0..n : num[k] = IF k = 0 THEN 0 ELSE Radix * num[k-1] + s[k]
  <2> SUFFICES ASSUME NEW k \in 0..n, k # 0 PROVE num[k] = Radix * num[k-1] + s[k]
    BY <1>5 DEF Recurs
  <2>1. k \in 1..n /\ k - 1 \in 0..n
    BY <1>1
  <2>. QED
    BY <1>4, <1>5, <2>1 DEF Recurs
<1>7. num = [k \in 0..n |-> IF k = 0 THEN 0 ELSE Radix * num[k-1] + s[k]]
  BY <1>6, Zenon
<1>. QED
  BY <1>7 DEF Nums, n

LEMMA NumsAt ==
  ASSUME NEW s \in ByteSeq, NEW num, Nums(num, s)
  PROVE  num[0] = 0 /\ \A k \in Nat : k + 1 <= Len(s) => num[k+1] = Radix * num[k] + s[k+1]
<1> DEFINE n == Len(s)
           g == [k \in 0..n |-> IF k = 0 THEN 0 ELSE Radix * num[k-1] + s[k]]
<1>0. n \in Nat
  BY LenProperties DEF ByteSeq
<1>1. num = g
  BY Zenon DEF Nums
<1>2. g[0] = 0 /\ \A k \in 1..n : g[k] = Radix * num[k-1] + s[k]
  BY <1>0
<1> HIDE DEF g
<1>3. num[0] = 0 /\ \A k \in 1..n : num[k] = Radix * num[k-1] + s[k]
  BY <1>1, <1>2, Zenon
<1>4. ASSUME NEW k \in Nat, k + 1 <= n
      PROVE  num[k+1] = Radix * num[k] + s[k+1]
  <2>1. k + 1 \in 1..n /\ k + 1 - 1 = k
    BY <1>0, <1>4
  <2>. QED
    BY <1>3, <2>1
<1>. QED
  BY <1>3, <1>4

\* Of a sequence and one that begins with it.
LEMMA NumsAgree ==
  ASSUME NEW s \in ByteSeq, NEW t \in ByteSeq, Len(s) <= Len(t),
         \A k \in 1..Len(s) : t[k] = s[k],
         NEW p, NEW q, Nums(p, s), Nums(q, t)
  PROVE  \A k \in Nat : k <= Len(s) => p[k] = q[k]
<1>0. Len(s) \in Nat /\ Len(t) \in Nat
  BY LenProperties DEF ByteSeq
<1> DEFINE T == {k \in Nat : k <= Len(s) => p[k] = q[k]}
<1>1. 0 \in T
  BY NumsAt
<1>2. ASSUME NEW k \in Nat, k \in T
      PROVE  k + 1 \in T
  <2> SUFFICES ASSUME k + 1 <= Len(s) PROVE p[k+1] = q[k+1]
    OBVIOUS
  <2>1. k + 1 \in 1..Len(s) /\ k + 1 <= Len(t) /\ p[k] = q[k]
    BY <1>0, <1>2
  <2>2. p[k+1] = Radix * p[k] + s[k+1]
    BY NumsAt
  <2>3. q[k+1] = Radix * q[k] + t[k+1]
    BY <2>1, NumsAt
  <2>. QED
    BY <2>1, <2>2, <2>3
<1> HIDE DEF T
<1>3. Nat \subseteq T
  BY <1>1, <1>2, NatSetInduction
<1>. QED
  BY <1>3 DEF T

LEMMA NumberEmpty == Number(<<>>) = 0
<1>1. <<>> \in ByteSeq /\ Len(<<>>) = 0
  BY DEF ByteSeq
<1>2. Nums(CHOOSE num : Nums(num, <<>>), <<>>)
  BY <1>1, NumsExists, Zenon
<1>. QED
  BY <1>1, <1>2, NumberIs, NumsAt

(* One more digit at the end.                                                *)
LEMMA NumberAppend ==
  ASSUME NEW s \in ByteSeq, NEW b \in Byte
  PROVE  Number(Append(s, b)) = Radix * Number(s) + b
<1>1. PICK n \in Nat : n = Len(s)
  BY LenProperties DEF ByteSeq
<1>2. PICK t \in ByteSeq : /\ t = Append(s, b) /\ Len(t) = n + 1 /\ t[n + 1] = b
                           /\ \A k \in 1..n : t[k] = s[k]
  BY <1>1, AppendIs
<1>3. PICK p : Nums(p, s) /\ p = CHOOSE g : Nums(g, s)
  BY NumsExists
<1>4. PICK q : Nums(q, t) /\ q = CHOOSE g : Nums(g, t)
  BY NumsExists
<1>5. Len(t) = n + 1 /\ n + 1 <= n + 1 /\ n <= n + 1 /\ n <= n
  BY <1>2, <1>1
<1>6. q[n+1] = Radix * q[n] + t[n+1]
  BY <1>4, <1>5, NumsAt
<1>7. p[n] = q[n]
  <2>1. \A k \in 1..Len(s) : t[k] = s[k]
    BY <1>2, <1>1
  <2>2. Len(s) <= Len(t) /\ n <= Len(s)
    BY <1>1, <1>5
  <2>3. \A k \in Nat : k <= Len(s) => p[k] = q[k]
    BY <1>3, <1>4, <2>1, <2>2, NumsAgree
  <2>. QED
    BY <2>2, <2>3
<1>8. Number(s) = p[n]
  BY <1>1, <1>3, NumberIs, Zenon
<1>9. Number(t) = q[n+1]
  BY <1>4, <1>5, NumberIs, Zenon
<1>. QED
  BY <1>2, <1>1, <1>6, <1>7, <1>8, <1>9, Zenon

(* The number of a sequence of bytes has as many digits.                     *)
LEMMA NumberBelow ==
  \A s \in ByteSeq : Number(s) \in Nat /\ Number(s) < Power(Len(s))
<1> DEFINE T == {s \in ByteSeq : Number(s) \in Nat /\ Number(s) < Power(Len(s))}
<1>1. <<>> \in T
  BY NumberEmpty, PowerSteps DEF ByteSeq
<1>2. ASSUME NEW s \in ByteSeq, NEW b \in Byte, s \in T
      PROVE  Append(s, b) \in T
  <2>1. PICK v \in Nat, n \in Nat : v = Number(s) /\ n = Len(s) /\ v < Power(n)
    BY <1>2, LenProperties DEF ByteSeq
  <2>2. PICK x \in Nat, r \in Nat : x = Power(n) /\ r = Radix /\ b < r /\ b \in Nat
    BY PowerNat, RadixIsEven, ByteIs
  <2>3. r * v + r <= r * x
    BY SMT, <2>1, <2>2
  <2>4. r * v + b \in Nat /\ r * v + b < r * x
    BY SMT, <2>2, <2>3
  <2>5. Number(Append(s, b)) = r * v + b
    BY <2>1, <2>2, NumberAppend, Zenon
  <2>6. Append(s, b) \in ByteSeq /\ Len(Append(s, b)) = n + 1
    BY <2>1, AppendProperties DEF ByteSeq
  <2>7. Power(n + 1) = r * x
    BY <2>1, <2>2, PowerSteps, Zenon
  <2>. QED
    BY <2>4, <2>5, <2>6, <2>7
<1> HIDE DEF T
<1>3. ByteSeq \subseteq T
  BY <1>1, <1>2, SeqSetInduction DEF ByteSeq
<1>. QED
  BY <1>3 DEF T

LEMMA BigEndianIs ==
  ASSUME NEW v \in Nat, NEW w \in Nat
  PROVE  /\ BigEndian(v, w) \in ByteSeq
         /\ Len(BigEndian(v, w)) = w
         /\ \A k \in 1..w : BigEndian(v, w)[k] = (v \div Power(w - k)) % Radix
<1>1. ASSUME NEW k \in 1..w
      PROVE  (v \div Power(w - k)) % Radix \in Byte
  <2>1. PICK x \in Nat, r \in Nat : x = Power(w - k) /\ x >= 1 /\ r = Radix /\ r >= 1
    BY PowerNat, RadixIsEven
  <2>2. v \div x \in Int
    BY <2>1, DivMod
  <2>3. (v \div x) % r \in Nat /\ (v \div x) % r < r
    BY <2>1, <2>2, DivMod
  <2>. QED
    BY <2>1, <2>3, ByteIs
<1> DEFINE e == [k \in 1..w |-> (v \div Power(w - k)) % Radix]
<1>2. e \in [1..w -> Byte]
  BY <1>1
<1>3. \A k \in 1..w : e[k] = (v \div Power(w - k)) % Radix
  OBVIOUS
<1> HIDE DEF e
<1>4. e \in Seq(Byte) /\ Len(e) = w
  BY <1>2
<1>5. BigEndian(v, w) = e
  BY DEF BigEndian, e
<1>. QED
  BY <1>3, <1>4, <1>5 DEF ByteSeq

(* The digits of a number are those of what is left without the last, and it. *)
LEMMA BigEndianAppend ==
  ASSUME NEW v \in Nat, NEW w \in Nat
  PROVE  /\ v \div Radix \in Nat /\ v % Radix \in Byte
         /\ BigEndian(v, w + 1) = Append(BigEndian(v \div Radix, w), v % Radix)
<1>1. PICK r \in Nat : r = Radix /\ r >= 1
  BY RadixIsEven
<1>2. PICK q \in Int, b \in Nat : q = v \div r /\ b = v % r /\ b < r /\ v = r * q + b
  BY <1>1, DivMod
<1>3. q \in Nat
  BY SMT, <1>1, <1>2
<1>4. b \in Byte
  BY <1>1, <1>2, ByteIs
<1>5. PICK s \in ByteSeq : /\ s = BigEndian(q, w) /\ Len(s) = w
                           /\ \A k \in 1..w : s[k] = (q \div Power(w - k)) % r
  BY <1>1, <1>3, BigEndianIs
<1>6. w + 1 \in Nat
  OBVIOUS
<1>7. PICK t \in ByteSeq : /\ t = BigEndian(v, w + 1) /\ Len(t) = w + 1
                           /\ \A k \in 1..w+1 : t[k] = (v \div Power(w + 1 - k)) % r
  BY <1>1, <1>6, BigEndianIs
<1>8. PICK u \in ByteSeq : /\ u = Append(s, b) /\ Len(u) = w + 1 /\ u[w + 1] = b
                           /\ \A k \in 1..w : u[k] = s[k]
  <2>1. /\ Append(s, b) \in ByteSeq /\ Len(Append(s, b)) = w + 1
        /\ Append(s, b)[w + 1] = b
        /\ \A k \in 1..w : Append(s, b)[k] = s[k]
    BY <1>4, <1>5, AppendIs, Zenon
  <2>. QED
    BY <2>1, Zenon
<1>9. ASSUME NEW k \in 1..w+1
      PROVE  t[k] = u[k]
  <2>1. CASE k = w + 1
    <3>1. w + 1 - k = 0 /\ v \div 1 = v
      BY <2>1, SMT
    <3>2. t[k] = (v \div Power(w + 1 - k)) % r
      BY <1>7
    <3>3. t[k] = v % r
      BY <3>1, <3>2, PowerSteps
    <3>. QED
      BY <1>2, <1>8, <2>1, <3>3
  <2>2. CASE k # w + 1
    <3>1. PICK j \in Nat : j = w - k /\ w + 1 - k = j + 1 /\ k \in 1..w
      BY <2>2
    <3>2. PICK x \in Nat : x = Power(j) /\ x >= 1 /\ Power(j + 1) = r * x
      BY <1>1, PowerNat, PowerSteps
    <3>3. v \div (r * x) = (v \div r) \div x
      BY <1>1, <3>2, DivTwice
    <3>4. t[k] = (v \div Power(w + 1 - k)) % r
      BY <1>7
    <3>5. t[k] = ((v \div r) \div x) % r
      BY <3>1, <3>2, <3>3, <3>4, Zenon
    <3>6. u[k] = (q \div Power(w - k)) % r
      BY <1>5, <1>8, <3>1
    <3>7. u[k] = ((v \div r) \div x) % r
      BY <1>2, <3>1, <3>2, <3>6, Zenon
    <3>. QED
      BY <3>5, <3>7, Zenon
  <2>. QED
    BY <2>1, <2>2
<1>10. t = u
  BY <1>7, <1>8, <1>9, SeqEqual DEF ByteSeq
<1>. QED
  BY <1>1, <1>2, <1>3, <1>4, <1>5, <1>7, <1>8, <1>10

(* The digits of a number that has no more of them are that number.          *)
LEMMA NumberOfDigits ==
  \A w \in Nat : \A v \in Nat : v < Power(w) => Number(BigEndian(v, w)) = v
<1> DEFINE T == {w \in Nat : \A v \in Nat : v < Power(w) => Number(BigEndian(v, w)) = v}
<1>1. 0 \in T
  <2> SUFFICES ASSUME NEW v \in Nat, v < Power(0) PROVE Number(BigEndian(v, 0)) = v
    OBVIOUS
  <2>1. v = 0
    BY PowerSteps
  <2>2. BigEndian(v, 0) \in Seq(Byte) /\ Len(BigEndian(v, 0)) = 0
    BY BigEndianIs DEF ByteSeq
  <2>. QED
    BY <2>1, <2>2, NumberEmpty, EmptySeq
<1>2. ASSUME NEW w \in Nat, w \in T
      PROVE  w + 1 \in T
  <2> SUFFICES ASSUME NEW v \in Nat, v < Power(w + 1) PROVE Number(BigEndian(v, w + 1)) = v
    OBVIOUS
  <2>1. PICK r \in Nat, x \in Nat : r = Radix /\ r >= 1 /\ x = Power(w) /\ x >= 1 /\ v < r * x
    <3>1. PICK r \in Nat, x \in Nat : r = Radix /\ r >= 1 /\ x = Power(w) /\ x >= 1
      BY RadixIsEven, PowerNat
    <3>2. Power(w + 1) = r * x
      BY <3>1, PowerSteps, Zenon
    <3>. QED
      BY <3>1, <3>2
  <2>2. PICK q \in Nat, b \in Byte : q = v \div Radix /\ b = v % Radix
    BY BigEndianAppend
  <2>3. v = r * q + b /\ b \in Nat
    BY <2>1, <2>2, DivMod, ByteIs
  <2>4. q < x
    BY SMT, <2>1, <2>3
  <2>5. Number(BigEndian(q, w)) = q
    BY <1>2, <2>1, <2>4
  <2>6. BigEndian(q, w) \in ByteSeq
    BY BigEndianIs
  <2>7. BigEndian(v, w + 1) = Append(BigEndian(q, w), b)
    BY <2>2, BigEndianAppend
  <2>8. Number(BigEndian(v, w + 1)) = Radix * q + b
    BY <2>5, <2>6, <2>7, NumberAppend
  <2>. QED
    BY <2>1, <2>3, <2>8
<1> HIDE DEF T
<1>3. Nat \subseteq T
  BY <1>1, <1>2, NatSetInduction
<1>. QED
  BY <1>3 DEF T

(* The digits of the number of some bytes are those bytes.                   *)
LEMMA DigitsOfNumber ==
  \A s \in ByteSeq : BigEndian(Number(s), Len(s)) = s
<1> DEFINE T == {s \in ByteSeq : BigEndian(Number(s), Len(s)) = s}
<1>1. <<>> \in T
  <2>1. <<>> \in ByteSeq /\ Len(<<>>) = 0
    BY DEF ByteSeq
  <2>2. BigEndian(0, 0) \in Seq(Byte) /\ Len(BigEndian(0, 0)) = 0
    BY BigEndianIs DEF ByteSeq
  <2>3. BigEndian(0, 0) = <<>>
    BY <2>2, EmptySeq
  <2>. QED
    BY <2>1, <2>3, NumberEmpty
<1>2. ASSUME NEW s \in ByteSeq, NEW b \in Byte, s \in T
      PROVE  Append(s, b) \in T
  <2>1. PICK v \in Nat, n \in Nat : v = Number(s) /\ n = Len(s) /\ BigEndian(v, n) = s
    BY <1>2, NumberBelow, LenProperties DEF ByteSeq
  <2>2. PICK r \in Nat : r = Radix /\ r >= 1 /\ b < r /\ b \in Nat
    BY RadixIsEven, ByteIs
  <2>3. PICK u \in Nat : u = r * v + b /\ u = Number(Append(s, b))
    BY <2>1, <2>2, NumberAppend
  <2>4. u \div r = v /\ u % r = b
    BY <2>2, <2>3, DivUnique
  <2>5. BigEndian(u, n + 1) = Append(s, b)
    <3>1. BigEndian(u, n + 1) = Append(BigEndian(u \div Radix, n), u % Radix)
      BY BigEndianAppend
    <3>. QED
      BY <2>1, <2>2, <2>4, <3>1, Zenon
  <2>6. Append(s, b) \in ByteSeq /\ Len(Append(s, b)) = n + 1
    BY <2>1, AppendProperties DEF ByteSeq
  <2>. QED
    BY <2>3, <2>5, <2>6
<1> HIDE DEF T
<1>3. ByteSeq \subseteq T
  BY <1>1, <1>2, SeqSetInduction DEF ByteSeq
<1>. QED
  BY <1>3 DEF T
-----------------------------------------------------------------------------
(* The parsers. *)

\* Zero is a byte.
LEMMA ZeroesAre ==
  ASSUME NEW n \in Nat
  PROVE  Zeroes(n) \in ByteSeq /\ Len(Zeroes(n)) = n /\ \A k \in 1..n : Zeroes(n)[k] = 0
<1>1. 0 \in Byte
  BY ByteIs, RadixIsEven
<1> DEFINE z == [k \in 1..n |-> 0]
<1>2. z \in [1..n -> Byte] /\ \A k \in 1..n : z[k] = 0
  BY <1>1
<1> HIDE DEF z
<1>3. z \in Seq(Byte) /\ Len(z) = n
  BY <1>2
<1>4. Zeroes(n) = z
  BY DEF Zeroes, z
<1>. QED
  BY <1>2, <1>3, <1>4 DEF ByteSeq

\* The first bytes of enough of them.
LEMMA FirstBytes ==
  ASSUME NEW s \in ByteSeq, NEW n \in Nat, n <= Len(s)
  PROVE  /\ SubSeq(s, 1, n) \in ByteSeq /\ Len(SubSeq(s, 1, n)) = n
         /\ \A k \in 1..n : SubSeq(s, 1, n)[k] = s[k]
<1>1. Len(s) \in Nat /\ n - 1 + 1 = n /\ (1 <= n \/ n = 0)
  BY LenProperties DEF ByteSeq
<1>2. \A k \in 1..n : s[k] \in Byte
  BY <1>1, ElementOfSeq DEF ByteSeq
<1>3. \A k \in 1..n : SubSeq(s, 1, n)[k] = s[1 + k - 1] /\ 1 + k - 1 = k
  BY <1>1, <1>2, SubSeqProperties
<1>4. SubSeq(s, 1, n) \in Seq(Byte) /\ Len(SubSeq(s, 1, n)) = n
  BY <1>1, <1>2, SubSeqProperties
<1>. QED
  BY <1>3, <1>4 DEF ByteSeq

(* What ParseInt takes is the number as two's complement, high byte first.   *)
LEMMA IntTaken ==
  ASSUME NEW tt \in Int, len \in Nat, len <= 8
  PROVE  /\ tt % Power(len) \in Nat /\ tt % Power(len) < Power(len)
         /\ SubSeq(Written(tt), 1, len) = BigEndian(tt % Power(len), len)
<1>1. PICK x \in Nat, v \in Nat : x = Power(len) /\ x >= 1 /\ v = tt % x /\ v < x
  BY PowerNat, DivMod
<1>2. PICK e \in ByteSeq : e = BigEndian(v, len) /\ Len(e) = len
  BY BigEndianIs
<1> DEFINE w == [k \in 1..8 |-> IF k <= len THEN e[k] ELSE Garbage]
<1>3. \A k \in 1..8 : w[k] \in Int
  <2> SUFFICES ASSUME NEW k \in 1..8 PROVE w[k] \in Int
    OBVIOUS
  <2>1. CASE k <= len
    <3>1. e[k] \in Byte
      BY <1>2, <2>1, ElementOfSeq DEF ByteSeq
    <3>. QED
      BY <2>1, <3>1, ByteIs
  <2>2. CASE ~ (k <= len)
    BY <2>2 DEF Garbage
  <2>. QED
    BY <2>1, <2>2
<1>4. w = [k \in 1..8 |-> w[k]] /\ \A k \in 1..len : w[k] = e[k]
  OBVIOUS
<1>5. Written(tt) = w
  BY <1>1, <1>2, Zenon DEF Written
<1> HIDE DEF w
<1>6. w \in Seq(Int) /\ Len(w) = 8
  BY <1>3, <1>4
<1>7. (1 <= len \/ len = 0) /\ len - 1 + 1 = len /\ \A k \in 1..len : w[k] \in Int
  BY <1>3
<1>8. /\ SubSeq(w, 1, len) \in Seq(Int) /\ Len(SubSeq(w, 1, len)) = len
      /\ \A k \in 1..len : SubSeq(w, 1, len)[k] = w[1 + k - 1] /\ 1 + k - 1 = k
  BY <1>6, <1>7, SubSeqProperties
<1>9. e \in Seq(Int)
  BY <1>2, ByteIs, ElementOfSeq DEF ByteSeq
<1>10. \A k \in 1..len : SubSeq(w, 1, len)[k] = e[k]
  BY <1>4, <1>8
<1>11. SubSeq(w, 1, len) = e
  BY <1>2, <1>8, <1>9, <1>10, SeqEqual
<1>. QED
  BY <1>1, <1>2, <1>5, <1>11

\* Half of what eight bytes can tell apart; no shorter number reaches it.
LEMMA LongLong ==
  \E h \in Nat : /\ Power(8) = 2 * h /\ Power(8) \div 2 = h /\ LLONG_MAX = h - 1
                 /\ \A n \in 0..7 : Power(n) <= h
<1>1. PICK h \in Nat : Power(7 + 1) = 2 * h /\ h >= Power(7)
  BY PowerEven
<1>2. Power(8) = 2 * h /\ Power(8) \div 2 = h
  BY <1>1
<1>3. ASSUME NEW n \in 0..7
      PROVE  Power(n) <= h
  <2>1. PICK m \in Nat : n \in Nat /\ n + m = 7
    <3>1. 7 - n \in Nat /\ n + (7 - n) = 7
      OBVIOUS
    <3>. QED
      BY <3>1
  <2>2. Power(n) <= Power(n + m) /\ Power(n) \in Nat /\ Power(7) \in Nat
    BY <2>1, PowerGrows, PowerNat
  <2>. QED
    BY <1>1, <2>1, <2>2
<1>. QED
  BY <1>2, <1>3 DEF LLONG_MAX

(* A number is taken if the field can tell it apart from the others of its   *)
(* sign, but for the negative ones of eight bytes.                           *)
LEMMA RepresentableIs ==
  ASSUME NEW tt \in Int, len \in {1, 2, 4, 8}, -(LLONG_MAX + 1) <= tt, tt <= LLONG_MAX
  PROVE  /\ Representable(tt) => (tt >= 0 => tt < Power(len))
         /\ ~ Representable(tt) =>
              tt >= Power(len) \/ tt < -(Power(len) \div 2) \/ (len = 8 /\ tt < 0)
<1>1. PICK h \in Nat : Power(8) = 2 * h /\ Power(8) \div 2 = h /\ LLONG_MAX = h - 1
  BY LongLong
<1>2. len \in Nat /\ (len < 8 \/ len = 8)
  OBVIOUS
<1>3. PICK x \in Nat : x = Power(len) /\ x >= 1
  BY <1>2, PowerNat
<1>4. PICK y \in Nat : y = x \div 2 /\ y <= x
  BY SMT
<1>5. Unsigned(tt, len) <=> 0 <= tt /\ tt < x
  BY <1>3 DEF Unsigned
<1>6. Signed(tt, len) <=> -y <= tt /\ tt < y
  BY <1>3, <1>4 DEF Signed
<1>7. CASE len < 8
  <2>1. Representable(tt) <=> IF tt >= 0 THEN Unsigned(tt, len) ELSE Signed(tt, len)
    BY <1>7 DEF Representable
  <2>2. ~ Representable(tt) => tt >= x \/ tt < -y
    BY <1>5, <1>6, <2>1
  <2>3. Representable(tt) /\ tt >= 0 => tt < x
    BY <1>5, <2>1
  <2>. QED
    BY <1>3, <1>4, <2>2, <2>3
<1>8. CASE len = 8
  <2>1. Representable(tt) <=> IF tt >= 0 THEN Signed(tt, len) ELSE Unsigned(tt, len)
    BY <1>8 DEF Representable
  <2>2. y = h
    BY <1>1, <1>3, <1>4, <1>8
  <2>3. ~ Representable(tt) => tt < 0
    BY <1>1, <1>6, <2>1, <2>2
  <2>4. Representable(tt) /\ tt >= 0 => tt < x
    BY <1>4, <1>6, <2>1
  <2>. QED
    BY <1>3, <1>8, <2>3, <2>4
<1>. QED
  BY <1>2, <1>7, <1>8

(* Digits that fill a field are the field, at whichever end they begin.      *)
LEMMA HexTyped ==
  ASSUME NEW s \in ByteSeq, NEW n \in Nat, NEW b \in hx2b_BE(s, n)
  PROVE  /\ b \in ByteSeq /\ Len(b) = n
         /\ Len(s) = n => b = s
<1>1. PICK z \in ByteSeq : z = Zeroes(n) /\ Len(z) = n
  BY ZeroesAre
<1>2. PICK m \in Nat : m = Len(s)
  BY LenProperties DEF ByteSeq
<1>3. PICK t \in ByteSeq : /\ t = z \o s /\ Len(t) = n + m
                           /\ \A k \in 1..m : t[n + k] = s[k]
  <2>1. /\ z \o s \in Seq(Byte) /\ Len(z \o s) = n + m
        /\ \A i \in 1..(n + m) : (z \o s)[i] = IF i <= n THEN z[i] ELSE s[i - n]
    BY <1>1, <1>2, ConcatProperties DEF ByteSeq
  <2>2. ASSUME NEW k \in 1..m
        PROVE  (z \o s)[n + k] = s[k]
    <3>1. n + k \in 1..(n + m) /\ ~ (n + k <= n) /\ n + k - n = k
      OBVIOUS
    <3>. QED
      BY <2>1, <3>1
  <2>. QED
    BY <2>1, <2>2 DEF ByteSeq
<1>4. PICK all \in ByteSeq : /\ all = t \o z /\ Len(all) = n + m + n
                             /\ \A k \in 1..m : all[n + k] = s[k]
  <2>1. /\ t \o z \in Seq(Byte) /\ Len(t \o z) = n + m + n
        /\ \A i \in 1..(n + m + n) : i <= n + m => (t \o z)[i] = t[i]
    <3>1. /\ t \o z \in Seq(Byte) /\ Len(t \o z) = Len(t) + Len(z)
          /\ \A i \in 1..(Len(t) + Len(z)) :
               (t \o z)[i] = IF i <= Len(t) THEN t[i] ELSE z[i - Len(t)]
      BY ConcatProperties DEF ByteSeq
    <3>. QED
      BY <1>1, <1>3, <3>1
  <2>2. ASSUME NEW k \in 1..m
        PROVE  (t \o z)[n + k] = s[k]
    <3>1. n + k \in 1..(n + m + n) /\ n + k <= n + m
      OBVIOUS
    <3>. QED
      BY <1>3, <2>1, <3>1
  <2>. QED
    BY <2>1, <2>2 DEF ByteSeq
<1>5. PICK a \in Nat : b = SubSeq(all, a + 1, a + n) /\ a <= n + m /\ (m = n => a = n)
  <2>1. b = SubSeq(all, n + 1, n + n) \/ b = SubSeq(all, m + 1, m + n)
    BY <1>1, <1>2, <1>3, <1>4, Zenon DEF hx2b_BE
  <2>2. CASE b = SubSeq(all, n + 1, n + n) /\ n <= n + m
    BY <2>2
  <2>3. CASE b = SubSeq(all, m + 1, m + n) /\ m <= n + m
    BY <2>3
  <2>. QED
    BY <2>1, <2>2, <2>3
<1>6. \A i \in (a + 1)..(a + n) : all[i] \in Byte
  <2>1. \A i \in (a + 1)..(a + n) : i \in 1..Len(all)
    BY <1>4, <1>5
  <2>. QED
    BY <2>1, ElementOfSeq DEF ByteSeq
<1>7. a + 1 \in Int /\ a + n \in Int /\ (a + 1 <= a + n \/ n = 0) /\ a + n - (a + 1) + 1 = n
  OBVIOUS
<1>8. /\ b \in Seq(Byte) /\ Len(b) = n
      /\ \A k \in 1..n : b[k] = all[a + k]
  <2>1. CASE n = 0
    <3>1. a + n < a + 1
      BY <2>1
    <3>2. b = <<>>
      BY <1>5, <1>7, <3>1, SubSeqEmpty, Zenon
    <3>. QED
      BY <2>1, <3>2
  <2>2. CASE n # 0
    <3>1. /\ b \in Seq(Byte) /\ Len(b) = a + n - (a + 1) + 1
          /\ \A k \in 1..(a + n - (a + 1) + 1) : b[k] = all[a + 1 + k - 1]
      BY <1>5, <1>6, <1>7, <2>2, SubSeqProperties DEF ByteSeq
    <3>2. \A k \in 1..n : a + 1 + k - 1 = a + k
      OBVIOUS
    <3>. QED
      BY <1>7, <3>1, <3>2
  <2>. QED
    BY <2>1, <2>2
<1>9. ASSUME m = n
      PROVE  b = s
  <2>1. \A k \in 1..n : b[k] = s[k]
    BY <1>4, <1>5, <1>8, <1>9
  <2>. QED
    BY <1>2, <1>8, <1>9, <2>1, SeqEqual DEF ByteSeq
<1>. QED
  BY <1>2, <1>8, <1>9 DEF ByteSeq
-----------------------------------------------------------------------------
(* The inductive invariant.                                                  *)
ValueTyped ==
  /\ len \in Length /\ phase \in {"given", "parsed", "refused"}
  /\ Typed(text)
  /\ parsed \in ByteSeq /\ Len(parsed) = len
  /\ phase \in {"given", "refused"} => parsed = Zeroes(len)

ValueInv == ValueTyped /\ NumbersExact /\ DigitsExact

LEMMA LenIs ==
  ASSUME ValueTyped
  PROVE  len \in Nat
BY LengthsAreNat DEF ValueTyped

LEMMA AddressTyped ==
  ASSUME NEW n \in Nat, NEW s \in Bytes(n)
  PROVE  s \in ByteSeq /\ Len(s) = n
<1>1. s \in [1..n -> Byte]
  BY DEF Bytes
<1>. QED
  BY <1>1 DEF ByteSeq

\* A parser that takes bytes of the field's length, and what they must be.
LEMMA TakeKeeps ==
  ASSUME ValueInv, phase = "given", ~ TooLong, NEW b \in ByteSeq, Len(b) = len, Take(b),
         Parser = "int" =>
           /\ Number(b) = text.is["int"] % Power(len)
           /\ text.is["int"] >= 0 <=> Number(b) = text.is["int"],
         Filling => b = text.is["hex"]
  PROVE  ValueInv'
<1>1. /\ parsed' = b /\ phase' = "parsed" /\ text' = text /\ len' = len
  BY DEF Take
<1>2. Parser' = Parser /\ TooLong' = TooLong /\ Filling' = Filling
  BY <1>1 DEF Parser, Matches, TooLong, Filling
<1>3. ValueTyped'
  BY <1>1 DEF ValueInv, ValueTyped
<1>4. NumbersExact'
  BY <1>1, <1>2 DEF NumbersExact
<1>5. DigitsExact'
  BY <1>1, <1>2 DEF DigitsExact
<1>. QED
  BY <1>3, <1>4, <1>5 DEF ValueInv

LEMMA RefuseKeeps ==
  ASSUME ValueInv, phase = "given", Refuse,
         Parser = "int" /\ ~ TooLong =>
           \/ text.is["int"] = NULL
           \/ len \notin {1, 2, 4, 8}
           \/ text.is["int"] >= Power(len) \/ text.is["int"] < -(Power(len) \div 2)
           \/ len = 8 /\ text.is["int"] < 0,
         Filling => len \in {3, 5, 6, 7} \/ (len = 8 /\ Number(text.is["hex"]) > LLONG_MAX)
  PROVE  ValueInv'
<1>1. /\ parsed' = Zeroes(len) /\ phase' = "refused" /\ text' = text /\ len' = len
  BY DEF Refuse
<1>2. Parser' = Parser /\ TooLong' = TooLong /\ Filling' = Filling
  BY <1>1 DEF Parser, Matches, TooLong, Filling
<1>3. len \in Nat
  BY LenIs DEF ValueInv
<1>4. ValueTyped'
  BY <1>1, <1>3, ZeroesAre DEF ValueInv, ValueTyped
<1>5. NumbersExact'
  BY <1>1, <1>2 DEF NumbersExact
<1>6. DigitsExact'
  BY <1>1, <1>2 DEF DigitsExact
<1>. QED
  BY <1>4, <1>5, <1>6 DEF ValueInv

\* Digits go to the parser of numbers, or to that of digits.
LEMMA FillingParser ==
  ASSUME ValueInv, Filling
  PROVE  /\ text.is["hex"] \in ByteSeq /\ Len(text.is["hex"]) = len /\ len \in Nat /\ ~ TooLong
         /\ DOMAIN text.is = {"int", "hex"}
         /\ Parser = IF len = 0 THEN "none" ELSE IF len <= 8 THEN "int" ELSE "hex"
         /\ len <= 8 => text.is["int"] = IF Number(text.is["hex"]) <= LLONG_MAX
                                         THEN Number(text.is["hex"]) ELSE NULL
<1>1. /\ text.is["hex"] \in ByteSeq /\ Len(text.is["hex"]) = len /\ ~ TooLong
      /\ DOMAIN text.is = {"int", "hex"}
      /\ len <= 8 => text.is["int"] = IF Number(text.is["hex"]) <= LLONG_MAX
                                      THEN Number(text.is["hex"]) ELSE NULL
  BY DEF ValueInv, ValueTyped, Typed, Filling, Matches, ByteSeq
<1>2. ~ Matches("ipv4") /\ ~ Matches("mac") /\ ~ Matches("ipv6") /\ Matches("int") /\ Matches("hex")
  BY <1>1 DEF Matches
<1>3. len \in Nat
  BY LenIs DEF ValueInv
<1>4. Parser = IF len = 0 THEN "none" ELSE IF len <= 8 THEN "int" ELSE "hex"
  BY <1>2, <1>3 DEF Parser
<1>. QED
  BY <1>1, <1>3, <1>4
-----------------------------------------------------------------------------
(* One lemma for each action. *)

LEMMA TruncatedKeeps ==
  ASSUME ValueInv, Truncated
  PROVE  ValueInv'
<1>1. phase = "given" /\ TooLong /\ Refuse
  BY DEF Truncated
<1>2. ~ Filling
  BY <1>1 DEF Filling
<1>3. ~ (Parser = "int" /\ ~ TooLong)
  BY <1>1
<1>. QED
  BY <1>1, <1>2, <1>3, RefuseKeeps

LEMMA NoneKeeps ==
  ASSUME ValueInv, ParseNone
  PROVE  ValueInv'
<1>1. phase = "given" /\ ~ TooLong /\ Parser = "none" /\ Take(<<>>)
  BY DEF ParseNone, Parse
<1>2. len = 0
  BY <1>1 DEF Parser
<1>3. <<>> \in ByteSeq /\ Len(<<>>) = len
  BY <1>2 DEF ByteSeq
<1>4. Filling => <<>> = text.is["hex"]
  BY <1>2, FillingParser, EmptySeq DEF ByteSeq
<1>. QED
  BY <1>1, <1>3, <1>4, TakeKeeps

\* The parsers of addresses take the first bytes; digits do not reach them.
LEMMA AddressKeeps ==
  ASSUME ValueInv, phase = "given", ~ TooLong, Parser \in {"ipv4", "mac", "ipv6"},
         NEW n \in Nat, len <= n, NEW s \in Bytes(n), Take(SubSeq(s, 1, len))
  PROVE  ValueInv'
<1>1. s \in ByteSeq /\ len \in Nat /\ len <= Len(s)
  BY AddressTyped, LenIs DEF ValueInv
<1>2. PICK b \in ByteSeq : b = SubSeq(s, 1, len) /\ Len(b) = len
  BY <1>1, FirstBytes
<1>3. ~ Filling
  BY <1>1, FillingParser
<1>. QED
  BY <1>2, <1>3, TakeKeeps

LEMMA Ipv4Keeps ==
  ASSUME ValueInv, ParseIpv4
  PROVE  ValueInv'
<1>1. /\ phase = "given" /\ ~ TooLong /\ Parser = "ipv4"
      /\ IF text.is["ipv4"] = NULL THEN Refuse ELSE Take(SubSeq(text.is["ipv4"], 1, len))
  BY DEF ParseIpv4, Parse
<1>2. len \in Nat /\ len <= 4 /\ "ipv4" \in DOMAIN text.is
  BY <1>1, LenIs DEF ValueInv, Parser, Matches
<1>3. text.is["ipv4"] = NULL \/ text.is["ipv4"] \in Bytes(4)
  BY <1>2 DEF ValueInv, ValueTyped, Typed
<1>4. ~ Filling
  BY <1>1, FillingParser
<1>5. CASE text.is["ipv4"] = NULL
  BY <1>1, <1>4, <1>5, RefuseKeeps
<1>6. CASE text.is["ipv4"] # NULL
  BY <1>1, <1>2, <1>3, <1>6, AddressKeeps
<1>. QED
  BY <1>5, <1>6

LEMMA MacKeeps ==
  ASSUME ValueInv, ParseMac
  PROVE  ValueInv'
<1>1. phase = "given" /\ ~ TooLong /\ Parser = "mac" /\ Take(SubSeq(text.is["mac"], 1, len))
  BY DEF ParseMac, Parse
<1>2. len \in Nat /\ len <= 6 /\ "mac" \in DOMAIN text.is
  BY <1>1, LenIs DEF ValueInv, Parser, Matches
<1>3. text.is["mac"] \in Bytes(6)
  BY <1>2 DEF ValueInv, ValueTyped, Typed
<1>. QED
  BY <1>1, <1>2, <1>3, AddressKeeps

LEMMA Ipv6Keeps ==
  ASSUME ValueInv, ParseIpv6
  PROVE  ValueInv'
<1>1. phase = "given" /\ ~ TooLong /\ Parser = "ipv6" /\ Take(SubSeq(text.is["ipv6"], 1, len))
  BY DEF ParseIpv6, Parse
<1>2. len \in Nat /\ len <= 16 /\ "ipv6" \in DOMAIN text.is /\ text.is["ipv6"] # NULL
  BY <1>1, LenIs DEF ValueInv, Parser, Matches
<1>3. text.is["ipv6"] \in Bytes(16)
  BY <1>2 DEF ValueInv, ValueTyped, Typed
<1>. QED
  BY <1>1, <1>2, <1>3, AddressKeeps

\* A number of as many digits as it is parsed for.
LEMMA FillingNumber ==
  ASSUME ValueInv, Filling, Parser = "int", NEW tt, tt = text.is["int"]
  PROVE  /\ len \in Nat /\ len <= 8
         /\ tt = NULL => len = 8 /\ Number(text.is["hex"]) > LLONG_MAX
         /\ tt # NULL => /\ tt = Number(text.is["hex"]) /\ tt \in Nat
                         /\ tt < Power(len) /\ tt <= LLONG_MAX
                         /\ BigEndian(tt, len) = text.is["hex"]
<1>1. PICK hex \in ByteSeq : hex = text.is["hex"] /\ Len(hex) = len /\ len \in Nat
  BY FillingParser
<1>2. len > 0 /\ len <= 8 /\ tt = IF Number(hex) <= LLONG_MAX THEN Number(hex) ELSE NULL
  BY <1>1, FillingParser
<1>3. PICK v \in Nat : v = Number(hex) /\ v < Power(len) /\ BigEndian(v, len) = hex
  BY <1>1, NumberBelow, DigitsOfNumber
<1>4. PICK h \in Nat : LLONG_MAX = h - 1 /\ \A n \in 0..7 : Power(n) <= h
  BY LongLong
<1>5. v # NULL
  BY NullIsNoNumber
<1>6. ASSUME tt = NULL
      PROVE  len = 8 /\ v > LLONG_MAX
  <2>1. ~ (v <= LLONG_MAX)
    BY <1>2, <1>3, <1>5, <1>6
  <2>2. v > LLONG_MAX
    BY <1>4, <2>1
  <2>3. ASSUME len # 8
        PROVE  FALSE
    <3>1. len \in 0..7 /\ Power(len) \in Nat
      BY <1>1, <1>2, <2>3, PowerNat
    <3>. QED
      BY <1>3, <1>4, <2>2, <3>1
  <2>. QED
    BY <2>2, <2>3
<1>7. ASSUME tt # NULL
      PROVE  tt = v /\ v <= LLONG_MAX
  BY <1>2, <1>3, <1>7
<1>. QED
  BY <1>1, <1>2, <1>3, <1>6, <1>7

LEMMA IntKeeps ==
  ASSUME ValueInv, ParseInt
  PROVE  ValueInv'
<1>1. PICK tt : tt = text.is["int"]
  OBVIOUS
<1>2. /\ phase = "given" /\ ~ TooLong /\ Parser = "int"
      /\ IF tt # NULL /\ len \in {1, 2, 4, 8} /\ Representable(tt)
         THEN Take(SubSeq(Written(tt), 1, len))
         ELSE Refuse
  BY <1>1 DEF ParseInt, Parse
<1>3. len \in Nat /\ len > 0 /\ len <= 8 /\ "int" \in DOMAIN text.is
  BY <1>2, LenIs DEF ValueInv, Parser, Matches
<1>4. tt = NULL \/ tt \in -(LLONG_MAX + 1)..LLONG_MAX
  BY <1>1, <1>3 DEF ValueInv, ValueTyped, Typed
<1>5. LLONG_MAX \in Int
  BY LongLong
<1>6. tt # NULL => tt \in Int /\ -(LLONG_MAX + 1) <= tt /\ tt <= LLONG_MAX
  BY <1>4, <1>5
<1>7. CASE tt # NULL /\ len \in {1, 2, 4, 8} /\ Representable(tt)
  <2>1. PICK x \in Nat, v \in Nat : x = Power(len) /\ v = tt % x /\ v < x
    BY <1>3, <1>6, <1>7, PowerNat, DivMod
  <2>2. PICK b \in ByteSeq : b = BigEndian(v, len) /\ Len(b) = len /\ Number(b) = v
    BY <1>3, <2>1, BigEndianIs, NumberOfDigits
  <2>3. b = SubSeq(Written(tt), 1, len)
    BY <1>3, <1>6, <1>7, <2>1, <2>2, IntTaken
  <2>4. tt >= 0 => tt < x
    BY <1>6, <1>7, <2>1, RepresentableIs
  <2>5. tt >= 0 => v = tt
    <3>1. ASSUME tt >= 0
          PROVE  v = tt
      <4>1. x * 0 + tt = tt /\ tt \in Nat
        BY <1>6, <1>7, <3>1
      <4>. QED
        BY <1>6, <1>7, <2>1, <2>4, <3>1, <4>1, DivUnique
    <3>. QED
      BY <3>1
  <2>6. tt >= 0 <=> v = tt
    BY <1>6, <1>7, <2>5
  <2>7. Filling => b = text.is["hex"]
    <3> SUFFICES ASSUME Filling PROVE b = text.is["hex"]
      OBVIOUS
    <3>1. tt \in Nat /\ BigEndian(tt, len) = text.is["hex"]
      BY <1>1, <1>2, <1>7, FillingNumber
    <3>2. v = tt
      BY <2>5, <3>1
    <3>. QED
      BY <2>2, <3>1, <3>2
  <2>8. Number(b) = text.is["int"] % Power(len) /\ (text.is["int"] >= 0 <=> Number(b) = text.is["int"])
    BY <1>1, <2>1, <2>2, <2>6, Zenon
  <2>. QED
    BY <1>2, <1>7, <2>2, <2>3, <2>7, <2>8, TakeKeeps
<1>8. CASE ~ (tt # NULL /\ len \in {1, 2, 4, 8} /\ Representable(tt))
  <2>1. \/ tt = NULL
        \/ len \notin {1, 2, 4, 8}
        \/ tt >= Power(len) \/ tt < -(Power(len) \div 2)
        \/ len = 8 /\ tt < 0
    BY <1>6, <1>8, RepresentableIs
  <2>2. ASSUME Filling
        PROVE  len \in {3, 5, 6, 7} \/ (len = 8 /\ Number(text.is["hex"]) > LLONG_MAX)
    <3>1. /\ tt = NULL => len = 8 /\ Number(text.is["hex"]) > LLONG_MAX
          /\ tt # NULL => tt \in Nat /\ tt < Power(len)
      BY <1>1, <1>2, <2>2, FillingNumber
    <3>2. CASE tt = NULL
      BY <3>1, <3>2
    <3>3. CASE tt # NULL
      <4>1. PICK x \in Nat : x = Power(len)
        BY <1>3, PowerNat
      <4>2. PICK y \in Nat : y = Power(len) \div 2
        BY <4>1
      <4>3. len \notin {1, 2, 4, 8}
        BY <2>1, <3>1, <3>3, <4>1, <4>2
      <4>. QED
        BY <1>3, <4>3
    <3>. QED
      BY <3>2, <3>3
  <2>. QED
    BY <1>1, <1>2, <1>8, <2>1, <2>2, RefuseKeeps
<1>. QED
  BY <1>7, <1>8

LEMMA HexKeeps ==
  ASSUME ValueInv, ParseHex
  PROVE  ValueInv'
<1>1. phase = "given" /\ ~ TooLong /\ Parser = "hex"
  BY DEF ParseHex, Parse
<1>2. PICK b \in hx2b_BE(text.is["hex"], len) : Take(b)
  BY DEF ParseHex
<1>3. len \in Nat /\ "hex" \in DOMAIN text.is
  BY <1>1, LenIs DEF ValueInv, Parser, Matches
<1>4. text.is["hex"] \in ByteSeq
  BY <1>3 DEF ValueInv, ValueTyped, Typed, ByteSeq
<1>5. b \in ByteSeq /\ Len(b) = len /\ (Len(text.is["hex"]) = len => b = text.is["hex"])
  BY <1>3, <1>4, HexTyped
<1>6. Filling => b = text.is["hex"]
  BY <1>1, <1>5, FillingParser
<1>. QED
  BY <1>1, <1>2, <1>5, <1>6, TakeKeeps

LEMMA LiteralKeeps ==
  ASSUME ValueInv, ParseLiteral
  PROVE  ValueInv'
<1>1. /\ phase = "given" /\ ~ TooLong /\ Parser = "literal"
      /\ IF Len(text.chars) >= len THEN Take(SubSeq(text.chars, 1, len)) ELSE Refuse
  BY DEF ParseLiteral, Parse
<1>2. len \in Nat /\ text.chars \in ByteSeq /\ Len(text.chars) \in Nat
  BY LenIs DEF ValueInv, ValueTyped, Typed, ByteSeq
<1>3. ~ Filling
  BY <1>1, FillingParser
<1>4. CASE Len(text.chars) >= len
  <2>1. PICK b \in ByteSeq : b = SubSeq(text.chars, 1, len) /\ Len(b) = len
    BY <1>2, <1>4, FirstBytes
  <2>. QED
    BY <1>1, <1>3, <1>4, <2>1, TakeKeeps
<1>5. CASE ~ (Len(text.chars) >= len)
  BY <1>1, <1>3, <1>5, RefuseKeeps
<1>. QED
  BY <1>4, <1>5
-----------------------------------------------------------------------------
(* The invariant holds of every text and every length.                      *)
THEOREM ValueSafe == Spec => []ValueInv
<1>1. Init => ValueInv
  <2> SUFFICES ASSUME Init PROVE ValueInv
    OBVIOUS
  <2>1. len \in Nat /\ len \in Length /\ text \in Text /\ parsed = Zeroes(len) /\ phase = "given"
    BY LengthsAreNat DEF Init
  <2>2. ValueTyped
    BY <2>1, ZeroesAre, TextsAreTyped DEF ValueTyped
  <2>. QED
    BY <2>1, <2>2 DEF ValueInv, NumbersExact, DigitsExact
<1>2. ValueInv /\ [Next]_vars => ValueInv'
  <2> SUFFICES ASSUME ValueInv, [Next]_vars PROVE ValueInv'
    OBVIOUS
  <2>1. CASE UNCHANGED vars
    <3>1. text' = text /\ len' = len /\ parsed' = parsed /\ phase' = phase
      BY <2>1 DEF vars
    <3>2. Parser' = Parser /\ TooLong' = TooLong /\ Filling' = Filling
      BY <3>1 DEF Parser, Matches, TooLong, Filling
    <3>3. ValueTyped'
      BY <3>1 DEF ValueInv, ValueTyped
    <3>4. NumbersExact' /\ DigitsExact'
      BY <3>1, <3>2 DEF ValueInv, NumbersExact, DigitsExact
    <3>. QED
      BY <3>3, <3>4 DEF ValueInv
  <2>. QED
    BY <2>1, TruncatedKeeps, NoneKeeps, Ipv4Keeps, MacKeeps, Ipv6Keeps, IntKeeps, HexKeeps,
       LiteralKeeps DEF Next
<1>. QED
  BY <1>1, <1>2, PTL DEF Spec

(* Whatever the user writes, a value is as many bytes as its field has, and *)
(* none of them is what was on the stack of value_parse().                  *)
THEOREM ValuesAreTyped == Spec => []ValueTypeOK
<1>1. ValueInv => ValueTypeOK
  <2> SUFFICES ASSUME ValueInv PROVE ValueTypeOK
    OBVIOUS
  <2>1. \A k \in 1..len : parsed[k] \in Byte
    BY ElementOfSeq DEF ValueInv, ValueTyped, ByteSeq
  <2>. QED
    BY <2>1 DEF ValueInv, ValueTyped, ValueTypeOK
<1>. QED
  BY <1>1, ValueSafe, PTL

(* value_parse() puts a number on the wire as two's complement, high byte   *)
(* first, and refuses only what the field cannot tell apart, or a negative  *)
(* number of eight bytes.                                                   *)
THEOREM NumbersAlwaysExact == Spec => []NumbersExact
<1>1. ValueInv => NumbersExact
  BY DEF ValueInv
<1>. QED
  BY <1>1, ValueSafe, PTL

(* The parser of numbers and that of hex digits agree on what digits stand  *)
(* for: as many as the field has are its bytes, or value_parse() refuses    *)
(* them for one of the two reasons DigitsExact names.                       *)
THEOREM DigitsAlwaysExact == Spec => []DigitsExact
<1>1. ValueInv => DigitsExact
  BY DEF ValueInv
<1>. QED
  BY <1>1, ValueSafe, PTL
=============================================================================
