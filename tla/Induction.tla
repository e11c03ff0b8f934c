------------------------------ MODULE Induction ------------------------------
(***************************************************************************)
(* Induction over numbers and over sequences, and what FlattenSeq()        *)
(* computes.                                                               *)
(*                                                                         *)
(* The library's theorems on induction take the property as an operator,   *)
(* here it is the set of what has the property.  All of it rests on WFMin: *)
(* a set that is not empty has a minimal member.                           *)
(***************************************************************************)
EXTENDS Naturals, SequencesExt, SequenceTheorems, WellFoundedInduction, TLAPS

(* A set of numbers that is not empty has a least member.                    *)
LEMMA LeastNumber ==
  ASSUME NEW T, T \subseteq Nat, T # {}
  PROVE  \E n \in T : \A m \in T : n <= m
<1> DEFINE R == OpToRel(<, Nat)
<1>1. PICK n \in T : \A m \in T : ~ (<<m, n>> \in R)
  <2>1. IsWellFoundedOn(R, Nat)
    BY NatLessThanWellFounded DEF OpToRel
  <2> HIDE DEF R
  <2>. QED
    BY <2>1, WFMin
<1>2. \A m \in T : ~ (m < n)
  BY <1>1 DEF OpToRel
<1>. QED
  BY <1>2

(* Induction over the numbers, on the set of those that have the property.   *)
LEMMA NatSetInduction ==
  ASSUME NEW T, 0 \in T, \A n \in Nat : n \in T => n + 1 \in T
  PROVE  Nat \subseteq T
<1> SUFFICES ASSUME NEW k \in Nat \ T PROVE FALSE
  OBVIOUS
<1>1. PICK n \in Nat \ T : \A m \in Nat \ T : n <= m
  BY LeastNumber
<1>2. n # 0 /\ n - 1 \in Nat
  BY <1>1
<1>3. n - 1 \in T
  BY <1>1, <1>2
<1>. QED
  BY <1>2, <1>3

(* A sequence that is not empty is some sequence and one more.               *)
LEMMA FrontLast ==
  ASSUME NEW S, NEW s \in Seq(S), s # <<>>
  PROVE  \E t \in Seq(S), x \in S : Len(s) = Len(t) + 1 /\ s = Append(t, x)
<1> DEFINE n == Len(s) - 1
           t == SubSeq(s, 1, n)
<1>1. n \in Nat /\ Len(s) = n + 1
  BY EmptySeq
<1> HIDE DEF n
<1>2. \A i \in 1..n : s[i] \in S
  BY <1>1, ElementOfSeq
<1>3. t \in Seq(S) /\ Len(t) = n /\ \A i \in 1..n : t[i] = s[i]
  BY <1>1, <1>2, SubSeqProperties
<1>4. s[n + 1] \in S
  BY <1>1, ElementOfSeq
<1> HIDE DEF t
<1>5. /\ Append(t, s[n + 1]) \in Seq(S) /\ Len(Append(t, s[n + 1])) = Len(s)
      /\ \A i \in 1..n : Append(t, s[n + 1])[i] = t[i]
      /\ Append(t, s[n + 1])[n + 1] = s[n + 1]
  BY <1>1, <1>3, <1>4, AppendProperties
<1>6. \A i \in 1..Len(s) : s[i] = Append(t, s[n + 1])[i]
  BY <1>1, <1>3, <1>5
<1>7. s = Append(t, s[n + 1])
  BY <1>5, <1>6, SeqEqual
<1>. QED
  BY <1>1, <1>3, <1>4, <1>7

(* Induction over sequences, from the empty one by appending.                *)
LEMMA SeqSetInduction ==
  ASSUME NEW S, NEW T, <<>> \in T,
         \A s \in Seq(S), x \in S : s \in T => Append(s, x) \in T
  PROVE  Seq(S) \subseteq T
<1> DEFINE N == {n \in Nat : \A s \in Seq(S) : Len(s) = n => s \in T}
<1>1. 0 \in N
  BY EmptySeq
<1>2. ASSUME NEW n \in Nat, n \in N
      PROVE  n + 1 \in N
  <2> SUFFICES ASSUME NEW s \in Seq(S), Len(s) = n + 1
               PROVE  s \in T
    OBVIOUS
  <2>1. s # <<>>
    OBVIOUS
  <2>2. PICK t \in Seq(S), x \in S : Len(s) = Len(t) + 1 /\ s = Append(t, x)
    BY <2>1, FrontLast
  <2>3. t \in T
    BY <1>2, <2>2
  <2>. QED
    BY <2>2, <2>3
<1> HIDE DEF N
<1>3. Nat \subseteq N
  BY <1>1, <1>2, NatSetInduction
<1>. QED
  BY <1>3, LenProperties DEF N

-----------------------------------------------------------------------------
(* FlattenSeq() of SequencesExt.                                             *)

\* The local function of FlattenSeq(): f[i] is the first i of s put together.
Flattens(f, s) ==
  f = [i \in 1..Len(s) |-> IF i = 1 THEN s[i] ELSE f[i-1] \o s[i]]

(* FlattenSeq() takes the last value of its local function.                  *)
LEMMA FlattenIs ==
  ASSUME NEW s, Len(s) # 0
  PROVE  FlattenSeq(s) = (CHOOSE f : Flattens(f, s))[Len(s)]
BY DEF FlattenSeq, Flattens

(* What such a function is at one place.                                     *)
LEMMA FlattensAt ==
  ASSUME NEW s, NEW f, Flattens(f, s), NEW i \in 1..Len(s)
  PROVE  f[i] = IF i = 1 THEN s[i] ELSE f[i-1] \o s[i]
<1> DEFINE g == [j \in 1..Len(s) |-> IF j = 1 THEN s[j] ELSE f[j-1] \o s[j]]
<1>1. f = g
  BY Zenon DEF Flattens
<1>2. g[i] = IF i = 1 THEN s[i] ELSE f[i-1] \o s[i]
  OBVIOUS
<1>. QED
  BY <1>1, <1>2, Zenon

(* A function that is so at every place is one.                              *)
LEMMA FlattensFrom ==
  ASSUME NEW s, NEW f, f = [i \in 1..Len(s) |-> f[i]],
         \A i \in 1..Len(s) : f[i] = IF i = 1 THEN s[i] ELSE f[i-1] \o s[i]
  PROVE  Flattens(f, s)
BY Zenon DEF Flattens

(* There is at most one.                                                     *)
LEMMA FlattensUnique ==
  ASSUME NEW s, Len(s) \in Nat, NEW f, NEW g, Flattens(f, s), Flattens(g, s)
  PROVE  \A i \in 1..Len(s) : f[i] = g[i]
<1> DEFINE T == {k \in Nat : k \in 1..Len(s) => f[k] = g[k]}
<1>1. 0 \in T
  OBVIOUS
<1>2. ASSUME NEW k \in Nat, k \in T
      PROVE  k + 1 \in T
  <2> SUFFICES ASSUME k + 1 \in 1..Len(s) PROVE f[k+1] = g[k+1]
    OBVIOUS
  <2>1. f[k+1] = IF k + 1 = 1 THEN s[k+1] ELSE f[k + 1 - 1] \o s[k+1]
    BY FlattensAt
  <2>2. g[k+1] = IF k + 1 = 1 THEN s[k+1] ELSE g[k + 1 - 1] \o s[k+1]
    BY FlattensAt
  <2>3. CASE k = 0
    BY <2>1, <2>2, <2>3
  <2>4. CASE k # 0
    <3>1. f[k] = g[k] /\ k + 1 - 1 = k /\ k + 1 # 1
      BY <1>2, <2>4
    <3>. QED
      BY <2>1, <2>2, <3>1
  <2>. QED
    BY <2>3, <2>4
<1> HIDE DEF T
<1>3. Nat \subseteq T
  BY <1>1, <1>2, NatSetInduction
<1>. QED
  BY <1>3 DEF T

(* There is one, made place by place.                                        *)
LEMMA FlattensExists ==
  ASSUME NEW S, NEW s \in Seq(S), s # <<>>
  PROVE  \E f : Flattens(f, s)
<1> DEFINE Upto(g, n) == g = [i \in 1..n |-> IF i = 1 THEN s[i] ELSE g[i-1] \o s[i]]
           T == {n \in Nat : \E g : Upto(g, n)}
<1>1. 0 \in T
  <2>1. Upto([i \in 1..0 |-> <<>>], 0)
    OBVIOUS
  <2>. QED
    BY <2>1
<1>2. ASSUME NEW n \in Nat, n \in T
      PROVE  n + 1 \in T
  <2>1. PICK g : Upto(g, n)
    BY <1>2
  <2>2. \A i \in 1..n : g[i] = IF i = 1 THEN s[i] ELSE g[i-1] \o s[i]
    <3> DEFINE gg == [i \in 1..n |-> IF i = 1 THEN s[i] ELSE g[i-1] \o s[i]]
    <3>1. g = gg
      BY <2>1, Zenon
    <3>2. \A i \in 1..n : gg[i] = IF i = 1 THEN s[i] ELSE g[i-1] \o s[i]
      OBVIOUS
    <3>. QED
      BY <3>1, <3>2, Zenon
  <2> HIDE DEF Upto
  <2> DEFINE h == [i \in 1..n+1 |-> IF i = 1 THEN s[i] ELSE g[i-1] \o s[i]]
  <2>3. \A i \in 1..n+1 : h[i] = IF i = 1 THEN s[i] ELSE h[i-1] \o s[i]
    <3> SUFFICES ASSUME NEW i \in 1..n+1 PROVE h[i] = IF i = 1 THEN s[i] ELSE h[i-1] \o s[i]
      OBVIOUS
    <3>1. CASE i = 1
      BY <3>1
    <3>2. CASE i # 1
      <4>1. i - 1 \in 1..n /\ i - 1 \in 1..n+1
        BY <3>2
      <4>2. h[i-1] = g[i-1]
        BY <2>2, <4>1
      <4>3. h[i] = g[i-1] \o s[i]
        BY <3>2
      <4>. QED
        BY <3>2, <4>2, <4>3, Zenon
    <3>. QED
      BY <3>1, <3>2
  <2>4. h = [i \in 1..n+1 |-> h[i]]
    OBVIOUS
  <2> HIDE DEF h
  <2>5. Upto(h, n + 1)
    BY <2>3, <2>4, Zenon DEF Upto
  <2>. QED
    BY <2>5
<1> HIDE DEF T
<1>3. Len(s) \in T
  <2>1. Nat \subseteq T
    BY <1>1, <1>2, NatSetInduction
  <2>. QED
    BY <2>1, LenProperties
<1>. QED
  BY <1>3 DEF T, Flattens

(* Nothing put together is nothing.                                          *)
LEMMA FlattenEmpty == FlattenSeq(<<>>) = <<>>
BY DEF FlattenSeq

(* FlattenSeq() is the last value of some such function.                     *)
LEMMA FlattenChosen ==
  ASSUME NEW S, NEW s \in Seq(S), s # <<>>
  PROVE  \E f : Flattens(f, s) /\ FlattenSeq(s) = f[Len(s)]
<1>1. Len(s) # 0
  BY EmptySeq
<1>2. Flattens(CHOOSE f : Flattens(f, s), s)
  BY FlattensExists, Zenon
<1>3. FlattenSeq(s) = (CHOOSE f : Flattens(f, s))[Len(s)]
  BY <1>1, FlattenIs
<1>. QED
  BY <1>2, <1>3, Zenon

(* One more at the end is joined at the end.                                 *)
LEMMA FlattenAppend ==
  ASSUME NEW S, NEW s \in Seq(Seq(S)), NEW x \in Seq(S)
  PROVE  FlattenSeq(Append(s, x)) = FlattenSeq(s) \o x
<1> DEFINE t == Append(s, x)
<1>1. /\ t \in Seq(Seq(S)) /\ t # <<>> /\ Len(t) = Len(s) + 1 /\ Len(s) \in Nat
      /\ \A i \in 1..Len(s) : t[i] = s[i]
      /\ t[Len(t)] = x
  BY AppendProperties, LenProperties
<1> HIDE DEF t
<1>2. PICK f : Flattens(f, t) /\ FlattenSeq(t) = f[Len(t)]
  BY <1>1, FlattenChosen
<1>3. f[Len(t)] = IF Len(t) = 1 THEN t[Len(t)] ELSE f[Len(t) - 1] \o t[Len(t)]
  BY <1>1, <1>2, FlattensAt
<1>4. CASE s = <<>>
  <2>1. Len(t) = 1
    BY <1>1, <1>4
  <2>2. FlattenSeq(s) \o x = x
    BY <1>4, FlattenEmpty, ConcatEmptySeq
  <2>. QED
    BY <1>1, <1>2, <1>3, <2>1, <2>2 DEF t
<1>5. CASE s # <<>>
  <2>1. PICK g : Flattens(g, s) /\ FlattenSeq(s) = g[Len(s)]
    BY <1>5, FlattenChosen
  <2>2. Len(s) # 0 /\ Len(s) \in 1..Len(s)
    BY <1>1, <1>5, EmptySeq
  <2> DEFINE h == [i \in 1..Len(s) |-> f[i]]
  <2>3. \A i \in 1..Len(s) : h[i] = IF i = 1 THEN s[i] ELSE h[i-1] \o s[i]
    <3> SUFFICES ASSUME NEW i \in 1..Len(s)
                 PROVE  f[i] = IF i = 1 THEN s[i] ELSE h[i-1] \o s[i]
      OBVIOUS
    <3>1. i \in 1..Len(t) /\ t[i] = s[i]
      BY <1>1
    <3>2. f[i] = IF i = 1 THEN t[i] ELSE f[i-1] \o t[i]
      BY <1>2, <3>1, FlattensAt
    <3>3. i # 1 => h[i-1] = f[i-1]
      BY <1>1
    <3>. QED
      BY <3>1, <3>2, <3>3, Zenon
  <2>4. h = [i \in 1..Len(s) |-> h[i]]
    OBVIOUS
  <2>5. h[Len(s)] = f[Len(s)]
    BY <2>2
  <2> HIDE DEF h
  <2>6. Flattens(h, s)
    BY <2>3, <2>4, FlattensFrom
  <2>7. h[Len(s)] = g[Len(s)]
    BY <1>1, <2>1, <2>2, <2>6, FlattensUnique
  <2>8. Len(t) - 1 = Len(s) /\ Len(t) # 1
    BY <1>1, <2>2
  <2>. QED
    BY <1>1, <1>2, <1>3, <2>1, <2>5, <2>7, <2>8 DEF t
<1>. QED
  BY <1>4, <1>5

(* Sequences of characters put together are a sequence of characters.        *)
LEMMA FlattenType ==
  ASSUME NEW S
  PROVE  \A s \in Seq(Seq(S)) : FlattenSeq(s) \in Seq(S)
<1> DEFINE T == {s \in Seq(Seq(S)) : FlattenSeq(s) \in Seq(S)}
<1>1. <<>> \in T
  BY FlattenEmpty, EmptySeq
<1>2. ASSUME NEW s \in Seq(Seq(S)), NEW x \in Seq(S), s \in T
      PROVE  Append(s, x) \in T
  BY <1>2, FlattenAppend, ConcatProperties, AppendProperties
<1> HIDE DEF T
<1>3. Seq(Seq(S)) \subseteq T
  BY <1>1, <1>2, SeqSetInduction
<1>. QED
  BY <1>3 DEF T

(* What is put together in two parts is put together.                        *)
LEMMA FlattenConcat ==
  ASSUME NEW S, NEW s \in Seq(Seq(S))
  PROVE  \A t \in Seq(Seq(S)) : FlattenSeq(s \o t) = FlattenSeq(s) \o FlattenSeq(t)
<1> DEFINE T == {t \in Seq(Seq(S)) : FlattenSeq(s \o t) = FlattenSeq(s) \o FlattenSeq(t)}
<1>0. FlattenSeq(s) \in Seq(S)
  BY FlattenType
<1>1. <<>> \in T
  <2>1. s \o <<>> = s /\ FlattenSeq(s) \o <<>> = FlattenSeq(s)
    BY <1>0, ConcatEmptySeq
  <2>2. FlattenSeq(s \o <<>>) = FlattenSeq(s) \o FlattenSeq(<<>>)
    BY <2>1, FlattenEmpty, Zenon
  <2>. QED
    BY <2>2, EmptySeq
<1>2. ASSUME NEW u \in Seq(Seq(S)), NEW x \in Seq(S), u \in T
      PROVE  Append(u, x) \in T
  <2>1. FlattenSeq(s \o u) = FlattenSeq(s) \o FlattenSeq(u)
    BY <1>2
  <2>2. s \o u \in Seq(Seq(S)) /\ s \o Append(u, x) = Append(s \o u, x)
    OBVIOUS
  <2>3. PICK a \in Seq(S), b \in Seq(S) : a = FlattenSeq(s) /\ b = FlattenSeq(u)
    BY FlattenType
  <2>4. FlattenSeq(s \o Append(u, x)) = (a \o b) \o x
    BY <2>1, <2>2, <2>3, FlattenAppend
  <2>5. FlattenSeq(Append(u, x)) = b \o x
    BY <2>3, FlattenAppend
  <2>6. (a \o b) \o x = a \o (b \o x)
    BY ConcatAssociative
  <2>. QED
    BY <2>3, <2>4, <2>5, <2>6, AppendProperties
<1> HIDE DEF T
<1>3. Seq(Seq(S)) \subseteq T
  BY <1>1, <1>2, SeqSetInduction
<1>. QED
  BY <1>3 DEF T
-----------------------------------------------------------------------------
(* Recursive functions over 0..n: from a first value, one step at a time.    *)

\* f starts at base and makes step[k] at k.
Recurs(f, n, base, step) == f[0] = base /\ \A k \in 1..n : f[k] = step[k][f[k-1]]

(* There is such a function, made place by place.                            *)
LEMMA RecursionExists ==
  ASSUME NEW S, NEW base \in S, NEW n \in Nat, NEW step \in [1..n -> [S -> S]]
  PROVE  \E f \in [0..n -> S] : Recurs(f, n, base, step)
<1> DEFINE Upto(f, m) == Recurs(f, m, base, step)
           T == {m \in Nat : m <= n => \E f \in [0..m -> S] : Upto(f, m)}
<1>1. 0 \in T
  <2> DEFINE f == [k \in 0..0 |-> base]
  <2>1. f \in [0..0 -> S] /\ Upto(f, 0)
    BY DEF Recurs
  <2>. QED
    BY <2>1
<1>2. ASSUME NEW m \in Nat, m \in T
      PROVE  m + 1 \in T
  <2> SUFFICES ASSUME m + 1 <= n PROVE \E f \in [0..m+1 -> S] : Upto(f, m + 1)
    OBVIOUS
  <2>1. PICK g \in [0..m -> S] : Upto(g, m)
    BY <1>2
  <2>2. m + 1 \in 1..n /\ step[m+1] \in [S -> S] /\ g[m] \in S
    OBVIOUS
  <2>3. PICK x \in S : x = step[m+1][g[m]]
    BY <2>2
  <2> DEFINE h == [k \in 0..m+1 |-> IF k = m + 1 THEN x ELSE g[k]]
  <2>4. h \in [0..m+1 -> S]
    BY <2>3
  <2>5. h[m+1] = x /\ \A k \in 0..m : h[k] = g[k]
    OBVIOUS
  <2> HIDE DEF h
  <2>6. ASSUME NEW k \in 1..m+1
        PROVE  h[k] = step[k][h[k-1]]
    <3>1. CASE k = m + 1
      BY <2>3, <2>5, <3>1
    <3>2. CASE k # m + 1
      <4>1. k \in 1..m /\ k \in 0..m /\ k - 1 \in 0..m
        BY <3>2
      <4>. QED
        BY <2>1, <2>5, <4>1 DEF Recurs
    <3>. QED
      BY <3>1, <3>2
  <2>7. h[0] = base
    BY <2>1, <2>5 DEF Recurs
  <2>. QED
    BY <2>4, <2>6, <2>7 DEF Recurs
<1> HIDE DEF T
<1>3. Nat \subseteq T
  BY <1>1, <1>2, NatSetInduction
<1>. QED
  BY <1>3 DEF T
=============================================================================
