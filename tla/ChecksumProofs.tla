--------------------------- MODULE ChecksumProofs ---------------------------
(***************************************************************************)
(* Theorems about Checksum, for frames of any length and content.          *)
(***************************************************************************)
EXTENDS Checksum, Induction

UINT32_MAX == 4294967295
Byte16 == {n \in Nat : n <= 65535}

-----------------------------------------------------------------------------
(* ones_final(): two carries are enough, and the result is the number that  *)
(* completes the sum.                                                       *)

\* A carry adds the two halves of a sum.
LEMMA CarryIs ==
  ASSUME NEW s \in Nat
  PROVE  /\ Carry(s) \in Nat
         /\ \E a, r \in Nat : s = 65536 * a + r /\ r < 65536 /\ Carry(s) = a + r
<1> DEFINE a == s \div 65536
<1> DEFINE r == s % 65536
<1>1. a \in Nat /\ r \in Nat /\ s = 65536 * a + r /\ r < 65536 /\ Carry(s) = a + r
  BY SMT DEF Carry
<1> QED
  BY SMT, <1>1

\* Two carries: nothing is left above 16 bits, and ones_final() returns the number that
\* completes the sum to a multiple of 2^16 - 1.
LEMMA FinalCompletes ==
  ASSUME NEW s \in Nat, s <= UINT32_MAX
  PROVE  /\ ones_final(s) \in Nat /\ ones_final(s) <= 65535
         /\ \E q \in Nat : s + ones_final(s) = 65535 * q /\ q >= 1
         /\ s > 0 => ones_final(s) < 65535
<1>1. PICK a, r \in Nat : s = 65536 * a + r /\ r < 65536 /\ Carry(s) = a + r
  BY SMT, CarryIs
<1>2. PICK t \in Nat : t = Carry(s)
  BY SMT, <1>1
<1>3. PICK b, u \in Nat : t = 65536 * b + u /\ u < 65536 /\ Carry(t) = b + u
  BY SMT, CarryIs
<1>4. a <= 65535 /\ b + u <= 65535
  BY SMT, <1>1, <1>2, <1>3 DEF UINT32_MAX
<1>5. (b + u) % 65536 = b + u
  BY SMT, <1>4
<1>6. ones_final(s) = 65535 - (b + u)
  BY SMT, <1>2, <1>3, <1>5 DEF ones_final
<1>7. s + ones_final(s) = 65535 * (a + b + 1) /\ a + b + 1 \in Nat /\ a + b + 1 >= 1
  BY SMT, <1>1, <1>2, <1>3, <1>6
<1>8. s > 0 => ones_final(s) < 65535
  BY SMT, <1>1, <1>2, <1>3, <1>6
<1>9. ones_final(s) \in Nat /\ ones_final(s) <= 65535
  BY SMT, <1>4, <1>6
<1>10. \E q \in Nat : s + ones_final(s) = 65535 * q /\ q >= 1
  <2>1. PICK q \in Nat : q = a + b + 1
    BY SMT, <1>7
  <2>2. s + ones_final(s) = 65535 * q /\ q >= 1
    BY SMT, <1>7, <2>1
  <2> QED
    BY SMT, <2>2
<1> QED
  BY <1>8, <1>9, <1>10

\* A multiple of 2^16 - 1 other than zero is summed up as all ones.
LEMMA MultipleIsAllOnes ==
  ASSUME NEW s \in Nat, s <= UINT32_MAX, s > 0, NEW q \in Nat, s = 65535 * q
  PROVE  ones_final(s) = 0
<1>1. PICK p \in Nat : s + ones_final(s) = 65535 * p
  BY SMT, FinalCompletes
<1>2. ones_final(s) \in Nat /\ ones_final(s) < 65535
  BY SMT, FinalCompletes
<1> QED
  BY SMT, <1>1, <1>2

(* The checksum that ones_final() makes of a sum, put into the block, makes *)
(* the same sum come out as all ones at the receiver; and so does 0xffff in *)
(* the place of the zero that UDP may not use.                              *)
THEOREM ChecksumCompletes ==
  ASSUME NEW s \in Nat, s + 65535 <= UINT32_MAX
  PROVE  /\ ones_final(s + ones_final(s)) = 0
         /\ ones_final(s) = 0 => ones_final(s + 65535) = 0
<1>1. PICK q \in Nat : s + ones_final(s) = 65535 * q /\ q >= 1
  BY SMT, FinalCompletes DEF UINT32_MAX
<1>2. ones_final(s) \in Nat /\ ones_final(s) <= 65535
  BY SMT, FinalCompletes DEF UINT32_MAX
<1>3. ones_final(s + ones_final(s)) = 0
  <2>1. PICK t \in Nat : t = s + ones_final(s)
    BY SMT, <1>2
  <2>2. t <= UINT32_MAX /\ t > 0 /\ t = 65535 * q
    BY SMT, <1>1, <1>2, <2>1 DEF UINT32_MAX
  <2> QED
    BY SMT, <2>1, <2>2, MultipleIsAllOnes
<1>4. ASSUME ones_final(s) = 0 PROVE ones_final(s + 65535) = 0
  <2>1. PICK t \in Nat : t = s + 65535
    BY SMT
  <2>2. PICK p \in Nat : p = q + 1
    BY SMT
  <2>3. t <= UINT32_MAX /\ t > 0 /\ t = 65535 * p
    BY SMT, <1>1, <1>4, <2>1, <2>2
  <2> QED
    BY SMT, <2>1, <2>3, MultipleIsAllOnes
<1> QED
  BY SMT, <1>3, <1>4
-----------------------------------------------------------------------------
(* The layout of a frame does not depend on its checksums. *)

Bytes == Seq(Byte)

\* Every byte of a frame is one.
LEMMA AByte ==
  ASSUME NEW f \in Bytes, NEW k \in Nat, k < Len(f)
  PROVE  At(f, k) \in Nat /\ At(f, k) <= 255
<1>1. f[k + 1] \in Byte
  BY SMT DEF Bytes
<1>2. \A x \in Byte : x \in Nat /\ x <= 255
  BY SMT DEF Byte
<1> QED
  BY SMT, <1>1, <1>2 DEF At

\* A word of a frame, in either order, has 16 bits.
LEMMA AWord ==
  ASSUME NEW f \in Bytes, NEW k \in Nat, k + 1 < Len(f)
  PROVE  Word(f, k) \in Byte16 /\ Be16(f, k) \in Byte16
<1>1. At(f, k) \in Nat /\ At(f, k) <= 255 /\ At(f, k + 1) \in Nat /\ At(f, k + 1) <= 255
  BY SMT, AByte
<1> QED
  BY SMT, <1>1 DEF Word, Be16, Byte16

\* A word is put into a frame without changing the bytes before it.
LEMMA PokeKeeps ==
  ASSUME NEW f \in Bytes, NEW k \in Nat, k + 2 <= Len(f), NEW w \in Byte16,
         NEW g, g = Poke(f, k, w)
  PROVE  /\ g \in Bytes
         /\ Len(g) = Len(f)
         /\ \A j \in Nat : j < k => At(g, j) = At(f, j)
<1>1. w % 256 \in Byte /\ w \div 256 \in Byte
  BY SMT DEF Byte16, Byte
<1>2. DOMAIN f = 1..Len(f) /\ \A n \in 1..Len(f) : f[n] \in Byte
  BY SMT DEF Bytes
<1>3. DOMAIN g = 1..Len(f)
  BY SMT, <1>2 DEF Poke
<1>4. \A n \in 1..Len(f) : g[n] = IF n = k + 2 THEN w \div 256 ELSE IF n = k + 1 THEN w % 256 ELSE f[n]
  BY SMT, <1>2 DEF Poke
<1>5. g = [n \in 1..Len(f) |-> g[n]]
  BY <1>3 DEF Poke
<1>6. \A n \in 1..Len(f) : g[n] \in Byte
  BY SMT, <1>1, <1>2, <1>4
<1>7. Len(f) \in Nat
  BY SMT DEF Bytes
<1>8. g \in Bytes /\ Len(g) = Len(f)
  BY SMT, <1>5, <1>6, <1>7 DEF Bytes
<1>9. \A j \in Nat : j < k => At(g, j) = At(f, j)
  BY SMT, <1>4, <1>7 DEF At
<1> QED
  BY SMT, <1>8, <1>9

\* The numbers read from a header have the widths the code gives them.
LEMMA LayoutTyped ==
  ASSUME NEW f \in Bytes, Len(f) >= 35
  PROVE  /\ Version(f) \in Nat
         /\ HeadLen(f) \in Nat /\ HeadLen(f) <= 60
         /\ L4Len(f) \in Byte16
         /\ Protocol(f) \in Nat /\ Protocol(f) <= 255
         /\ L4(f) = 14 + HeadLen(f)
<1>1. Len(f) \in Nat
  BY SMT DEF Bytes
<1>2. \A k \in {14, 20, 23} : At(f, k) \in Nat /\ At(f, k) <= 255
  BY SMT, <1>1, AByte
<1>3. Be16(f, 16) \in Byte16 /\ Be16(f, 18) \in Byte16
  BY SMT, <1>1, AWord
<1>4. Version(f) \in Nat /\ ihl(f) \in Nat /\ ihl(f) <= 15
  BY SMT, <1>2 DEF Version, ihl, L3
<1>5. HeadLen(f) \in Nat /\ HeadLen(f) <= 60
  BY SMT, <1>4 DEF HeadLen
<1>6. L4Len(f) \in Byte16
  BY SMT, <1>3, <1>5 DEF L4Len, L3, Byte16
<1>7. Protocol(f) \in Nat /\ Protocol(f) <= 255
  BY SMT, <1>2 DEF Protocol, L3
<1> QED
  BY SMT, <1>4, <1>5, <1>6, <1>7 DEF L4, L3

\* Frames that agree on what comes before the header checksum have the same layout.
LEMMA SameLayout ==
  ASSUME NEW f, NEW g, \A j \in Nat : j < 24 => At(g, j) = At(f, j)
  PROVE  /\ Version(g) = Version(f)
         /\ HeadLen(g) = HeadLen(f)
         /\ L4Len(g) = L4Len(f)
         /\ L4(g) = L4(f)
         /\ Protocol(g) = Protocol(f)
         /\ Supported(g) = Supported(f)
         /\ saddr(g) = saddr(f)
         /\ AddrLen(g) = AddrLen(f)
<1>1. /\ At(g, 14) = At(f, 14) /\ At(g, 16) = At(f, 16) /\ At(g, 17) = At(f, 17)
      /\ At(g, 18) = At(f, 18) /\ At(g, 19) = At(f, 19) /\ At(g, 20) = At(f, 20)
      /\ At(g, 23) = At(f, 23)
  BY SMT
<1>2. Version(g) = Version(f) /\ ihl(g) = ihl(f)
  BY SMT, <1>1 DEF Version, ihl, L3
<1>3. Be16(g, 16) = Be16(f, 16) /\ Be16(g, 18) = Be16(f, 18)
  BY SMT, <1>1 DEF Be16
<1>4. HeadLen(g) = HeadLen(f)
  BY SMT, <1>2 DEF HeadLen
<1>5. L4Len(g) = L4Len(f)
  BY SMT, <1>2, <1>3, <1>4 DEF L4Len, L3
<1>6. Protocol(g) = Protocol(f)
  BY SMT, <1>1, <1>2 DEF Protocol, L3
<1> QED
  BY SMT, <1>2, <1>4, <1>5, <1>6 DEF L4, Supported, saddr, AddrLen
-----------------------------------------------------------------------------
(* The inductive invariant. *)

\* What the checks have established of a frame that is being summed.
Sane(f) ==
  /\ Len(f) >= 35 /\ Len(f) <= 65535
  /\ Version(f) \in {4, 6}
  /\ HeadLen(f) >= 20 /\ HeadLen(f) <= 60
  /\ Version(f) = 6 => HeadLen(f) = 40
  /\ L4(f) + L4Len(f) <= Len(f)
  /\ Supported(f) => L4Check(f) + 2 <= Len(f)

Progress ==
  Summing =>
    /\ Sane(frame)
    /\ i % 2 = 0 \/ i = Count
    /\ phase = "header" => Version(frame) = 4
    /\ phase = "segment" => Supported(frame)

ChecksumInv == ChecksumTypeOK /\ Progress /\ BlockInFrame /\ SumBounded

\* The checks accept only what they are for.
LEMMA AcceptedIsSane ==
  ASSUME NEW f \in Bytes, Refusal(f) = "CHK_OK", Within(f)
  PROVE  Sane(f)
<1>0. Len(f) \in Nat
  BY SMT DEF Bytes
<1>1. ~ Insane(f) /\ Version(f) \in {4, 6} /\ ~ ExceedsFrame(f)
  BY SMT DEF Refusal
<1>2. Len(f) >= 35 /\ Len(f) <= 65535
  BY SMT, <1>0, <1>1 DEF Insane, L3
<1>3. HeadLen(f) \in Nat /\ HeadLen(f) <= 60 /\ L4Len(f) \in Byte16 /\ L4(f) = 14 + HeadLen(f)
  BY SMT, <1>2, LayoutTyped
<1>4. HeadLen(f) \in Nat /\ HeadLen(f) >= 20 /\ HeadLen(f) <= 60 /\ (Version(f) = 6 => HeadLen(f) = 40)
  BY SMT, <1>1 DEF Refusal, HeadLen
<1>5. L4(f) + L4Len(f) <= Len(f)
  BY SMT, <1>0, <1>1, <1>3 DEF ExceedsFrame, Within, L3, Byte16
<1> QED
  BY SMT, <1>1, <1>2, <1>4, <1>5 DEF Sane, Within

\* The checksum of a segment comes after the header.
LEMMA CheckAfterHeader ==
  ASSUME NEW f \in Bytes, Sane(f), Supported(f)
  PROVE  L4Check(f) \in Nat /\ L4Check(f) >= 36
<1>1. L4(f) = 14 + HeadLen(f) /\ HeadLen(f) \in Nat /\ HeadLen(f) >= 20 /\ HeadLen(f) <= 60
  BY SMT, LayoutTyped DEF Sane
<1>2. CheckAt[Protocol(f)] \in {2, 6, 16}
  BY SMT DEF Supported, CheckAt
<1> QED
  BY SMT, <1>1, <1>2 DEF L4Check

\* A checksum put into a sane frame leaves it sane, with the same layout.
LEMMA PokeSane ==
  ASSUME NEW f \in Bytes, Sane(f), NEW k \in Nat, k >= 24, k + 2 <= Len(f), NEW w \in Byte16,
         NEW g, g = Poke(f, k, w)
  PROVE  /\ g \in Bytes /\ Len(g) = Len(f) /\ Sane(g)
         /\ Version(g) = Version(f) /\ HeadLen(g) = HeadLen(f) /\ L4Len(g) = L4Len(f)
         /\ L4(g) = L4(f) /\ Protocol(g) = Protocol(f) /\ Supported(g) = Supported(f)
         /\ saddr(g) = saddr(f) /\ AddrLen(g) = AddrLen(f)
<1>1. g \in Bytes /\ Len(g) = Len(f) /\ \A j \in Nat : j < k => At(g, j) = At(f, j)
  BY SMT, PokeKeeps
<1>2. \A j \in Nat : j < 24 => At(g, j) = At(f, j)
  BY SMT, <1>1
<1>3. /\ Version(g) = Version(f) /\ HeadLen(g) = HeadLen(f) /\ L4Len(g) = L4Len(f)
      /\ L4(g) = L4(f) /\ Protocol(g) = Protocol(f) /\ Supported(g) = Supported(f)
      /\ saddr(g) = saddr(f) /\ AddrLen(g) = AddrLen(f)
  BY SMT, <1>2, SameLayout
<1> QED
  BY SMT, <1>1, <1>3 DEF Sane, L4Check

\* What is summed in each phase lies in a sane frame, and how much it is.
LEMMA Extents ==
  ASSUME NEW f \in Bytes, Sane(f)
  PROVE  /\ Version(f) \in {4, 6}
         /\ 14 + HeadLen(f) <= Len(f) /\ HeadLen(f) \in Nat /\ HeadLen(f) >= 20 /\ HeadLen(f) <= 60
         /\ saddr(f) \in Nat /\ AddrLen(f) \in {8, 32} /\ saddr(f) + AddrLen(f) <= Len(f)
         /\ Version(f) = 4 => AddrLen(f) = 8
         /\ Version(f) = 6 => AddrLen(f) = 32
         /\ L4(f) \in Nat /\ L4(f) >= 34 /\ L4Len(f) \in Nat /\ L4(f) + L4Len(f) <= Len(f)
         /\ Version(f) = 6 => L4(f) = 54
<1>1. /\ L4(f) = 14 + HeadLen(f) /\ L4Len(f) \in Byte16 /\ HeadLen(f) \in Nat /\ HeadLen(f) >= 20 /\ HeadLen(f) <= 60
      /\ Len(f) >= 35 /\ Len(f) <= 65535
  BY SMT, LayoutTyped DEF Sane
<1>2. Version(f) \in {4, 6} /\ (Version(f) = 6 => HeadLen(f) = 40) /\ L4(f) + L4Len(f) <= Len(f)
  BY SMT DEF Sane
<1>3. saddr(f) = (IF Version(f) = 4 THEN 26 ELSE 22) /\ AddrLen(f) = (IF Version(f) = 4 THEN 8 ELSE 32)
  BY SMT DEF saddr, AddrLen, L3
<1> QED
  BY SMT, <1>1, <1>2, <1>3 DEF Byte16

\* The block under way is part of the frame; BlockInFrame needs no more than Progress.
LEMMA BlocksFit ==
  ASSUME ChecksumTypeOK, Progress, Summing
  PROVE  Base \in Nat /\ Count \in Nat /\ Base + Count <= Len(frame)
<1>1. frame \in Bytes /\ Sane(frame)
  BY SMT DEF ChecksumTypeOK, Progress, Bytes
<1>2. CASE phase = "header"
  BY SMT, <1>1, <1>2, Extents DEF Base, Count, L3
<1>3. CASE phase = "addresses"
  BY SMT, <1>1, <1>3, Extents DEF Base, Count
<1>4. CASE phase = "segment"
  BY SMT, <1>1, <1>4, Extents DEF Base, Count
<1> QED
  BY SMT, <1>2, <1>3, <1>4 DEF Summing, Block

-----------------------------------------------------------------------------
(* One lemma per action. *)

\* A word more, a trailing byte more: the bound grows with the sum.
LEMMA OneWordMore ==
  ASSUME NEW c \in Nat, NEW n \in Nat, NEW s \in Nat, NEW w \in Byte16,
         s <= 65535 * (c + ((n + 1) \div 2))
  PROVE  /\ s + w <= 65535 * (c + ((n + 3) \div 2))
         /\ n % 2 = 0 => s + w <= 65535 * (c + ((n + 2) \div 2))
BY SMT DEF Byte16

\* 32 bits are enough for the longest segment of a sane frame.
LEMMA BoundBelow31 ==
  ASSUME NEW s \in Nat, NEW n \in Nat, NEW c \in {0, 6, 18}, n <= 65501,
         c = 18 => n <= 65481,
         s <= 65535 * (c + ((n + 1) \div 2))
  PROVE  s <= 2147483647
BY SMT

\* ones_sum(): the block stays what it is, the sum grows with its bound.
LEMMA AddKeeps ==
  ASSUME ChecksumInv, AddWord \/ AddTrailing
  PROVE  ChecksumInv'
<1>1. ChecksumTypeOK /\ Progress /\ BlockInFrame /\ SumBounded /\ Summing
  BY SMT DEF ChecksumInv, AddWord, AddTrailing
<1>2. UNCHANGED <<frame, phase, ret, given, calls>>
  BY SMT DEF AddWord, AddTrailing
<1>3. /\ Base' = Base /\ Count' = Count /\ PseudoWords' = PseudoWords /\ Summing'
      /\ Sane(frame') /\ Version(frame') = Version(frame) /\ Supported(frame') = Supported(frame)
  BY SMT, <1>1, <1>2 DEF Base, Count, PseudoWords, Summing, Progress
<1>4. Base \in Nat /\ Count \in Nat /\ Base + Count <= Len(frame) /\ i \in Nat /\ sum \in Nat
  BY SMT, <1>1, BlocksFit DEF ChecksumTypeOK
<1>5. frame \in Bytes /\ Sane(frame)
  BY SMT, <1>1 DEF ChecksumTypeOK, Progress, Bytes
<1> DEFINE c == IF phase = "segment" THEN PseudoWords ELSE 0
<1>6. c \in {0, 6, 18} /\ c \in Nat /\ sum <= 65535 * (c + ((i + 1) \div 2))
  BY SMT, <1>1 DEF PseudoWords, SumBounded
<1>parity. i' % 2 = 0 \/ i' = Count
  <2>1. i % 2 = 0 \/ i = Count
    BY SMT, <1>1 DEF Progress
  <2>2. CASE AddWord
    BY SMT, <1>4, <2>1, <2>2 DEF AddWord
  <2>3. CASE AddTrailing
    BY SMT, <1>4, <2>1, <2>3 DEF AddTrailing
  <2> QED
    BY <2>2, <2>3
<1>7. /\ i' \in Nat /\ sum' \in Nat /\ i' <= Count
      /\ sum' <= 65535 * (c + ((i' + 1) \div 2))
  <2>1. CASE AddWord
    <3>1. i % 2 = 0 /\ i + 1 < Count /\ i' = i + 2 /\ sum' = sum + Word(frame, Base + i)
      BY SMT, <1>1, <1>4, <2>1 DEF Progress, AddWord
    <3>2. Word(frame, Base + i) \in Byte16
      BY SMT, <1>4, <1>5, <3>1, AWord
    <3>3. sum' <= 65535 * (c + ((i + 3) \div 2))
      BY SMT, <1>4, <1>6, <3>1, <3>2, OneWordMore DEF Byte16
    <3> QED
      BY SMT, <1>4, <3>1, <3>2, <3>3 DEF Byte16
  <2>2. CASE AddTrailing
    <3>1. i % 2 = 0 /\ i + 1 = Count /\ i' = i + 1 /\ sum' = sum + At(frame, Base + i)
      BY SMT, <1>1, <1>4, <2>2 DEF Progress, AddTrailing
    <3>2. At(frame, Base + i) \in Nat /\ At(frame, Base + i) <= 255
      BY SMT, <1>4, <1>5, <3>1, AByte
    <3>3. sum' <= 65535 * (c + ((i + 2) \div 2))
      BY SMT, <1>4, <1>6, <3>1, <3>2, OneWordMore DEF Byte16
    <3> QED
      BY SMT, <1>4, <3>1, <3>2, <3>3
  <2> QED
    BY SMT, <2>1, <2>2
<1>8. i' <= 65501 /\ (c = 18 => i' <= 65481)
  <2>1. Len(frame) <= 65535
    BY SMT, <1>5 DEF Sane
  <2>2. CASE phase = "segment"
    <3>1. Base = L4(frame) /\ Count = L4Len(frame)
      BY SMT, <2>2 DEF Base, Count
    <3>2. L4(frame) \in Nat /\ L4(frame) >= 34 /\ L4(frame) + Count <= Len(frame)
      BY SMT, <1>4, <1>5, <3>1, Extents
    <3>3. c = 18 => L4(frame) = 54
      BY SMT, <1>5, <2>2, Extents DEF PseudoWords
    <3> QED
      BY SMT, <1>4, <1>7, <2>1, <3>2, <3>3
  <2>3. CASE phase # "segment"
    <3>1. Count \in Nat /\ Count <= 60
      BY SMT, <1>1, <1>5, <2>3, Extents DEF Count, Summing, Block
    <3> QED
      BY SMT, <1>4, <1>7, <3>1, <2>3
  <2> QED
    BY SMT, <2>2, <2>3
<1>9. sum' <= 2147483647
  BY SMT, <1>6, <1>7, <1>8, BoundBelow31
<1>10. ChecksumTypeOK'
  BY SMT, <1>1, <1>2, <1>3, <1>7 DEF ChecksumTypeOK
<1>11. Progress' /\ BlockInFrame'
  <2>1. phase' = phase /\ frame' = frame
    BY SMT, <1>2
  <2>2. (phase = "header" => Version(frame) = 4) /\ (phase = "segment" => Supported(frame))
    BY SMT, <1>1 DEF Progress
  <2>3. Progress'
    <3>1. i' % 2 = 0 \/ i' = Count'
      BY <1>3, <1>parity
    <3> QED
      BY <1>3, <2>1, <2>2, <3>1 DEF Progress
  <2> QED
    BY SMT, <1>3, <1>4, <2>1, <2>3 DEF BlockInFrame
<1>12. SumBounded'
  BY SMT, <1>2, <1>3, <1>7, <1>9 DEF SumBounded
<1> QED
  BY SMT, <1>10, <1>11, <1>12 DEF ChecksumInv

\* Nothing is being summed: only the types are left to show.
LEMMA NotSumming ==
  ASSUME ChecksumTypeOK', ~ Summing'
  PROVE  ChecksumInv'
BY SMT DEF ChecksumInv, Progress, BlockInFrame, SumBounded

\* A block begins with a sum that its bound allows.
LEMMA BlockBegins ==
  ASSUME frame' \in Bytes, given' \in Bytes, Len(frame') = Len(given'), Sane(frame'),
         calls' \in 1..2, ret' = ret, ret \in {"CHK_OK", "CHK_INVAL", "CHK_UNSUPPORTED", "CHK_MALFORMED"},
         phase' \in Block, i' = 0, sum' \in Nat,
         phase' = "header" => Version(frame') = 4,
         phase' = "segment" => Supported(frame'),
         phase' # "segment" => sum' = 0,
         phase' = "segment" /\ Version(frame') = 4 => sum' <= 65535 * 6,
         phase' = "segment" /\ Version(frame') # 4 => sum' <= 65535 * 18
  PROVE  ChecksumInv'
<1>1. Summing'
  BY SMT DEF Summing
<1>2. Base' \in Nat /\ Count' \in Nat /\ Base' + Count' <= Len(frame')
  <2>1. CASE phase' = "header"
    BY SMT, <2>1, Extents DEF Base, Count, L3
  <2>2. CASE phase' = "addresses"
    BY SMT, <2>2, Extents DEF Base, Count
  <2>3. CASE phase' = "segment"
    BY SMT, <2>3, Extents DEF Base, Count
  <2> QED
    BY SMT, <2>1, <2>2, <2>3 DEF Block
<1>3. PseudoWords' \in {6, 18}
  BY SMT DEF PseudoWords
<1>4. ChecksumTypeOK'
  BY SMT, <1>1, <1>2 DEF ChecksumTypeOK, Bytes
<1>5. Progress' /\ BlockInFrame'
  BY SMT, <1>1, <1>2 DEF Progress, BlockInFrame
<1>6. (i' + 1) \div 2 = 0
  BY SMT
<1>7. SumBounded'
  <2>1. CASE phase' = "segment"
    <3>1. CASE Version(frame') = 4
      <4>1. PseudoWords' = 6
        BY <3>1 DEF PseudoWords
      <4> QED
        BY SMT, <1>6, <2>1, <3>1, <4>1 DEF SumBounded
    <3>2. CASE Version(frame') # 4
      <4>1. PseudoWords' = 18
        BY <3>2 DEF PseudoWords
      <4> QED
        BY SMT, <1>6, <2>1, <3>2, <4>1 DEF SumBounded
    <3> QED
      BY <3>1, <3>2
  <2>2. CASE phase' # "segment"
    BY SMT, <1>6, <2>2 DEF SumBounded
  <2> QED
    BY <2>1, <2>2
<1> QED
  BY SMT, <1>4, <1>5, <1>7 DEF ChecksumInv

\* Checksums are put where a sane frame has them.
LEMMA HeaderCheckFits ==
  ASSUME NEW f \in Bytes, Sane(f)
  PROVE  L3Check \in Nat /\ L3Check >= 24 /\ L3Check + 2 <= Len(f)
BY SMT DEF Sane, L3Check, L3, Bytes

\* A frame that is accepted.
LEMMA HeaderKeeps ==
  ASSUME ChecksumInv, Header \/ NoHeader
  PROVE  ChecksumInv'
<1>1. ChecksumTypeOK /\ Accepted
  BY DEF ChecksumInv, Header, NoHeader
<1>2. frame \in Bytes /\ given \in Bytes /\ Len(frame) = Len(given) /\ calls \in 1..2
  BY SMT, <1>1 DEF ChecksumTypeOK, Bytes
<1>3. Sane(frame)
  BY <1>1, <1>2, AcceptedIsSane DEF Accepted
<1>4. ret \in {"CHK_OK", "CHK_INVAL", "CHK_UNSUPPORTED", "CHK_MALFORMED"}
  BY <1>1 DEF ChecksumTypeOK
<1>5. CASE Header
  <2>1. /\ phase' = "header" /\ i' = 0 /\ sum' = 0 /\ ret' = ret /\ given' = given /\ calls' = calls
        /\ Version(frame) = 4 /\ frame' = Poke(frame, L3Check, 0)
    BY <1>5 DEF Header
  <2>2. 0 \in Byte16
    BY SMT DEF Byte16
  <2>3. PICK g : g = Poke(frame, L3Check, 0)
    OBVIOUS
  <2>4. g \in Bytes /\ Len(g) = Len(frame) /\ Sane(g) /\ Version(g) = 4
    BY <1>2, <1>3, <2>1, <2>2, <2>3, HeaderCheckFits, PokeSane
  <2>5. frame' \in Bytes /\ Len(frame') = Len(given') /\ Sane(frame') /\ Version(frame') = 4
    BY <1>2, <2>1, <2>3, <2>4
  <2>6. phase' # "segment" /\ sum' \in Nat
    BY SMT, <2>1
  <2> QED
    BY SMT, <1>2, <1>4, <2>1, <2>5, <2>6, BlockBegins DEF Block
<1>6. CASE NoHeader
  <2>1. /\ phase' = "addresses" /\ i' = 0 /\ sum' = 0 /\ ret' = ret /\ given' = given /\ calls' = calls
        /\ frame' = frame
    BY <1>6 DEF NoHeader
  <2>2. phase' # "segment" /\ sum' \in Nat
    BY SMT, <2>1
  <2>3. frame' \in Bytes /\ Len(frame') = Len(given') /\ Sane(frame')
    BY <1>2, <1>3, <2>1
  <2> QED
    BY SMT, <1>2, <1>4, <2>1, <2>2, <2>3, BlockBegins DEF Block
<1> QED
  BY <1>5, <1>6

\* The sum of a block makes a checksum of 16 bits.
LEMMA SumMakesCheck ==
  ASSUME ChecksumInv, Summing
  PROVE  ones_final(sum) \in Byte16
<1>1. sum \in Nat /\ sum <= 2147483647
  BY SMT DEF ChecksumInv, ChecksumTypeOK, SumBounded
<1>2. sum <= UINT32_MAX
  BY SMT, <1>1 DEF UINT32_MAX
<1>3. ones_final(sum) \in Nat /\ ones_final(sum) <= 65535
  BY SMT, <1>1, <1>2, FinalCompletes
<1> QED
  BY SMT, <1>3 DEF Byte16

\* The header is complete, the pseudo-header begins.
LEMMA HeaderDoneKeeps ==
  ASSUME ChecksumInv, HeaderDone
  PROVE  ChecksumInv'
<1>1. ChecksumTypeOK /\ Progress /\ Summing
  BY DEF ChecksumInv, HeaderDone, Summing, Block
<1>2. frame \in Bytes /\ given \in Bytes /\ Len(frame) = Len(given) /\ calls \in 1..2 /\ Sane(frame)
  BY SMT, <1>1 DEF ChecksumTypeOK, Bytes, Progress
<1>3. ret \in {"CHK_OK", "CHK_INVAL", "CHK_UNSUPPORTED", "CHK_MALFORMED"}
  BY <1>1 DEF ChecksumTypeOK
<1>4. /\ phase' = "addresses" /\ i' = 0 /\ sum' = 0 /\ ret' = ret /\ given' = given /\ calls' = calls
      /\ frame' = Poke(frame, L3Check, ones_final(sum))
  BY DEF HeaderDone
<1>5. PICK w \in Byte16 : w = ones_final(sum)
  BY <1>1, SumMakesCheck
<1>6. PICK g : g = Poke(frame, L3Check, w)
  OBVIOUS
<1>7. g \in Bytes /\ Len(g) = Len(frame) /\ Sane(g)
  BY <1>2, <1>6, HeaderCheckFits, PokeSane
<1>8. frame' \in Bytes /\ Len(frame') = Len(given') /\ Sane(frame')
  BY <1>2, <1>4, <1>5, <1>6, <1>7
<1>9. phase' # "segment" /\ sum' \in Nat
  BY SMT, <1>4
<1> QED
  BY SMT, <1>2, <1>3, <1>4, <1>8, <1>9, BlockBegins DEF Block

\* What a pseudo-header adds up to: the addresses, the protocol and the length.
LEMMA PseudoSum ==
  ASSUME ChecksumInv, phase = "addresses", i = Count
  PROVE  /\ sum \in Nat
         /\ sum <= 65535 * (IF Version(frame) = 4 THEN 4 ELSE 16)
         /\ Protocol(frame) \in Nat /\ Protocol(frame) <= 255
         /\ Swap(L4Len(frame)) \in Nat /\ Swap(L4Len(frame)) <= 65535
<1>1. ChecksumTypeOK /\ Progress /\ SumBounded /\ Summing
  BY DEF ChecksumInv, Summing, Block
<1>2. frame \in Bytes /\ Sane(frame) /\ sum \in Nat
  BY SMT, <1>1 DEF ChecksumTypeOK, Bytes, Progress
<1>3. /\ Version(frame) \in {4, 6}
      /\ Version(frame) = 4 => AddrLen(frame) = 8
      /\ Version(frame) = 6 => AddrLen(frame) = 32
  BY SMT, <1>2, Extents
<1>4. i = AddrLen(frame)
  BY DEF Count
<1>5. sum <= 65535 * ((i + 1) \div 2)
  BY SMT, <1>1, <1>2, <1>3, <1>4 DEF SumBounded
<1>6. sum <= 65535 * (IF Version(frame) = 4 THEN 4 ELSE 16)
  BY SMT, <1>2, <1>3, <1>4, <1>5
<1>7. L4Len(frame) \in Byte16 /\ Protocol(frame) \in Nat /\ Protocol(frame) <= 255
  BY SMT, <1>2, LayoutTyped DEF Sane
<1>8. PICK w \in Byte16 : w = L4Len(frame)
  BY <1>7
<1>9. Swap(w) \in Nat /\ Swap(w) <= 65535
  BY SMT DEF Swap, Byte16
<1> QED
  BY <1>2, <1>6, <1>7, <1>8, <1>9

\* The pseudo-header is complete, the segment begins.
LEMMA SegmentKeeps ==
  ASSUME ChecksumInv, Segment
  PROVE  ChecksumInv'
<1>1. ChecksumTypeOK /\ Progress /\ Summing
  BY DEF ChecksumInv, Segment, Summing, Block
<1>2. frame \in Bytes /\ given \in Bytes /\ Len(frame) = Len(given) /\ calls \in 1..2 /\ Sane(frame)
  BY SMT, <1>1 DEF ChecksumTypeOK, Bytes, Progress
<1>3. ret \in {"CHK_OK", "CHK_INVAL", "CHK_UNSUPPORTED", "CHK_MALFORMED"}
  BY <1>1 DEF ChecksumTypeOK
<1>4. /\ phase' = "segment" /\ i' = 0 /\ ret' = ret /\ given' = given /\ calls' = calls
      /\ Supported(frame) /\ frame' = Poke(frame, L4Check(frame), 0)
      /\ sum' = IF Protocol(frame) = IPPROTO.ICMP THEN 0
                ELSE sum + 256 * Protocol(frame) + Swap(L4Len(frame))
  BY DEF Segment
<1>5. 0 \in Byte16
  BY SMT DEF Byte16
<1>6. L4Check(frame) \in Nat /\ L4Check(frame) >= 24 /\ L4Check(frame) + 2 <= Len(frame)
  BY SMT, <1>2, <1>4, CheckAfterHeader DEF Sane
<1>7. PICK g : g = Poke(frame, L4Check(frame), 0)
  OBVIOUS
<1>8. PICK k \in Nat : k = L4Check(frame)
  BY <1>6
<1>9. /\ g \in Bytes /\ Len(g) = Len(frame) /\ Sane(g)
      /\ Version(g) = Version(frame) /\ Supported(g) = Supported(frame)
  BY <1>2, <1>5, <1>6, <1>7, <1>8, PokeSane
<1>10. /\ frame' \in Bytes /\ Len(frame') = Len(given') /\ Sane(frame')
       /\ Version(frame') = Version(frame) /\ Supported(frame')
  BY <1>2, <1>4, <1>7, <1>9
<1>11. /\ sum \in Nat
       /\ sum <= 65535 * (IF Version(frame) = 4 THEN 4 ELSE 16)
       /\ Protocol(frame) \in Nat /\ Protocol(frame) <= 255
       /\ Swap(L4Len(frame)) \in Nat /\ Swap(L4Len(frame)) <= 65535
  BY PseudoSum DEF Segment
<1>12. /\ sum' \in Nat
       /\ Version(frame') = 4 => sum' <= 65535 * 6
       /\ Version(frame') # 4 => sum' <= 65535 * 18
  BY SMT, <1>4, <1>10, <1>11
<1> QED
  BY SMT, <1>2, <1>3, <1>4, <1>10, <1>12, BlockBegins DEF Block

\* The call ends with both checksums in place.
LEMMA SegmentDoneKeeps ==
  ASSUME ChecksumInv, SegmentDone
  PROVE  ChecksumInv'
<1>1. ChecksumTypeOK /\ Progress /\ Summing /\ phase = "segment"
  BY DEF ChecksumInv, SegmentDone, Summing, Block
<1>2. frame \in Bytes /\ given \in Bytes /\ Len(frame) = Len(given) /\ Sane(frame) /\ Supported(frame)
  BY SMT, <1>1 DEF ChecksumTypeOK, Bytes, Progress
<1>3. PICK w \in Byte16 : frame' = Poke(frame, L4Check(frame), w)
  <2>1. ones_final(sum) \in Byte16 /\ 65535 \in Byte16
    BY SMT, <1>1, SumMakesCheck DEF Byte16
  <2> QED
    BY <2>1 DEF SegmentDone
<1>4. L4Check(frame) \in Nat /\ L4Check(frame) >= 24 /\ L4Check(frame) + 2 <= Len(frame)
  BY SMT, <1>2, CheckAfterHeader DEF Sane
<1>5. PICK k \in Nat : k = L4Check(frame)
  BY <1>4
<1>6. frame' \in Bytes /\ Len(frame') = Len(frame)
  BY <1>2, <1>3, <1>4, <1>5, PokeSane
<1>7. phase' = "done" /\ ret' = "CHK_OK" /\ UNCHANGED <<i, sum, given, calls>>
  BY DEF SegmentDone, Return
<1>8. ~ Summing'
  BY <1>7 DEF Summing, Block
<1>9. ChecksumTypeOK'
  BY <1>1, <1>2, <1>6, <1>7, <1>8 DEF ChecksumTypeOK, Bytes
<1> QED
  BY <1>8, <1>9, NotSumming

\* The steps that leave the frame alone and sum nothing.
LEMMA RestKeeps ==
  ASSUME ChecksumInv, Refuse \/ Stray \/ UnknownProtocol \/ Again
  PROVE  ChecksumInv'
<1>1. ChecksumTypeOK
  BY DEF ChecksumInv
<1>2. /\ phase' \in {"idle", "done", "stray"} /\ frame' = frame /\ i' = i /\ sum' = sum
      /\ given' \in {given, frame} /\ calls' \in {calls, 2}
  BY DEF Refuse, Stray, UnknownProtocol, Again, Return
<1>3. ret' \in {"CHK_OK", "CHK_INVAL", "CHK_UNSUPPORTED", "CHK_MALFORMED"}
  BY <1>1 DEF ChecksumTypeOK, Refuse, Stray, UnknownProtocol, Again, Return, Refusal
<1>4. ~ Summing'
  BY <1>2 DEF Summing, Block
<1>5. calls' \in 1..2
  BY SMT, <1>1, <1>2 DEF ChecksumTypeOK
<1>6. ChecksumTypeOK'
  BY <1>1, <1>2, <1>3, <1>4, <1>5 DEF ChecksumTypeOK
<1> QED
  BY <1>4, <1>6, NotSumming
-----------------------------------------------------------------------------
(* The theorems. *)

LEMMA ChecksumAtFirst == Init => ChecksumInv
<1> SUFFICES ASSUME Init PROVE ChecksumInv
  OBVIOUS
<1>1. frame \in Seq(Byte) /\ given = frame
  BY FramesOfBytes DEF Init
<1>2. i = 0 /\ sum = 0 /\ calls = 1 /\ phase = "idle" /\ ret = "CHK_OK"
  BY DEF Init
<1>3. ~ Summing
  BY <1>2 DEF Summing, Block
<1>4. i \in Nat /\ sum \in Nat /\ calls \in 1..2
  BY SMT, <1>2
<1> QED
  BY <1>1, <1>2, <1>3, <1>4 DEF ChecksumInv, ChecksumTypeOK, Progress, BlockInFrame, SumBounded

LEMMA ChecksumKept == ChecksumInv /\ [Next]_vars => ChecksumInv'
<1> SUFFICES ASSUME ChecksumInv, [Next]_vars PROVE ChecksumInv'
  OBVIOUS
<1>1. CASE AddWord \/ AddTrailing
  BY <1>1, AddKeeps
<1>2. CASE Header \/ NoHeader
  BY <1>2, HeaderKeeps
<1>3. CASE HeaderDone
  BY <1>3, HeaderDoneKeeps
<1>4. CASE Segment
  BY <1>4, SegmentKeeps
<1>5. CASE SegmentDone
  BY <1>5, SegmentDoneKeeps
<1>6. CASE Refuse \/ Stray \/ UnknownProtocol \/ Again
  BY <1>6, RestKeeps
<1>7. CASE UNCHANGED vars
  BY <1>7 DEF vars, ChecksumInv, ChecksumTypeOK, Progress, BlockInFrame, SumBounded,
     Summing, Base, Count, PseudoWords
<1> QED
  BY <1>1, <1>2, <1>3, <1>4, <1>5, <1>6, <1>7 DEF Next

(* checksum() on any frame, to the end and any number of times: what a call *)
(* has is typed, and the frame that is summed has passed the checks.        *)
THEOREM ChecksumSafe == Spec => []ChecksumInv
BY ChecksumAtFirst, ChecksumKept, PTL DEF Spec

(* Every variable of checksum() keeps its type, and a frame its length.     *)
THEOREM ChecksumTyped == Spec => []ChecksumTypeOK
<1>1. ChecksumInv => ChecksumTypeOK
  BY DEF ChecksumInv
<1> QED
  BY <1>1, ChecksumSafe, PTL

(* No byte beyond the frame is ever summed, whatever lengths the headers    *)
(* claim.                                                                   *)
THEOREM SummedInFrame == Spec => []BlockInFrame
<1>1. ChecksumInv => BlockInFrame
  BY DEF ChecksumInv
<1> QED
  BY <1>1, ChecksumSafe, PTL

(* The 32-bit accumulator of ones_sum() never overflows, for frames up to   *)
(* the 65535 bytes that checksum() takes.                                   *)
THEOREM AccumulatorHolds == Spec => []SumBounded
<1>1. ChecksumInv => SumBounded
  BY DEF ChecksumInv
<1> QED
  BY <1>1, ChecksumSafe, PTL
-----------------------------------------------------------------------------
(* The checksums are right.  checksum() adds little-endian words and a      *)
(* receiver big-endian ones: 256 times the one is the other, but for a      *)
(* multiple of 2^16 - 1.  That multiple is never more than the receiver's   *)
(* sum, so that both are zero together.                                     *)
Congr(s, net) ==
  s \in Nat /\ net \in Nat /\ \E h \in Nat : h <= net /\ 256 * s = net + 65535 * h

LEMMA CongrZero == Congr(0, 0)
BY SMT DEF Congr

LEMMA CongrAdd ==
  ASSUME NEW s, NEW net, Congr(s, net), NEW t, NEW more, Congr(t, more)
  PROVE  Congr(s + t, net + more)
<1>1. PICK h \in Nat : h <= net /\ 256 * s = net + 65535 * h
  BY DEF Congr
<1>2. PICK g \in Nat : g <= more /\ 256 * t = more + 65535 * g
  BY DEF Congr
<1>3. s \in Nat /\ t \in Nat /\ net \in Nat /\ more \in Nat
  BY DEF Congr
<1>4. h + g \in Nat /\ h + g <= net + more /\ 256 * (s + t) = (net + more) + 65535 * (h + g)
  BY SMT, <1>1, <1>2, <1>3
<1>. QED
  BY SMT, <1>3, <1>4 DEF Congr

\* A word: its bytes change places.
LEMMA CongrWord ==
  ASSUME NEW x \in Nat, NEW y \in Nat
  PROVE  Congr(x + 256 * y, 256 * x + y)
<1>1. y <= 256 * x + y /\ 256 * (x + 256 * y) = (256 * x + y) + 65535 * y
  BY SMT
<1>. QED
  BY SMT, <1>1 DEF Congr

\* The byte left over is the high one of its word.
LEMMA CongrByte ==
  ASSUME NEW x \in Nat
  PROVE  Congr(x, 256 * x)
<1>1. 0 <= 256 * x /\ 256 * x = 256 * x + 65535 * 0
  BY SMT
<1>. QED
  BY SMT, <1>1 DEF Congr

\* The protocol, `protocol << 8'.
LEMMA CongrProtocol ==
  ASSUME NEW x \in Nat
  PROVE  Congr(256 * x, x)
<1>1. x <= x /\ 256 * (256 * x) = x + 65535 * x
  BY SMT
<1>. QED
  BY SMT, <1>1 DEF Congr

\* The length, as htons() has it.
LEMMA CongrSwap ==
  ASSUME NEW w \in Byte16
  PROVE  Congr(Swap(w), w)
<1>1. PICK a \in Nat, b \in Nat : a = w \div 256 /\ b = w % 256 /\ w = 256 * a + b
  BY SMT DEF Byte16
<1>2. Swap(w) = 256 * b + a
  BY <1>1 DEF Swap
<1>3. Congr(a + 256 * b, 256 * a + b)
  BY CongrWord
<1>. QED
  BY SMT, <1>1, <1>2, <1>3

\* Sums that a receiver sees alike have the same checksum.
LEMMA SameFinal ==
  ASSUME NEW s, NEW t, NEW net, Congr(s, net), Congr(t, net), s <= UINT32_MAX, t <= UINT32_MAX
  PROVE  ones_final(s) = ones_final(t)
<1>1. PICK h \in Nat : h <= net /\ 256 * s = net + 65535 * h
  BY DEF Congr
<1>2. PICK g \in Nat : g <= net /\ 256 * t = net + 65535 * g
  BY DEF Congr
<1>3. s \in Nat /\ t \in Nat /\ net \in Nat
  BY DEF Congr
<1>4. s = 0 <=> t = 0
  BY SMT, <1>1, <1>2, <1>3
<1>5. CASE s = 0
  BY <1>4, <1>5
<1>6. CASE s > 0
  <2>1. PICK x \in Nat : x = ones_final(s) /\ x < 65535
    BY SMT, <1>3, <1>6, FinalCompletes
  <2>2. PICK y \in Nat : y = ones_final(t) /\ y < 65535
    BY SMT, <1>3, <1>4, <1>6, FinalCompletes
  <2>3. PICK p \in Nat : s + x = 65535 * p
    BY <1>3, <2>1, FinalCompletes
  <2>4. PICK q \in Nat : t + y = 65535 * q
    BY <1>3, <2>2, FinalCompletes
  <2>5. 256 * (s - t) = 65535 * (h - g)
    BY SMT, <1>1, <1>2, <1>3
  <2>6. s - t = 65535 * (256 * (h - g) - (s - t))
    BY SMT, <1>3, <2>5
  <2>7. x - y = 65535 * (p - q - (256 * (h - g) - (s - t)))
    BY SMT, <1>3, <2>3, <2>4, <2>6
  <2>8. PICK d \in Int : d = p - q - (256 * (h - g) - (s - t))
    BY SMT, <1>3
  <2>9. x - y = 65535 * d
    BY <2>7, <2>8
  <2>10. x = y
    BY SMT, <2>1, <2>2, <2>9
  <2>. QED
    BY <2>1, <2>2, <2>10
<1>. QED
  BY SMT, <1>3, <1>5, <1>6

\* The checksum put into the block: the receiver's sum comes out as all ones.
Completes(s, x, y) ==
  /\ s <= UINT32_MAX
  /\ x + 256 * y = ones_final(s) \/ (x + 256 * y = 65535 /\ ones_final(s) = 0)

LEMMA AcceptedWith ==
  ASSUME NEW s, NEW net, Congr(s, net), NEW x \in Nat, NEW y \in Nat, Completes(s, x, y)
  PROVE  AllOnes(net + (256 * x + y))
<1> USE DEF Completes
<1>1. PICK h \in Nat : h <= net /\ 256 * s = net + 65535 * h
  BY DEF Congr
<1>2. s \in Nat /\ net \in Nat
  BY DEF Congr
<1>3. PICK f \in Nat : f = ones_final(s)
  BY <1>2, FinalCompletes
<1>4. PICK q \in Nat : s + f = 65535 * q /\ q >= 1
  BY <1>2, <1>3, FinalCompletes
<1>5. PICK p \in Nat : s + (x + 256 * y) = 65535 * p /\ p >= 1
  <2>1. CASE x + 256 * y = f
    BY <1>4, <2>1
  <2>2. CASE x + 256 * y = 65535 /\ f = 0
    <3>1. PICK m \in Nat : m = q + 1
      BY SMT
    <3>2. s + (x + 256 * y) = 65535 * m /\ m >= 1
      BY SMT, <1>2, <1>4, <2>2, <3>1
    <3>. QED
      BY <3>2
  <2>. QED
    BY <1>3, <2>1, <2>2
<1>6. net + (256 * x + y) = 65535 * (256 * p - h - y)
  BY SMT, <1>1, <1>2, <1>5
<1>7. net + (256 * x + y) > 0
  <2> SUFFICES ASSUME net + (256 * x + y) <= 0 PROVE FALSE
    BY SMT, <1>2
  <2>1. net = 0 /\ x = 0 /\ y = 0
    BY SMT, <1>2
  <2>2. h = 0 /\ s = 0
    BY SMT, <1>1, <1>2, <2>1
  <2>. QED
    BY SMT, <1>5, <2>1, <2>2
<1> DEFINE d == 256 * p - h - y
<1>8. d \in Int
  BY SMT
<1>9. PICK n \in Nat : n = net + (256 * x + y)
  BY SMT, <1>2
<1>10. n = 65535 * d /\ n > 0
  BY <1>6, <1>7, <1>8, <1>9
<1> HIDE DEF d
<1>11. n % 65535 = 0
  BY SMT, <1>8, <1>10
<1>. QED
  BY <1>9, <1>10, <1>11 DEF AllOnes
-----------------------------------------------------------------------------
(* What a receiver adds up, one byte at a time.                              *)

LEMMA NetByteNat ==
  ASSUME NEW f \in Bytes, NEW from \in Nat, NEW k \in Nat, from + k < Len(f)
  PROVE  NetByte(f, from, k) \in Nat
<1>1. PICK x \in Nat : x = At(f, from + k)
  BY SMT, AByte
<1>. QED
  BY SMT, <1>1 DEF NetByte

\* The local function of NetSum().
Nets(net, f, from) ==
  net = [k \in 0..Len(f) - from |-> IF k = 0 THEN 0 ELSE net[k-1] + NetByte(f, from, k - 1)]

LEMMA NetSumIs ==
  ASSUME NEW f, NEW from, NEW n
  PROVE  NetSum(f, from, n) = (CHOOSE net : Nets(net, f, from))[n]
BY DEF NetSum, Nets

LEMMA NetsExists ==
  ASSUME NEW f \in Bytes, NEW from \in Nat, from <= Len(f)
  PROVE  \E net : Nets(net, f, from)
<1> DEFINE m == Len(f) - from
           step == [k \in 1..m |-> [v \in Nat |-> v + NetByte(f, from, k - 1)]]
<1>1. m \in Nat /\ Len(f) \in Nat /\ 0 \in Nat
  BY SMT, LenProperties DEF Bytes
<1>2. \A k \in 1..m : NetByte(f, from, k - 1) \in Nat
  <2> SUFFICES ASSUME NEW k \in 1..m PROVE NetByte(f, from, k - 1) \in Nat
    OBVIOUS
  <2>1. PICK j \in Nat : j = k - 1 /\ from + j < Len(f)
    BY SMT, <1>1
  <2>. QED
    BY <2>1, NetByteNat
<1>3. step \in [1..m -> [Nat -> Nat]]
  BY <1>2
<1>4. \A k \in 1..m, v \in Nat : step[k][v] = v + NetByte(f, from, k - 1)
  OBVIOUS
<1> HIDE DEF step, m
<1>5. PICK g \in [0..m -> Nat] : Recurs(g, m, 0, step)
  BY <1>1, <1>3, RecursionExists
<1>6. \A k \in 0..m : g[k] = IF k = 0 THEN 0 ELSE g[k-1] + NetByte(f, from, k - 1)
  <2> SUFFICES ASSUME NEW k \in 0..m, k # 0 PROVE g[k] = g[k-1] + NetByte(f, from, k - 1)
    BY <1>5 DEF Recurs
  <2>1. k \in 1..m /\ k - 1 \in 0..m
    BY <1>1
  <2>. QED
    BY <1>4, <1>5, <2>1 DEF Recurs
<1>7. g = [k \in 0..m |-> IF k = 0 THEN 0 ELSE g[k-1] + NetByte(f, from, k - 1)]
  BY <1>6, Zenon
<1>. QED
  BY <1>7 DEF Nets, m

(* NetSum() is zero of nothing and grows by one byte after the other.        *)
LEMMA NetSteps ==
  ASSUME NEW f \in Bytes, NEW from \in Nat, from <= Len(f)
  PROVE  /\ NetSum(f, from, 0) = 0
         /\ \A k \in Nat : from + k < Len(f) =>
              NetSum(f, from, k + 1) = NetSum(f, from, k) + NetByte(f, from, k)
<1>1. PICK net : Nets(net, f, from) /\ net = CHOOSE g : Nets(g, f, from)
  <2>1. Nets(CHOOSE g : Nets(g, f, from), f, from)
    BY NetsExists, Zenon
  <2>. QED
    BY <2>1
<1>2. \A n : NetSum(f, from, n) = net[n]
  BY <1>1, NetSumIs, Zenon
<1> DEFINE m == Len(f) - from
           g == [k \in 0..m |-> IF k = 0 THEN 0 ELSE net[k-1] + NetByte(f, from, k - 1)]
<1>3. net = g
  BY <1>1, Zenon DEF Nets
<1>4. m \in Nat /\ Len(f) \in Nat
  BY SMT, LenProperties DEF Bytes
<1>5. g[0] = 0 /\ \A k \in 1..m : g[k] = net[k-1] + NetByte(f, from, k - 1)
  BY <1>4
<1> HIDE DEF g
<1>6. net[0] = 0 /\ \A k \in 1..m : net[k] = net[k-1] + NetByte(f, from, k - 1)
  BY <1>3, <1>5, Zenon
<1>7. ASSUME NEW k \in Nat, from + k < Len(f)
      PROVE  net[k+1] = net[k] + NetByte(f, from, k)
  <2>1. k + 1 \in 1..m /\ k + 1 - 1 = k
    BY SMT, <1>4, <1>7
  <2>. QED
    BY <1>6, <2>1
<1>. QED
  BY <1>2, <1>6, <1>7, Zenon

LEMMA NetSumNat ==
  ASSUME NEW f \in Bytes, NEW from \in Nat, from <= Len(f)
  PROVE  \A n \in Nat : from + n <= Len(f) => NetSum(f, from, n) \in Nat
<1>0. Len(f) \in Nat
  BY LenProperties DEF Bytes
<1> DEFINE T == {n \in Nat : from + n <= Len(f) => NetSum(f, from, n) \in Nat}
<1>1. 0 \in T
  BY NetSteps
<1>2. ASSUME NEW n \in Nat, n \in T
      PROVE  n + 1 \in T
  <2> SUFFICES ASSUME from + (n + 1) <= Len(f) PROVE NetSum(f, from, n + 1) \in Nat
    OBVIOUS
  <2>1. from + n < Len(f) /\ from + n <= Len(f)
    BY SMT, <1>0
  <2>2. PICK a \in Nat, b \in Nat : a = NetSum(f, from, n) /\ b = NetByte(f, from, n)
    BY <1>2, <2>1, NetByteNat
  <2>3. NetSum(f, from, n + 1) = a + b
    BY <2>1, <2>2, NetSteps
  <2>. QED
    BY SMT, <2>2, <2>3
<1> HIDE DEF T
<1>3. Nat \subseteq T
  BY <1>1, <1>2, NatSetInduction
<1>. QED
  BY <1>3 DEF T

(* Frames that have the same bytes have the same sums.                       *)
SameFrom(f, g, from, m) ==
  /\ Len(g) = Len(f) /\ from + m <= Len(f)
  /\ \A k \in Nat : k < m => At(g, from + k) = At(f, from + k)

LEMMA NetSame ==
  ASSUME NEW f \in Bytes, NEW g \in Bytes, NEW from \in Nat, NEW m \in Nat,
         SameFrom(f, g, from, m)
  PROVE  \A n \in Nat : n <= m => NetSum(g, from, n) = NetSum(f, from, n)
<1> USE DEF SameFrom
<1>0. Len(f) \in Nat /\ from <= Len(f) /\ from <= Len(g)
  BY SMT, LenProperties DEF Bytes
<1> DEFINE T == {n \in Nat : n <= m => NetSum(g, from, n) = NetSum(f, from, n)}
<1>1. 0 \in T
  BY <1>0, NetSteps
<1>2. ASSUME NEW n \in Nat, n \in T
      PROVE  n + 1 \in T
  <2> SUFFICES ASSUME n + 1 <= m PROVE NetSum(g, from, n + 1) = NetSum(f, from, n + 1)
    OBVIOUS
  <2>1. from + n < Len(f) /\ from + n < Len(g) /\ n < m
    BY SMT, <1>0
  <2>2. NetByte(g, from, n) = NetByte(f, from, n)
    BY <2>1 DEF NetByte
  <2>3. NetSum(f, from, n + 1) = NetSum(f, from, n) + NetByte(f, from, n)
    BY <1>0, <2>1, NetSteps
  <2>4. NetSum(g, from, n + 1) = NetSum(g, from, n) + NetByte(g, from, n)
    BY <1>0, <2>1, NetSteps
  <2>5. NetSum(g, from, n) = NetSum(f, from, n)
    BY SMT, <1>2, <2>1
  <2>. QED
    BY <2>2, <2>3, <2>4, <2>5
<1> HIDE DEF T
<1>3. Nat \subseteq T
  BY <1>1, <1>2, NatSetInduction
<1>. QED
  BY <1>3 DEF T

(* A word that one has and the other has not, at an even place, is what     *)
(* their sums differ by.                                                    *)
WordApart(f, g, from, m, c) ==
  /\ Len(g) = Len(f) /\ from + m <= Len(f) /\ c % 2 = 0 /\ c + 2 <= m
  /\ \A k \in Nat : k < m /\ k # c /\ k # c + 1 => At(g, from + k) = At(f, from + k)
  /\ At(g, from + c) = 0 /\ At(g, from + c + 1) = 0

LEMMA NetWord ==
  ASSUME NEW f \in Bytes, NEW g \in Bytes, NEW from \in Nat, NEW m \in Nat, NEW c \in Nat,
         WordApart(f, g, from, m, c)
  PROVE  NetSum(f, from, m) = NetSum(g, from, m) + Be16(f, from + c)
<1> USE DEF WordApart
<1>0. Len(f) \in Nat /\ from <= Len(f) /\ from <= Len(g)
  BY SMT, LenProperties DEF Bytes
<1>1. ASSUME NEW k \in Nat, k < c
      PROVE  At(g, from + k) = At(f, from + k)
  <2>1. k < m /\ k # c /\ k # c + 1
    BY SMT, <1>1
  <2>. QED
    BY <2>1
<1>2. NetSum(g, from, c) = NetSum(f, from, c)
  <2>1. from + c <= Len(f) /\ c <= c
    BY SMT, <1>0
  <2>2. \A n \in Nat : n <= c => NetSum(g, from, n) = NetSum(f, from, n)
    <3>1. SameFrom(f, g, from, c)
      BY <1>1, <2>1 DEF SameFrom
    <3>. QED
      BY <3>1, NetSame
  <2>. QED
    BY <2>1, <2>2
<1>3. PICK x \in Nat, y \in Nat : x = At(f, from + c) /\ y = At(f, from + (c + 1))
  BY SMT, <1>0, AByte
<1>4. Be16(f, from + c) = 256 * x + y /\ from + c + 1 = from + (c + 1)
  BY SMT, <1>3 DEF Be16
<1>5. /\ NetByte(f, from, c) = 256 * x /\ NetByte(g, from, c) = 0
      /\ NetByte(f, from, c + 1) = y /\ NetByte(g, from, c + 1) = 0
  <2>1. (c + 1) % 2 # 0
    BY SMT
  <2>. QED
    BY SMT, <1>3, <1>4, <2>1 DEF NetByte
<1>6. from + c < Len(f) /\ from + (c + 1) < Len(f) /\ c + 1 \in Nat /\ c + 2 \in Nat /\ c + 1 + 1 = c + 2
  BY SMT, <1>0
<1>7. PICK a \in Nat : a = NetSum(g, from, c)
  <2>1. from + c <= Len(g)
    BY SMT, <1>0
  <2>. QED
    BY <1>0, <2>1, NetSumNat
<1>f. \A k \in Nat : from + k < Len(f) =>
        NetSum(f, from, k + 1) = NetSum(f, from, k) + NetByte(f, from, k)
  BY <1>0, NetSteps
<1>g. \A k \in Nat : from + k < Len(f) =>
        NetSum(g, from, k + 1) = NetSum(g, from, k) + NetByte(g, from, k)
  BY <1>0, NetSteps
<1>8. NetSum(f, from, c + 1) = a + 256 * x /\ NetSum(g, from, c + 1) = a + 0
  <2>1. NetSum(f, from, c + 1) = NetSum(f, from, c) + NetByte(f, from, c)
    BY <1>6, <1>f
  <2>2. NetSum(g, from, c + 1) = NetSum(g, from, c) + NetByte(g, from, c)
    BY <1>6, <1>g
  <2>. QED
    BY <1>2, <1>5, <1>7, <2>1, <2>2
<1>9. NetSum(f, from, c + 1 + 1) = a + 256 * x + y /\ NetSum(g, from, c + 1 + 1) = a + 0 + 0
  <2>1. NetSum(f, from, c + 1 + 1) = NetSum(f, from, c + 1) + NetByte(f, from, c + 1)
    BY <1>6, <1>f
  <2>2. NetSum(g, from, c + 1 + 1) = NetSum(g, from, c + 1) + NetByte(g, from, c + 1)
    BY <1>6, <1>g
  <2>. QED
    BY <1>5, <1>8, <2>1, <2>2
<1> DEFINE T == {n \in Nat : c + 2 + n <= m =>
                   NetSum(f, from, c + 2 + n) = NetSum(g, from, c + 2 + n) + (256 * x + y)}
<1>10. 0 \in T
  <2>1. NetSum(f, from, c + 2) = NetSum(g, from, c + 2) + (256 * x + y) /\ c + 2 + 0 = c + 2
    BY SMT, <1>3, <1>6, <1>7, <1>9
  <2>. QED
    BY <2>1
<1>11. ASSUME NEW n \in Nat, n \in T
       PROVE  n + 1 \in T
  <2> SUFFICES ASSUME c + 2 + (n + 1) <= m
               PROVE  NetSum(f, from, c + 2 + (n + 1)) = NetSum(g, from, c + 2 + (n + 1)) + (256 * x + y)
    OBVIOUS
  <2>1. PICK j \in Nat : j = c + 2 + n /\ j + 1 = c + 2 + (n + 1) /\ from + j < Len(f) /\ j < m
                        /\ j # c /\ j # c + 1 /\ from + j <= Len(g) /\ from + j < Len(g)
    BY SMT, <1>0
  <2>2. PICK b \in Nat, z \in Nat : b = NetSum(g, from, j) /\ z = NetByte(g, from, j)
    BY <1>0, <2>1, NetSumNat, NetByteNat
  <2>3. NetByte(f, from, j) = z
    BY <2>1, <2>2 DEF NetByte
  <2>4. NetSum(f, from, j) = b + (256 * x + y)
    BY SMT, <1>11, <2>1, <2>2
  <2>5. NetSum(f, from, j + 1) = b + (256 * x + y) + z
    BY <1>0, <2>1, <2>3, <2>4, NetSteps
  <2>6. NetSum(g, from, j + 1) = b + z
    BY <1>0, <2>1, <2>2, NetSteps
  <2>7. NetSum(f, from, j + 1) = NetSum(g, from, j + 1) + (256 * x + y)
    <3>1. PICK w \in Nat : w = 256 * x + y
      BY SMT, <1>3
    <3>2. b + w + z = b + z + w
      BY SMT
    <3>. QED
      BY <2>5, <2>6, <3>1, <3>2
  <2>. QED
    BY <2>1, <2>7
<1> HIDE DEF T
<1>12. Nat \subseteq T
  BY <1>10, <1>11, NatSetInduction
<1>13. PICK n \in Nat : c + 2 + n = m
  <2>1. m - (c + 2) \in Nat /\ c + 2 + (m - (c + 2)) = m
    BY SMT
  <2>. QED
    BY <2>1
<1>14. NetSum(f, from, c + 2 + n) = NetSum(g, from, c + 2 + n) + (256 * x + y)
  <2>1. c + 2 + n <= m
    BY SMT, <1>13
  <2>2. n \in T
    BY <1>12
  <2>. QED
    BY <2>1, <2>2 DEF T
<1>. QED
  BY <1>4, <1>13, <1>14
-----------------------------------------------------------------------------
(* Frames that differ in their checksums.                                    *)

\* The frame without its checksums: what they are computed from.
Blank(f) == [n \in 1..Len(f) |-> IF n - 1 \in CheckBytes(f) THEN 0 ELSE f[n]]

\* f is g but for the checksums of g.
SameBut(f, g) ==
  /\ Len(f) = Len(g)
  /\ \A j \in Nat : j < Len(g) /\ j \notin CheckBytes(g) => At(f, j) = At(g, j)

\* Where the checksums are: behind what decides the layout, and in the frame.
LEMMA CheckBytesAt ==
  ASSUME NEW f \in Bytes, Sane(f)
  PROVE  /\ \A j \in CheckBytes(f) : j \in Nat /\ j >= 24 /\ j < Len(f)
         /\ Version(f) = 4 => 24 \in CheckBytes(f) /\ 25 \in CheckBytes(f)
         /\ Supported(f) => L4Check(f) \in CheckBytes(f) /\ L4Check(f) + 1 \in CheckBytes(f)
         /\ \A j \in CheckBytes(f) : \/ Version(f) = 4 /\ j \in {24, 25}
                                     \/ Supported(f) /\ j \in {L4Check(f), L4Check(f) + 1}
<1>0. Len(f) \in Nat /\ Len(f) >= 35
  BY SMT, LenProperties DEF Bytes, Sane
<1>1. \A j : j \in CheckBytes(f) <=> \/ Version(f) = 4 /\ j \in {24, 25}
                                     \/ Supported(f) /\ j \in {L4Check(f), L4Check(f) + 1}
  BY SMT DEF CheckBytes, L3Check, L3
<1>2. Supported(f) => L4Check(f) \in Nat /\ L4Check(f) >= 36 /\ L4Check(f) + 2 <= Len(f)
  BY CheckAfterHeader DEF Sane
<1>3. Supported(f) => /\ L4Check(f) \in Nat /\ L4Check(f) + 1 \in Nat
                      /\ L4Check(f) >= 24 /\ L4Check(f) + 1 >= 24
                      /\ L4Check(f) < Len(f) /\ L4Check(f) + 1 < Len(f)
  BY SMT, <1>0, <1>2
<1>4. 24 \in Nat /\ 25 \in Nat /\ 24 >= 24 /\ 25 >= 24 /\ 24 < Len(f) /\ 25 < Len(f)
  BY SMT, <1>0
<1>5. \A j \in CheckBytes(f) : j \in Nat /\ j >= 24 /\ j < Len(f)
  BY <1>1, <1>3, <1>4
<1>. QED
  BY <1>1, <1>5

(* The layout, and everything that is not a checksum, is the same.           *)
LEMMA SameButLayout ==
  ASSUME NEW f \in Bytes, NEW g \in Bytes, Sane(g), SameBut(f, g)
  PROVE  /\ Len(f) = Len(g) /\ Sane(f)
         /\ Version(f) = Version(g) /\ HeadLen(f) = HeadLen(g) /\ L4Len(f) = L4Len(g)
         /\ L4(f) = L4(g) /\ Protocol(f) = Protocol(g) /\ Supported(f) = Supported(g)
         /\ saddr(f) = saddr(g) /\ AddrLen(f) = AddrLen(g) /\ L4Check(f) = L4Check(g)
         /\ CheckBytes(f) = CheckBytes(g)
         /\ Refusal(f) = Refusal(g)
<1>1. Len(f) = Len(g) /\ Len(g) \in Nat /\ Len(g) >= 35
  BY SMT, LenProperties DEF SameBut, Bytes, Sane
<1>2. ASSUME NEW j \in Nat, j < 24
      PROVE  At(f, j) = At(g, j)
  <2>1. j \notin CheckBytes(g)
    BY SMT, <1>2, CheckBytesAt
  <2>2. j < Len(g)
    BY SMT, <1>1, <1>2
  <2>. QED
    BY <2>1, <2>2 DEF SameBut
<1>3. /\ Version(f) = Version(g) /\ HeadLen(f) = HeadLen(g) /\ L4Len(f) = L4Len(g)
      /\ L4(f) = L4(g) /\ Protocol(f) = Protocol(g) /\ Supported(f) = Supported(g)
      /\ saddr(f) = saddr(g) /\ AddrLen(f) = AddrLen(g)
  BY <1>2, SameLayout
<1>4. L4Check(f) = L4Check(g)
  BY <1>3 DEF L4Check
<1>5. Sane(f)
  BY <1>1, <1>3, <1>4 DEF Sane
<1>6. CheckBytes(f) = CheckBytes(g)
  BY <1>3, <1>4 DEF CheckBytes
<1>7. Be16(f, 12) = Be16(g, 12)
  <2>1. At(f, 12) = At(g, 12) /\ At(f, 12 + 1) = At(g, 12 + 1)
    BY SMT, <1>2
  <2>. QED
    BY <2>1 DEF Be16
<1>8. Insane(f) = Insane(g) /\ ExceedsFrame(f) = ExceedsFrame(g)
  BY <1>1, <1>3 DEF Insane, ExceedsFrame
<1>9. Refusal(f) = Refusal(g)
  BY <1>3, <1>7, <1>8, Zenon DEF Refusal
<1>. QED
  BY <1>1, <1>3, <1>4, <1>5, <1>6, <1>9

LEMMA SameButBlank ==
  ASSUME NEW f \in Bytes, NEW g \in Bytes, Sane(g), SameBut(f, g)
  PROVE  Blank(f) = Blank(g)
<1>1. Len(f) = Len(g) /\ CheckBytes(f) = CheckBytes(g) /\ Len(g) \in Nat
  BY SameButLayout, LenProperties DEF Bytes
<1>2. ASSUME NEW n \in 1..Len(g), n - 1 \notin CheckBytes(g)
      PROVE  f[n] = g[n]
  <2>1. PICK j \in Nat : j = n - 1 /\ j < Len(g) /\ j + 1 = n
    BY SMT, <1>1
  <2>2. At(f, j) = At(g, j)
    BY <1>2, <2>1 DEF SameBut
  <2>. QED
    BY <2>1, <2>2 DEF At
<1>. QED
  BY <1>1, <1>2 DEF Blank

(* A checksum is put in: only the checksums differ.                          *)
LEMMA PokeCheck ==
  ASSUME NEW f \in Bytes, NEW g \in Bytes, Sane(g), SameBut(f, g),
         NEW k \in Nat, k \in CheckBytes(g), k + 1 \in CheckBytes(g), NEW w \in Byte16,
         NEW h, h = Poke(f, k, w)
  PROVE  /\ h \in Bytes /\ SameBut(h, g) /\ Word(h, k) = w
         /\ \A j \in Nat : j < Len(f) /\ j # k /\ j # k + 1 => At(h, j) = At(f, j)
<1>0. Len(f) = Len(g) /\ Len(f) \in Nat /\ k + 2 <= Len(f)
  <2>1. Len(f) = Len(g) /\ Len(f) \in Nat /\ k + 1 < Len(g)
    BY CheckBytesAt, LenProperties DEF SameBut, Bytes
  <2>. QED
    BY SMT, <2>1
<1>1. h \in Bytes /\ Len(h) = Len(f)
  BY <1>0, PokeKeeps
<1>2. DOMAIN f = 1..Len(f)
  BY LenProperties DEF Bytes
<1>3. \A n \in 1..Len(f) : h[n] = IF n = k + 2 THEN w \div 256 ELSE IF n = k + 1 THEN w % 256 ELSE f[n]
  BY SMT, <1>0, <1>2 DEF Poke
<1>4. At(h, k) = w % 256 /\ At(h, k + 1) = w \div 256
  BY SMT, <1>0, <1>3 DEF At
<1>5. Word(h, k) = w
  BY SMT, <1>4 DEF Word, Byte16
<1>6. ASSUME NEW j \in Nat, j < Len(f), j # k, j # k + 1
      PROVE  At(h, j) = At(f, j)
  BY SMT, <1>0, <1>3, <1>6 DEF At
<1>7. SameBut(h, g)
  BY <1>0, <1>1, <1>6 DEF SameBut
<1>. QED
  BY <1>1, <1>5, <1>6, <1>7

LEMMA SameButSelf == ASSUME NEW f PROVE SameBut(f, f)
BY DEF SameBut

(* The blank frame is a frame, and where there is no checksum it is f.       *)
LEMMA BlankTyped ==
  ASSUME NEW f \in Bytes, Sane(f)
  PROVE  /\ Blank(f) \in Bytes /\ Len(Blank(f)) = Len(f)
         /\ \A j \in Nat : j < Len(f) =>
              At(Blank(f), j) = IF j \in CheckBytes(f) THEN 0 ELSE At(f, j)
<1>1. Len(f) \in Nat /\ \A n \in 1..Len(f) : f[n] \in Byte
  BY LenProperties, ElementOfSeq DEF Bytes
<1>2. 0 \in Byte
  BY SMT DEF Byte
<1>3. Blank(f) \in [1..Len(f) -> Byte]
  BY <1>1, <1>2 DEF Blank
<1>4. Blank(f) \in Bytes /\ Len(Blank(f)) = Len(f)
  BY <1>1, <1>3, SeqDef, LenProperties DEF Bytes
<1>5. ASSUME NEW j \in Nat, j < Len(f)
      PROVE  At(Blank(f), j) = IF j \in CheckBytes(f) THEN 0 ELSE At(f, j)
  <2>1. PICK n \in 1..Len(f) : n = j + 1 /\ n - 1 = j
    BY SMT, <1>1, <1>5
  <2>2. Blank(f)[n] = IF n - 1 \in CheckBytes(f) THEN 0 ELSE f[n]
    BY DEF Blank
  <2>. QED
    BY <2>1, <2>2 DEF At
<1>. QED
  BY <1>4, <1>5

(* f is its blank frame where its checksums are zero.                        *)
LEMMA ZeroWord ==
  ASSUME NEW f \in Bytes, NEW k \in Nat, k + 1 < Len(f), Word(f, k) = 0
  PROVE  At(f, k) = 0 /\ At(f, k + 1) = 0
<1>1. PICK x \in Nat, y \in Nat : x = At(f, k) /\ y = At(f, k + 1)
  BY SMT, AByte
<1>. QED
  BY SMT, <1>1 DEF Word
-----------------------------------------------------------------------------
(* The invariant: what has been summed is what a receiver would sum of the  *)
(* blank frame, and the checksums that are in place complete such sums.     *)

HeaderNet(f) == NetSum(Blank(f), L3, HeadLen(f))
PseudoNet(f) ==
  IF Protocol(f) = IPPROTO.ICMP THEN 0
  ELSE NetSum(Blank(f), saddr(f), AddrLen(f)) + Protocol(f) + L4Len(f)
SegmentNet(f) == PseudoNet(f) + NetSum(Blank(f), L4(f), L4Len(f))

\* UDP has no checksum of zero.
NotZero(f, check) == IF Protocol(f) = IPPROTO.UDP /\ check = 0 THEN 65535 ELSE check

HeaderRight(f) ==
  \E s \in Nat : /\ s <= UINT32_MAX /\ Congr(s, HeaderNet(f))
                 /\ Word(f, L3Check) = ones_final(s)
SegmentRight(f) ==
  \E s \in Nat : /\ s <= UINT32_MAX /\ Congr(s, SegmentNet(f))
                 /\ Word(f, L4Check(f)) = NotZero(f, ones_final(s))

Finished(f) ==
  /\ Sane(f) /\ Supported(f) /\ Refusal(f) = "CHK_OK"
  /\ Version(f) = 4 => HeaderRight(f)
  /\ SegmentRight(f)

Before == IF phase = "segment" THEN PseudoNet(frame) ELSE 0

UnderWay ==
  Summing =>
    /\ Refusal(frame) = "CHK_OK" /\ Sane(given) /\ SameBut(frame, given)
    /\ Congr(sum, Before + NetSum(Blank(frame), Base, i))
    /\ phase = "header" => Word(frame, L3Check) = 0
    /\ phase = "segment" => Word(frame, L4Check(frame)) = 0
    /\ phase # "header" /\ Version(frame) = 4 => HeaderRight(frame)
    /\ phase = "addresses" /\ Version(frame) # 4 => frame = given

AtEnd ==
  phase = "done" =>
    \/ ret = "CHK_OK" /\ Finished(frame) /\ Sane(given) /\ SameBut(frame, given)
    \/ ret # "CHK_OK" /\ frame = given
    \/ /\ ret = "CHK_UNSUPPORTED" /\ ~ Supported(frame) /\ Version(frame) = 4
       /\ HeaderRight(frame) /\ Sane(given) /\ SameBut(frame, given)

CallInv ==
  /\ ChecksumInv
  /\ phase \in {"idle", "stray"} => frame = given
  /\ UnderWay /\ AtEnd
  /\ calls = 2 => Finished(given)
  /\ Idempotent

(* The checksum of a segment comes after its header, at an even place.       *)
LEMMA CheckInSegment ==
  ASSUME NEW f \in Bytes, Sane(f), Supported(f)
  PROVE  \E c \in Nat : c = CheckAt[Protocol(f)] /\ c % 2 = 0 /\ L4Check(f) = L4(f) + c
<1>1. CheckAt[Protocol(f)] \in {2, 6, 16}
  BY SMT DEF Supported, CheckAt
<1>2. \A c \in {2, 6, 16} : c \in Nat /\ c % 2 = 0
  BY SMT
<1>. QED
  BY <1>1, <1>2 DEF L4Check

(* What is summed has no checksum in it that is not zero.                    *)
LEMMA HeaderIsBlank ==
  ASSUME NEW f \in Bytes, Sane(f), Version(f) = 4, Word(f, L3Check) = 0
  PROVE  \A j \in Nat : j >= L3 /\ j < L3 + HeadLen(f) => At(f, j) = At(Blank(f), j)
<1> SUFFICES ASSUME NEW j \in Nat, j >= L3, j < L3 + HeadLen(f)
             PROVE  At(f, j) = At(Blank(f), j)
  OBVIOUS
<1>1. L4(f) = 14 + HeadLen(f) /\ HeadLen(f) \in Nat /\ 14 + HeadLen(f) <= Len(f) /\ Len(f) \in Nat
  BY Extents, LenProperties DEF L4, L3, Bytes
<1>2. j < Len(f) /\ 24 + 1 < Len(f)
  BY SMT, <1>1 DEF L3, Sane
<1>3. At(Blank(f), j) = IF j \in CheckBytes(f) THEN 0 ELSE At(f, j)
  BY <1>2, BlankTyped
<1>4. ASSUME j \in CheckBytes(f) PROVE At(f, j) = 0
  <2>1. Word(f, 24) = 0 /\ 24 \in Nat
    BY SMT DEF L3Check, L3
  <2>2. At(f, 24) = 0 /\ At(f, 24 + 1) = 0
    BY <1>2, <2>1, ZeroWord
  <2>3. Supported(f) => j # L4Check(f) /\ j # L4Check(f) + 1
    <3> SUFFICES ASSUME Supported(f) PROVE j # L4Check(f) /\ j # L4Check(f) + 1
      OBVIOUS
    <3>1. PICK c \in Nat : L4Check(f) = L4(f) + c
      BY CheckInSegment
    <3>. QED
      BY SMT, <1>1, <3>1 DEF L3
  <2>4. j \in {24, 25}
    BY <1>4, <2>3, CheckBytesAt
  <2>. QED
    BY SMT, <2>2, <2>4
<1>. QED
  BY <1>3, <1>4

LEMMA AddressesAreBlank ==
  ASSUME NEW f \in Bytes, Sane(f)
  PROVE  \A j \in Nat : j >= saddr(f) /\ j < saddr(f) + AddrLen(f) => At(f, j) = At(Blank(f), j)
<1> SUFFICES ASSUME NEW j \in Nat, j >= saddr(f), j < saddr(f) + AddrLen(f)
             PROVE  At(f, j) = At(Blank(f), j)
  OBVIOUS
<1>1. /\ Version(f) \in {4, 6}
      /\ Version(f) = 4 => saddr(f) = 26 /\ AddrLen(f) = 8
      /\ Version(f) = 6 => saddr(f) = 22 /\ AddrLen(f) = 32 /\ L4(f) = 54
  BY SMT, Extents DEF saddr, AddrLen, L3
<1>2. j < Len(f)
  BY SMT, Extents, LenProperties DEF Bytes
<1>3. At(Blank(f), j) = IF j \in CheckBytes(f) THEN 0 ELSE At(f, j)
  BY <1>2, BlankTyped
<1>4. Supported(f) => j # L4Check(f) /\ j # L4Check(f) + 1
  <2> SUFFICES ASSUME Supported(f) PROVE j # L4Check(f) /\ j # L4Check(f) + 1
    OBVIOUS
  <2>1. PICK c \in Nat : L4Check(f) = L4(f) + c
    BY CheckInSegment
  <2>2. L4Check(f) \in Nat /\ L4Check(f) >= 36
    BY CheckAfterHeader
  <2>. QED
    BY SMT, <1>1, <2>1, <2>2
<1>5. Version(f) = 4 => j \notin {24, 25}
  BY SMT, <1>1
<1>6. j \notin CheckBytes(f)
  BY <1>4, <1>5, CheckBytesAt
<1>. QED
  BY <1>3, <1>6

LEMMA SegmentIsBlank ==
  ASSUME NEW f \in Bytes, Sane(f), Supported(f), Word(f, L4Check(f)) = 0
  PROVE  \A j \in Nat : j >= L4(f) /\ j < Len(f) => At(f, j) = At(Blank(f), j)
<1> SUFFICES ASSUME NEW j \in Nat, j >= L4(f), j < Len(f)
             PROVE  At(f, j) = At(Blank(f), j)
  OBVIOUS
<1>1. At(Blank(f), j) = IF j \in CheckBytes(f) THEN 0 ELSE At(f, j)
  BY BlankTyped
<1>2. ASSUME j \in CheckBytes(f) PROVE At(f, j) = 0
  <2>1. L4Check(f) \in Nat /\ L4Check(f) + 2 <= Len(f) /\ L4(f) >= 34 /\ L4(f) \in Nat /\ Len(f) \in Nat
    BY CheckAfterHeader, Extents, LenProperties DEF Sane, Bytes
  <2>2. At(f, L4Check(f)) = 0 /\ At(f, L4Check(f) + 1) = 0
    BY SMT, <2>1, ZeroWord
  <2>3. j \notin {24, 25}
    BY SMT, <2>1
  <2>4. j \in {L4Check(f), L4Check(f) + 1}
    BY <1>2, <2>3, CheckBytesAt
  <2>. QED
    BY <2>2, <2>4
<1>. QED
  BY <1>1, <1>2

(* ones_sum(): one word, or the last byte, more on both sides.               *)
LEMMA SumStep ==
  ASSUME NEW f \in Bytes, NEW b \in Bytes, Len(b) = Len(f), NEW from \in Nat, NEW n \in Nat,
         n % 2 = 0, NEW net \in Nat, NEW s, Congr(s, net + NetSum(b, from, n)),
         from + n < Len(f), At(f, from + n) = At(b, from + n)
  PROVE  /\ Congr(s + At(f, from + n), net + NetSum(b, from, n + 1))
         /\ from + n + 1 < Len(f) /\ At(f, from + n + 1) = At(b, from + n + 1) =>
              Congr(s + Word(f, from + n), net + NetSum(b, from, n + 2))
<1>0. Len(f) \in Nat /\ from <= Len(b) /\ from + n < Len(b) /\ from + n <= Len(b)
  BY SMT, LenProperties DEF Bytes
<1>1. PICK a \in Nat : a = NetSum(b, from, n)
  BY <1>0, NetSumNat
<1>2. PICK x \in Nat : x = At(f, from + n)
  BY SMT, <1>0, AByte
<1>3. NetByte(b, from, n) = 256 * x
  BY <1>2 DEF NetByte
<1>4. \A k \in Nat : from + k < Len(b) =>
        NetSum(b, from, k + 1) = NetSum(b, from, k) + NetByte(b, from, k)
  BY <1>0, NetSteps
<1>5. NetSum(b, from, n + 1) = a + 256 * x
  BY <1>0, <1>1, <1>3, <1>4
<1>6. Congr(s + x, (net + a) + 256 * x)
  BY <1>1, CongrByte, CongrAdd
<1>7. Congr(s + At(f, from + n), net + NetSum(b, from, n + 1))
  <2>1. (net + a) + 256 * x = net + (a + 256 * x)
    BY SMT
  <2>. QED
    BY <1>2, <1>5, <1>6, <2>1
<1>8. ASSUME from + n + 1 < Len(f), At(f, from + n + 1) = At(b, from + n + 1)
      PROVE  Congr(s + Word(f, from + n), net + NetSum(b, from, n + 2))
  <2>1. from + n + 1 = from + (n + 1) /\ from + (n + 1) < Len(b) /\ n + 1 \in Nat
        /\ (n + 1) % 2 # 0 /\ n + 1 + 1 = n + 2 /\ from + n + 1 \in Nat
    BY SMT, <1>0, <1>8
  <2>2. PICK y \in Nat : y = At(f, from + n + 1)
    BY <1>8, <2>1, AByte
  <2>3. NetByte(b, from, n + 1) = y
    BY <1>8, <2>1, <2>2 DEF NetByte
  <2>4. NetSum(b, from, n + 2) = a + 256 * x + y
    BY <1>4, <1>5, <2>1, <2>3
  <2>5. Word(f, from + n) = x + 256 * y
    BY <1>2, <2>2 DEF Word
  <2>6. Congr(s + (x + 256 * y), (net + a) + (256 * x + y))
    <3>1. Congr(x + 256 * y, 256 * x + y)
      BY CongrWord
    <3>2. Congr(s, net + a)
      BY <1>1
    <3>. QED
      BY <3>1, <3>2, CongrAdd
  <2>7. (net + a) + (256 * x + y) = net + (a + 256 * x + y)
    BY SMT
  <2>. QED
    BY <2>4, <2>5, <2>6, <2>7
<1>. QED
  BY <1>7, <1>8
(* The sums of a blank frame are numbers.                                    *)
LEMMA NetsTyped ==
  ASSUME NEW f \in Bytes, Sane(f)
  PROVE  /\ HeaderNet(f) \in Nat /\ PseudoNet(f) \in Nat
         /\ NetSum(Blank(f), saddr(f), AddrLen(f)) \in Nat
         /\ NetSum(Blank(f), L4(f), L4Len(f)) \in Nat
<1>1. Blank(f) \in Bytes /\ Len(Blank(f)) = Len(f) /\ Len(f) \in Nat
  BY BlankTyped, LenProperties DEF Bytes
<1>2. /\ 14 + HeadLen(f) <= Len(f) /\ HeadLen(f) \in Nat
      /\ saddr(f) \in Nat /\ AddrLen(f) \in Nat /\ saddr(f) + AddrLen(f) <= Len(f)
      /\ L4(f) \in Nat /\ L4Len(f) \in Nat /\ L4(f) + L4Len(f) <= Len(f)
  BY SMT, Extents
<1>3. ASSUME NEW from \in Nat, NEW n \in Nat, from + n <= Len(f)
      PROVE  NetSum(Blank(f), from, n) \in Nat
  <2>1. from <= Len(Blank(f)) /\ from + n <= Len(Blank(f))
    BY SMT, <1>1, <1>3
  <2>. QED
    BY <1>1, <2>1, NetSumNat
<1>4. HeaderNet(f) \in Nat
  <2>1. 14 \in Nat
    BY SMT
  <2>2. NetSum(Blank(f), 14, HeadLen(f)) \in Nat
    BY <1>2, <1>3, <2>1
  <2>. QED
    BY <2>2 DEF HeaderNet, L3
<1>5. NetSum(Blank(f), saddr(f), AddrLen(f)) \in Nat /\ NetSum(Blank(f), L4(f), L4Len(f)) \in Nat
  BY <1>2, <1>3
<1>6. Protocol(f) \in Nat
  BY LayoutTyped DEF Sane
<1>7. PseudoNet(f) \in Nat
  BY SMT, <1>2, <1>5, <1>6 DEF PseudoNet
<1>. QED
  BY <1>4, <1>5, <1>7

(* A header that is right is accepted.                                       *)
LEMMA RightHeaderVerifies ==
  ASSUME NEW f \in Bytes, Sane(f), Version(f) = 4, HeaderRight(f)
  PROVE  HeaderVerifies(f)
<1>1. PICK s \in Nat : s <= UINT32_MAX /\ Congr(s, HeaderNet(f)) /\ Word(f, 24) = ones_final(s)
  BY DEF HeaderRight, L3Check, L3
<1>2. Blank(f) \in Bytes /\ Len(Blank(f)) = Len(f) /\ Len(f) \in Nat
  BY BlankTyped, LenProperties DEF Bytes
<1>3. PICK m \in Nat : m = HeadLen(f) /\ 14 + m <= Len(f) /\ m >= 20 /\ L4(f) = 14 + m
  BY Extents DEF L4, L3
<1>4. ASSUME NEW k \in Nat, k < m, k # 10, k # 10 + 1
      PROVE  At(Blank(f), 14 + k) = At(f, 14 + k)
  <2>1. PICK j \in Nat : j = 14 + k /\ j < Len(f) /\ j \notin {24, 25} /\ j < L4(f)
    BY SMT, <1>2, <1>3, <1>4
  <2>2. Supported(f) => j # L4Check(f) /\ j # L4Check(f) + 1
    <3> SUFFICES ASSUME Supported(f) PROVE j # L4Check(f) /\ j # L4Check(f) + 1
      OBVIOUS
    <3>1. PICK c \in Nat : L4Check(f) = L4(f) + c
      BY CheckInSegment
    <3>. QED
      BY SMT, <1>3, <2>1, <3>1
  <2>3. j \notin CheckBytes(f)
    BY <2>1, <2>2, CheckBytesAt
  <2>. QED
    BY <2>1, <2>3, BlankTyped
<1>5. At(Blank(f), 14 + 10) = 0 /\ At(Blank(f), 14 + 10 + 1) = 0
  <2>1. 24 \in CheckBytes(f) /\ 25 \in CheckBytes(f)
    BY CheckBytesAt
  <2>2. 24 \in Nat /\ 25 \in Nat /\ 24 < Len(f) /\ 25 < Len(f) /\ 14 + 10 = 24 /\ 14 + 10 + 1 = 25
    BY SMT, <1>2, <1>3
  <2>. QED
    BY <2>1, <2>2, BlankTyped
<1>6. 14 \in Nat /\ 10 \in Nat /\ 10 % 2 = 0 /\ 10 + 2 <= m
  BY SMT, <1>3
<1>7. NetSum(f, 14, m) = NetSum(Blank(f), 14, m) + Be16(f, 14 + 10)
  <2>1. PICK b \in Bytes, from \in Nat, c \in Nat : b = Blank(f) /\ from = 14 /\ c = 10
    BY <1>2, <1>6
  <2>2. /\ Len(b) = Len(f) /\ from + m <= Len(f) /\ c % 2 = 0 /\ c + 2 <= m
        /\ At(b, from + c) = 0 /\ At(b, from + c + 1) = 0
    BY <1>2, <1>3, <1>5, <1>6, <2>1
  <2>3. \A k \in Nat : k < m /\ k # c /\ k # c + 1 => At(b, from + k) = At(f, from + k)
    BY <1>4, <2>1
  <2>4. NetSum(f, from, m) = NetSum(b, from, m) + Be16(f, from + c)
    <3>1. WordApart(f, b, from, m, c)
      BY <2>2, <2>3 DEF WordApart
    <3>. QED
      BY <3>1, NetWord
  <2>. QED
    BY <2>1, <2>4
<1>8. PICK x \in Nat, y \in Nat : x = At(f, 24) /\ y = At(f, 24 + 1)
  <2>1. 24 \in Nat /\ 24 + 1 \in Nat /\ 24 < Len(f) /\ 24 + 1 < Len(f)
    BY SMT, <1>2, <1>3
  <2>. QED
    BY <2>1, AByte
<1>9. Word(f, 24) = x + 256 * y /\ Be16(f, 14 + 10) = 256 * x + y
  BY SMT, <1>8 DEF Word, Be16
<1>10. AllOnes(HeaderNet(f) + (256 * x + y))
  <2>1. PICK net : net = HeaderNet(f) /\ Congr(s, net)
    BY <1>1
  <2>2. Completes(s, x, y)
    BY <1>1, <1>9 DEF Completes
  <2>3. AllOnes(net + (256 * x + y))
    BY <2>1, <2>2, AcceptedWith
  <2>. QED
    BY <2>1, <2>3
<1>. QED
  BY <1>3, <1>7, <1>9, <1>10 DEF HeaderVerifies, HeaderNet, L3

(* So is a segment that has room for its checksum.                           *)
LEMMA RightSegmentVerifies ==
  ASSUME NEW f \in Bytes, Sane(f), Supported(f), SegmentRight(f),
         L4Check(f) + 2 <= L4(f) + L4Len(f)
  PROVE  SegmentVerifies(f)
<1>1. PICK s \in Nat : s <= UINT32_MAX /\ Congr(s, SegmentNet(f))
                       /\ Word(f, L4Check(f)) = NotZero(f, ones_final(s))
  BY DEF SegmentRight
<1>2. Blank(f) \in Bytes /\ Len(Blank(f)) = Len(f) /\ Len(f) \in Nat
  BY BlankTyped, LenProperties DEF Bytes
<1>3. PICK l4 \in Nat, m \in Nat : l4 = L4(f) /\ m = L4Len(f) /\ l4 + m <= Len(f) /\ l4 >= 34
  BY Extents
<1>4. PICK c \in Nat : c % 2 = 0 /\ L4Check(f) = l4 + c
  BY <1>3, CheckInSegment
<1>5. c + 2 <= m /\ l4 + c \in Nat /\ l4 + c + 1 \in Nat /\ l4 + c < Len(f) /\ l4 + c + 1 < Len(f)
  BY SMT, <1>2, <1>3, <1>4
<1>6. ASSUME NEW k \in Nat, k < m, k # c, k # c + 1
      PROVE  At(Blank(f), l4 + k) = At(f, l4 + k)
  <2>1. PICK j \in Nat : j = l4 + k /\ j < Len(f) /\ j \notin {24, 25}
                         /\ j # l4 + c /\ j # l4 + c + 1
    BY SMT, <1>2, <1>3, <1>6
  <2>2. j \notin CheckBytes(f)
    BY <1>4, <2>1, CheckBytesAt
  <2>. QED
    BY <2>1, <2>2, BlankTyped
<1>7. At(Blank(f), l4 + c) = 0 /\ At(Blank(f), l4 + c + 1) = 0
  <2>1. l4 + c \in CheckBytes(f) /\ l4 + c + 1 \in CheckBytes(f)
    BY <1>4, CheckBytesAt
  <2>. QED
    BY <1>5, <2>1, BlankTyped
<1>8. NetSum(f, l4, m) = NetSum(Blank(f), l4, m) + Be16(f, l4 + c)
  <2>1. PICK b \in Bytes : b = Blank(f)
    BY <1>2
  <2>2. /\ Len(b) = Len(f) /\ l4 + m <= Len(f) /\ c % 2 = 0 /\ c + 2 <= m
        /\ At(b, l4 + c) = 0 /\ At(b, l4 + c + 1) = 0
    BY <1>2, <1>3, <1>4, <1>5, <1>7, <2>1
  <2>3. \A k \in Nat : k < m /\ k # c /\ k # c + 1 => At(b, l4 + k) = At(f, l4 + k)
    BY <1>6, <2>1
  <2>4. NetSum(f, l4, m) = NetSum(b, l4, m) + Be16(f, l4 + c)
    <3>1. WordApart(f, b, l4, m, c)
      BY <2>2, <2>3 DEF WordApart
    <3>. QED
      BY <3>1, NetWord
  <2>. QED
    BY <2>1, <2>4
<1>9. PICK x \in Nat, y \in Nat : x = At(f, l4 + c) /\ y = At(f, l4 + c + 1)
  BY <1>5, AByte
<1>10. Word(f, L4Check(f)) = x + 256 * y /\ Be16(f, L4Check(f)) = 256 * x + y
  BY <1>4, <1>9 DEF Word, Be16
<1>11. AllOnes(SegmentNet(f) + (256 * x + y))
  <2>1. x + 256 * y = ones_final(s) \/ (x + 256 * y = 65535 /\ ones_final(s) = 0)
    BY <1>1, <1>10 DEF NotZero
  <2>2. PICK net : net = SegmentNet(f) /\ Congr(s, net)
    BY <1>1
  <2>3. Completes(s, x, y)
    BY <1>1, <2>1 DEF Completes
  <2>4. AllOnes(net + (256 * x + y))
    BY <2>2, <2>3, AcceptedWith
  <2>. QED
    BY <2>2, <2>4
<1>12. PseudoNet(f) = IF Protocol(f) = IPPROTO.ICMP THEN 0 ELSE PseudoNetSum(f)
  <2>1. PICK a \in Nat, n \in Nat : a = saddr(f) /\ n = AddrLen(f) /\ a + n <= Len(f) /\ n <= n
    BY SMT, Extents
  <2>2. ASSUME NEW k \in Nat, k < n
        PROVE  At(Blank(f), a + k) = At(f, a + k)
    <3>1. a + k \in Nat /\ a + k >= a /\ a + k < a + n
      BY SMT, <2>2
    <3>. QED
      BY <2>1, <3>1, AddressesAreBlank
  <2>3. \A k \in Nat : k <= n => NetSum(Blank(f), a, k) = NetSum(f, a, k)
    <3>1. PICK b \in Bytes : b = Blank(f) /\ Len(b) = Len(f)
      BY <1>2
    <3>2. \A k \in Nat : k < n => At(b, a + k) = At(f, a + k)
      BY <2>2, <3>1
    <3>3. SameFrom(f, b, a, n)
      BY <2>1, <3>1, <3>2 DEF SameFrom
    <3>4. \A k \in Nat : k <= n => NetSum(b, a, k) = NetSum(f, a, k)
      BY <3>3, NetSame
    <3>. QED
      BY <3>1, <3>4
  <2>4. NetSum(Blank(f), a, n) = NetSum(f, a, n)
    BY <2>1, <2>3
  <2>. QED
    BY <2>1, <2>4 DEF PseudoNet, PseudoNetSum
<1>13. PICK p \in Nat, b \in Nat : p = PseudoNet(f) /\ b = NetSum(Blank(f), l4, m)
  BY <1>3, NetsTyped
<1>14. (b + (256 * x + y)) + p = (p + b) + (256 * x + y)
  BY SMT
<1>15. AllOnes(NetSum(f, l4, m) + p)
  BY <1>3, <1>4, <1>8, <1>10, <1>11, <1>13, <1>14 DEF SegmentNet
<1>16. Protocol(f) = IPPROTO.UDP => Be16(f, L4Check(f)) # 0
  <2> SUFFICES ASSUME Protocol(f) = IPPROTO.UDP PROVE 256 * x + y # 0
    BY <1>10
  <2>1. x + 256 * y # 0
    BY SMT, <1>1, <1>10 DEF NotZero
  <2>. QED
    BY SMT, <2>1
<1>. QED
  BY <1>3, <1>12, <1>13, <1>15, <1>16 DEF SegmentVerifies
-----------------------------------------------------------------------------
(* One lemma per action, again.                                              *)

(* What the types say of the frames.                                         *)
LEMMA Frames ==
  ASSUME ChecksumInv
  PROVE  frame \in Bytes /\ given \in Bytes /\ Len(frame) \in Nat /\ i \in Nat /\ sum \in Nat
BY LenProperties DEF ChecksumInv, ChecksumTypeOK, Bytes

(* Frames that differ in their checksums have the same sums.                 *)
LEMMA SameNets ==
  ASSUME NEW f \in Bytes, NEW g \in Bytes, Sane(g), SameBut(f, g)
  PROVE  /\ HeaderNet(f) = HeaderNet(g) /\ PseudoNet(f) = PseudoNet(g)
         /\ SegmentNet(f) = SegmentNet(g)
BY SameButLayout, SameButBlank DEF HeaderNet, PseudoNet, SegmentNet

(* The header stays right as long as its checksum stays.                     *)
LEMMA HeaderRightKept ==
  ASSUME NEW f \in Bytes, NEW h \in Bytes, NEW g \in Bytes, Sane(g), SameBut(f, g), SameBut(h, g),
         Word(h, L3Check) = Word(f, L3Check), HeaderRight(f)
  PROVE  HeaderRight(h)
<1>1. HeaderNet(h) = HeaderNet(f)
  BY SameNets
<1>. QED
  BY <1>1 DEF HeaderRight

(* A frame without a sum yet: nothing on either side.                        *)
LEMMA NothingSummed ==
  ASSUME NEW f \in Bytes, Sane(f)
  PROVE  /\ NetSum(Blank(f), L3, 0) = 0
         /\ NetSum(Blank(f), saddr(f), 0) = 0
         /\ NetSum(Blank(f), L4(f), 0) = 0
<1>1. Blank(f) \in Bytes /\ Len(Blank(f)) = Len(f) /\ Len(f) \in Nat
  BY BlankTyped, LenProperties DEF Bytes
<1>2. /\ L3 \in Nat /\ L3 <= Len(f) /\ saddr(f) \in Nat /\ saddr(f) <= Len(f)
      /\ L4(f) \in Nat /\ L4(f) <= Len(f)
  BY SMT, <1>1, Extents DEF L3
<1>. QED
  BY <1>1, <1>2, NetSteps

(* The block under way is as it is in the blank frame.                       *)
LEMMA BlockIsBlank ==
  ASSUME ChecksumInv, UnderWay, Summing
  PROVE  \A j \in Nat : j >= Base /\ j < Base + Count => At(frame, j) = At(Blank(frame), j)
<1>1. frame \in Bytes /\ Sane(frame) /\ Progress /\ Len(frame) \in Nat
  BY Frames DEF ChecksumInv, Progress
<1>2. CASE phase = "header"
  <2>1. Version(frame) = 4 /\ Word(frame, L3Check) = 0
    BY <1>1, <1>2 DEF Progress, UnderWay
  <2>. QED
    BY <1>1, <1>2, <2>1, HeaderIsBlank DEF Base, Count
<1>3. CASE phase = "addresses"
  BY <1>1, <1>3, AddressesAreBlank DEF Base, Count
<1>4. CASE phase = "segment"
  <2>1. Supported(frame) /\ Word(frame, L4Check(frame)) = 0
    BY <1>1, <1>4 DEF Progress, UnderWay
  <2>2. Base = L4(frame) /\ Count = L4Len(frame)
    BY <1>4 DEF Base, Count
  <2>3. ASSUME NEW j \in Nat, j < Base + Count PROVE j < Len(frame)
    <3>1. L4(frame) \in Nat /\ L4Len(frame) \in Nat /\ L4(frame) + L4Len(frame) <= Len(frame)
      BY <1>1, Extents
    <3>. QED
      BY SMT, <1>1, <2>2, <2>3, <3>1
  <2>. QED
    BY <1>1, <2>1, <2>2, <2>3, SegmentIsBlank
<1>. QED
  BY <1>2, <1>3, <1>4 DEF Summing, Block

(* ones_sum(), one addition.                                                 *)
LEMMA AddInCall ==
  ASSUME CallInv, AddWord \/ AddTrailing
  PROVE  UnderWay' /\ AtEnd' /\ Idempotent'
<1>1. ChecksumInv /\ Summing /\ UnderWay /\ Progress /\ ChecksumTypeOK
  BY DEF CallInv, AddWord, AddTrailing, ChecksumInv
<1>2. UNCHANGED <<frame, phase, ret, given, calls>>
  BY DEF AddWord, AddTrailing
<1>3. frame \in Bytes /\ Sane(frame) /\ Len(frame) \in Nat /\ i \in Nat /\ sum \in Nat
  BY <1>1, Frames DEF Progress
<1>4. Base \in Nat /\ Count \in Nat /\ Base + Count <= Len(frame)
  BY <1>1, BlocksFit
<1>5. Base' = Base /\ Before' = Before /\ Summing'
  BY <1>1, <1>2 DEF Base, Before, Summing
<1>6. PICK b \in Bytes : b = Blank(frame) /\ Len(b) = Len(frame)
  BY <1>3, BlankTyped
<1>7. PICK net \in Nat : net = Before
  <2>1. 0 \in Nat /\ PseudoNet(frame) \in Nat
    BY <1>3, NetsTyped
  <2>. QED
    BY <2>1 DEF Before
<1>8. Congr(sum, net + NetSum(b, Base, i))
  BY <1>1, <1>6, <1>7 DEF UnderWay
<1>9. i % 2 = 0 /\ i < Count
  <2>1. i % 2 = 0 \/ i = Count
    BY <1>1 DEF Progress
  <2>2. i + 1 <= Count
    BY SMT, <1>3, <1>4 DEF AddWord, AddTrailing
  <2>. QED
    BY SMT, <1>3, <1>4, <2>1, <2>2
<1>10. PICK from \in Nat : from = Base
  BY <1>4
<1>11. \A j \in Nat : j >= from /\ j < from + Count => At(frame, j) = At(b, j)
  BY <1>1, <1>6, <1>10, BlockIsBlank
<1>12. from + i < Len(frame) /\ At(frame, from + i) = At(b, from + i)
  <2>1. from + i \in Nat /\ from + i >= from /\ from + i < from + Count /\ from + i < Len(frame)
    BY SMT, <1>3, <1>4, <1>9, <1>10
  <2>. QED
    BY <1>11, <2>1
<1>13. /\ Congr(sum + At(frame, from + i), net + NetSum(b, from, i + 1))
       /\ from + i + 1 < Len(frame) /\ At(frame, from + i + 1) = At(b, from + i + 1) =>
            Congr(sum + Word(frame, from + i), net + NetSum(b, from, i + 2))
  BY <1>3, <1>6, <1>8, <1>9, <1>10, <1>12, SumStep
<1>14. Congr(sum', net + NetSum(b, from, i'))
  <2>1. CASE AddWord
    <3>1. i + 1 < Count /\ i' = i + 2 /\ sum' = sum + Word(frame, Base + i)
      BY <2>1 DEF AddWord
    <3>2. from + i + 1 \in Nat /\ from + i + 1 >= from /\ from + i + 1 < from + Count
          /\ from + i + 1 < Len(frame)
      BY SMT, <1>3, <1>4, <1>10, <3>1
    <3>3. At(frame, from + i + 1) = At(b, from + i + 1)
      BY <1>11, <3>2
    <3>. QED
      BY <1>10, <1>13, <3>1, <3>2, <3>3
  <2>2. CASE AddTrailing
    <3>1. i' = i + 1 /\ sum' = sum + At(frame, Base + i)
      BY <2>2 DEF AddTrailing
    <3>. QED
      BY <1>10, <1>13, <3>1
  <2>. QED
    BY <2>1, <2>2
<1>15. Congr(sum', Before' + NetSum(Blank(frame)', Base', i'))
  BY <1>2, <1>5, <1>6, <1>7, <1>10, <1>14
<1>16. UnderWay'
  BY <1>1, <1>2, <1>15 DEF UnderWay, HeaderRight
<1>17. phase' # "done"
  BY <1>1, <1>2 DEF Summing, Block
<1>. QED
  BY <1>16, <1>17 DEF AtEnd, Idempotent
(* A block begins: what an action has to show for it.                        *)
LEMMA BlockBeginsRight ==
  ASSUME frame' \in Bytes, given' \in Bytes, Sane(given'), SameBut(frame', given'),
         Refusal(given') = "CHK_OK", phase' \in Block, i' = 0,
         phase' # "segment" => sum' = 0,
         phase' = "segment" => Congr(sum', PseudoNet(frame')),
         phase' = "header" => Word(frame', L3Check) = 0,
         phase' = "segment" => Word(frame', L4Check(frame')) = 0,
         phase' # "header" /\ Version(frame') = 4 => HeaderRight(frame'),
         phase' = "addresses" /\ Version(frame') # 4 => frame' = given'
  PROVE  UnderWay' /\ AtEnd' /\ Idempotent'
<1>1. Sane(frame') /\ Refusal(frame') = "CHK_OK"
  BY SameButLayout
<1>2. PICK f \in Bytes : f = frame' /\ Sane(f)
  BY <1>1
<1>3. /\ NetSum(Blank(f), L3, 0) = 0 /\ NetSum(Blank(f), saddr(f), 0) = 0
      /\ NetSum(Blank(f), L4(f), 0) = 0
  BY <1>2, NothingSummed
<1>4. NetSum(Blank(f), Base', i') = 0
  BY <1>2, <1>3 DEF Base, Block
<1>5. PICK net \in Nat : net = PseudoNet(f)
  BY <1>2, NetsTyped
<1>6. Congr(sum', Before' + 0)
  <2>1. CASE phase' = "segment"
    <3>1. Before' = net /\ net + 0 = net
      BY <1>2, <1>5, <2>1 DEF Before
    <3>. QED
      BY <1>2, <1>5, <2>1, <3>1
  <2>2. CASE phase' # "segment"
    <3>1. Before' = 0 /\ 0 + 0 = 0
      BY <2>2 DEF Before
    <3>. QED
      BY <2>2, <3>1, CongrZero
  <2>. QED
    BY <2>1, <2>2
<1>7. Congr(sum', Before' + NetSum(Blank(frame'), Base', i'))
  BY <1>2, <1>4, <1>6
<1>8. UnderWay'
  BY <1>1, <1>7 DEF UnderWay, HeaderRight
<1>9. phase' # "done"
  BY DEF Block
<1>. QED
  BY <1>8, <1>9 DEF AtEnd, Idempotent

\* The call begins with the frame as it was given.
LEMMA AcceptedFrame ==
  ASSUME CallInv, Accepted
  PROVE  /\ frame = given /\ frame \in Bytes /\ Sane(frame) /\ SameBut(frame, given)
         /\ Refusal(frame) = "CHK_OK"
BY Frames, AcceptedIsSane, SameButSelf DEF CallInv, Accepted

LEMMA HeaderInCall ==
  ASSUME CallInv, Header
  PROVE  UnderWay' /\ AtEnd' /\ Idempotent'
<1>1. /\ frame = given /\ frame \in Bytes /\ Sane(frame) /\ SameBut(frame, given)
      /\ Refusal(frame) = "CHK_OK" /\ Version(frame) = 4
  BY AcceptedFrame DEF Header
<1>2. /\ phase' = "header" /\ i' = 0 /\ sum' = 0 /\ given' = given
      /\ frame' = Poke(frame, 24, 0)
  BY DEF Header, L3Check, L3
<1>3. 24 \in Nat /\ 0 \in Byte16 /\ 24 + 1 = 25
  BY SMT DEF Byte16
<1>4. 24 \in CheckBytes(given) /\ 24 + 1 \in CheckBytes(given)
  BY <1>1, <1>3, CheckBytesAt
<1>5. PICK h : h = Poke(frame, 24, 0)
  OBVIOUS
<1>6. h \in Bytes /\ SameBut(h, given) /\ Word(h, 24) = 0
  BY <1>1, <1>3, <1>4, <1>5, PokeCheck
<1>7. L3Check = 24
  BY SMT DEF L3Check, L3
<1>. QED
  BY <1>1, <1>2, <1>5, <1>6, <1>7, BlockBeginsRight DEF Block

LEMMA NoHeaderInCall ==
  ASSUME CallInv, NoHeader
  PROVE  UnderWay' /\ AtEnd' /\ Idempotent'
<1>1. /\ frame = given /\ frame \in Bytes /\ Sane(frame) /\ SameBut(frame, given)
      /\ Refusal(frame) = "CHK_OK" /\ Version(frame) = 6
  BY AcceptedFrame DEF NoHeader
<1>2. /\ phase' = "addresses" /\ i' = 0 /\ sum' = 0 /\ given' = given /\ frame' = frame
  BY DEF NoHeader
<1>. QED
  BY <1>1, <1>2, BlockBeginsRight DEF Block

\* What the actions at the end of a block know.
LEMMA BlockDone ==
  ASSUME CallInv, Summing
  PROVE  /\ frame \in Bytes /\ given \in Bytes /\ Sane(frame) /\ Sane(given) /\ SameBut(frame, given)
         /\ Refusal(frame) = "CHK_OK" /\ Refusal(given) = "CHK_OK"
         /\ CheckBytes(frame) = CheckBytes(given)
         /\ Version(frame) = Version(given) /\ Supported(frame) = Supported(given)
         /\ L4Check(frame) = L4Check(given)
         /\ Congr(sum, Before + NetSum(Blank(frame), Base, i))
         /\ ones_final(sum) \in Byte16 /\ sum \in Nat /\ sum <= UINT32_MAX
<1>1. ChecksumInv /\ UnderWay /\ Progress /\ SumBounded
  BY DEF CallInv, ChecksumInv
<1>2. frame \in Bytes /\ given \in Bytes /\ sum \in Nat
  BY <1>1, Frames
<1>3. /\ Sane(given) /\ SameBut(frame, given) /\ Refusal(frame) = "CHK_OK"
      /\ Congr(sum, Before + NetSum(Blank(frame), Base, i))
  BY <1>1 DEF UnderWay
<1>4. sum <= UINT32_MAX
  <2>1. sum <= 2147483647
    BY <1>1 DEF SumBounded
  <2>. QED
    BY SMT, <1>2, <2>1 DEF UINT32_MAX
<1>5. ones_final(sum) \in Byte16
  BY <1>1, SumMakesCheck
<1>. QED
  BY <1>2, <1>3, <1>4, <1>5, SameButLayout

LEMMA HeaderDoneInCall ==
  ASSUME CallInv, HeaderDone
  PROVE  UnderWay' /\ AtEnd' /\ Idempotent'
<1>1. Summing /\ phase = "header" /\ i = HeadLen(frame) /\ Base = L3
  BY DEF HeaderDone, Summing, Block, Count, Base
<1>2. Version(frame) = 4
  BY <1>1 DEF CallInv, ChecksumInv, Progress
<1>3. /\ frame \in Bytes /\ given \in Bytes /\ Sane(frame) /\ Sane(given) /\ SameBut(frame, given)
      /\ Refusal(given) = "CHK_OK" /\ CheckBytes(frame) = CheckBytes(given)
      /\ Version(given) = 4
      /\ Congr(sum, Before + NetSum(Blank(frame), Base, i))
      /\ ones_final(sum) \in Byte16 /\ sum \in Nat /\ sum <= UINT32_MAX
  BY <1>1, <1>2, BlockDone
<1>4. /\ phase' = "addresses" /\ i' = 0 /\ sum' = 0 /\ given' = given
      /\ frame' = Poke(frame, 24, ones_final(sum))
  BY DEF HeaderDone, L3Check, L3
<1>5. 24 \in Nat /\ 24 + 1 = 25
  BY SMT
<1>6. 24 \in CheckBytes(given) /\ 24 + 1 \in CheckBytes(given)
  BY <1>3, <1>5, CheckBytesAt
<1>7. PICK w \in Byte16 : w = ones_final(sum)
  BY <1>3
<1>8. PICK h : h = Poke(frame, 24, w)
  OBVIOUS
<1>9. h \in Bytes /\ SameBut(h, given) /\ Word(h, 24) = w
  BY <1>3, <1>5, <1>6, <1>7, <1>8, PokeCheck
<1>10. Congr(sum, HeaderNet(frame))
  <2>1. PICK net \in Nat : net = HeaderNet(frame)
    BY <1>3, NetsTyped
  <2>2. Before + NetSum(Blank(frame), Base, i) = 0 + net /\ 0 + net = net
    BY <1>1, <2>1 DEF Before, HeaderNet
  <2>. QED
    BY <1>3, <2>1, <2>2
<1>11. HeaderNet(h) = HeaderNet(frame)
  BY <1>3, <1>9, SameNets
<1>12. L3Check = 24
  BY SMT DEF L3Check, L3
<1>13. HeaderRight(h)
  BY <1>3, <1>7, <1>9, <1>10, <1>11, <1>12 DEF HeaderRight
<1>14. Version(h) = 4
  BY <1>3, <1>9, SameButLayout
<1>. QED
  BY <1>3, <1>4, <1>7, <1>9, <1>8, <1>13, <1>14, BlockBeginsRight DEF Block

LEMMA SegmentInCall ==
  ASSUME CallInv, Segment
  PROVE  UnderWay' /\ AtEnd' /\ Idempotent'
<1>1. Summing /\ phase = "addresses" /\ i = AddrLen(frame) /\ Base = saddr(frame) /\ Supported(frame)
  BY DEF Segment, Summing, Block, Count, Base
<1>2. /\ frame \in Bytes /\ given \in Bytes /\ Sane(frame) /\ Sane(given) /\ SameBut(frame, given)
      /\ Refusal(given) = "CHK_OK" /\ CheckBytes(frame) = CheckBytes(given)
      /\ Version(frame) = Version(given) /\ Supported(given) /\ L4Check(frame) = L4Check(given)
      /\ Congr(sum, Before + NetSum(Blank(frame), Base, i))
  BY <1>1, BlockDone
<1>3. /\ phase' = "segment" /\ i' = 0 /\ given' = given
      /\ frame' = Poke(frame, L4Check(frame), 0)
      /\ sum' = IF Protocol(frame) = IPPROTO.ICMP THEN 0
                ELSE sum + 256 * Protocol(frame) + Swap(L4Len(frame))
  BY DEF Segment
<1>4. PICK k \in Nat : k = L4Check(frame) /\ k >= 36
  BY <1>1, <1>2, CheckAfterHeader
<1>5. k \in CheckBytes(given) /\ k + 1 \in CheckBytes(given)
  BY <1>2, <1>4, CheckBytesAt
<1>6. 0 \in Byte16
  BY SMT DEF Byte16
<1>7. PICK h : h = Poke(frame, k, 0)
  OBVIOUS
<1>8. /\ h \in Bytes /\ SameBut(h, given) /\ Word(h, k) = 0
      /\ \A j \in Nat : j < Len(frame) /\ j # k /\ j # k + 1 => At(h, j) = At(frame, j)
  BY <1>2, <1>5, <1>6, <1>7, PokeCheck
<1>9. Word(h, L3Check) = Word(frame, L3Check)
  <2>1. Len(frame) \in Nat /\ Len(frame) >= 35
    BY <1>2, LenProperties DEF Sane, Bytes
  <2>2. /\ 24 \in Nat /\ 25 \in Nat /\ 24 < Len(frame) /\ 25 < Len(frame) /\ 24 + 1 = 25
        /\ 24 # k /\ 24 # k + 1 /\ 25 # k /\ 25 # k + 1
    BY SMT, <1>4, <2>1
  <2>3. At(h, 24) = At(frame, 24) /\ At(h, 24 + 1) = At(frame, 24 + 1)
    BY <1>8, <2>2
  <2>4. L3Check = 24
    BY SMT DEF L3Check, L3
  <2>. QED
    BY <2>3, <2>4 DEF Word
<1>10. Version(frame) = 4 => HeaderRight(frame)
  BY <1>1 DEF CallInv, UnderWay
<1>11. Version(h) = Version(frame) /\ L4Check(h) = k
  BY <1>2, <1>4, <1>8, SameButLayout
<1>12. Version(h) = 4 => HeaderRight(h)
  BY <1>2, <1>8, <1>9, <1>10, <1>11, HeaderRightKept
<1>13. PICK p \in Nat, l \in Byte16, a \in Nat :
         /\ p = Protocol(frame) /\ l = L4Len(frame)
         /\ a = NetSum(Blank(frame), saddr(frame), AddrLen(frame))
  <2>1. Len(frame) >= 35
    BY <1>2 DEF Sane
  <2>2. Protocol(frame) \in Nat /\ L4Len(frame) \in Byte16
    BY <1>2, <2>1, LayoutTyped, Zenon
  <2>3. NetSum(Blank(frame), saddr(frame), AddrLen(frame)) \in Nat
    BY <1>2, NetsTyped, Zenon
  <2>. QED
    BY <2>2, <2>3, Zenon
<1>14. Congr(sum, a)
  <2>1. Before + NetSum(Blank(frame), Base, i) = 0 + a /\ 0 + a = a
    BY <1>1, <1>13 DEF Before
  <2>. QED
    BY <1>2, <2>1
<1>15. Congr(sum', PseudoNet(frame))
  <2>1. CASE Protocol(frame) = IPPROTO.ICMP
    BY <1>3, <2>1, CongrZero DEF PseudoNet
  <2>2. CASE Protocol(frame) # IPPROTO.ICMP
    <3>1. Congr(256 * p, p) /\ Congr(Swap(l), l)
      BY CongrProtocol, CongrSwap
    <3>2. Congr(sum + 256 * p, a + p)
      BY <1>14, <3>1, CongrAdd
    <3>3. Congr(sum + 256 * p + Swap(l), a + p + l)
      BY <3>1, <3>2, CongrAdd
    <3>. QED
      BY <1>3, <1>13, <2>2, <3>3 DEF PseudoNet
  <2>. QED
    BY <2>1, <2>2
<1>16. PseudoNet(h) = PseudoNet(frame)
  BY <1>2, <1>8, SameNets
<1>17. frame' = h
  BY <1>3, <1>4, <1>7
<1>. QED
  BY <1>2, <1>3, <1>8, <1>11, <1>12, <1>15, <1>16, <1>17, BlockBeginsRight DEF Block

(* Bytes that make the same word are the same: 256 is its base.              *)
SameDigits(p, q, r, t) ==
  p <= 255 /\ q <= 255 /\ r <= 255 /\ t <= 255 /\ p + 256 * q = r + 256 * t

LEMMA TwoDigits ==
  ASSUME NEW p \in Nat, NEW q \in Nat, NEW r \in Nat, NEW t \in Nat, SameDigits(p, q, r, t)
  PROVE  p = r /\ q = t
BY SMT DEF SameDigits

LEMMA SameWord ==
  ASSUME NEW f \in Bytes, NEW g \in Bytes, NEW k \in Nat, k + 1 < Len(f), k + 1 < Len(g),
         Word(f, k) = Word(g, k)
  PROVE  At(f, k) = At(g, k) /\ At(f, k + 1) = At(g, k + 1)
<1>1. k + 1 \in Nat /\ k < Len(f) /\ k < Len(g)
  BY SMT, LenProperties DEF Bytes
<1>2. PICK x \in Nat, y \in Nat : x = At(f, k) /\ y = At(f, k + 1) /\ x <= 255 /\ y <= 255
  BY <1>1, AByte
<1>3. PICK a \in Nat, b \in Nat : a = At(g, k) /\ b = At(g, k + 1) /\ a <= 255 /\ b <= 255
  BY <1>1, AByte
<1>4. x + 256 * y = a + 256 * b
  BY <1>2, <1>3 DEF Word
<1>5. x = a /\ y = b
  <2>1. SameDigits(x, y, a, b)
    BY <1>2, <1>3, <1>4 DEF SameDigits
  <2>. QED
    BY <2>1, TwoDigits
<1>. QED
  BY <1>2, <1>3, <1>5

(* A finished frame has no choice: its checksums follow from the rest.       *)
LEMMA FinishedSame ==
  ASSUME NEW f \in Bytes, NEW g \in Bytes, Finished(f), Finished(g), SameBut(f, g)
  PROVE  f = g
<1>1. /\ Sane(g) /\ Supported(g) /\ Version(f) = Version(g) /\ Protocol(f) = Protocol(g)
      /\ L4Check(f) = L4Check(g) /\ Len(f) = Len(g) /\ Len(g) \in Nat
  BY SameButLayout, LenProperties DEF Finished, Bytes
<1>2. HeaderNet(f) = HeaderNet(g) /\ SegmentNet(f) = SegmentNet(g)
  BY <1>1, SameNets
<1>3. ASSUME Version(g) = 4 PROVE At(f, 24) = At(g, 24) /\ At(f, 24 + 1) = At(g, 24 + 1)
  <2>1. PICK net : net = HeaderNet(g)
    OBVIOUS
  <2>2. PICK s \in Nat : s <= UINT32_MAX /\ Congr(s, net) /\ Word(f, L3Check) = ones_final(s)
    BY <1>1, <1>2, <1>3, <2>1 DEF Finished, HeaderRight
  <2>3. PICK t \in Nat : t <= UINT32_MAX /\ Congr(t, net) /\ Word(g, L3Check) = ones_final(t)
    BY <1>3, <2>1 DEF Finished, HeaderRight
  <2>4. ones_final(s) = ones_final(t)
    BY <2>2, <2>3, SameFinal
  <2>5. 24 \in Nat /\ 24 + 1 < Len(f) /\ 24 + 1 < Len(g) /\ L3Check = 24
    BY SMT, <1>1 DEF Sane, L3Check, L3
  <2>. QED
    BY <2>2, <2>3, <2>4, <2>5, SameWord
<1>4. PICK k \in Nat : k = L4Check(g) /\ k + 1 < Len(g)
  <2>1. L4Check(g) \in Nat /\ L4Check(g) + 2 <= Len(g)
    BY <1>1, CheckAfterHeader DEF Sane
  <2>2. L4Check(g) + 1 < Len(g)
    BY SMT, <1>1, <2>1
  <2>. QED
    BY <2>1, <2>2
<1>5. At(f, k) = At(g, k) /\ At(f, k + 1) = At(g, k + 1)
  <2>1. PICK net : net = SegmentNet(g)
    OBVIOUS
  <2>2. PICK s \in Nat : s <= UINT32_MAX /\ Congr(s, net) /\ Word(f, k) = NotZero(f, ones_final(s))
    BY <1>1, <1>2, <1>4, <2>1 DEF Finished, SegmentRight
  <2>3. PICK t \in Nat : t <= UINT32_MAX /\ Congr(t, net) /\ Word(g, k) = NotZero(g, ones_final(t))
    BY <1>4, <2>1 DEF Finished, SegmentRight
  <2>4. ones_final(s) = ones_final(t)
    BY <2>2, <2>3, SameFinal
  <2>5. NotZero(f, ones_final(s)) = NotZero(g, ones_final(t))
    BY <1>1, <2>4 DEF NotZero
  <2>. QED
    BY <1>1, <1>4, <2>2, <2>3, <2>5, SameWord
<1>6. ASSUME NEW j \in Nat, j < Len(g) PROVE At(f, j) = At(g, j)
  <2>1. CASE j \notin CheckBytes(g)
    BY <1>6, <2>1 DEF SameBut
  <2>2. CASE Version(g) = 4 /\ j \in {24, 25}
    <3>1. 24 + 1 = 25
      BY SMT
    <3>. QED
      BY <1>3, <2>2, <3>1
  <2>3. CASE j \in {k, k + 1}
    BY <1>5, <2>3
  <2>. QED
    BY <1>1, <1>4, <2>1, <2>2, <2>3, CheckBytesAt
<1>7. ASSUME NEW n \in 1..Len(g) PROVE f[n] = g[n]
  <2>1. PICK j \in Nat : j + 1 = n /\ j < Len(g)
    <3>1. n - 1 \in Nat /\ (n - 1) + 1 = n /\ n - 1 < Len(g)
      BY SMT, <1>1
    <3>. QED
      BY <3>1
  <2>. QED
    BY <1>6, <2>1 DEF At
<1>. QED
  BY <1>1, <1>7, SeqEqual DEF Bytes

(* The checksum of the segment is put in: both are in place.                 *)
LEMMA SegmentFinished ==
  ASSUME CallInv, SegmentDone
  PROVE  /\ frame' \in Bytes /\ Finished(frame') /\ SameBut(frame', given)
         /\ phase' = "done" /\ ret' = "CHK_OK" /\ given' = given /\ calls' = calls
<1>1. Summing /\ phase = "segment" /\ i = L4Len(frame) /\ Base = L4(frame)
  BY DEF SegmentDone, Summing, Block, Count, Base
<1>2. /\ frame \in Bytes /\ given \in Bytes /\ Sane(frame) /\ Sane(given) /\ SameBut(frame, given)
      /\ Refusal(given) = "CHK_OK" /\ CheckBytes(frame) = CheckBytes(given)
      /\ Version(frame) = Version(given) /\ Supported(frame) = Supported(given)
      /\ L4Check(frame) = L4Check(given)
      /\ Congr(sum, Before + NetSum(Blank(frame), Base, i))
      /\ ones_final(sum) \in Byte16 /\ sum \in Nat /\ sum <= UINT32_MAX
  BY <1>1, BlockDone
<1>3. Supported(frame) /\ Supported(given)
  BY <1>1, <1>2 DEF CallInv, ChecksumInv, Progress
<1>4. PICK k \in Nat : k = L4Check(frame) /\ k >= 36
  BY <1>2, <1>3, CheckAfterHeader
<1>5. k \in CheckBytes(given) /\ k + 1 \in CheckBytes(given)
  BY <1>2, <1>3, <1>4, CheckBytesAt
<1>6. 65535 \in Byte16
  BY SMT DEF Byte16
<1>7. PICK w \in Byte16 : w = NotZero(frame, ones_final(sum))
  BY <1>2, <1>6 DEF NotZero
<1>8. PICK h : h = Poke(frame, k, w)
  OBVIOUS
<1>9. /\ h \in Bytes /\ SameBut(h, given) /\ Word(h, k) = w
      /\ \A j \in Nat : j < Len(frame) /\ j # k /\ j # k + 1 => At(h, j) = At(frame, j)
  BY <1>2, <1>5, <1>8, PokeCheck
<1>10. Word(h, L3Check) = Word(frame, L3Check)
  <2>1. Len(frame) \in Nat /\ Len(frame) >= 35
    BY <1>2, LenProperties DEF Sane, Bytes
  <2>2. /\ 24 \in Nat /\ 25 \in Nat /\ 24 < Len(frame) /\ 25 < Len(frame) /\ 24 + 1 = 25
        /\ 24 # k /\ 24 # k + 1 /\ 25 # k /\ 25 # k + 1
    BY SMT, <1>4, <2>1
  <2>3. At(h, 24) = At(frame, 24) /\ At(h, 24 + 1) = At(frame, 24 + 1)
    BY <1>9, <2>2
  <2>4. L3Check = 24
    BY SMT DEF L3Check, L3
  <2>. QED
    BY <2>3, <2>4 DEF Word
<1>11. Version(frame) = 4 => HeaderRight(frame)
  BY <1>1 DEF CallInv, UnderWay
<1>12. /\ Sane(h) /\ Supported(h) /\ Refusal(h) = "CHK_OK" /\ L4Check(h) = k
       /\ Version(h) = Version(frame) /\ Protocol(h) = Protocol(frame)
  <2>1. /\ Sane(h) /\ Supported(h) = Supported(given) /\ Refusal(h) = Refusal(given)
        /\ L4Check(h) = L4Check(given) /\ Version(h) = Version(given) /\ Protocol(h) = Protocol(given)
    BY <1>2, <1>9, SameButLayout
  <2>2. Protocol(frame) = Protocol(given)
    BY <1>2, SameButLayout
  <2>. QED
    BY <1>2, <1>3, <1>4, <2>1, <2>2
<1>13. Version(h) = 4 => HeaderRight(h)
  BY <1>2, <1>9, <1>10, <1>11, <1>12, HeaderRightKept
<1>14. Congr(sum, SegmentNet(frame))
  BY <1>1, <1>2 DEF Before, SegmentNet
<1>15. SegmentNet(h) = SegmentNet(frame)
  BY <1>2, <1>9, SameNets
<1>16. NotZero(h, ones_final(sum)) = NotZero(frame, ones_final(sum))
  BY <1>12 DEF NotZero
<1>17. SegmentRight(h)
  BY <1>2, <1>7, <1>9, <1>12, <1>14, <1>15, <1>16 DEF SegmentRight
<1>18. frame' = h
  BY <1>4, <1>7, <1>8 DEF SegmentDone, NotZero
<1>19. phase' = "done" /\ ret' = "CHK_OK" /\ given' = given /\ calls' = calls
  BY DEF SegmentDone, Return
<1>. QED
  BY <1>9, <1>12, <1>13, <1>17, <1>18, <1>19 DEF Finished

LEMMA SegmentDoneInCall ==
  ASSUME CallInv, SegmentDone
  PROVE  UnderWay' /\ AtEnd' /\ Idempotent'
<1>1. /\ frame' \in Bytes /\ Finished(frame') /\ SameBut(frame', given)
      /\ phase' = "done" /\ ret' = "CHK_OK" /\ given' = given /\ calls' = calls
  BY SegmentFinished
<1>2. Sane(given) /\ given \in Bytes
  <2>1. Summing
    BY DEF SegmentDone, Summing, Block
  <2>. QED
    BY <2>1, BlockDone
<1>3. UnderWay'
  BY <1>1 DEF UnderWay, Summing, Block
<1>4. AtEnd'
  BY <1>1, <1>2 DEF AtEnd, Finished, HeaderRight, SegmentRight
<1>5. calls = 2 => frame' = given
  <2>1. calls = 2 => Finished(given)
    BY DEF CallInv
  <2>. QED
    BY <1>1, <1>2, <2>1, FinishedSame
<1>. QED
  BY <1>1, <1>3, <1>4, <1>5 DEF Idempotent

LEMMA UnknownInCall ==
  ASSUME CallInv, UnknownProtocol
  PROVE  UnderWay' /\ AtEnd' /\ Idempotent'
<1>1. /\ phase = "addresses" /\ Summing /\ ~ Supported(frame)
      /\ phase' = "done" /\ ret' = "CHK_UNSUPPORTED" /\ UNCHANGED <<frame, given, calls>>
  BY DEF UnknownProtocol, Return, Summing, Block
<1>2. /\ frame \in Bytes /\ given \in Bytes /\ Sane(given) /\ SameBut(frame, given)
      /\ Supported(frame) = Supported(given)
  BY <1>1, BlockDone
<1>3. /\ Version(frame) = 4 => HeaderRight(frame)
      /\ Version(frame) # 4 => frame = given
  BY <1>1 DEF CallInv, UnderWay
<1>4. calls # 2
  BY <1>1, <1>2 DEF CallInv, Finished
<1>5. UnderWay'
  BY <1>1 DEF UnderWay, Summing, Block
<1>6. AtEnd'
  BY <1>1, <1>2, <1>3 DEF AtEnd, HeaderRight
<1>. QED
  BY <1>1, <1>4, <1>5, <1>6 DEF Idempotent

LEMMA RestInCall ==
  ASSUME CallInv, Refuse \/ Stray \/ Again
  PROVE  UnderWay' /\ AtEnd' /\ Idempotent'
<1>1. UnderWay'
  BY DEF Refuse, Stray, Again, Return, UnderWay, Summing, Block
<1>2. CASE Refuse
  <2>1. /\ phase' = "done" /\ ret' = Refusal(frame) /\ frame' = given' /\ calls' = calls
        /\ Refusal(frame) # "CHK_OK" /\ frame = given
    BY <1>2 DEF Refuse, Return, CallInv
  <2>2. calls # 2
    BY <2>1 DEF CallInv, Finished
  <2>3. AtEnd'
    BY <2>1 DEF AtEnd
  <2>. QED
    BY <1>1, <2>1, <2>2, <2>3 DEF Idempotent
<1>3. CASE Stray \/ Again
  <2>1. phase' # "done"
    BY <1>3 DEF Stray, Again
  <2>. QED
    BY <1>1, <2>1 DEF AtEnd, Idempotent
<1>. QED
  BY <1>2, <1>3

\* Where the frame stands as it was given, and what a second call is given.
LEMMA GivenInCall ==
  ASSUME CallInv, Next
  PROVE  /\ phase' \in {"idle", "stray"} => frame' = given'
         /\ calls' = 2 => Finished(given')
<1>1. CASE Again
  <2>1. phase = "done" /\ ret = "CHK_OK" /\ frame' = frame /\ given' = frame
    BY <1>1 DEF Again
  <2>2. Finished(frame)
    BY <2>1 DEF CallInv, AtEnd
  <2>. QED
    BY <2>1, <2>2
<1>2. CASE ~ Again
  <2>1. given' = given /\ calls' = calls
    <3>1. CASE Refuse \/ Stray \/ UnknownProtocol \/ SegmentDone
      BY <3>1 DEF Refuse, Stray, UnknownProtocol, SegmentDone
    <3>2. CASE Header \/ NoHeader \/ AddWord \/ AddTrailing \/ HeaderDone \/ Segment
      BY <3>2 DEF Header, NoHeader, AddWord, AddTrailing, HeaderDone, Segment
    <3>. QED
      BY <1>2, <3>1, <3>2 DEF Next
  <2>2. ASSUME phase' \in {"idle", "stray"} PROVE frame' = frame /\ phase \in {"idle", "stray"}
    <3>1. CASE Stray
      BY <3>1 DEF Stray
    <3>2. CASE AddWord \/ AddTrailing
      BY <2>2, <3>2 DEF AddWord, AddTrailing, Summing, Block
    <3>3. CASE Header \/ NoHeader \/ HeaderDone \/ Segment
      BY <2>2, <3>3 DEF Header, NoHeader, HeaderDone, Segment
    <3>4. CASE Refuse \/ UnknownProtocol \/ SegmentDone
      BY <2>2, <3>4 DEF Refuse, UnknownProtocol, SegmentDone, Return
    <3>. QED
      BY <1>2, <3>1, <3>2, <3>3, <3>4 DEF Next
  <2>3. calls = 2 => Finished(given)
    BY DEF CallInv
  <2>4. phase \in {"idle", "stray"} => frame = given
    BY DEF CallInv
  <2>. QED
    BY <2>1, <2>2, <2>3, <2>4
<1>. QED
  BY <1>1, <1>2

LEMMA CallKept == CallInv /\ [Next]_vars => CallInv'
<1> SUFFICES ASSUME CallInv, [Next]_vars PROVE CallInv'
  OBVIOUS
<1>1. ChecksumInv'
  BY ChecksumKept DEF CallInv
<1>2. CASE Next
  <2>1. UnderWay' /\ AtEnd' /\ Idempotent'
    <3>1. CASE Header \/ NoHeader
      BY <3>1, HeaderInCall, NoHeaderInCall
    <3>2. CASE AddWord \/ AddTrailing
      BY <3>2, AddInCall
    <3>3. CASE HeaderDone \/ Segment
      BY <3>3, HeaderDoneInCall, SegmentInCall
    <3>4. CASE SegmentDone \/ UnknownProtocol
      BY <3>4, SegmentDoneInCall, UnknownInCall
    <3>5. CASE Refuse \/ Stray \/ Again
      BY <3>5, RestInCall
    <3>. QED
      BY <1>2, <3>1, <3>2, <3>3, <3>4, <3>5 DEF Next
  <2>. QED
    BY <1>1, <1>2, <2>1, GivenInCall DEF CallInv
<1>3. CASE UNCHANGED vars
  <2>1. UNCHANGED <<frame, phase, i, sum, ret, given, calls>>
    BY <1>3 DEF vars
  <2>2. UnderWay' /\ AtEnd' /\ Idempotent'
    BY <2>1 DEF CallInv, UnderWay, AtEnd, Idempotent, Summing, Base, Before, HeaderRight, Finished,
       SegmentRight
  <2>. QED
    BY <1>1, <2>1, <2>2 DEF CallInv, Finished, HeaderRight, SegmentRight
<1>. QED
  BY <1>2, <1>3

LEMMA CallAlways == Spec => []CallInv
<1>1. Init => CallInv
  <2> SUFFICES ASSUME Init PROVE CallInv
    OBVIOUS
  <2>1. phase = "idle" /\ frame = given /\ calls # 2
    BY SMT DEF Init
  <2>2. ChecksumInv
    BY ChecksumAtFirst
  <2>. QED
    BY <2>1, <2>2 DEF CallInv, UnderWay, AtEnd, Idempotent, Summing, Block
<1>. QED
  BY <1>1, CallKept, PTL DEF Spec

(* Whenever checksum() returns 0, for any frame and any number of times, a  *)
(* receiver that follows RFC 1071 accepts the IPv4 header, and the segment  *)
(* if it has room for its own checksum.                                     *)
THEOREM ReceiverAlwaysAccepts == Spec => []ReceiverAccepts
<1>1. ASSUME CallInv PROVE ReceiverAccepts
  <2> SUFFICES ASSUME phase = "done", ret = "CHK_OK"
               PROVE  /\ Version(frame) = 4 => HeaderVerifies(frame)
                      /\ L4Check(frame) + 2 <= L4(frame) + L4Len(frame) => SegmentVerifies(frame)
    BY DEF ReceiverAccepts
  <2>1. Finished(frame) /\ frame \in Bytes
    BY <1>1, Frames DEF CallInv, AtEnd
  <2>. QED
    BY <2>1, RightHeaderVerifies, RightSegmentVerifies DEF Finished
<1>. QED
  BY <1>1, CallAlways, PTL

(* checksum() changes nothing of a frame but its checksums, and of one it   *)
(* refuses only the header checksum, which it makes right.                  *)
THEOREM NothingButChecksums == Spec => []OnlyChecksums
<1>1. ASSUME CallInv PROVE OnlyChecksums
  <2>1. frame \in Bytes /\ given \in Bytes /\ Len(frame) \in Nat
    BY <1>1, Frames DEF CallInv
  <2>2. frame = given \/ (Sane(given) /\ SameBut(frame, given))
    <3>1. phase \in {"idle", "stray", "done"} \/ Summing
      BY <1>1 DEF CallInv, ChecksumInv, ChecksumTypeOK, Summing
    <3>. QED
      BY <1>1, <3>1 DEF CallInv, UnderWay, AtEnd
  <2>3. ASSUME NEW k \in 0..Len(frame) - 1, At(frame, k) # At(given, k)
        PROVE  k \in CheckBytes(frame)
    <3>1. Sane(given) /\ SameBut(frame, given)
      BY <2>2, <2>3
    <3>2. CheckBytes(frame) = CheckBytes(given) /\ Len(frame) = Len(given)
      BY <2>1, <3>1, SameButLayout
    <3>3. k \in Nat /\ k < Len(frame)
      BY SMT, <2>1
    <3>. QED
      BY <2>3, <3>1, <3>2, <3>3 DEF SameBut
  <2>4. ASSUME phase = "done", ret # "CHK_OK", frame # given
        PROVE  ret = "CHK_UNSUPPORTED" /\ ~ Supported(frame) /\ HeaderVerifies(frame)
    <3>1. /\ ret = "CHK_UNSUPPORTED" /\ ~ Supported(frame) /\ Version(frame) = 4
          /\ HeaderRight(frame) /\ Sane(given) /\ SameBut(frame, given)
      BY <1>1, <2>4 DEF CallInv, AtEnd
    <3>2. Sane(frame)
      BY <2>1, <3>1, SameButLayout
    <3>. QED
      BY <2>1, <3>1, <3>2, RightHeaderVerifies
  <2>. QED
    BY <2>3, <2>4 DEF OnlyChecksums
<1>. QED
  BY <1>1, CallAlways, PTL

(* A frame that checksum() has completed is completed as it is: a second    *)
(* call accepts it and writes what is there.                                *)
THEOREM SecondCallChangesNothing == Spec => []Idempotent
<1>1. CallInv => Idempotent
  BY DEF CallInv
<1>. QED
  BY <1>1, CallAlways, PTL
=============================================================================
