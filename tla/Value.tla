------------------------------- MODULE Value --------------------------------
(***************************************************************************)
(* value_parse() of value.c, as memref_value_new() of memref.c uses it: a  *)
(* text becomes the bytes that are matched against or written to packets.  *)
(*                                                                         *)
(* A text is its characters and, for every regular expression it matches,  *)
(* what the parser behind makes of it, NULL when that one gives up.  A     *)
(* byte has Radix values, 256 in the program.                              *)
(***************************************************************************)
EXTENDS Integers, SequencesExt

CONSTANTS Radix,
          Text,         \* what users write
          Length,       \* of fields
          MaxValueLen,  \* MAXVALUELEN
          NULL

Byte == 0..Radix - 1
ASSUME RadixIsEven == Radix \in Nat /\ Radix >= 2 /\ Radix % 2 = 0
ASSUME LengthsAreNat == Length \subseteq Nat /\ MaxValueLen \in Nat
ASSUME NullIsNoNumber == NULL \notin Int

VARIABLES text, len, parsed,
          phase         \* "given", "parsed" or "refused"

vars == <<text, len, parsed, phase>>
-----------------------------------------------------------------------------
Garbage == -1           \* a byte of the stack
Zeroes(n) == [k \in 1..n |-> 0]

\* Radix to the n.
Power(n) ==
  LET p[k \in 0..n] == IF k = 0 THEN 1 ELSE Radix * p[k-1]
  IN p[n]

\* h16tobe() and its like: the digits of a number that has w of them.
BigEndian(v, w) == [k \in 1..w |-> (v \div Power(w - k)) % Radix]
Number(bytes) ==
  LET num[k \in 0..Len(bytes)] == IF k = 0 THEN 0 ELSE Radix * num[k-1] + bytes[k]
  IN num[Len(bytes)]

\* What the parsers behind the expressions make of a text: addresses have their length, a
\* number is a long long; "0x" and digits are a number, too, which strtoll() reads.
LLONG_MAX == (Power(8) \div 2) - 1
Bytes(n) == [1..n -> Byte]
Typed(t) ==
  /\ t.chars \in Seq(Byte)
  /\ DOMAIN t.is \subseteq {"ipv4", "mac", "int", "ipv6", "hex"}
  /\ "ipv4" \in DOMAIN t.is => t.is["ipv4"] = NULL \/ t.is["ipv4"] \in Bytes(4)
  /\ "mac" \in DOMAIN t.is => t.is["mac"] \in Bytes(6)
  /\ "int" \in DOMAIN t.is =>
       t.is["int"] = NULL \/ t.is["int"] \in -(LLONG_MAX + 1)..LLONG_MAX
  /\ "ipv6" \in DOMAIN t.is => t.is["ipv6"] = NULL \/ t.is["ipv6"] \in Bytes(16)
  /\ "hex" \in DOMAIN t.is =>
       /\ t.is["hex"] \in Seq(Byte)
       /\ DOMAIN t.is = {"int", "hex"}
       /\ Len(t.is["hex"]) <= 8 =>
            LET n == Number(t.is["hex"])
            IN t.is["int"] = IF n <= LLONG_MAX THEN n ELSE NULL
ASSUME TextsAreTyped == \A t \in Text : Typed(t)

Matches(re) == re \in DOMAIN text.is

\* The parser that takes charge: "we match in order of size".
Parser ==
  IF len = 0 THEN "none"
  ELSE IF len <= 4 /\ Matches("ipv4") THEN "ipv4"
  ELSE IF len <= 6 /\ Matches("mac") THEN "mac"
  ELSE IF len <= 8 /\ Matches("int") THEN "int"
  ELSE IF len <= 16 /\ Matches("ipv6") /\ text.is["ipv6"] # NULL THEN "ipv6"
  ELSE IF Matches("hex") THEN "hex"
  ELSE "literal"

TooLong == Len(text.chars) > MaxValueLen
Parse(parser) == phase = "given" /\ ~ TooLong /\ Parser = parser

Take(bytes) ==
  /\ parsed' = bytes
  /\ phase' = "parsed"
  /\ UNCHANGED <<text, len>>

\* die: zero out memory on failure
Refuse ==
  /\ parsed' = Zeroes(len)
  /\ phase' = "refused"
  /\ UNCHANGED <<text, len>>
-----------------------------------------------------------------------------
\* memref_value_new(): the value is truncated.
Truncated == phase = "given" /\ TooLong /\ Refuse

\* 0-length fields are valid: just ignore any user-supplied values
ParseNone == Parse("none") /\ Take(<<>>)

ParseIpv4 ==
  /\ Parse("ipv4")
  /\ IF text.is["ipv4"] = NULL THEN Refuse ELSE Take(SubSeq(text.is["ipv4"], 1, len))

ParseMac ==
  /\ Parse("mac")
  /\ Take(SubSeq(text.is["mac"], 1, len))

ParseIpv6 ==
  /\ Parse("ipv6")
  /\ Take(SubSeq(text.is["ipv6"], 1, len))

Unsigned(tt, n) == 0 <= tt /\ tt < Power(n)
Signed(tt, n) == -(Power(n) \div 2) <= tt /\ tt < Power(n) \div 2

\* Defect: non-negative numbers are held in the signed type.
RepresentableSigned(tt) == Signed(tt, len)

\* __builtin_add_overflow() into the type the code has chosen; eight bytes have the
\* two types the other way round.
Representable(tt) ==
  IF (tt >= 0) = (len < 8) THEN Unsigned(tt, len) ELSE Signed(tt, len)

\* Defect: four bytes are written as if they were two.
WrittenHalf(tt) ==
  LET w == IF len = 4 THEN 2 ELSE len
  IN [k \in 1..8 |-> IF k <= w THEN BigEndian(tt % Power(w), w)[k] ELSE Garbage]

\* uint8_t by[8], of which the type assigned through takes the first bytes.
Written(tt) ==
  [k \in 1..8 |-> IF k <= len THEN BigEndian(tt % Power(len), len)[k] ELSE Garbage]

\* strtoll() may report ERANGE; lengths that no type has are refused.
ParseInt ==
  /\ Parse("int")
  /\ LET tt == text.is["int"]
     IN IF tt # NULL /\ len \in {1, 2, 4, 8} /\ Representable(tt)
        THEN Take(SubSeq(Written(tt), 1, len))
        ELSE Refuse

\* hx2b_BE(): the digits fill the field, or are cut or padded with zeroes at either end.
hx2b_BE(bytes, n) ==
  LET all == Zeroes(n) \o bytes \o Zeroes(n)
      first == SubSeq(all, n + 1, n + n)
      last == SubSeq(all, Len(bytes) + 1, Len(bytes) + n)
  IN {first, last}

\* Defect: digits that do not fill the field are moved by a byte.
ParseHexShifted ==
  /\ Parse("hex")
  /\ Take(SubSeq(text.is["hex"] \o Zeroes(len + 1), 2, len + 1))

ParseHex ==
  /\ Parse("hex")
  /\ \E bytes \in hx2b_BE(text.is["hex"], len) : Take(bytes)

ParseLiteral ==
  /\ Parse("literal")
  /\ IF Len(text.chars) >= len THEN Take(SubSeq(text.chars, 1, len)) ELSE Refuse
-----------------------------------------------------------------------------
Init ==
  /\ text \in Text
  /\ len \in Length
  /\ parsed = Zeroes(len)
  /\ phase = "given"

Next ==
  \/ Truncated \/ ParseNone \/ ParseIpv4 \/ ParseMac \/ ParseInt
  \/ ParseIpv6 \/ ParseHex \/ ParseLiteral

Spec == Init /\ [][Next]_vars
-----------------------------------------------------------------------------
(* However far a parser got, there are bytes of the field's length, and not *)
(* one of them is what happened to be on the stack.                         *)
ValueTypeOK ==
  /\ len \in Length /\ phase \in {"given", "parsed", "refused"}
  /\ Len(parsed) = len /\ \A k \in 1..len : parsed[k] \in Byte
  /\ phase \in {"given", "refused"} => parsed = Zeroes(len)

(* The numbers that are taken are those the field can tell apart from any   *)
(* other of the same sign, and they are on the wire as two's complement,    *)
(* high byte first.  Of eight bytes only those that are no less than zero.  *)
NumbersExact ==
  Parser = "int" /\ ~ TooLong =>
    LET tt == text.is["int"]
    IN /\ phase = "parsed" =>
            /\ Number(parsed) = tt % Power(len)
            /\ tt >= 0 <=> Number(parsed) = tt
       /\ phase = "refused" =>
            \/ tt = NULL
            \/ len \notin {1, 2, 4, 8}
            \/ tt >= Power(len) \/ tt < -(Power(len) \div 2)
            \/ len = 8 /\ tt < 0

(* Digits that fill their field are its bytes, though up to eight bytes the *)
(* parser of numbers reads them and beyond that another; or they are        *)
(* refused, where a number cannot be so long.                               *)
Filling == Matches("hex") /\ Len(text.is["hex"]) = len /\ ~ TooLong
DigitsExact ==
  Filling =>
    /\ phase = "parsed" => parsed = text.is["hex"]
    /\ phase = "refused" => len \in {3, 5, 6, 7} \/ (len = 8 /\ Number(text.is["hex"]) > LLONG_MAX)
=============================================================================
