--------------------------- MODULE MCPacketEngine ---------------------------
(* Instances of PacketEngine for TLC: bytes of two bits. *)
EXTENDS PacketEngine

CONSTANTS out1, out2,   \* interfaces
          s2,           \* a state two bytes long
          v1, v2        \* literal values one byte long

E(offt, len, mask) == [offt |-> offt, len |-> len, mask |-> mask]
Op(set_to, to, set_from, from) ==
  [set_to |-> set_to, to |-> to, set_from |-> set_from, from |-> from]

all == {0, 1}
first == E(0, 1, all)
flag == E(-1, 1, {1})
head == E(0, 2, all)
tail == E(-2, 2, {0})
third == E(2, 1, all)
none == E(0, 0, all)
beyond == E(3, 0, all)

\* Each uses a field, a state and a value of matching lengths.
IsFirst == Op(first, NULL, first, v1)
HasFlag == Op(flag, NULL, flag, v2)
AnyPacket == Op(none, NULL, none, NULL)
Reaches3 == Op(beyond, NULL, beyond, NULL)
HeadIsTail == Op(head, NULL, tail, NULL)
SaveHead == Op(head, s2, head, NULL)
SetTail == Op(tail, NULL, tail, s2)
SetFlag == Op(flag, NULL, flag, v2)
SetThird == Op(third, NULL, third, v1)
Shift == Op(E(1, 2, all), NULL, head, NULL)
ShiftBack == Op(head, NULL, E(1, 2, all), NULL)
ShiftMore == Op(E(1, 3, all), NULL, E(0, 3, all), NULL)
\* ... and these name two fields of different lengths.
WideSource == Op(first, NULL, E(1, 2, all), NULL)
WideIntoLast == Op(flag, NULL, head, NULL)
WideMatch == Op(head, NULL, flag, NULL)

Rout(match, write, output) == [match |-> match, write |-> write, output |-> output]

EvenProcesses ==
  {<<>>,
   <<Rout(<<IsFirst>>, <<SaveHead, SetThird, SetFlag>>, out1), Rout(<<HasFlag>>, <<SetTail>>, out2)>>,
   <<Rout(<<IsFirst, HasFlag>>, <<Shift, ShiftBack, SetFlag>>, out1), Rout(<<AnyPacket>>, <<SetTail, SaveHead>>, out2)>>,
   <<Rout(<<HeadIsTail>>, <<SetThird, ShiftMore>>, out1), Rout(<<>>, <<>>, out1)>>}

UnevenProcesses ==
  {<<Rout(<<AnyPacket>>, <<WideSource, WideIntoLast>>, out1)>>,
   <<Rout(<<WideMatch>>, <<SetFlag>>, out1), Rout(<<>>, <<>>, out2)>>}

ZeroLengthProcesses == {<<Rout(<<Reaches3>>, <<SetFlag>>, out1)>>}

AllProcesses == EvenProcesses \cup UnevenProcesses \cup ZeroLengthProcesses

Zeroed == {[b \in Buffer |-> IF b = s2 THEN <<{}, {}>> ELSE IF b = v1 THEN <<{0}>> ELSE <<all>>]}

\* A checksum over the packet, kept in a bit of its last byte.
Parity(p) ==
  LET ones == Cardinality({i \in DOMAIN p : 0 \in p[i]})
  IN [p EXCEPT ![Len(p)] = IF ones % 2 = 0 THEN @ \ {1} ELSE @ \cup {1}]

Frames == (UNION {[1..n -> {{0}, {1}, all}] : n \in 1..3}) \cup {<<{0}, {1}, {0}, {1}>>}
=============================================================================
