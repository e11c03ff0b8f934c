------------------------------ MODULE Checksum ------------------------------
(***************************************************************************)
(* checksum() of checksums.c: iface_output() has it make the checksums of  *)
(* a frame right before the frame is sent.                                 *)
(*                                                                         *)
(* One addition of ones_sum() is one step.  The machine is little-endian,  *)
(* as `protocol << 8` supposes.  The accumulator has no modulus here:      *)
(* SumBounded shows that 32 bits are enough for it.                        *)
(***************************************************************************)
EXTENDS Integers, Sequences

CONSTANT Frame      \* what iface_output() may be given: sequences of bytes

Byte == 0..255
ASSUME FramesOfBytes == Frame \subseteq Seq(Byte)

VARIABLES frame,    \* the frame, modified in place
          phase,    \* "idle", what is being summed, or how it ended
          i,        \* bytes of it that are summed
          sum,      \* ones_sum(): sum
          ret,      \* the value returned
          given,    \* history: the frame at the call
          calls     \* history: how often this frame has been through

vars == <<frame, phase, i, sum, ret, given, calls>>
-----------------------------------------------------------------------------
(* The layout of a frame; offsets count from 0. *)
At(f, k) == f[k + 1]
Be16(f, k) == 256 * At(f, k) + At(f, k + 1)
Word(f, k) == At(f, k) + 256 * At(f, k + 1)
Poke(f, k, w) == [f EXCEPT ![k + 1] = w % 256, ![k + 2] = w \div 256]
Swap(w) == 256 * (w % 256) + (w \div 256)

L3 == 14                      \* sizeof(struct ethhdr)
ETH_P_IP == 2048
Version(f) == At(f, L3) \div 16
ihl(f) == At(f, L3) % 16
L3Check == L3 + 10
Protocol(f) == At(f, IF Version(f) = 4 THEN L3 + 9 ELSE L3 + 6)
saddr(f) == IF Version(f) = 4 THEN L3 + 12 ELSE L3 + 8    \* daddr follows it
AddrLen(f) == IF Version(f) = 4 THEN 8 ELSE 32             \* of both

HeadLen(f) == IF Version(f) = 4 THEN 4 * ihl(f) ELSE 40

\* uint16_t l4_len: tot_len - head_len may wrap.
L4Len(f) ==
  IF Version(f) = 4 THEN (Be16(f, L3 + 2) - HeadLen(f)) % 65536 ELSE Be16(f, L3 + 4)

L4(f) == L3 + HeadLen(f)

IPPROTO == [ICMP |-> 1, TCP |-> 6, UDP |-> 17, ICMPV6 |-> 58]
CheckAt ==
  [p \in {1, 6, 17, 58} |-> IF p = IPPROTO.TCP THEN 16 ELSE IF p = IPPROTO.UDP THEN 6 ELSE 2]
Supported(f) == Protocol(f) \in DOMAIN CheckAt
L4Check(f) == L4(f) + CheckAt[Protocol(f)]

-----------------------------------------------------------------------------
(* The conditions, in the order of the code. *)
Insane(f) == Len(f) <= L3 + 20 \/ Len(f) > 65535

\* Defect: the segment may be one byte longer than what is left of the frame.
ExceedsFrameByOne(f) ==
  L4Len(f) > Len(f) - L3 - HeadLen(f) + 1 /\ Len(f) - L3 - HeadLen(f) >= 0

\* len - sizeof(*l2) - head_len is a size_t: below zero it is larger than any l4_len.
ExceedsFrame(f) ==
  /\ Len(f) - L3 - HeadLen(f) >= 0
  /\ L4Len(f) > Len(f) - L3 - HeadLen(f)

Refusal(f) ==
  IF Insane(f) THEN "CHK_INVAL"
  ELSE IF Be16(f, 12) # ETH_P_IP THEN "CHK_UNSUPPORTED"
  ELSE IF Version(f) = 4
       THEN IF HeadLen(f) \notin 20..60 \/ ExceedsFrame(f) THEN "CHK_MALFORMED" ELSE "CHK_OK"
  ELSE IF Version(f) = 6
       THEN IF ExceedsFrame(f) THEN "CHK_UNSUPPORTED" ELSE "CHK_OK"
  ELSE "CHK_MALFORMED"

\* Everything checksum() reads or writes is part of the frame.
Within(f) ==
  /\ L4(f) <= Len(f)
  /\ Supported(f) => L4Check(f) + 2 <= Len(f)

-----------------------------------------------------------------------------
\* Defect: what the first carry left over is lost.
ones_final_once(s) ==
  LET t == (s \div 65536) + (s % 65536)
  IN 65535 - (t % 65536)

Carry(s) == (s \div 65536) + (s % 65536)
ones_final(s) == 65535 - (Carry(Carry(s)) % 65536)

\* The arguments of the ones_sum() under way.
Block == {"header", "addresses", "segment"}
Base ==
  IF phase = "header" THEN L3 ELSE IF phase = "addresses" THEN saddr(frame) ELSE L4(frame)
Count ==
  IF phase = "header" THEN HeadLen(frame)
  ELSE IF phase = "addresses" THEN AddrLen(frame) ELSE L4Len(frame)
Summing == phase \in Block

-----------------------------------------------------------------------------
Return(r) == phase' = "done" /\ ret' = r

\* A frame that is refused as it stands.
Refuse ==
  /\ phase = "idle"
  /\ Refusal(frame) # "CHK_OK"
  /\ Return(Refusal(frame))
  /\ UNCHANGED <<frame, i, sum, given, calls>>

\* The lengths that were accepted point out of the frame: nothing is said of what follows.
Stray ==
  /\ phase = "idle"
  /\ Refusal(frame) = "CHK_OK"
  /\ ~ Within(frame)
  /\ phase' = "stray"
  /\ UNCHANGED <<frame, i, sum, ret, given, calls>>

Accepted == phase = "idle" /\ Refusal(frame) = "CHK_OK" /\ Within(frame)

\* ipv4 has a header checksum, ipv6 has none.
Header ==
  /\ Accepted /\ Version(frame) = 4
  /\ phase' = "header"
  /\ frame' = Poke(frame, L3Check, 0)
  /\ i' = 0
  /\ sum' = 0
  /\ UNCHANGED <<ret, given, calls>>

NoHeader ==
  /\ Accepted /\ Version(frame) = 6
  /\ phase' = "addresses"
  /\ i' = 0
  /\ sum' = 0
  /\ UNCHANGED <<frame, ret, given, calls>>

\* ones_sum(): the next word, and the last byte if there is an odd one.
AddWord ==
  /\ Summing
  /\ i + 1 < Count
  /\ sum' = sum + Word(frame, Base + i)
  /\ i' = i + 2
  /\ UNCHANGED <<frame, phase, ret, given, calls>>

AddTrailing ==
  /\ Summing
  /\ i + 1 = Count
  /\ sum' = sum + At(frame, Base + i)
  /\ i' = i + 1
  /\ UNCHANGED <<frame, phase, ret, given, calls>>

\* Defect: the pseudo-header is added to the sum of the header.
HeaderDoneKeepsSum ==
  /\ phase = "header"
  /\ i = Count
  /\ frame' = Poke(frame, L3Check, ones_final(sum))
  /\ phase' = "addresses"
  /\ i' = 0
  /\ UNCHANGED <<sum, ret, given, calls>>

HeaderDone ==
  /\ phase = "header"
  /\ i = Count
  /\ frame' = Poke(frame, L3Check, ones_final(sum))
  /\ phase' = "addresses"
  /\ i' = 0
  /\ sum' = 0
  /\ UNCHANGED <<ret, given, calls>>

\* Defect: the checksum field of the segment is not cleared.
SegmentKeepsCheck ==
  /\ phase = "addresses"
  /\ i = Count
  /\ Supported(frame)
  /\ phase' = "segment"
  /\ i' = 0
  /\ sum' = IF Protocol(frame) = IPPROTO.ICMP THEN 0
            ELSE sum + 256 * Protocol(frame) + Swap(L4Len(frame))
  /\ UNCHANGED <<frame, ret, given, calls>>

\* The rest of the pseudo-header; ICMP has none.
Segment ==
  /\ phase = "addresses"
  /\ i = Count
  /\ Supported(frame)
  /\ phase' = "segment"
  /\ frame' = Poke(frame, L4Check(frame), 0)
  /\ i' = 0
  /\ sum' = IF Protocol(frame) = IPPROTO.ICMP THEN 0
            ELSE sum + 256 * Protocol(frame) + Swap(L4Len(frame))
  /\ UNCHANGED <<ret, given, calls>>

\* The upper-level protocol is not recognized; an ipv4 header is repaired by now.
UnknownProtocol ==
  /\ phase = "addresses"
  /\ i = Count
  /\ ~ Supported(frame)
  /\ Return("CHK_UNSUPPORTED")
  /\ UNCHANGED <<frame, i, sum, given, calls>>

\* Defect: every checksum goes where TCP has it.
SegmentDoneTcp ==
  /\ phase = "segment"
  /\ i = Count
  /\ frame' = Poke(frame, L4(frame) + CheckAt[IPPROTO.TCP], ones_final(sum))
  /\ Return("CHK_OK")
  /\ UNCHANGED <<i, sum, given, calls>>

\* A UDP checksum of zero would mean that there is none.
SegmentDone ==
  /\ phase = "segment"
  /\ i = Count
  /\ LET check == ones_final(sum)
     IN frame' = Poke(frame, L4Check(frame),
                      IF Protocol(frame) = IPPROTO.UDP /\ check = 0 THEN 65535 ELSE check)
  /\ Return("CHK_OK")
  /\ UNCHANGED <<i, sum, given, calls>>

\* The frame comes back, from a peer that reflects it, and is output once more.
Again ==
  /\ phase = "done"
  /\ ret = "CHK_OK"
  /\ calls = 1
  /\ calls' = 2
  /\ given' = frame
  /\ phase' = "idle"
  /\ UNCHANGED <<frame, i, sum, ret>>

Init ==
  /\ frame \in Frame
  /\ phase = "idle"
  /\ i = 0
  /\ sum = 0
  /\ ret = "CHK_OK"
  /\ given = frame
  /\ calls = 1

Next ==
  \/ Refuse \/ Stray \/ Header \/ NoHeader
  \/ AddWord \/ AddTrailing
  \/ HeaderDone \/ Segment \/ UnknownProtocol \/ SegmentDone
  \/ Again

Spec == Init /\ [][Next]_vars
-----------------------------------------------------------------------------
(* A call under way, and what it has of the frame.                          *)
ChecksumTypeOK ==
  /\ frame \in Seq(Byte) /\ given \in Seq(Byte) /\ Len(frame) = Len(given)
  /\ phase \in {"idle", "done", "stray"} \cup Block
  /\ i \in Nat /\ sum \in Nat /\ calls \in 1..2
  /\ ret \in {"CHK_OK", "CHK_INVAL", "CHK_UNSUPPORTED", "CHK_MALFORMED"}
  /\ Summing => i <= Count

(* The lengths of the headers are subtracted in 16 bits and compared in     *)
(* size_t: still nothing is summed that is not part of the frame, as long   *)
(* as the header the frame claims to have is.                               *)
BlockInFrame == Summing => Base + Count <= Len(frame)

(* ones_sum() adds into 32 bits without looking at the carry, over a        *)
(* pseudo-header and a segment in several calls: the sum stays below 2^31.  *)
PseudoWords == IF Version(frame) = 4 THEN 6 ELSE 18
SumBounded ==
  Summing =>
    /\ sum <= 65535 * ((IF phase = "segment" THEN PseudoWords ELSE 0) + ((i + 1) \div 2))
    /\ sum <= 2147483647

\* What a receiver adds up, in network order: every other byte is the high one.
NetByte(f, from, k) == IF k % 2 = 0 THEN 256 * At(f, from + k) ELSE At(f, from + k)
NetSum(f, from, n) ==
  LET net[k \in 0..Len(f) - from] == IF k = 0 THEN 0 ELSE net[k-1] + NetByte(f, from, k - 1)
  IN net[n]
AllOnes(s) == s > 0 /\ s % 65535 = 0
PseudoNetSum(f) ==
  NetSum(f, saddr(f), AddrLen(f)) + Protocol(f) + L4Len(f)
HeaderVerifies(f) == AllOnes(NetSum(f, L3, HeadLen(f)))
SegmentVerifies(f) ==
  /\ AllOnes(NetSum(f, L4(f), L4Len(f)) + (IF Protocol(f) = IPPROTO.ICMP THEN 0 ELSE PseudoNetSum(f)))
  /\ Protocol(f) = IPPROTO.UDP => Be16(f, L4Check(f)) # 0

(* "Returns 0 on success (was able to calculate all checksums)": a receiver *)
(* that follows RFC 1071 accepts the header and the segment, whatever the   *)
(* byte order checksum() adds in and wherever the segment ends; a segment   *)
(* too short for its own checksum has none.                                 *)
ReceiverAccepts ==
  phase = "done" /\ ret = "CHK_OK" =>
    /\ Version(frame) = 4 => HeaderVerifies(frame)
    /\ L4Check(frame) + 2 <= L4(frame) + L4Len(frame) => SegmentVerifies(frame)

(* checksum() writes checksums and nothing else; of a frame it refuses it   *)
(* has at most made the header right.                                       *)
CheckBytes(f) ==
  (IF Version(f) = 4 THEN {L3Check, L3Check + 1} ELSE {})
    \cup (IF Supported(f) THEN {L4Check(f), L4Check(f) + 1} ELSE {})
OnlyChecksums ==
  /\ \A k \in 0..Len(frame) - 1 : At(frame, k) # At(given, k) => k \in CheckBytes(frame)
  /\ phase = "done" /\ ret # "CHK_OK" /\ frame # given =>
       ret = "CHK_UNSUPPORTED" /\ ~ Supported(frame) /\ HeaderVerifies(frame)

(* A frame that has been through is right: checksum() accepts it again and  *)
(* finds nothing to change, be its UDP checksum the one that is not zero.   *)
Idempotent == calls = 2 /\ phase = "done" => ret = "CHK_OK" /\ frame = given
=============================================================================
