------------------------------ MODULE PacketOps ------------------------------
(***************************************************************************)
(* op_match() and op_write() of operations.c: one operation on one packet. *)
(*                                                                         *)
(* A byte is the set of its one bits, so that masks are intersections.  A  *)
(* world w is what an operation can touch: the packet and the buffers of   *)
(* states and literal values.  An operation is its encoded op_set; `to'    *)
(* and `from' name a buffer, or are NULL for the packet itself.            *)
(***************************************************************************)
EXTENDS Integers, Sequences

CONSTANTS Bit,          \* the bits of a byte
          Buffer,       \* addresses of memref.bytes
          NULL

ASSUME NullIsNoBuffer == NULL \notin Buffer

Byte == SUBSET Bit
Extent == [offt : Int, len : Nat, mask : Byte]
OpSet == [set_to : Extent, to : Buffer \cup {NULL},
          set_from : Extent, from : Buffer \cup {NULL}]
World == [pkt : Seq(Byte), mem : [Buffer -> Seq(Byte)]]
-----------------------------------------------------------------------------
\* A negative offset counts from the end of the packet.
Where(pkt, set) == IF set.offt < 0 THEN set.offt + Len(pkt) ELSE set.offt

\* Defect: the last byte of the extent may lie just behind the packet.
InPacketOffByOne(pkt, set) ==
  /\ Where(pkt, set) >= 0
  /\ Where(pkt, set) + set.len <= Len(pkt) + 1

\* op_pkt_offset() is not NULL.
InPacket(pkt, set) ==
  /\ Where(pkt, set) >= 0
  /\ Where(pkt, set) + set.len <= Len(pkt)

\* op_common(): as many bytes as the longer of the two fields has.
Moved(o) == IF o.set_to.len > o.set_from.len THEN o.set_to.len ELSE o.set_from.len

\* op_common() returns 0: nothing to move, or both operands were located.
Located(o, pkt) ==
  \/ Moved(o) = 0
  \/ /\ o.to = NULL => InPacket(pkt, o.set_to)
     /\ o.from = NULL => InPacket(pkt, o.set_from)
-----------------------------------------------------------------------------
\* The memory an operand lies in, and where in it the operand begins.
Room(w, where) == IF where = NULL THEN w.pkt ELSE w.mem[where]
Base(w, where, set) == IF where = NULL THEN Where(w.pkt, set) ELSE 0

\* What lies outside is never looked at where the operation is Defined.
Load(w, where, set, k) ==
  LET i == Base(w, where, set) + k
  IN IF i \in DOMAIN Room(w, where) THEN Room(w, where)[i] ELSE {}

Patch(bytes, base, new) ==
  [i \in DOMAIN bytes |-> IF i - base \in DOMAIN new THEN new[i - base] ELSE bytes[i]]

Store(w, where, set, new) ==
  IF where = NULL
  THEN [pkt |-> Patch(w.pkt, Where(w.pkt, set), new), mem |-> w.mem]
  ELSE [pkt |-> w.pkt, mem |-> [w.mem EXCEPT ![where] = Patch(@, 0, new)]]

(* The C program gives the operation a meaning: the bytes it moves exist,   *)
(* and memcpy()'s regions, all bytes but the last, do not overlap.          *)
Holds(w, where, set, n) == Base(w, where, set) + n <= Len(Room(w, where))

Overlap(w, o) ==
  /\ o.to = o.from
  /\ LET d == Base(w, o.to, o.set_to) - Base(w, o.from, o.set_from)
     IN d # 0 /\ d < Moved(o) - 1 /\ -d < Moved(o) - 1

Defined(w, o) ==
  Located(o, w.pkt) /\ Moved(o) > 0 =>
     /\ Holds(w, o.to, o.set_to, Moved(o))
     /\ Holds(w, o.from, o.set_from, Moved(o))

\* op_match(): all bytes but the last are compared whole, the last through the masks.
OpMatch(w, o) ==
  /\ Located(o, w.pkt)
  /\ \A k \in 1..Moved(o) - 1 : Load(w, o.to, o.set_to, k) = Load(w, o.from, o.set_from, k)
  /\ Moved(o) > 0 =>
       Load(w, o.to, o.set_to, Moved(o)) \cap o.set_to.mask
         = Load(w, o.from, o.set_from, Moved(o)) \cap o.set_from.mask

\* op_write() copies all bytes but the last ...
Body(w, o) == [k \in 1..Moved(o) - 1 |-> Load(w, o.from, o.set_from, k)]

\* Defect: the bits outside the destination's mask are lost.
LastByteUnmasked(w, o) ==
  [k \in {Moved(o)} |->
     Load(w, o.from, o.set_from, k) \cap o.set_to.mask \cap o.set_from.mask]

\* ... and then merges the last, which it reads where the copy has already been.
LastByte(w, o) ==
  [k \in {Moved(o)} |->
     (Load(w, o.to, o.set_to, k) \ o.set_to.mask)
       \cup (Load(w, o.from, o.set_from, k) \cap o.set_to.mask \cap o.set_from.mask)]

Copied(w, o) == Store(w, o.to, o.set_to, Body(w, o))

\* Defect: the last byte is merged before the others are copied.
MergedFirst(w, o) ==
  LET merged == Store(w, o.to, o.set_to, LastByte(w, o))
  IN IF Moved(o) = 0 THEN w ELSE Store(merged, o.to, o.set_to, Body(merged, o))

OpWrite(w, o) ==
  IF Moved(o) = 0
  THEN w
  ELSE Store(Copied(w, o), o.to, o.set_to, LastByte(Copied(w, o), o))
-----------------------------------------------------------------------------
\* Both sides were checked for as many bytes as are moved.
Even(o) == o.set_to.len = o.set_from.len
=============================================================================
