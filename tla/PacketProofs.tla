---------------------------- MODULE PacketProofs ----------------------------
(* Theorems about PacketOps and PacketEngine, for bytes of any size.       *)
EXTENDS PacketEngine, Induction

-----------------------------------------------------------------------------
(* What op_match() and op_write() read and write, one piece at a time.      *)

(* memcpy() into a region changes bytes of it and not its length. *)
LEMMA PatchTyped ==
  ASSUME NEW bytes \in Seq(Byte), NEW base \in Int, NEW new,
         \A k \in DOMAIN new : new[k] \in Byte
  PROVE  /\ Patch(bytes, base, new) \in Seq(Byte)
         /\ Len(Patch(bytes, base, new)) = Len(bytes)
         /\ DOMAIN Patch(bytes, base, new) = DOMAIN bytes
<1> DEFINE p == Patch(bytes, base, new)
<1>1. Len(bytes) \in Nat /\ DOMAIN bytes = 1..Len(bytes) /\ \A i \in DOMAIN bytes : bytes[i] \in Byte
  OBVIOUS
<1>2. DOMAIN p = 1..Len(bytes)
  BY <1>1 DEF Patch
<1>3. \A i \in 1..Len(bytes) : p[i] \in Byte
  BY <1>1 DEF Patch
<1>4. p = [i \in 1..Len(bytes) |-> p[i]]
  BY <1>1 DEF Patch
<1>5. p \in [1..Len(bytes) -> Byte]
  BY <1>3, <1>4
<1>6. p \in Seq(Byte)
  BY <1>1, <1>5, SeqDef
<1>7. Len(p) = Len(bytes)
  BY <1>1, <1>2, <1>6, LenProperties
<1> QED
  BY <1>1, <1>2, <1>6, <1>7

(* A byte is read, whatever the operand. *)
LEMMA LoadTyped ==
  ASSUME NEW w \in World, NEW where \in Buffer \cup {NULL}, NEW set, NEW k
  PROVE  Load(w, where, set, k) \in Byte
<1>1. w.pkt \in Seq(Byte) /\ \A b \in Buffer : w.mem[b] \in Seq(Byte)
  BY DEF World
<1>2. Room(w, where) \in Seq(Byte)
  BY <1>1, NullIsNoBuffer DEF Room
<1>3. \A i \in DOMAIN Room(w, where) : Room(w, where)[i] \in Byte
  BY <1>2
<1>4. {} \in Byte
  BY DEF Byte
<1> QED
  BY <1>3, <1>4 DEF Load

(* Storing changes one region: the packet, or one buffer, and no length. *)
LEMMA StoreTyped ==
  ASSUME NEW w \in World, NEW where \in Buffer \cup {NULL}, NEW set \in Extent, NEW new,
         \A k \in DOMAIN new : new[k] \in Byte
  PROVE  LET v == Store(w, where, set, new)
         IN /\ v \in World
            /\ Len(v.pkt) = Len(w.pkt)
            /\ \A b \in Buffer : Len(v.mem[b]) = Len(w.mem[b])
<1> DEFINE v == Store(w, where, set, new)
<1>1. w.pkt \in Seq(Byte) /\ w.mem \in [Buffer -> Seq(Byte)]
  BY DEF World
<1>2. Where(w.pkt, set) \in Int
  BY <1>1 DEF Where, Extent
<1>3. CASE where = NULL
  <2>1. v = [pkt |-> Patch(w.pkt, Where(w.pkt, set), new), mem |-> w.mem]
    BY <1>3 DEF Store
  <2>2. Patch(w.pkt, Where(w.pkt, set), new) \in Seq(Byte)
        /\ Len(Patch(w.pkt, Where(w.pkt, set), new)) = Len(w.pkt)
    BY <1>1, <1>2, PatchTyped
  <2> QED
    BY <1>1, <2>1, <2>2 DEF World
<1>4. CASE where # NULL
  <2>1. where \in Buffer /\ w.mem[where] \in Seq(Byte)
    BY <1>1, <1>4
  <2>2. v = [pkt |-> w.pkt, mem |-> [w.mem EXCEPT ![where] = Patch(w.mem[where], 0, new)]]
    BY <1>4 DEF Store
  <2>3. Patch(w.mem[where], 0, new) \in Seq(Byte)
        /\ Len(Patch(w.mem[where], 0, new)) = Len(w.mem[where])
    BY <2>1, PatchTyped
  <2>4. v.mem \in [Buffer -> Seq(Byte)]
    BY <1>1, <2>1, <2>2, <2>3
  <2>5. v \in World /\ v.pkt = w.pkt
    BY <1>1, <2>2, <2>4 DEF World
  <2>6. \A b \in Buffer : v.mem[b] = IF b = where THEN Patch(w.mem[where], 0, new) ELSE w.mem[b]
    BY <1>1, <2>1, <2>2
  <2>7. \A b \in Buffer : Len(v.mem[b]) = Len(w.mem[b])
    BY <2>3, <2>6
  <2> QED
    BY <2>5, <2>7
<1> QED
  BY <1>3, <1>4

LEMMA MovedNat == ASSUME NEW o \in OpSet PROVE Moved(o) \in Nat
  BY DEF Moved, OpSet, Extent

LEMMA BodyTyped ==
  ASSUME NEW w \in World, NEW o \in OpSet
  PROVE  /\ DOMAIN Body(w, o) = 1..Moved(o) - 1
         /\ \A k \in DOMAIN Body(w, o) : Body(w, o)[k] \in Byte
<1>1. o.from \in Buffer \cup {NULL}
  BY DEF OpSet
<1>2. \A k : Load(w, o.from, o.set_from, k) \in Byte
  BY <1>1, LoadTyped
<1> QED
  BY <1>2 DEF Body

LEMMA LastByteTyped ==
  ASSUME NEW w \in World, NEW o \in OpSet
  PROVE  /\ DOMAIN LastByte(w, o) = {Moved(o)}
         /\ \A k \in DOMAIN LastByte(w, o) : LastByte(w, o)[k] \in Byte
<1> DEFINE d == Load(w, o.to, o.set_to, Moved(o))
           s == Load(w, o.from, o.set_from, Moved(o))
<1>1. d \in Byte /\ s \in Byte
  BY LoadTyped DEF OpSet
<1>2. (d \ o.set_to.mask) \cup (s \cap o.set_to.mask \cap o.set_from.mask) \in Byte
  BY <1>1 DEF Byte
<1>3. LastByte(w, o) = [k \in {Moved(o)} |->
        (Load(w, o.to, o.set_to, k) \ o.set_to.mask)
          \cup (Load(w, o.from, o.set_from, k) \cap o.set_to.mask \cap o.set_from.mask)]
  BY DEF LastByte
<1>4. DOMAIN LastByte(w, o) = {Moved(o)}
  BY <1>3
<1>5. LastByte(w, o)[Moved(o)]
        = (d \ o.set_to.mask) \cup (s \cap o.set_to.mask \cap o.set_from.mask)
  BY <1>3
<1> QED
  BY <1>2, <1>4, <1>5

(* After memcpy() all is as long as it was. *)
LEMMA CopiedTyped ==
  ASSUME NEW w \in World, NEW o \in OpSet
  PROVE  /\ Copied(w, o) \in World
         /\ Len(Copied(w, o).pkt) = Len(w.pkt)
         /\ \A b \in Buffer : Len(Copied(w, o).mem[b]) = Len(w.mem[b])
<1>1. o.to \in Buffer \cup {NULL} /\ o.set_to \in Extent
  BY DEF OpSet
<1>2. \A k \in DOMAIN Body(w, o) : Body(w, o)[k] \in Byte
  BY BodyTyped
<1> DEFINE new == Body(w, o)
<1>3. \A k \in DOMAIN new : new[k] \in Byte
  BY <1>2
<1> HIDE DEF new
<1>4. LET v == Store(w, o.to, o.set_to, new)
      IN /\ v \in World
         /\ Len(v.pkt) = Len(w.pkt)
         /\ \A b \in Buffer : Len(v.mem[b]) = Len(w.mem[b])
  BY <1>1, <1>3, StoreTyped
<1> QED
  BY <1>4 DEF Copied, new

(* op_write() leaves the packet and every buffer as long as they were. *)
LEMMA OpWriteTyped ==
  ASSUME NEW w \in World, NEW o \in OpSet
  PROVE  /\ OpWrite(w, o) \in World
         /\ Len(OpWrite(w, o).pkt) = Len(w.pkt)
         /\ \A b \in Buffer : Len(OpWrite(w, o).mem[b]) = Len(w.mem[b])
<1>1. CASE Moved(o) = 0
  BY <1>1 DEF OpWrite
<1>2. CASE Moved(o) # 0
  <2> DEFINE c == Copied(w, o)
             new == LastByte(c, o)
  <2>1. /\ c \in World
        /\ Len(c.pkt) = Len(w.pkt)
        /\ \A b \in Buffer : Len(c.mem[b]) = Len(w.mem[b])
    BY CopiedTyped
  <2>2. OpWrite(w, o) = Store(c, o.to, o.set_to, new)
    BY <1>2 DEF OpWrite
  <2>3. o.to \in Buffer \cup {NULL} /\ o.set_to \in Extent
    BY DEF OpSet
  <2> HIDE DEF c
  <2>4. \A k \in DOMAIN new : new[k] \in Byte
    BY <2>1, LastByteTyped
  <2> HIDE DEF new
  <2>5. LET v == Store(c, o.to, o.set_to, new)
        IN /\ v \in World
           /\ Len(v.pkt) = Len(c.pkt)
           /\ \A b \in Buffer : Len(v.mem[b]) = Len(c.mem[b])
    BY <2>1, <2>3, <2>4, StoreTyped
  <2> QED
    BY <2>1, <2>2, <2>5
<1> QED
  BY <1>1, <1>2

(* op_write() to the packet, byte by byte. *)
LEMMA WrittenPacket ==
  ASSUME NEW w \in World, NEW o \in OpSet, o.to = NULL, Moved(o) > 0, NEW i \in DOMAIN w.pkt
  PROVE  LET k == i - Where(w.pkt, o.set_to)
             n == Moved(o)
         IN /\ OpWrite(w, o).mem = w.mem
            /\ k = n => OpWrite(w, o).pkt[i] =
                 (w.pkt[i] \ o.set_to.mask)
                   \cup (Load(Copied(w, o), o.from, o.set_from, n) \cap o.set_to.mask \cap o.set_from.mask)
            /\ k \in 1..n - 1 => OpWrite(w, o).pkt[i] = Load(w, o.from, o.set_from, k)
            /\ k \notin 1..n => OpWrite(w, o).pkt[i] = w.pkt[i]
<1> DEFINE b == Where(w.pkt, o.set_to)
           n == Moved(o)
           c == Copied(w, o)
           body == Body(w, o)
           last == LastByte(c, o)
<1>1. w.pkt \in Seq(Byte) /\ c \in World /\ c.pkt \in Seq(Byte) /\ Len(c.pkt) = Len(w.pkt)
  BY CopiedTyped DEF World
<1>2. b \in Int /\ Where(c.pkt, o.set_to) = b
  BY <1>1 DEF Where, OpSet, Extent
<1>3. n \in Nat /\ n > 0
  BY MovedNat
<1>4. DOMAIN body = 1..n - 1 /\ DOMAIN last = {n}
  BY <1>1, BodyTyped, LastByteTyped
<1>5. c.pkt = Patch(w.pkt, b, body) /\ c.mem = w.mem
  BY DEF Copied, Store
<1>6. OpWrite(w, o) = Store(c, o.to, o.set_to, last)
  BY <1>3 DEF OpWrite
<1>7. OpWrite(w, o).pkt = Patch(c.pkt, b, last) /\ OpWrite(w, o).mem = w.mem
  BY <1>2, <1>5, <1>6 DEF Store
<1>8. DOMAIN c.pkt = DOMAIN w.pkt /\ i \in Int
  BY <1>1
<1>9. c.pkt[i] = IF i - b \in 1..n - 1 THEN body[i - b] ELSE w.pkt[i]
  BY <1>4, <1>5 DEF Patch
<1>10. OpWrite(w, o).pkt[i] = IF i - b \in {n} THEN last[i - b] ELSE c.pkt[i]
  BY <1>4, <1>7, <1>8 DEF Patch
<1>11. i - b \in 1..n - 1 => body[i - b] = Load(w, o.from, o.set_from, i - b)
  BY DEF Body
<1>12. ASSUME i - b = n
       PROVE  last[i - b] = (w.pkt[i] \ o.set_to.mask)
                \cup (Load(c, o.from, o.set_from, n) \cap o.set_to.mask \cap o.set_from.mask)
  <2>1. i - b \notin 1..n - 1
    BY <1>2, <1>3, <1>8, <1>12
  <2>2. c.pkt[i] = w.pkt[i]
    BY <1>9, <2>1
  <2>3. Base(c, o.to, o.set_to) + n = i
    BY <1>2, <1>3, <1>8, <1>12 DEF Base
  <2>4. Load(c, o.to, o.set_to, n) = w.pkt[i]
    BY <1>8, <2>2, <2>3 DEF Load, Room
  <2> QED
    BY <1>12, <2>4 DEF LastByte
<1> QED
  BY <1>2, <1>3, <1>7, <1>8, <1>9, <1>10, <1>11, <1>12

(* op_write() and op_match() agree: a field of the packet that was written  *)
(* from a state or a value, through equal masks, matches it afterwards.     *)
THEOREM WrittenThenMatches ==
  ASSUME NEW w \in World, NEW o \in OpSet,
         o.to = NULL, o.from # NULL, Even(o), o.set_to.mask = o.set_from.mask,
         Located(o, w.pkt)
  PROVE  OpMatch(OpWrite(w, o), o)
<1> DEFINE b == Where(w.pkt, o.set_to)
           n == Moved(o)
           v == OpWrite(w, o)
           mask == o.set_to.mask
<1>1. w.pkt \in Seq(Byte) /\ v \in World /\ v.pkt \in Seq(Byte) /\ Len(v.pkt) = Len(w.pkt)
  BY OpWriteTyped DEF World
<1>2. b \in Int /\ Where(v.pkt, o.set_to) = b
  BY <1>1 DEF Where, OpSet, Extent
<1>3. n \in Nat /\ o.set_to.len = n /\ o.set_to.len \in Nat
  BY MovedNat DEF Even, Moved, OpSet, Extent
<1>4. Located(o, v.pkt)
  BY <1>1, <1>2 DEF Located, InPacket
<1>5. CASE n = 0
  BY <1>4, <1>5 DEF OpMatch
<1>6. CASE n > 0
  <2>1. b >= 0 /\ b + n <= Len(w.pkt)
    BY <1>3, <1>6 DEF Located, InPacket
  <2>2. ASSUME NEW k \in 1..n
        PROVE  /\ b + k \in DOMAIN w.pkt /\ b + k \in DOMAIN v.pkt
               /\ Load(v, o.to, o.set_to, k) = v.pkt[b + k]
    <3>1. b + k \in DOMAIN w.pkt /\ b + k \in DOMAIN v.pkt
      BY <1>1, <1>2, <1>3, <2>1
    <3> QED
      BY <1>2, <3>1 DEF Load, Room, Base
  <2>3. v.mem = w.mem /\ Copied(w, o).mem = w.mem
    <3>1. b + 1 \in DOMAIN w.pkt
      BY <1>3, <1>6, <2>2
    <3>2. v.mem = w.mem
      BY <1>6, <3>1, WrittenPacket
    <3> QED
      BY <3>2 DEF Copied, Store
  <2>4. \A k : /\ Load(v, o.from, o.set_from, k) = Load(w, o.from, o.set_from, k)
               /\ Load(Copied(w, o), o.from, o.set_from, k) = Load(w, o.from, o.set_from, k)
    BY <2>3 DEF Load, Room, Base
  <2>5. ASSUME NEW k \in 1..n - 1
        PROVE  Load(v, o.to, o.set_to, k) = Load(v, o.from, o.set_from, k)
    <3>1. k \in 1..n /\ (b + k) - b = k /\ k > 0
      BY <1>2, <1>3
    <3>2. v.pkt[b + k] = Load(w, o.from, o.set_from, k)
      BY <1>6, <2>2, <3>1, WrittenPacket
    <3> QED
      BY <2>2, <2>4, <3>1, <3>2
  <2>6. Load(v, o.to, o.set_to, n) \cap mask = Load(v, o.from, o.set_from, n) \cap mask
    <3>1. n \in 1..n /\ (b + n) - b = n
      BY <1>2, <1>3, <1>6
    <3>2. v.pkt[b + n] = (w.pkt[b + n] \ mask)
            \cup (Load(Copied(w, o), o.from, o.set_from, n) \cap mask \cap mask)
      BY <1>6, <2>2, <3>1, WrittenPacket
    <3>3. v.pkt[b + n] \cap mask = Load(w, o.from, o.set_from, n) \cap mask
      BY <2>4, <3>2
    <3> QED
      BY <2>2, <2>4, <3>1, <3>3
  <2> QED
    BY <1>4, <2>5, <2>6 DEF OpMatch
<1> QED
  BY <1>3, <1>5, <1>6
-----------------------------------------------------------------------------
(* The engine.  Buffers keep the lengths they were allocated with, so every *)
(* operation finds in memory what its own fields need.                      *)
EngineInv ==
  /\ EngineTypeOK
  /\ \A o \in OpsOf(routs) : Fits(o, mem)

(* The operation that is next is one of the process. *)
LEMMA NextOpKnown ==
  ASSUME EngineTypeOK, NEW o \in NextOp
  PROVE  o \in OpSet /\ o \in OpsOf(routs)
<1>1. CASE Matching /\ pos <= Len(MatchQ)
  <2>1. rst \in DOMAIN routs /\ routs[rst] \in Route
    BY <1>1 DEF EngineTypeOK, Matching
  <2>2. MatchQ \in Seq(OpSet) /\ pos \in DOMAIN MatchQ /\ o = MatchQ[pos]
    BY <1>1, <2>1 DEF EngineTypeOK, MatchQ, Route, NextOp
  <2>3. o \in Range(routs[rst].match) /\ o \in OpSet
    BY <2>2 DEF MatchQ, Range
  <2> QED
    BY <2>1, <2>3 DEF OpsOf
<1>2. CASE ~ (Matching /\ pos <= Len(MatchQ)) /\ phase = "write" /\ pos <= Len(WriteQ)
  <2>1. rst \in DOMAIN routs /\ routs[rst] \in Route
    BY <1>2 DEF EngineTypeOK
  <2>2. WriteQ \in Seq(OpSet) /\ pos \in DOMAIN WriteQ /\ o = WriteQ[pos]
    BY <1>2, <2>1 DEF EngineTypeOK, WriteQ, Route, NextOp
  <2>3. o \in Range(routs[rst].write) /\ o \in OpSet
    BY <2>2 DEF WriteQ, Range
  <2> QED
    BY <2>1, <2>3 DEF OpsOf
<1> QED
  BY <1>1, <1>2 DEF NextOp

LEMMA EngineInitInv == Init => EngineInv
<1> SUFFICES ASSUME Init PROVE EngineInv
  OBVIOUS
<1>1. routs \in Seq(Route) /\ Len(routs) \in Nat
  BY ProcessesAreRoutes DEF Init
<1>2. mem \in [Buffer -> Seq(Byte)] /\ pkt = <<>> /\ pkt \in Seq(Byte)
  BY ContentsAreBytes DEF Init
<1>3. W \in World /\ [pkt |-> given.pkt, mem |-> given.mem] \in World
  BY <1>2 DEF Init, W, World
<1>4. count \in [Counter -> Nat]
  BY DEF Init
<1>5. DOMAIN count_match = DOMAIN routs /\ \A k \in DOMAIN routs : count_match[k] \in Nat
  BY DEF Init
<1>6. EngineTypeOK
  BY <1>1, <1>2, <1>3, <1>4, <1>5 DEF Init, EngineTypeOK, Phase
<1> QED
  BY <1>6, BuffersFit DEF Init, EngineInv

LEMMA CountTyped ==
  ASSUME count \in [Counter -> Nat], NEW c \in Counter, Count(c)
  PROVE  count' \in [Counter -> Nat]
  BY DEF Count

(* Back to epoll. *)
LEMMA DoneKeepsInv ==
  ASSUME EngineInv, Done, count' \in [Counter -> Nat]
  PROVE  EngineInv'
<1>1. W' \in World
  BY DEF EngineInv, EngineTypeOK, Done, W, World
<1>2. [pkt |-> given'.pkt, mem |-> given'.mem] \in World
  BY DEF EngineInv, EngineTypeOK, Done, W, World
<1>3. EngineTypeOK'
  BY <1>1, <1>2 DEF EngineInv, EngineTypeOK, Done, Phase
<1> QED
  BY <1>3 DEF EngineInv, Done

(* A step that leaves process, packet, memory and counts alone. *)
LEMMA StayKeepsInv ==
  ASSUME EngineInv, UNCHANGED <<routs, mem, pkt, count_match, count, given>>,
         phase' \in Phase, rst' \in 1..Len(routs) + 1, pos' \in Nat \ {0},
         phase' # "idle", phase' = "write" => rst' <= Len(routs)
  PROVE  EngineInv'
<1>1. W' = W
  BY DEF W
<1>2. EngineTypeOK'
  BY <1>1 DEF EngineInv, EngineTypeOK
<1> QED
  BY <1>2 DEF EngineInv

(* One operation keeps the buffers as long as they are. *)
LEMMA WriteOpKeepsInv == EngineInv /\ WriteOp => EngineInv'
<1> SUFFICES ASSUME EngineInv, WriteOp PROVE EngineInv'
  OBVIOUS
<1> DEFINE o == WriteQ[pos]
           v == OpWrite(W, o)
<1>1. o \in OpSet
  <2>1. ~ Matching /\ o \in NextOp
    BY DEF WriteOp, Matching, NextOp
  <2> QED
    BY <2>1, NextOpKnown DEF EngineInv
<1>2. W \in World
  BY DEF EngineInv, EngineTypeOK
<1>3. v \in World /\ \A b \in Buffer : Len(v.mem[b]) = Len(mem[b])
  BY <1>1, <1>2, OpWriteTyped DEF W
<1>4. pkt' = v.pkt /\ mem' = v.mem
  BY DEF WriteOp
<1>5. W' \in World
  BY <1>3, <1>4 DEF W, World
<1>6. pos' \in Nat \ {0}
  BY DEF WriteOp, EngineInv, EngineTypeOK
<1>7. EngineTypeOK'
  BY <1>5, <1>6 DEF WriteOp, EngineInv, EngineTypeOK
<1>8. OpsOf(routs)' = OpsOf(routs)
  BY DEF WriteOp, OpsOf
<1>9. ASSUME NEW p \in OpsOf(routs) PROVE Fits(p, mem')
  <2>1. Fits(p, mem)
    BY DEF EngineInv
  <2>2. p.to \in Buffer \cup {NULL} /\ p.from \in Buffer \cup {NULL}
    <3>1. PICK k \in DOMAIN routs : p \in Range(routs[k].match) \cup Range(routs[k].write)
      BY DEF OpsOf
    <3>2. routs[k].match \in Seq(OpSet) /\ routs[k].write \in Seq(OpSet)
      <4>1. routs \in Seq(Route)
        BY DEF EngineInv, EngineTypeOK
      <4>2. routs[k] \in Route
        BY <4>1
      <4> QED
        BY <4>2 DEF Route
    <3>3. p \in OpSet
      BY <3>1, <3>2 DEF Range
    <3> QED
      BY <3>3 DEF OpSet
  <2> QED
    BY <1>3, <1>4, <2>1, <2>2 DEF Fits
<1> QED
  BY <1>7, <1>8, <1>9 DEF EngineInv

LEMMA EngineNextInv == EngineInv /\ [Next]_vars => EngineInv'
<1> SUFFICES ASSUME EngineInv, [Next]_vars PROVE EngineInv'
  OBVIOUS
<1> USE DEF Counter
<1>0. count \in [Counter -> Nat] /\ rst \in 1..Len(routs) + 1 /\ Len(routs) \in Nat /\ pos \in Nat \ {0}
  BY DEF EngineInv, EngineTypeOK
<1>1. ASSUME NEW p \in Packet, Receive(p) PROVE EngineInv'
  <2>1. p \in Seq(Byte)
    BY FramesAreBytes
  <2>2. W' \in World /\ [pkt |-> given'.pkt, mem |-> given'.mem] \in World
    BY <1>1, <2>1 DEF Receive, EngineInv, EngineTypeOK, W, World
  <2>3. count' \in [Counter -> Nat]
    BY <1>0, <1>1, CountTyped DEF Receive
  <2>4. EngineTypeOK'
    BY <1>1, <2>2, <2>3 DEF Receive, EngineInv, EngineTypeOK, Phase
  <2> QED
    BY <1>1, <2>4 DEF Receive, EngineInv
<1>2. CASE SeeOutgoing
  <2>1. count' \in [Counter -> Nat]
    BY <1>0, <1>2, CountTyped DEF SeeOutgoing
  <2>2. W' = W
    BY <1>2 DEF SeeOutgoing, W
  <2>3. EngineTypeOK'
    BY <1>2, <2>1, <2>2 DEF SeeOutgoing, EngineInv, EngineTypeOK
  <2> QED
    BY <1>2, <2>3 DEF SeeOutgoing, EngineInv
<1>3. CASE Unmatched
  BY <1>0, <1>3, CountTyped, DoneKeepsInv DEF Unmatched
<1>4. CASE MatchOp
  <2>1. phase' = "match" /\ UNCHANGED <<routs, mem, pkt, count_match, count, given>>
    BY <1>4 DEF MatchOp, Matching
  <2>2. rst' \in 1..Len(routs) + 1 /\ pos' \in Nat \ {0}
    BY <1>0, <1>4 DEF MatchOp, Matching
  <2> QED
    BY <2>1, <2>2, StayKeepsInv DEF Phase
<1>5. CASE Matched
  <2>1. W' = W
    BY <1>5 DEF Matched, W
  <2>2. DOMAIN count_match' = DOMAIN routs /\ \A k \in DOMAIN routs : count_match'[k] \in Nat
    BY <1>5 DEF Matched, EngineInv, EngineTypeOK
  <2>3. rst' <= Len(routs') /\ phase' = "write" /\ pos' = 1
    BY <1>5 DEF Matched, Matching
  <2>4. EngineTypeOK'
    BY <1>5, <2>1, <2>2, <2>3 DEF Matched, EngineInv, EngineTypeOK, Phase
  <2> QED
    BY <1>5, <2>4 DEF Matched, EngineInv
<1>6. CASE WriteOp
  BY <1>6, WriteOpKeepsInv
<1>7. CASE WriteFails
  BY <1>0, <1>7, CountTyped, DoneKeepsInv DEF WriteFails
<1>8. CASE Undefined
  <2>1. phase' = "undefined" /\ UNCHANGED <<routs, mem, pkt, rst, pos, count_match, count, given>>
    BY <1>8 DEF Undefined
  <2> QED
    BY <1>0, <2>1, StayKeepsInv DEF Phase
<1>9. CASE OutputFails
  BY <1>0, <1>9, CountTyped, DoneKeepsInv DEF OutputFails
<1>10. CASE Output
  BY <1>0, <1>10, CountTyped, DoneKeepsInv DEF Output
<1>11. CASE UNCHANGED vars
  <2>1. W' = W
    BY <1>11 DEF vars, W
  <2>2. EngineTypeOK'
    BY <1>11, <2>1 DEF vars, EngineInv, EngineTypeOK
  <2> QED
    BY <1>11, <2>2 DEF vars, EngineInv
<1> QED
  BY <1>1, <1>2, <1>3, <1>4, <1>5, <1>6, <1>7, <1>8, <1>9, <1>10, <1>11 DEF Next, Handling

(* The packet path from Init through every action: types, and buffers as     *)
(* long as the operations on them need.                                     *)
THEOREM EngineSafe == Spec => []EngineInv
<1>1. Init => EngineInv
  BY EngineInitInv
<1>2. EngineInv /\ [Next]_vars => EngineInv'
  BY EngineNextInv
<1> QED
  BY <1>1, <1>2, PTL DEF Spec

(* Every reachable state of the engine is well typed: in particular no      *)
(* operation changes the length of the packet's or a state's bytes.         *)
THEOREM EngineTypes == Spec => []EngineTypeOK
<1>1. EngineInv => EngineTypeOK
  BY DEF EngineInv
<1> QED
  BY <1>1, EngineSafe, PTL

(* op_pkt_offset() is check enough for every operation whose fields have    *)
(* the same length, on packets of every length.                             *)
THEOREM EvenOperationsDefined == Spec => []DefinedWhenEven
<1>1. EngineInv => DefinedWhenEven
  <2> SUFFICES ASSUME EngineInv, NEW o \in NextOp, Even(o), Located(o, pkt), Moved(o) > 0
               PROVE  Holds(W, o.to, o.set_to, Moved(o)) /\ Holds(W, o.from, o.set_from, Moved(o))
    BY DEF DefinedWhenEven, Defined, W
  <2>1. o \in OpSet /\ Fits(o, mem)
    BY NextOpKnown DEF EngineInv
  <2>2. o.set_to.len = Moved(o) /\ o.set_from.len = Moved(o) /\ Moved(o) \in Nat
    BY <2>1, MovedNat DEF Even, Moved, OpSet, Extent
  <2>3. Holds(W, o.to, o.set_to, Moved(o))
    <3>1. CASE o.to = NULL
      BY <2>2, <3>1 DEF Located, InPacket, Holds, Base, Room, W
    <3>2. CASE o.to # NULL
      BY <2>1, <2>2, <3>2 DEF Fits, Holds, Base, Room, W
    <3> QED
      BY <3>1, <3>2
  <2>4. Holds(W, o.from, o.set_from, Moved(o))
    <3>1. CASE o.from = NULL
      BY <2>2, <3>1 DEF Located, InPacket, Holds, Base, Room, W
    <3>2. CASE o.from # NULL
      BY <2>1, <2>2, <3>2 DEF Fits, Holds, Base, Room, W
    <3> QED
      BY <3>1, <3>2
  <2> QED
    BY <2>3, <2>4
<1> QED
  BY <1>1, EngineSafe, PTL

(* op_write() changes its destination only, and of its last byte only what  *)
(* the destination's mask covers.                                           *)
LEMMA EvenWriteLocal ==
  ASSUME EngineInv, WriteOp, NEW o \in NextOp, Even(o)
  PROVE  WritesOnly(o)
<1> DEFINE v == OpWrite(W, o)
           b == Where(pkt, o.set_to)
           n == Moved(o)
<1>1. o \in OpSet /\ W \in World /\ pkt \in Seq(Byte)
  BY NextOpKnown DEF EngineInv, EngineTypeOK, W, World
<1>2. pkt' = v.pkt /\ mem' = v.mem
  BY DEF WriteOp, NextOp, Matching
<1>3. n \in Nat /\ o.set_to.len = n /\ b \in Int
  BY <1>1, MovedNat DEF Even, Moved, OpSet, Extent, Where
<1>4. v.pkt \in Seq(Byte) /\ DOMAIN v.pkt = DOMAIN pkt
  BY <1>1, OpWriteTyped DEF W, World
<1>5. CASE n = 0
  <2>1. v = W
    BY <1>5 DEF OpWrite
  <2> QED
    BY <1>2, <2>1 DEF WritesOnly, W
<1>6. CASE n > 0 /\ o.to = NULL
  <2>1. mem' = mem
    <3>1. OpWrite(W, o).mem = W.mem
      BY <1>3, <1>6 DEF OpWrite, Copied, Store
    <3> QED
      BY <1>2, <3>1 DEF W
  <2>2. ASSUME NEW i \in DOMAIN pkt
        PROVE  /\ pkt'[i] # pkt[i] => i \in DstBytes(o)
               /\ i \in DstBytes(o) /\ i = DstLast(o) =>
                    pkt'[i] \ o.set_to.mask = pkt[i] \ o.set_to.mask
    <3>1. i \in DOMAIN W.pkt /\ W.pkt = pkt /\ i \in Int
      BY <1>1 DEF W
    <3>2. CASE i - b \notin 1..n
      <4>1. pkt'[i] = pkt[i]
        BY <1>1, <1>2, <1>6, <3>1, <3>2, WrittenPacket
      <4> QED
        BY <4>1
    <3>3. CASE i - b \in 1..n - 1
      <4>1. i \in DstBytes(o) /\ i # DstLast(o)
        BY <1>3, <1>6, <3>1, <3>3 DEF DstBytes, DstLast
      <4> QED
        BY <4>1
    <3>4. CASE i - b = n
      <4>1. i \in DstBytes(o)
        BY <1>3, <1>6, <3>1, <3>4 DEF DstBytes
      <4> DEFINE s == Load(Copied(W, o), o.from, o.set_from, n)
      <4>2. pkt'[i] = (pkt[i] \ o.set_to.mask)
                        \cup (s \cap o.set_to.mask \cap o.set_from.mask)
        BY <1>1, <1>2, <1>6, <3>1, <3>4, WrittenPacket
      <4> QED
        BY <4>1, <4>2
    <3> QED
      BY <1>3, <3>1, <3>2, <3>3, <3>4
  <2> QED
    BY <1>2, <1>4, <2>1, <2>2 DEF WritesOnly
<1>7. CASE n > 0 /\ o.to # NULL
  <2>1. o.to \in Buffer
    BY <1>1, <1>7 DEF OpSet
  <2>2. Copied(W, o).pkt = pkt /\ \A a \in Buffer : a # o.to => Copied(W, o).mem[a] = mem[a]
    BY <1>1, <1>7 DEF Copied, Store, W, World
  <2>3. Copied(W, o) \in World
    BY <1>1, CopiedTyped
  <2>4. v.pkt = pkt /\ \A a \in Buffer : a # o.to => v.mem[a] = mem[a]
    BY <1>7, <2>2, <2>3 DEF OpWrite, Store, World
  <2> QED
    BY <1>2, <2>4 DEF WritesOnly
<1> QED
  BY <1>3, <1>5, <1>6, <1>7

(* A step of the engine between two operations changes only what it may.    *)
THEOREM EngineWritesOnlyDst == Spec => EvenWritesOnlyDst
<1>1. EngineInv /\ [Next]_vars =>
        [phase = "write" /\ phase' = "write" => \A o \in NextOp : Even(o) => WritesOnly(o)]_vars
  <2> SUFFICES ASSUME EngineInv, Next, phase = "write", phase' = "write",
                      NEW o \in NextOp, Even(o)
               PROVE  WritesOnly(o)
    OBVIOUS
  <2>1. WriteOp
    BY DEF Next, Handling, Receive, SeeOutgoing, Unmatched, MatchOp, Matched, Matching,
           WriteFails, Undefined, OutputFails, Output, Done
  <2> QED
    BY <2>1, EvenWriteLocal
<1> QED
  BY <1>1, EngineSafe, PTL DEF Spec, EvenWritesOnlyDst

(* op_write() reads the last byte of its source after the copy, and still   *)
(* finds it as it was, unless that is one of the bytes the copy writes.     *)
LEMMA WriteTakesSource ==
  ASSUME NEW w \in World, NEW o \in OpSet, Moved(o) > 0,
         o.to = NULL => InPacket(w.pkt, o.set_to),
         Holds(w, o.to, o.set_to, Moved(o)),
         o.to = o.from =>
           Base(w, o.to, o.set_to) - Base(w, o.from, o.set_from) \notin 1..Moved(o) - 1
  PROVE  LET v == OpWrite(w, o)
         IN /\ \A k \in 1..Moved(o) - 1 :
                 Load(v, o.to, o.set_to, k) = Load(w, o.from, o.set_from, k)
            /\ Load(v, o.to, o.set_to, Moved(o)) \cap o.set_to.mask
                 = Load(w, o.from, o.set_from, Moved(o)) \cap o.set_from.mask \cap o.set_to.mask
<1> DEFINE v == OpWrite(w, o)
           n == Moved(o)
           c == Copied(w, o)
           body == Body(w, o)
           last == LastByte(c, o)
           b == Base(w, o.to, o.set_to)
           f == Base(w, o.from, o.set_from)
<1>1. /\ o.to \in Buffer \cup {NULL} /\ o.set_to \in Extent
      /\ o.from \in Buffer \cup {NULL} /\ o.set_from \in Extent
  BY DEF OpSet
<1>2. w.pkt \in Seq(Byte) /\ w.mem \in [Buffer -> Seq(Byte)] /\ c \in World
  BY CopiedTyped DEF World
<1>3. n \in Nat /\ n > 0 /\ b \in Nat /\ f \in Int
  <2>1. n \in Nat
    BY MovedNat
  <2>2. Where(w.pkt, o.set_to) \in Int /\ Where(w.pkt, o.set_from) \in Int
    BY <1>1, <1>2 DEF Where, Extent
  <2> QED
    BY <2>1, <2>2 DEF Base, InPacket
<1>4. Room(w, o.to) \in Seq(Byte) /\ b + n <= Len(Room(w, o.to))
  BY <1>1, <1>2 DEF Room, Holds
<1>5. \A k \in 1..n : b + k \in DOMAIN Room(w, o.to) /\ (b + k) - b = k
  BY <1>3, <1>4
<1>6. /\ DOMAIN body = 1..n - 1 /\ \A k \in DOMAIN body : body[k] \in Byte
      /\ DOMAIN last = {n} /\ \A k \in DOMAIN last : last[k] \in Byte
  BY <1>2, BodyTyped, LastByteTyped
<1>7. c = Store(w, o.to, o.set_to, body) /\ v = Store(c, o.to, o.set_to, last)
  BY <1>3 DEF Copied, OpWrite
<1>8. \A k \in 1..n - 1 : body[k] = Load(w, o.from, o.set_from, k)
  BY DEF Body
<1>9. last[n] = (Load(c, o.to, o.set_to, n) \ o.set_to.mask)
                  \cup (Load(c, o.from, o.set_from, n) \cap o.set_to.mask \cap o.set_from.mask)
  BY DEF LastByte
<1> HIDE DEF body, last, c, v, b, f, n
<1>10. Len(c.pkt) = Len(w.pkt) /\ Len(v.pkt) = Len(c.pkt)
  BY CopiedTyped, OpWriteTyped DEF c, v
<1>11. /\ Base(c, o.to, o.set_to) = b /\ Base(c, o.from, o.set_from) = f
       /\ Room(c, o.to) = Patch(Room(w, o.to), b, body)
       /\ o.from # o.to => Room(c, o.from) = Room(w, o.from)
  <2>1. /\ Base(c, o.to, o.set_to) = Base(w, o.to, o.set_to)
        /\ Base(c, o.from, o.set_from) = Base(w, o.from, o.set_from)
    BY <1>10 DEF Base, Where
  <2>2. Room(c, o.to) = Patch(Room(w, o.to), Base(w, o.to, o.set_to), body)
    BY <1>1, <1>2, <1>7, NullIsNoBuffer DEF Store, Room, Base
  <2>3. o.from # o.to => Room(c, o.from) = Room(w, o.from)
    BY <1>1, <1>2, <1>7, NullIsNoBuffer DEF Store, Room
  <2> QED
    BY <2>1, <2>2, <2>3 DEF b, f
<1>12. Base(v, o.to, o.set_to) = b /\ Room(v, o.to) = Patch(Room(c, o.to), b, last)
  <2>1. c.mem \in [Buffer -> Seq(Byte)]
    BY <1>2 DEF World
  <2>2. Base(v, o.to, o.set_to) = Base(c, o.to, o.set_to)
    BY <1>10 DEF Base, Where
  <2>3. Room(v, o.to) = Patch(Room(c, o.to), Base(c, o.to, o.set_to), last)
    BY <1>1, <1>7, <2>1, NullIsNoBuffer DEF Store, Room, Base
  <2> QED
    BY <1>11, <2>2, <2>3
<1>13. \A k \in 1..n :
         Load(v, o.to, o.set_to, k) =
           IF k = n THEN last[n] ELSE body[k]
  <2>1. DOMAIN Room(c, o.to) = DOMAIN Room(w, o.to) /\ DOMAIN Room(v, o.to) = DOMAIN Room(w, o.to)
    BY <1>11, <1>12 DEF Patch
  <2> SUFFICES ASSUME NEW k \in 1..n
               PROVE  Load(v, o.to, o.set_to, k) = IF k = n THEN last[n] ELSE body[k]
    OBVIOUS
  <2>2. b + k \in DOMAIN Room(w, o.to) /\ (b + k) - b = k
    BY <1>5
  <2>3. Load(v, o.to, o.set_to, k) = Room(v, o.to)[b + k]
    BY <1>12, <2>1, <2>2 DEF Load
  <2>4. Room(v, o.to)[b + k] = IF k \in {n} THEN last[k] ELSE Room(c, o.to)[b + k]
    BY <1>6, <1>12, <2>1, <2>2 DEF Patch
  <2>5. Room(c, o.to)[b + k] = IF k \in 1..n - 1 THEN body[k] ELSE Room(w, o.to)[b + k]
    BY <1>6, <1>11, <2>2 DEF Patch
  <2> QED
    BY <1>3, <2>3, <2>4, <2>5
<1>14. Load(c, o.from, o.set_from, n) = Load(w, o.from, o.set_from, n)
  <2>1. CASE o.from # o.to
    BY <1>11, <2>1 DEF Load, f
  <2>2. CASE o.from = o.to
    <3>1. b - f \notin 1..n - 1
      BY <2>2 DEF b, f, n
    <3>2. (f + n) - b \notin 1..n - 1
      BY <1>3, <3>1
    <3>3. DOMAIN Room(c, o.from) = DOMAIN Room(w, o.from)
      BY <1>11, <2>2 DEF Patch
    <3>4. f + n \in DOMAIN Room(w, o.from) => Room(c, o.from)[f + n] = Room(w, o.from)[f + n]
      BY <1>6, <1>11, <2>2, <3>2 DEF Patch
    <3> QED
      BY <1>11, <3>3, <3>4 DEF Load, f
  <2> QED
    BY <2>1, <2>2
<1>15. ASSUME NEW k \in 1..n - 1
       PROVE  Load(v, o.to, o.set_to, k) = Load(w, o.from, o.set_from, k)
  <2>1. k \in 1..n /\ k # n
    BY <1>3
  <2> QED
    BY <1>8, <1>13, <2>1
<1>16. Load(v, o.to, o.set_to, n) \cap o.set_to.mask
         = Load(w, o.from, o.set_from, n) \cap o.set_from.mask \cap o.set_to.mask
  <2>1. n \in 1..n
    BY <1>3
  <2>2. Load(v, o.to, o.set_to, n) = last[n]
    BY <1>13, <2>1
  <2> QED
    BY <1>9, <1>14, <2>2
<1> QED
  BY <1>15, <1>16 DEF v, n

(* A write between fields of equal length puts into its destination what    *)
(* the source held before, although op_write() merges the last byte after   *)
(* it has copied the others.                                                *)
THEOREM EngineWritesTakeSource == Spec => EvenWritesTakeSource
<1>1. EngineInv /\ [Next]_vars =>
        [phase = "write" /\ phase' = "write" =>
           \A o \in NextOp : Even(o) /\ SourceStays(o) => TakesSource(o)]_vars
  <2> SUFFICES ASSUME EngineInv, Next, phase = "write", phase' = "write",
                      NEW o \in NextOp, Even(o), SourceStays(o)
               PROVE  TakesSource(o)
    OBVIOUS
  <2>1. WriteOp
    BY DEF Next, Handling, Receive, SeeOutgoing, Unmatched, MatchOp, Matched, Matching,
           WriteFails, Undefined, OutputFails, Output, Done
  <2>2. o \in OpSet /\ W \in World
    BY NextOpKnown DEF EngineInv, EngineTypeOK
  <2>3. Located(o, W.pkt) /\ Defined(W, o) /\ W' = OpWrite(W, o)
    <3>1. Located(o, pkt) /\ Defined(W, o) /\ pkt' = OpWrite(W, o).pkt /\ mem' = OpWrite(W, o).mem
      BY <2>1 DEF WriteOp, NextOp, Matching
    <3>2. OpWrite(W, o) = [pkt |-> pkt', mem |-> mem']
      BY <2>2, <3>1, OpWriteTyped DEF World
    <3> QED
      BY <3>1, <3>2 DEF W
  <2>4. Moved(o) \in Nat
    BY <2>2, MovedNat
  <2>5. CASE Moved(o) = 0
    BY <2>5 DEF TakesSource
  <2>6. CASE Moved(o) > 0
    <3>1. /\ o.to = NULL => InPacket(W.pkt, o.set_to)
          /\ Holds(W, o.to, o.set_to, Moved(o))
      BY <2>3, <2>6 DEF Located, Defined
    <3>2. o.to = o.from =>
            Base(W, o.to, o.set_to) - Base(W, o.from, o.set_from) \notin 1..Moved(o) - 1
      BY DEF SourceStays
    <3> QED
      BY <2>2, <2>3, <2>6, <3>1, <3>2, WriteTakesSource DEF TakesSource
  <2> QED
    BY <2>4, <2>5, <2>6
<1> QED
  BY <1>1, EngineSafe, PTL DEF Spec, EvenWritesTakeSource
-----------------------------------------------------------------------------
(* Every packet is accounted for.  What Total() adds up, first.             *)

\* The local function of Total(): t[k] is the sum of the first k.
Totals(t, s) == t = [k \in 0..Len(s) |-> IF k = 0 THEN 0 ELSE t[k-1] + s[k]]

LEMMA TotalIs ==
  ASSUME NEW s
  PROVE  Total(s) = (CHOOSE t : Totals(t, s))[Len(s)]
BY DEF Total, Totals

LEMMA TotalsExists ==
  ASSUME NEW s \in Seq(Nat)
  PROVE  \E t : Totals(t, s)
<1> DEFINE n == Len(s)
           step == [k \in 1..n |-> [v \in Nat |-> v + s[k]]]
<1>1. n \in Nat /\ 0 \in Nat /\ \A k \in 1..n : s[k] \in Nat
  OBVIOUS
<1>2. step \in [1..n -> [Nat -> Nat]]
  BY <1>1
<1>3. \A k \in 1..n, v \in Nat : step[k][v] = v + s[k]
  OBVIOUS
<1> HIDE DEF step, n
<1>4. PICK f \in [0..n -> Nat] : Recurs(f, n, 0, step)
  BY <1>1, <1>2, RecursionExists
<1>5. \A k \in 0..n : f[k] = IF k = 0 THEN 0 ELSE f[k-1] + s[k]
  <2> SUFFICES ASSUME NEW k \in 0..n, k # 0 PROVE f[k] = f[k-1] + s[k]
    BY <1>4 DEF Recurs
  <2>1. k \in 1..n /\ k - 1 \in 0..n
    BY <1>1
  <2>. QED
    BY <1>3, <1>4, <2>1 DEF Recurs
<1>6. f = [k \in 0..n |-> IF k = 0 THEN 0 ELSE f[k-1] + s[k]]
  BY <1>5, Zenon
<1>. QED
  BY <1>6 DEF Totals, n

(* Total() is the last of the partial sums.                                  *)
LEMMA TotalChosen ==
  ASSUME NEW s \in Seq(Nat)
  PROVE  \E t \in [0..Len(s) -> Nat] :
           /\ t[0] = 0
           /\ \A k \in 1..Len(s) : t[k] = t[k-1] + s[k]
           /\ Total(s) = t[Len(s)]
<1>1. PICK t : Totals(t, s) /\ Total(s) = t[Len(s)]
  <2>1. Totals(CHOOSE t : Totals(t, s), s)
    BY TotalsExists, Zenon
  <2>2. Total(s) = (CHOOSE t : Totals(t, s))[Len(s)]
    BY TotalIs
  <2>. QED
    BY <2>1, <2>2, Zenon
<1> DEFINE n == Len(s)
           g == [k \in 0..n |-> IF k = 0 THEN 0 ELSE t[k-1] + s[k]]
<1>2. t = g
  BY <1>1, Zenon DEF Totals
<1>3. n \in Nat /\ \A k \in 1..n : s[k] \in Nat
  OBVIOUS
<1>4. g[0] = 0 /\ (\A k \in 1..n : g[k] = t[k-1] + s[k]) /\ g = [k \in 0..n |-> g[k]]
  BY <1>3
<1> HIDE DEF g
<1>5. t[0] = 0 /\ (\A k \in 1..n : t[k] = t[k-1] + s[k]) /\ t = [k \in 0..n |-> t[k]]
  BY <1>2, <1>4, Zenon
<1> HIDE DEF n
<1> DEFINE T == {k \in Nat : k <= n => t[k] \in Nat}
<1>6. 0 \in T
  BY <1>5
<1>7. ASSUME NEW k \in Nat, k \in T
      PROVE  k + 1 \in T
  <2> SUFFICES ASSUME k + 1 <= n PROVE t[k+1] \in Nat
    OBVIOUS
  <2>1. k + 1 \in 1..n /\ k + 1 - 1 = k /\ t[k] \in Nat
    BY <1>3, <1>7
  <2>2. PICK m \in 1..n : m = k + 1
    BY <2>1
  <2>3. t[m] = t[m-1] + s[m] /\ s[m] \in Nat
    BY <1>3, <1>5, Zenon
  <2>4. t[k+1] = t[k] + s[m] /\ m - 1 = k
    BY <2>1, <2>2, <2>3
  <2>. QED
    BY <2>1, <2>3, <2>4
<1> HIDE DEF T
<1>8. Nat \subseteq T
  BY <1>6, <1>7, NatSetInduction
<1>9. \A k \in 0..n : t[k] \in Nat
  BY <1>3, <1>8 DEF T
<1>10. t \in [0..n -> Nat]
  BY <1>5, <1>9
<1>. QED
  BY <1>1, <1>5, <1>10 DEF n

LEMMA TotalNat ==
  ASSUME NEW s \in Seq(Nat)
  PROVE  Total(s) \in Nat
<1>1. PICK t \in [0..Len(s) -> Nat] : Total(s) = t[Len(s)]
  BY TotalChosen
<1>. QED
  BY <1>1

(* At first nothing is counted.                                              *)
LEMMA TotalZero ==
  ASSUME NEW s \in Seq(Nat), \A k \in 1..Len(s) : s[k] = 0
  PROVE  Total(s) = 0
<1> DEFINE n == Len(s)
<1>1. PICK t \in [0..n -> Nat] : t[0] = 0 /\ (\A k \in 1..n : t[k] = t[k-1] + s[k])
                                 /\ Total(s) = t[n]
  BY TotalChosen
<1>2. n \in Nat
  OBVIOUS
<1> DEFINE T == {k \in Nat : k <= n => t[k] = 0}
<1>3. 0 \in T
  BY <1>1
<1>4. ASSUME NEW k \in Nat, k \in T
      PROVE  k + 1 \in T
  <2> SUFFICES ASSUME k + 1 <= n PROVE t[k+1] = 0
    OBVIOUS
  <2>1. k + 1 \in 1..n /\ k + 1 - 1 = k /\ t[k] = 0
    BY <1>2, <1>4
  <2>. QED
    BY <1>1, <2>1
<1> HIDE DEF T
<1>5. Nat \subseteq T
  BY <1>3, <1>4, NatSetInduction
<1>. QED
  BY <1>1, <1>2, <1>5 DEF T

(* One more for one rout is one more in all.                                 *)
LEMMA TotalBump ==
  ASSUME NEW s \in Seq(Nat), NEW j \in 1..Len(s)
  PROVE  /\ [s EXCEPT ![j] = @ + 1] \in Seq(Nat)
         /\ Total([s EXCEPT ![j] = @ + 1]) = Total(s) + 1
<1> DEFINE n == Len(s)
           r == [s EXCEPT ![j] = @ + 1]
<1>1. n \in Nat /\ DOMAIN s = 1..n /\ \A k \in 1..n : s[k] \in Nat
  OBVIOUS
<1>2. r \in [1..n -> Nat] /\ \A k \in 1..n : r[k] = IF k = j THEN s[k] + 1 ELSE s[k]
  BY <1>1
<1>3. r \in Seq(Nat) /\ Len(r) = n
  BY <1>1, <1>2, SeqDef, LenProperties
<1> HIDE DEF r
<1>0. j \in Nat
  OBVIOUS
<1>4. PICK t \in [0..n -> Nat] : t[0] = 0 /\ (\A k \in 1..n : t[k] = t[k-1] + s[k])
                                 /\ Total(s) = t[n]
  BY TotalChosen
<1> HIDE DEF n
<1>5. PICK u \in [0..n -> Nat] : u[0] = 0 /\ (\A k \in 1..n : u[k] = u[k-1] + r[k])
                                 /\ Total(r) = u[n]
  BY <1>3, TotalChosen
<1> DEFINE T == {k \in Nat : k <= n => u[k] = IF k < j THEN t[k] ELSE t[k] + 1}
<1>6. 0 \in T
  BY <1>4, <1>5
<1>7. ASSUME NEW k \in Nat, k \in T
      PROVE  k + 1 \in T
  <2> SUFFICES ASSUME k + 1 <= n
               PROVE  u[k+1] = IF k + 1 < j THEN t[k+1] ELSE t[k+1] + 1
    OBVIOUS
  <2>1. k + 1 \in 1..n /\ k + 1 - 1 = k /\ u[k] = IF k < j THEN t[k] ELSE t[k] + 1
    BY <1>1, <1>7
  <2>2. t[k+1] = t[k] + s[k+1] /\ u[k+1] = u[k] + r[k+1]
    BY <1>4, <1>5, <2>1
  <2>3. t[k] \in Nat /\ s[k+1] \in Nat /\ j \in Nat
    <3>1. k \in 0..n
      BY <1>1
    <3>2. t[k] \in Nat
      BY <3>1
    <3>. QED
      BY <1>0, <1>1, <2>1, <3>2, Zenon
  <2>4. r[k+1] = IF k + 1 = j THEN s[k+1] + 1 ELSE s[k+1]
    BY <1>2, <2>1
  <2>. QED
    BY <2>1, <2>2, <2>3, <2>4
<1> HIDE DEF T
<1>8. Nat \subseteq T
  BY <1>6, <1>7, NatSetInduction
<1>9. u[n] = t[n] + 1
  BY <1>1, <1>8 DEF T, n
<1>. QED
  BY <1>3, <1>4, <1>5, <1>9 DEF r

-----------------------------------------------------------------------------
Ended == count["sent"] + count["checkfail"] + count["sockdrop"] + count["unwritten"]

(* Between two packets the books are even.  While a rout is looked for, the *)
(* packet is in and neither decided nor unmatched; while it is written, it  *)
(* is decided and has not ended.                                            *)
Books ==
  /\ count_match \in Seq(Nat) /\ Len(count_match) = Len(routs)
  /\ phase = "idle" => count["in"] = count["unmatched"] + Total(count_match)
                        /\ Total(count_match) = Ended
  /\ phase = "match" => count["in"] = count["unmatched"] + Total(count_match) + 1
                         /\ Total(count_match) = Ended
  /\ phase = "write" => count["in"] = count["unmatched"] + Total(count_match)
                         /\ Total(count_match) = Ended + 1

BooksInv == EngineInv /\ Books

LEMMA BooksAtFirst == Init => BooksInv
<1> SUFFICES ASSUME Init PROVE Books
  BY EngineInitInv DEF BooksInv
<1>1. routs \in Seq(Route) /\ Len(routs) \in Nat /\ DOMAIN routs = 1..Len(routs)
  BY ProcessesAreRoutes DEF Init
<1>2. count_match \in [1..Len(routs) -> Nat] /\ \A k \in 1..Len(routs) : count_match[k] = 0
  BY <1>1 DEF Init
<1>3. count_match \in Seq(Nat) /\ Len(count_match) = Len(routs)
  BY <1>1, <1>2, SeqDef, LenProperties
<1>4. Total(count_match) = 0
  BY <1>2, <1>3, TotalZero
<1>5. \A c \in Counter : count[c] = 0
  BY DEF Init
<1>. QED
  BY <1>3, <1>4, <1>5 DEF Books, Init, Ended, Counter

(* One action at a time, the counters it touches.                            *)
LEMMA BooksKept == BooksInv /\ [Next]_vars => BooksInv'
<1> SUFFICES ASSUME BooksInv, [Next]_vars PROVE Books'
  BY EngineNextInv DEF BooksInv
<1>1. /\ count \in [Counter -> Nat] /\ routs \in Seq(Route)
      /\ count_match \in Seq(Nat) /\ Len(count_match) = Len(routs)
      /\ rst \in 1..Len(routs) + 1 /\ phase \in Phase
  BY DEF BooksInv, EngineInv, EngineTypeOK, Books
<1>2. PICK total \in Nat : total = Total(count_match)
  BY <1>1, TotalNat
<1>3. \A c \in Counter : count[c] \in Nat
  BY <1>1
<1>4. /\ phase = "idle" => count["in"] = count["unmatched"] + total /\ total = Ended
      /\ phase = "match" => count["in"] = count["unmatched"] + total + 1 /\ total = Ended
      /\ phase = "write" => count["in"] = count["unmatched"] + total /\ total = Ended + 1
  BY <1>2 DEF BooksInv, Books
<1>5. ASSUME NEW c \in Counter, Count(c)
      PROVE  \A d \in Counter : count'[d] = IF d = c THEN count[d] + 1 ELSE count[d]
  BY <1>1, <1>5 DEF Count
<1>6. ASSUME UNCHANGED <<routs, count_match>>
      PROVE  /\ count_match' \in Seq(Nat) /\ Len(count_match') = Len(routs')
             /\ Total(count_match') = total
  BY <1>1, <1>2, <1>6
<1>7. CASE \E p \in Packet : Receive(p)
  <2>1. phase = "idle" /\ phase' = "match" /\ Count("in") /\ UNCHANGED <<routs, count_match>>
    BY <1>7 DEF Receive
  <2>. QED
    BY <1>3, <1>4, <1>5, <1>6, <2>1 DEF Books, Counter, Ended
<1>8. CASE SeeOutgoing
  <2>1. phase = "idle" /\ phase' = "idle" /\ Count("out") /\ UNCHANGED <<routs, count_match>>
    BY <1>8 DEF SeeOutgoing
  <2>. QED
    BY <1>3, <1>4, <1>5, <1>6, <2>1 DEF Books, Counter, Ended
<1>9. CASE Unmatched
  <2>1. phase = "match" /\ phase' = "idle" /\ Count("unmatched") /\ UNCHANGED <<routs, count_match>>
    BY <1>9 DEF Unmatched, Done
  <2>2. count'["unmatched"] = count["unmatched"] + 1 /\ count'["in"] = count["in"] /\ Ended' = Ended
    BY <1>5, <2>1 DEF Counter, Ended
  <2>3. count["in"] = count["unmatched"] + total + 1 /\ total = Ended /\ count["unmatched"] \in Nat
    BY <1>3, <1>4, <2>1 DEF Counter
  <2>4. count'["in"] = count'["unmatched"] + total /\ total = Ended'
    BY <2>2, <2>3
  <2>. QED
    BY <1>6, <2>1, <2>4 DEF Books
<1>10. CASE MatchOp \/ WriteOp \/ Undefined \/ UNCHANGED vars
  <2>1. phase' \in {phase, "undefined"} /\ UNCHANGED <<routs, count_match, count>>
    BY <1>10 DEF MatchOp, WriteOp, Undefined, vars
  <2>2. phase' = phase \/ phase' = "undefined"
    BY <2>1
  <2>3. Ended' = Ended
    BY <2>1 DEF Ended
  <2>. QED
    BY <1>4, <1>6, <2>1, <2>2, <2>3 DEF Books
<1>11. CASE Matched
  <2>1. /\ phase = "match" /\ phase' = "write" /\ UNCHANGED <<routs, count>>
        /\ rst <= Len(routs) /\ count_match' = [count_match EXCEPT ![rst] = @ + 1]
    BY <1>11 DEF Matched, Matching
  <2>2. rst \in 1..Len(count_match)
    BY <1>1, <2>1
  <2>3. /\ [count_match EXCEPT ![rst] = @ + 1] \in Seq(Nat)
        /\ Total([count_match EXCEPT ![rst] = @ + 1]) = Total(count_match) + 1
    BY <1>1, <2>2, TotalBump
  <2>4. count_match' \in Seq(Nat) /\ Total(count_match') = total + 1
    BY <1>2, <2>1, <2>3
  <2>5. DOMAIN count_match' = DOMAIN count_match
    BY <2>1
  <2>6. Len(count_match') = Len(routs')
    BY <1>1, <2>1, <2>4, <2>5
  <2>7. Ended' = Ended
    BY <2>1 DEF Ended
  <2>8. count["in"] = count["unmatched"] + total + 1 /\ total = Ended /\ count["unmatched"] \in Nat
    BY <1>3, <1>4, <2>1 DEF Counter
  <2>9. count'["in"] = count'["unmatched"] + (total + 1) /\ total + 1 = Ended' + 1
    BY <2>1, <2>7, <2>8
  <2>. QED
    BY <2>1, <2>4, <2>6, <2>9 DEF Books
<1>12. CASE WriteFails \/ OutputFails \/ Output
  <2>1. /\ phase = "write" /\ phase' = "idle" /\ UNCHANGED <<routs, count_match>>
        /\ \E c \in {"unwritten", "checkfail", "sockdrop", "sent"} : Count(c)
    BY <1>12 DEF WriteFails, OutputFails, Output, Written, Done
  <2>2. PICK c \in {"unwritten", "checkfail", "sockdrop", "sent"} : Count(c)
    BY <2>1
  <2>3. \A d \in Counter : count'[d] = IF d = c THEN count[d] + 1 ELSE count[d]
    BY <1>5, <2>2 DEF Counter
  <2>4. Ended' = Ended + 1 /\ count'["in"] = count["in"] /\ count'["unmatched"] = count["unmatched"]
    BY <1>3, <2>3 DEF Ended, Counter
  <2>5. count["in"] = count["unmatched"] + total /\ total = Ended + 1
    BY <1>4, <2>1
  <2>6. count'["in"] = count'["unmatched"] + total /\ total = Ended'
    BY <2>4, <2>5
  <2>. QED
    BY <1>6, <2>1, <2>6 DEF Books
<1>. QED
  BY <1>7, <1>8, <1>9, <1>10, <1>11, <1>12 DEF Next, Handling

(* Every packet received is decided by one rout or by none, and every one   *)
(* decided has one end: process_exec() breaks at the first match, whatever  *)
(* the process, the packets and the outcome of iface_output().              *)
THEOREM PacketsAccounted == Spec => []MatchedAccounted
<1>1. BooksInv => MatchedAccounted
  BY DEF BooksInv, Books, MatchedAccounted, Ended
<1>. QED
  BY <1>1, BooksAtFirst, BooksKept, PTL DEF Spec
-----------------------------------------------------------------------------
(* The engine implements the switch.  The operations of the switch are the  *)
(* engine's own.                                                            *)

LEMMA SameLocated ==
  ASSUME NEW o, NEW p
  PROVE  Promise!Located(o, p) <=> Located(o, p)
BY DEF Promise!Located, Located, Promise!Moved, Moved, Promise!InPacket, InPacket,
   Promise!Where, Where

LEMMA SameLoad ==
  ASSUME NEW w, NEW where, NEW set, NEW k
  PROVE  Promise!Load(w, where, set, k) = Load(w, where, set, k)
BY DEF Promise!Load, Load, Promise!Base, Base, Promise!Room, Room, Promise!Where, Where

LEMMA SameOpMatch ==
  ASSUME NEW w, NEW o
  PROVE  Promise!OpMatch(w, o) <=> OpMatch(w, o)
BY SameLocated, SameLoad DEF Promise!OpMatch, OpMatch, Promise!Moved, Moved

LEMMA SameStore ==
  ASSUME NEW w, NEW where, NEW set, NEW new
  PROVE  Promise!Store(w, where, set, new) = Store(w, where, set, new)
BY DEF Promise!Store, Store, Promise!Patch, Patch, Promise!Where, Where

LEMMA SameOpWrite ==
  ASSUME NEW w, NEW o
  PROVE  Promise!OpWrite(w, o) = OpWrite(w, o)
<1>1. Promise!Body(w, o) = Body(w, o)
  BY SameLoad DEF Promise!Body, Body, Promise!Moved, Moved
<1>2. Promise!Copied(w, o) = Copied(w, o)
  BY <1>1, SameStore DEF Promise!Copied, Copied
<1>3. Promise!LastByte(Copied(w, o), o) = LastByte(Copied(w, o), o)
  BY SameLoad DEF Promise!LastByte, LastByte, Promise!Moved, Moved
<1>. QED
  BY <1>2, <1>3, SameStore DEF Promise!OpWrite, OpWrite, Promise!Moved, Moved
Result == [w : World, ok : BOOLEAN]

LEMMA ApplyTyped ==
  ASSUME NEW d \in Result, NEW o \in OpSet
  PROVE  Promise!Apply(d, o) \in Result
<1>1. d.w \in World
  BY DEF Result
<1>2. OpWrite(d.w, o) \in World
  BY <1>1, OpWriteTyped
<1>. QED
  BY <1>1, <1>2, SameOpWrite DEF Promise!Apply, Result

\* The local function of Applied().
Applies(d, w, ops) ==
  d = [n \in 0..Len(ops) |->
         IF n = 0 THEN [w |-> w, ok |-> TRUE] ELSE Promise!Apply(d[n-1], ops[n])]

LEMMA AppliedIs ==
  ASSUME NEW w, NEW ops
  PROVE  Promise!Applied(w, ops) = CHOOSE d : Applies(d, w, ops)
BY DEF Promise!Applied, Applies

LEMMA AppliesExists ==
  ASSUME NEW w \in World, NEW ops \in Seq(OpSet)
  PROVE  \E d : Applies(d, w, ops)
<1> DEFINE m == Len(ops)
           first == [w |-> w, ok |-> TRUE]
           step == [n \in 1..m |-> [d \in Result |-> Promise!Apply(d, ops[n])]]
<1>1. m \in Nat /\ first \in Result /\ \A n \in 1..m : ops[n] \in OpSet
  BY DEF Result
<1>2. \A n \in 1..m : \A d \in Result : Promise!Apply(d, ops[n]) \in Result
  BY <1>1, ApplyTyped
<1>3. step \in [1..m -> [Result -> Result]]
  BY <1>2
<1>4. \A n \in 1..m : \A d \in Result : step[n][d] = Promise!Apply(d, ops[n])
  OBVIOUS
<1> HIDE DEF step, m, first
<1>5. PICK f \in [0..m -> Result] : Recurs(f, m, first, step)
  BY <1>1, <1>3, RecursionExists
<1>6. \A n \in 0..m : f[n] = IF n = 0 THEN first ELSE Promise!Apply(f[n-1], ops[n])
  <2> SUFFICES ASSUME NEW n \in 0..m, n # 0 PROVE f[n] = Promise!Apply(f[n-1], ops[n])
    BY <1>5 DEF Recurs
  <2>1. n \in 1..m /\ n - 1 \in 0..m /\ f[n-1] \in Result
    BY <1>1
  <2>. QED
    BY <1>4, <1>5, <2>1 DEF Recurs
<1>7. f = [n \in 0..m |-> IF n = 0 THEN first ELSE Promise!Apply(f[n-1], ops[n])]
  BY <1>6, Zenon
<1>. QED
  BY <1>7 DEF Applies, m, first

(* One write more is one more Apply.                                         *)
LEMMA AppliedSteps ==
  ASSUME NEW w \in World, NEW ops \in Seq(OpSet)
  PROVE  /\ Promise!Applied(w, ops)[0] = [w |-> w, ok |-> TRUE]
         /\ \A n \in 1..Len(ops) :
              Promise!Applied(w, ops)[n] = Promise!Apply(Promise!Applied(w, ops)[n-1], ops[n])
<1>1. PICK d : d = Promise!Applied(w, ops) /\ Applies(d, w, ops)
  <2>1. Applies(CHOOSE d : Applies(d, w, ops), w, ops)
    BY AppliesExists, Zenon
  <2>. QED
    BY <2>1, AppliedIs, Zenon
<1> DEFINE g == [n \in 0..Len(ops) |->
                   IF n = 0 THEN [w |-> w, ok |-> TRUE] ELSE Promise!Apply(d[n-1], ops[n])]
<1>2. d = g
  BY <1>1, Zenon DEF Applies
<1>3. /\ g[0] = [w |-> w, ok |-> TRUE]
      /\ \A n \in 1..Len(ops) : g[n] = Promise!Apply(d[n-1], ops[n])
  OBVIOUS
<1> HIDE DEF g
<1>. QED
  BY <1>1, <1>2, <1>3, Zenon

(* After a write that could not be applied nothing changes any more.         *)
LEMMA FailedStays ==
  ASSUME NEW w \in World, NEW ops \in Seq(OpSet), NEW n \in 0..Len(ops), NEW x,
         Promise!Applied(w, ops)[n] = [w |-> x, ok |-> FALSE]
  PROVE  Promise!Applied(w, ops)[Len(ops)] = [w |-> x, ok |-> FALSE]
<1>1. PICK d : d = Promise!Applied(w, ops)
  OBVIOUS
<1>2. Len(ops) \in Nat /\ \A k \in 1..Len(ops) : d[k] = Promise!Apply(d[k-1], ops[k])
  <2>1. \A k \in 1..Len(ops) :
          Promise!Applied(w, ops)[k] = Promise!Apply(Promise!Applied(w, ops)[k-1], ops[k])
    BY AppliedSteps, Zenon
  <2>. QED
    BY <1>1, <2>1, LenProperties, Zenon
<1>3. d[n] = [w |-> x, ok |-> FALSE]
  BY <1>1
<1> DEFINE T == {k \in Nat : n + k <= Len(ops) => d[n + k] = [w |-> x, ok |-> FALSE]}
<1>4. 0 \in T
  BY <1>2, <1>3
<1>5. ASSUME NEW k \in Nat, k \in T
      PROVE  k + 1 \in T
  <2> SUFFICES ASSUME n + (k + 1) <= Len(ops) PROVE d[n + (k + 1)] = [w |-> x, ok |-> FALSE]
    OBVIOUS
  <2>1. PICK j \in 1..Len(ops) : j = n + (k + 1) /\ j - 1 = n + k
    BY <1>2
  <2>2. d[n + k] = [w |-> x, ok |-> FALSE]
    BY <1>2, <1>5
  <2>3. d[j] = Promise!Apply(d[j-1], ops[j])
    BY <1>2
  <2>4. Promise!Apply([w |-> x, ok |-> FALSE], ops[j]) = [w |-> x, ok |-> FALSE]
    BY DEF Promise!Apply
  <2>. QED
    BY <2>1, <2>2, <2>3, <2>4
<1> HIDE DEF T
<1>6. Nat \subseteq T
  BY <1>4, <1>5, NatSetInduction
<1>7. PICK k \in Nat : n + k = Len(ops)
  <2>1. Len(ops) - n \in Nat /\ n + (Len(ops) - n) = Len(ops)
    BY <1>2
  <2>. QED
    BY <2>1
<1>8. n + k <= Len(ops) => d[n + k] = [w |-> x, ok |-> FALSE]
  BY <1>6 DEF T
<1>9. n + k <= Len(ops)
  BY <1>2, <1>7
<1>. QED
  BY <1>1, <1>7, <1>8, <1>9, Zenon

-----------------------------------------------------------------------------
\* The packet and the memory as the handler found them.
Found == [pkt |-> given.pkt, mem |-> given.mem]

(* While a rout is looked for, nothing has been touched, the routs before   *)
(* the one at hand do not match and the operations before the one at hand   *)
(* hold; while its writes are made, it is the one that decides, and what    *)
(* has been made of packet and memory is what so many writes amount to.     *)
Looking ==
  phase = "match" =>
    /\ W = Found /\ given.pkt \in Packet /\ count_match = given.matched
    /\ \A j \in 1..rst - 1 : ~ Promise!Matches(W, routs[j])
    /\ rst <= Len(routs) => \A n \in 1..pos - 1 : n <= Len(MatchQ) /\ OpMatch(W, MatchQ[n])
Writing ==
  phase = "write" =>
    /\ given.pkt \in Packet /\ Promise!Decides(Found, rst)
    /\ count_match = [given.matched EXCEPT ![rst] = @ + 1]
    /\ pos - 1 \in 0..Len(WriteQ)
    /\ Promise!Applied(Found, WriteQ)[pos - 1] = [w |-> W, ok |-> TRUE]

SwitchInv == EngineInv /\ Looking /\ Writing
(* The rout at hand has its operations.                                      *)
LEMMA RoutTyped ==
  ASSUME EngineInv, rst <= Len(routs)
  PROVE  rst \in DOMAIN routs /\ MatchQ \in Seq(OpSet) /\ WriteQ \in Seq(OpSet)
<1>1. rst \in DOMAIN routs /\ routs[rst] \in Route
  BY DEF EngineInv, EngineTypeOK
<1>. QED
  BY <1>1 DEF MatchQ, WriteQ, Route

(* What the switch would decide and write depends on what the process found. *)
LEMMA SamePromise ==
  ASSUME UNCHANGED <<routs, rst, given>>
  PROVE  /\ Found' = Found /\ WriteQ' = WriteQ
         /\ Promise!Decides(Found, rst)' <=> Promise!Decides(Found, rst)
         /\ Promise!Applied(Found, WriteQ)' = Promise!Applied(Found, WriteQ)
<1>1. Found' = Found /\ WriteQ' = WriteQ
  BY DEF Found, WriteQ
<1>2. Promise!Decides(Found, rst)' <=> Promise!Decides(Found, rst)
  BY <1>1 DEF Promise!Decides, Promise!Matches, Promise!OpMatch
<1>3. Promise!Applied(Found, WriteQ)' = Promise!Applied(Found, WriteQ)
  BY <1>1 DEF Promise!Applied, Promise!Apply
<1>. QED
  BY <1>1, <1>2, <1>3

(* Looking for the rout: one operation more, or the next rout.               *)
LEMMA MatchOpSwitch ==
  ASSUME SwitchInv, MatchOp
  PROVE  SwitchInv'
<1>0. EngineInv'
  BY EngineNextInv DEF SwitchInv, Next, Handling
<1>1. /\ phase = "match" /\ phase' = "match" /\ rst <= Len(routs) /\ pos <= Len(MatchQ)
      /\ UNCHANGED <<routs, mem, pkt, count_match, given>>
  BY DEF MatchOp, Matching
<1>2. W' = W /\ Found' = Found
  BY <1>1 DEF W, Found
<1>3. /\ W = Found /\ given.pkt \in Packet /\ count_match = given.matched
      /\ \A j \in 1..rst - 1 : ~ Promise!Matches(W, routs[j])
      /\ \A n \in 1..pos - 1 : n <= Len(MatchQ) /\ OpMatch(W, MatchQ[n])
  BY <1>1 DEF SwitchInv, Looking
<1>4. MatchQ \in Seq(OpSet) /\ pos \in Nat \ {0} /\ rst \in Nat \ {0}
  BY <1>1, RoutTyped DEF SwitchInv, EngineInv, EngineTypeOK
<1>5. CASE OpMatch(W, MatchQ[pos])
  <2>1. pos' = pos + 1 /\ rst' = rst /\ MatchQ' = MatchQ
    BY <1>1, <1>5 DEF MatchOp, MatchQ
  <2>2. \A n \in 1..pos' - 1 : n <= Len(MatchQ) /\ OpMatch(W, MatchQ[n])
    <3> SUFFICES ASSUME NEW n \in 1..pos' - 1 PROVE n <= Len(MatchQ) /\ OpMatch(W, MatchQ[n])
      OBVIOUS
    <3>1. n = pos \/ n \in 1..pos - 1
      BY <1>4, <2>1
    <3>. QED
      BY <1>1, <1>3, <1>5, <3>1
  <2>3. Looking'
    BY <1>1, <1>2, <1>3, <2>1, <2>2 DEF Looking, Promise!Matches, Promise!OpMatch
  <2>. QED
    BY <1>0, <1>1, <2>3 DEF SwitchInv, Writing
<1>6. CASE ~ OpMatch(W, MatchQ[pos])
  <2>1. pos' = 1 /\ rst' = rst + 1
    BY <1>6 DEF MatchOp
  <2>2. ~ Promise!Matches(W, routs[rst])
    <3>1. pos \in DOMAIN routs[rst].match
      BY <1>1, <1>4 DEF MatchQ
    <3>. QED
      BY <1>6, <3>1, SameOpMatch DEF Promise!Matches, MatchQ
  <2>3. \A j \in 1..rst' - 1 : ~ Promise!Matches(W, routs[j])
    <3> SUFFICES ASSUME NEW j \in 1..rst' - 1 PROVE ~ Promise!Matches(W, routs[j])
      OBVIOUS
    <3>1. j = rst \/ j \in 1..rst - 1
      BY <1>4, <2>1
    <3>. QED
      BY <1>3, <2>2, <3>1
  <2>4. 1..pos' - 1 = {}
    BY <2>1
  <2>5. Looking'
    BY <1>1, <1>2, <1>3, <2>3, <2>4 DEF Looking
  <2>. QED
    BY <1>0, <1>1, <2>5 DEF SwitchInv, Writing
<1>. QED
  BY <1>5, <1>6

(* The rout decides: all its operations hold, those of the others did not.   *)
LEMMA MatchedSwitch ==
  ASSUME SwitchInv, Matched
  PROVE  SwitchInv'
<1>0. EngineInv'
  BY EngineNextInv DEF SwitchInv, Next, Handling
<1>1. /\ phase = "match" /\ phase' = "write" /\ rst <= Len(routs) /\ pos > Len(MatchQ)
      /\ UNCHANGED <<routs, mem, pkt, rst, given>> /\ pos' = 1
      /\ count_match' = [count_match EXCEPT ![rst] = @ + 1]
  BY DEF Matched, Matching
<1>2. W' = W /\ Found' = Found /\ WriteQ' = WriteQ
  BY <1>1 DEF W, Found, WriteQ
<1>3. /\ W = Found /\ given.pkt \in Packet /\ count_match = given.matched
      /\ \A j \in 1..rst - 1 : ~ Promise!Matches(W, routs[j])
      /\ \A n \in 1..pos - 1 : n <= Len(MatchQ) /\ OpMatch(W, MatchQ[n])
  BY <1>1 DEF SwitchInv, Looking
<1>4. /\ MatchQ \in Seq(OpSet) /\ WriteQ \in Seq(OpSet) /\ pos \in Nat \ {0}
      /\ Found \in World
  BY <1>1, RoutTyped DEF SwitchInv, EngineInv, EngineTypeOK, Found
<1>5. Promise!Matches(W, routs[rst])
  <2>1. \A n \in DOMAIN MatchQ : OpMatch(W, MatchQ[n])
    BY <1>1, <1>3, <1>4
  <2>. QED
    BY <2>1, SameOpMatch DEF Promise!Matches, MatchQ
<1>6. Promise!Decides(Found, rst)
  BY <1>3, <1>5 DEF Promise!Decides
<1>7. Promise!Applied(Found, WriteQ)[0] = [w |-> W, ok |-> TRUE]
  BY <1>3, <1>4, AppliedSteps
<1>8. pos' - 1 = 0 /\ 0 \in 0..Len(WriteQ)
  BY <1>1, <1>4
<1>9. Writing'
  BY <1>1, <1>2, <1>3, <1>6, <1>7, <1>8, SamePromise DEF Writing
<1>. QED
  BY <1>0, <1>1, <1>9 DEF SwitchInv, Looking
(* One write more has been made of the packet and the memory.                *)
LEMMA WriteOpSwitch ==
  ASSUME SwitchInv, WriteOp
  PROVE  SwitchInv'
<1>0. EngineInv'
  BY EngineNextInv DEF SwitchInv, Next, Handling
<1>1. /\ phase = "write" /\ phase' = "write" /\ pos <= Len(WriteQ) /\ pos' = pos + 1
      /\ UNCHANGED <<routs, rst, count_match, given>>
      /\ Located(WriteQ[pos], pkt)
      /\ pkt' = OpWrite(W, WriteQ[pos]).pkt /\ mem' = OpWrite(W, WriteQ[pos]).mem
  BY DEF WriteOp
<1>2. Found' = Found /\ WriteQ' = WriteQ
  BY <1>1 DEF Found, WriteQ
<1>3. /\ given.pkt \in Packet /\ Promise!Decides(Found, rst)
      /\ count_match = [given.matched EXCEPT ![rst] = @ + 1]
      /\ Promise!Applied(Found, WriteQ)[pos - 1] = [w |-> W, ok |-> TRUE]
  BY <1>1 DEF SwitchInv, Writing
<1>4. /\ WriteQ \in Seq(OpSet) /\ pos \in Nat \ {0} /\ Found \in World /\ W \in World
  BY <1>1, RoutTyped DEF SwitchInv, EngineInv, EngineTypeOK, Found
<1>5. pos \in 1..Len(WriteQ) /\ WriteQ[pos] \in OpSet
  BY <1>1, <1>4
<1>6. OpWrite(W, WriteQ[pos]) \in World
  BY <1>4, <1>5, OpWriteTyped
<1>7. W' = OpWrite(W, WriteQ[pos])
  BY <1>1, <1>6 DEF W, World
<1>8. Promise!Apply([w |-> W, ok |-> TRUE], WriteQ[pos]) = [w |-> OpWrite(W, WriteQ[pos]), ok |-> TRUE]
  BY <1>1, SameLocated, SameOpWrite DEF Promise!Apply, W
<1>9. Promise!Applied(Found, WriteQ)[pos] = [w |-> W', ok |-> TRUE]
  <2>1. Promise!Applied(Found, WriteQ)[pos]
          = Promise!Apply(Promise!Applied(Found, WriteQ)[pos - 1], WriteQ[pos])
    BY <1>4, <1>5, AppliedSteps, Zenon
  <2>. QED
    BY <1>3, <1>7, <1>8, <2>1, Zenon
<1>10. pos' - 1 = pos /\ pos \in 0..Len(WriteQ)
  BY <1>1, <1>4
<1>11. Writing'
  BY <1>1, <1>2, <1>3, <1>9, <1>10, SamePromise DEF Writing
<1>. QED
  BY <1>0, <1>1, <1>11 DEF SwitchInv, Looking

LEMMA SwitchAtFirst == Init => SwitchInv
BY EngineInitInv DEF Init, SwitchInv, Looking, Writing

LEMMA SwitchKept == SwitchInv /\ [Next]_vars => SwitchInv'
<1> SUFFICES ASSUME SwitchInv, [Next]_vars PROVE SwitchInv'
  OBVIOUS
<1>0. EngineInv'
  BY EngineNextInv DEF SwitchInv
<1>1. CASE \E p \in Packet : Receive(p)
  <2>1. PICK p \in Packet : Receive(p)
    BY <1>1
  <2>2. /\ phase = "idle" /\ phase' = "match" /\ rst = 1 /\ pos = 1
        /\ UNCHANGED <<routs, mem, rst, pos, count_match>> /\ pkt' = p
        /\ given' = [pkt |-> p, mem |-> mem, matched |-> count_match]
    BY <2>1 DEF Receive, SwitchInv, EngineInv, EngineTypeOK
  <2>3. W' = Found' /\ given'.pkt \in Packet /\ count_match' = given'.matched
    BY <2>2 DEF W, Found
  <2>4. 1..rst' - 1 = {} /\ 1..pos' - 1 = {}
    BY <2>2
  <2>. QED
    BY <1>0, <2>2, <2>3, <2>4 DEF SwitchInv, Looking, Writing
<1>2. CASE SeeOutgoing \/ Unmatched \/ WriteFails \/ OutputFails \/ Output \/ Undefined
  <2>1. phase' \in {"idle", "undefined"}
    BY <1>2 DEF SeeOutgoing, Unmatched, WriteFails, OutputFails, Output, Undefined, Done
  <2>. QED
    BY <1>0, <2>1 DEF SwitchInv, Looking, Writing
<1>3. CASE MatchOp
  BY <1>3, MatchOpSwitch
<1>4. CASE Matched
  BY <1>4, MatchedSwitch
<1>5. CASE WriteOp
  BY <1>5, WriteOpSwitch
<1>6. CASE UNCHANGED vars
  <2>1. UNCHANGED <<routs, mem, phase, pkt, rst, pos, count_match, given>>
    BY <1>6 DEF vars
  <2>2. W' = W /\ Found' = Found /\ MatchQ' = MatchQ /\ WriteQ' = WriteQ
    BY <2>1 DEF W, Found, MatchQ, WriteQ
  <2>3. Looking'
    BY <2>1, <2>2 DEF SwitchInv, Looking, Promise!Matches, Promise!OpMatch
  <2>4. Writing'
    BY <2>1, <2>2, SamePromise DEF SwitchInv, Writing
  <2>. QED
    BY <1>0, <2>3, <2>4 DEF SwitchInv
<1>. QED
  BY <1>1, <1>2, <1>3, <1>4, <1>5, <1>6 DEF Next, Handling

(* The handler is done with a packet that a rout decided: the switch has    *)
(* handled it, in one step.                                                 *)
LEMMA EndsAsHandled ==
  ASSUME SwitchInv, phase = "write", Done,
         NEW d, d = Promise!Applied(Found, WriteQ)[Len(WriteQ)], d.w = W,
         \/ d.ok /\ sent' = <<routs[rst].output, Repaired(pkt)>>
         \/ UNCHANGED sent
  PROVE  Promise!SwitchNext
<1>1. /\ given.pkt \in Packet /\ Promise!Decides(Found, rst)
      /\ count_match = [given.matched EXCEPT ![rst] = @ + 1]
  BY DEF SwitchInv, Writing
<1>2. phase' = "idle" /\ UNCHANGED <<routs, mem, count_match>>
  BY DEF Done
<1>3. rst \in DOMAIN routs
  BY RoutTyped DEF SwitchInv, EngineInv, EngineTypeOK
<1>4. d = Promise!Written(Found, routs[rst])
  BY DEF Promise!Written, WriteQ
<1>5. PICK w : w = [pkt |-> given.pkt, mem |-> given.mem] /\ w = Found
  BY DEF Found
<1>6. d.w.mem = mem /\ d.w.pkt = pkt
  BY DEF W
<1>7. \/ d.ok /\ sent' = <<routs[rst].output, Repaired(d.w.pkt)>>
      \/ UNCHANGED sent
  BY <1>6
<1>8. Promise!Handle(given.pkt)
  BY <1>1, <1>2, <1>3, <1>4, <1>5, <1>6, <1>7 DEF Promise!Handle
<1>. QED
  BY <1>1, <1>8 DEF Promise!SwitchNext

LEMMA StepIsSwitch ==
  ASSUME SwitchInv, [Next]_vars
  PROVE  [Promise!SwitchNext]_(Promise!switchVars)
<1>1. CASE \E p \in Packet : Receive(p)
  <2>1. PICK p \in Packet : Receive(p)
    BY <1>1
  <2>. QED
    BY <2>1 DEF Receive, Promise!switchVars
<1>2. CASE SeeOutgoing \/ MatchOp \/ Matched \/ WriteOp \/ Undefined
  <2>1. (phase' = "idle" <=> phase = "idle") /\ (phase = "idle" => UNCHANGED <<mem, count_match>>)
        /\ UNCHANGED <<routs, given, sent>>
    BY <1>2 DEF SeeOutgoing, MatchOp, Matched, Matching, WriteOp, Undefined
  <2>. QED
    BY <2>1 DEF Promise!switchVars
<1>3. CASE Unmatched
  <2>1. /\ phase = "match" /\ phase' = "idle" /\ UNCHANGED <<routs, mem, count_match, sent>>
    BY <1>3 DEF Unmatched, Done
  <2>2. mem = given.mem /\ count_match = given.matched
    BY <2>1 DEF SwitchInv, Looking, W, Found
  <2>. QED
    BY <2>1, <2>2 DEF Promise!switchVars
<1>4. CASE WriteFails
  <2>1. phase = "write" /\ pos <= Len(WriteQ) /\ ~ Located(WriteQ[pos], pkt) /\ Done /\ UNCHANGED sent
    BY <1>4 DEF WriteFails
  <2>2. Promise!Applied(Found, WriteQ)[pos - 1] = [w |-> W, ok |-> TRUE]
    BY <2>1 DEF SwitchInv, Writing
  <2>3. /\ WriteQ \in Seq(OpSet) /\ pos \in 1..Len(WriteQ) /\ Found \in World
    BY <2>1, RoutTyped DEF SwitchInv, EngineInv, EngineTypeOK, Found
  <2>4. Promise!Apply([w |-> W, ok |-> TRUE], WriteQ[pos]) = [w |-> W, ok |-> FALSE]
    BY <2>1, SameLocated DEF Promise!Apply, W
  <2>5. Promise!Applied(Found, WriteQ)[pos]
          = Promise!Apply(Promise!Applied(Found, WriteQ)[pos - 1], WriteQ[pos])
    BY <2>3, AppliedSteps, Zenon
  <2>6. Promise!Applied(Found, WriteQ)[pos] = [w |-> W, ok |-> FALSE]
    BY <2>2, <2>4, <2>5, Zenon
  <2>7. Promise!Applied(Found, WriteQ)[Len(WriteQ)] = [w |-> W, ok |-> FALSE]
    <3>1. pos \in 0..Len(WriteQ)
      BY <2>3
    <3>. QED
      BY <2>3, <2>6, <3>1, FailedStays
  <2>. QED
    BY <2>1, <2>7, EndsAsHandled
<1>5. CASE OutputFails \/ Output
  <2>1. /\ phase = "write" /\ pos > Len(WriteQ) /\ Done
        /\ sent' = <<routs[rst].output, Repaired(pkt)>> \/ UNCHANGED sent
    BY <1>5 DEF OutputFails, Output, Written
  <2>2. pos - 1 \in 0..Len(WriteQ)
        /\ Promise!Applied(Found, WriteQ)[pos - 1] = [w |-> W, ok |-> TRUE]
    BY <2>1 DEF SwitchInv, Writing
  <2>3. WriteQ \in Seq(OpSet) /\ pos \in Nat
    BY <2>1, RoutTyped DEF SwitchInv, EngineInv, EngineTypeOK
  <2>4. pos - 1 = Len(WriteQ)
    BY <2>1, <2>2, <2>3
  <2>5. Promise!Applied(Found, WriteQ)[Len(WriteQ)] = [w |-> W, ok |-> TRUE]
    BY <2>2, <2>4
  <2>. QED
    BY <2>1, <2>5, EndsAsHandled
<1>6. CASE UNCHANGED vars
  BY <1>6 DEF vars, Promise!switchVars
<1>. QED
  BY <1>1, <1>2, <1>3, <1>4, <1>5, <1>6 DEF Next, Handling

(* What the engine does to a packet, one operation at a time, is what the   *)
(* abstract switch does at once: the first rout that matches decides, its   *)
(* writes are made in order, and what is sent has had all of them.          *)
THEOREM EngineImplementsSwitch == Spec => ImplementsSwitch
<1>1. Init => Promise!SwitchInit
  BY DEF Init, Promise!SwitchInit
<1>2. SwitchInv /\ [Next]_vars => [Promise!SwitchNext]_(Promise!switchVars)
  BY StepIsSwitch
<1>. QED
  BY <1>1, <1>2, SwitchAtFirst, SwitchKept, PTL DEF Spec, ImplementsSwitch, Promise!SwitchSpec
=============================================================================
