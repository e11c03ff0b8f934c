---------------------------- MODULE PacketEngine ----------------------------
(***************************************************************************)
(* The hot path: iface_callback() of iface.c, process_exec() of process.c, *)
(* rout_set_match() and rout_set_exec() of rout.c, iface_output().         *)
(*                                                                         *)
(* One operation is one step.  No directive is executed in between: the    *)
(* process does not change while a packet is under way, and what Ruleset   *)
(* shows of it (HotPathLive, CachedSetCurrent) lets it stand here as a     *)
(* sequence of routs that hold their operations.                           *)
(***************************************************************************)
EXTENDS PacketOps, SequencesExt

CONSTANTS IfaceName,
          Process,      \* the queues of routs an interface may have as its handler
          Contents,     \* what the buffers of states and values may hold at first
          Packet,       \* the frames that may arrive
          Repaired(_),  \* checksum(): a packet with its checksums made right
          MaxFrames     \* bound: frames received

ASSUME BoundedFrames == MaxFrames \in Nat
ASSUME FramesAreBytes == Packet \subseteq Seq(Byte) \ {<<>>}

Route == [match : Seq(OpSet), write : Seq(OpSet), output : IfaceName]
ASSUME ProcessesAreRoutes == Process \subseteq Seq(Route)
ASSUME ContentsAreBytes == Contents \subseteq [Buffer -> Seq(Byte)]

\* memref.c allocates a buffer for the field it is used with (SharedStateAgrees).
OpsOf(routes) ==
  UNION {Range(routes[k].match) \cup Range(routes[k].write) : k \in DOMAIN routes}
Fits(o, m) ==
  /\ o.to # NULL => Len(m[o.to]) >= o.set_to.len
  /\ o.from # NULL => Len(m[o.from]) >= o.set_from.len
ASSUME BuffersFit ==
  \A p \in Process : \A m \in Contents : \A o \in OpsOf(p) : Fits(o, m)

VARIABLES routs,        \* process_exec(): context
          mem,          \* the buffers of states and values
          phase,        \* where the handling of a packet is; "idle" in epoll
          pkt,          \* iface_callback(): buf
          rst, pos,     \* the rout_set and the operation that are next
          count_match,  \* rout_set.count_match
          count,        \* the interfaces' counters, and how each packet ended
          sent,         \* the last packet sent, with its interface
          given         \* what pkt, mem and count_match were on arrival

vars == <<routs, mem, phase, pkt, rst, pos, count_match, count, sent, given>>

Phase == {"idle", "match", "write", "undefined"}
Counter == {"in", "out", "unmatched", "unwritten", "checkfail", "sockdrop", "sent"}
(* "unmatched", "unwritten" and "sent" are not kept by the code. *)
-----------------------------------------------------------------------------
W == [pkt |-> pkt, mem |-> mem]
Matching == phase = "match" /\ rst <= Len(routs)
MatchQ == routs[rst].match
WriteQ == routs[rst].write

Count(c) == count' = [count EXCEPT ![c] = @ + 1]

\* The handler returns to epoll; states keep what was written to them.
Done ==
  /\ phase' = "idle"
  /\ pkt' = <<>>
  /\ rst' = 1
  /\ pos' = 1
  /\ given' = [pkt |-> <<>>, mem |-> mem, matched |-> count_match]
  /\ UNCHANGED <<routs, mem, count_match>>

\* iface_callback() of a frame that came in; one that goes out is only counted.
Receive(p) ==
  /\ phase = "idle"
  /\ count["in"] + count["out"] < MaxFrames
  /\ phase' = "match"
  /\ pkt' = p
  /\ given' = [pkt |-> p, mem |-> mem, matched |-> count_match]
  /\ Count("in")
  /\ UNCHANGED <<routs, mem, rst, pos, count_match, sent>>

SeeOutgoing ==
  /\ phase = "idle"
  /\ count["in"] + count["out"] < MaxFrames
  /\ Count("out")
  /\ UNCHANGED <<routs, mem, phase, pkt, rst, pos, count_match, sent, given>>

\* process_exec(): no rout matched.
Unmatched ==
  /\ phase = "match"
  /\ rst > Len(routs)
  /\ Count("unmatched")
  /\ Done
  /\ UNCHANGED sent

\* rout_set_match(): the next operation holds, or the next rout is tried.
MatchOp ==
  /\ Matching
  /\ pos <= Len(MatchQ)
  /\ Defined(W, MatchQ[pos])
  /\ IF OpMatch(W, MatchQ[pos])
     THEN pos' = pos + 1 /\ UNCHANGED rst
     ELSE pos' = 1 /\ rst' = rst + 1
  /\ UNCHANGED <<routs, mem, phase, pkt, count_match, count, sent, given>>

\* rout_set_match() returns true.
Matched ==
  /\ Matching
  /\ pos > Len(MatchQ)
  /\ count_match' = [count_match EXCEPT ![rst] = @ + 1]
  /\ phase' = "write"
  /\ pos' = 1
  /\ UNCHANGED <<routs, mem, pkt, rst, count, sent, given>>

\* rout_set_exec(): the next operation.
WriteOp ==
  /\ phase = "write"
  /\ pos <= Len(WriteQ)
  /\ Located(WriteQ[pos], pkt)
  /\ Defined(W, WriteQ[pos]) /\ ~ Overlap(W, WriteQ[pos])
  /\ LET w == OpWrite(W, WriteQ[pos])
     IN pkt' = w.pkt /\ mem' = w.mem
  /\ pos' = pos + 1
  /\ UNCHANGED <<routs, phase, rst, count_match, count, sent, given>>

\* Defect: the failure is noted and the next rout is tried.
WriteFailsOver ==
  /\ phase = "write"
  /\ pos <= Len(WriteQ)
  /\ ~ Located(WriteQ[pos], pkt)
  /\ phase' = "match"
  /\ rst' = rst + 1
  /\ pos' = 1
  /\ UNCHANGED <<routs, mem, pkt, count_match, count, sent, given>>

\* rout_set_exec() returns false: the packet is discarded, half-mangled as it is.
WriteFails ==
  /\ phase = "write"
  /\ pos <= Len(WriteQ)
  /\ ~ Located(WriteQ[pos], pkt)
  /\ Count("unwritten")
  /\ Done
  /\ UNCHANGED sent

\* The operation reads or writes where it has no bytes: C does not say what follows.
Undefined ==
  /\ \/ Matching /\ pos <= Len(MatchQ) /\ ~ Defined(W, MatchQ[pos])
     \/ /\ phase = "write" /\ pos <= Len(WriteQ)
        /\ ~ Defined(W, WriteQ[pos]) \/ (Located(WriteQ[pos], pkt) /\ Overlap(W, WriteQ[pos]))
  /\ phase' = "undefined"
  /\ UNCHANGED <<routs, mem, pkt, rst, pos, count_match, count, sent, given>>

Written == phase = "write" /\ pos > Len(WriteQ)

\* Defect: a packet that could not be sent is not counted.
OutputFailsSilently ==
  /\ Written
  /\ Done
  /\ UNCHANGED <<count, sent>>

\* iface_output(): the checksum may refuse the packet, send() may truncate it.
OutputFails ==
  /\ Written
  /\ \E c \in {"checkfail", "sockdrop"} : Count(c)
  /\ Done
  /\ UNCHANGED sent

Output ==
  /\ Written
  /\ sent' = <<routs[rst].output, Repaired(pkt)>>
  /\ Count("sent")
  /\ Done

-----------------------------------------------------------------------------
Init ==
  /\ routs \in Process
  /\ mem \in Contents
  /\ phase = "idle"
  /\ pkt = <<>>
  /\ rst = 1
  /\ pos = 1
  /\ count_match = [k \in DOMAIN routs |-> 0]
  /\ count = [c \in Counter |-> 0]
  /\ sent = <<>>
  /\ given = [pkt |-> <<>>, mem |-> mem, matched |-> count_match]

Handling ==
  \/ Unmatched \/ MatchOp \/ Matched
  \/ WriteOp \/ WriteFails \/ Undefined
  \/ OutputFails \/ Output

Next ==
  \/ \E p \in Packet : Receive(p)
  \/ SeeOutgoing
  \/ Handling

Spec == Init /\ [][Next]_vars
-----------------------------------------------------------------------------
(* What the handler holds between two operations; nothing is held in epoll.  *)
EngineTypeOK ==
  /\ W \in World
  /\ routs \in Seq(Route)
  /\ phase \in Phase
  /\ rst \in 1..Len(routs) + 1 /\ pos \in Nat \ {0}
  /\ phase = "idle" => rst = 1 /\ pos = 1 /\ pkt = <<>> /\ given.mem = mem
  /\ phase = "write" => rst <= Len(routs)
  /\ DOMAIN count_match = DOMAIN routs /\ \A k \in DOMAIN routs : count_match[k] \in Nat
  /\ count \in [Counter -> Nat]
  /\ [pkt |-> given.pkt, mem |-> given.mem] \in World

NextOp ==
  IF Matching /\ pos <= Len(MatchQ) THEN {MatchQ[pos]}
  ELSE IF phase = "write" /\ pos <= Len(WriteQ) THEN {WriteQ[pos]} ELSE {}

(* op_pkt_offset() checks each field for its own length and op_common()     *)
(* moves the longer: as long as both are equally long, and do not overlap,  *)
(* every byte an operation touches exists.                                  *)
DefinedWhenEven ==
  \A o \in NextOp : Even(o) /\ ~ Overlap(W, o) => Defined(W, o)

\* The bytes of the packet that are o's destination, and of those the masked one.
DstBytes(o) ==
  IF o.to # NULL THEN {} ELSE Where(pkt, o.set_to) + 1 .. Where(pkt, o.set_to) + o.set_to.len
DstLast(o) == Where(pkt, o.set_to) + o.set_to.len

WritesOnly(o) ==
  /\ DOMAIN pkt' = DOMAIN pkt
  /\ \A i \in DOMAIN pkt :
       /\ pkt'[i] # pkt[i] => i \in DstBytes(o)
       /\ i \in DstBytes(o) /\ i = DstLast(o) =>
            pkt'[i] \ o.set_to.mask = pkt[i] \ o.set_to.mask
  /\ \A b \in Buffer : mem'[b] # mem[b] => b = o.to

(* An operation changes its destination and nothing else, and of the last   *)
(* byte only the bits under the destination's mask.                         *)
EvenWritesOnlyDst ==
  [][phase = "write" /\ phase' = "write" => \A o \in NextOp : Even(o) => WritesOnly(o)]_vars

\* The copy of all bytes but the last leaves the last byte of the source alone.
SourceStays(o) ==
  o.to = o.from =>
    Base(W, o.to, o.set_to) - Base(W, o.from, o.set_from) \notin 1..Moved(o) - 1

(* The destination has what the source held before, although the source's   *)
(* last byte is read after the others were copied and source and            *)
(* destination may share bytes: as long as it is not one that the copy      *)
(* writes to.                                                               *)
TakesSource(o) ==
  /\ \A k \in 1..Moved(o) - 1 : Load(W', o.to, o.set_to, k) = Load(W, o.from, o.set_from, k)
  /\ Moved(o) > 0 =>
       Load(W', o.to, o.set_to, Moved(o)) \cap o.set_to.mask
         = Load(W, o.from, o.set_from, Moved(o)) \cap o.set_from.mask \cap o.set_to.mask
EvenWritesTakeSource ==
  [][phase = "write" /\ phase' = "write" =>
       \A o \in NextOp : Even(o) /\ SourceStays(o) => TakesSource(o)]_vars

(* Every packet received is decided by one rout or by none, and every packet *)
(* that a rout decided is sent, or is one of the failures: none is handled   *)
(* twice and none disappears (process_exec() breaks at the first match).     *)
Total(s) ==
  LET t[k \in 0..Len(s)] == IF k = 0 THEN 0 ELSE t[k-1] + s[k]
  IN t[Len(s)]
MatchedAccounted ==
  phase = "idle" =>
    /\ count["in"] = count["unmatched"] + Total(count_match)
    /\ Total(count_match)
         = count["sent"] + count["checkfail"] + count["sockdrop"] + count["unwritten"]

Promise == INSTANCE Switch WITH
  memory <- IF phase = "idle" THEN mem ELSE given.mem,
  matched <- IF phase = "idle" THEN count_match ELSE given.matched,
  output <- sent

(* A packet under way is seen as not yet handled; what is done to it step   *)
(* by step amounts to what the abstract switch does at once.                *)
ImplementsSwitch == Promise!SwitchSpec
=============================================================================
