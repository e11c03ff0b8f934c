------------------------------- MODULE Switch -------------------------------
(***************************************************************************)
(* What a process promises of a packet, in one step: the first rout all of *)
(* whose match operations hold decides; its writes are applied in order;   *)
(* the result is output if all of them could be applied.                   *)
(***************************************************************************)
EXTENDS PacketOps

CONSTANTS Packet,       \* frames that may arrive
          Repaired(_)   \* checksum(): a packet with its checksums made right

VARIABLES routs,        \* the process: a sequence of [match, write, output]
          memory,       \* the buffers of states and values
          matched,      \* rout -> packets it has decided
          output        \* the last packet output, with its interface

switchVars == <<routs, memory, matched, output>>
-----------------------------------------------------------------------------
Matches(w, r) == \A n \in DOMAIN r.match : OpMatch(w, r.match[n])

Decides(w, k) == Matches(w, routs[k]) /\ \A j \in 1..k - 1 : ~ Matches(w, routs[j])

\* One write, unless an earlier one could not be applied.
Apply(done, o) ==
  IF done.ok /\ Located(o, done.w.pkt)
  THEN [w |-> OpWrite(done.w, o), ok |-> TRUE]
  ELSE [w |-> done.w, ok |-> FALSE]

\* What n of the writes amount to, for every n.
Applied(w, ops) ==
  LET done[n \in 0..Len(ops)] ==
        IF n = 0 THEN [w |-> w, ok |-> TRUE] ELSE Apply(done[n-1], ops[n])
  IN done

Written(w, r) == Applied(w, r.write)[Len(r.write)]

Handle(p) ==
  \E k \in DOMAIN routs :
     LET w == [pkt |-> p, mem |-> memory]
         done == Written(w, routs[k])
     IN /\ Decides(w, k)
        /\ matched' = [matched EXCEPT ![k] = @ + 1]
        /\ memory' = done.w.mem
        /\ \/ done.ok /\ output' = <<routs[k].output, Repaired(done.w.pkt)>>
           \/ UNCHANGED output     \* not all written, or the interface cannot send it
        /\ UNCHANGED routs

SwitchInit ==
  /\ matched = [k \in DOMAIN routs |-> 0]
  /\ output = <<>>

SwitchNext == \E p \in Packet : Handle(p)

SwitchSpec == SwitchInit /\ [][SwitchNext]_switchVars
=============================================================================
