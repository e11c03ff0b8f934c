------------------------------- MODULE Ruleset -------------------------------
(***************************************************************************)
(* Rules, routes, processes and interfaces: rule.c, rout.c, process.c,     *)
(* iface.c and the life of main(), on top of Operands.                     *)
(*                                                                         *)
(* xdpacket is one thread around epoll: pc is "loop" between two events,   *)
(* and otherwise names the function at work on one directive.  A directive *)
(* that builds or releases many objects takes one step for each, so that   *)
(* every partial failure and its rollback is a behaviour.  The tables of   *)
(* names (rule_JS, process_JS, iface_JS) and the heap of routs are partial *)
(* functions, as in Operands; a Judy queue is a sequence.                  *)
(***************************************************************************)
EXTENDS Operands, SequencesExt

CONSTANTS RuleName, IfaceName,
          RoutId,       \* heap addresses of routs: calloc() fails when none is left
          OpRequest,    \* the op mappings the input may hold
          MaxItems,     \* bound: items in the sequences of one mapping
          Input,        \* kinds of irregular input that are fed
          Fault         \* system calls that may fail

ASSUME FiniteRouts == IsFiniteSet(RoutId)
ASSUME RequestsAreArgs == OpRequest \subseteq OpArgs
ASSUME BoundedMappings == MaxItems \in Nat
ASSUME InputKinds == Input \subseteq {"malformed", "rules outside add"}
ASSUME FaultKinds == Fault \subseteq {"recvfrom", "eptk_register"}

VARIABLES rule,         \* rule_JS: name -> [match, write, refcnt]
          rout,         \* address -> [rule, output, match, write]
          process,      \* process_JS: interface name -> rout_JQ
          iface,        \* iface_JS: name -> [handler, refcnt]
          polled,       \* the interfaces whose socket epoll_track watches
          pc,           \* the function at work; "loop" when waiting in epoll
          mode, name,   \* the directive being parsed
          queue,        \* the parser's local match_JQ, write_JQ and rout_JQ
          target,       \* the queue the operation under construction is for
          items,        \* items seen so far in this mapping
          err,          \* err_cnt is not zero
          left          \* what is still to be freed of queues being released

registry == <<rule, rout, process, iface, polled>>
locals == <<mode, name, queue, target, items, err>>
rulesetVars == <<operandVars, registry, pc, locals, left>>
-----------------------------------------------------------------------------
EmptyQueues == [match |-> <<>>, write |-> <<>>, rout |-> <<>>]

Begin(where, m, n) ==
  /\ pc = "loop"
  /\ pc' = where
  /\ mode' = m
  /\ name' = n
  /\ UNCHANGED <<queue, target, items, err, left>>

\* The end of a directive: its locals are gone, to the loop or to main()'s die:.
Return ==
  /\ pc' = IF mode = "DIE" THEN "die" ELSE "loop"
  /\ mode' = IF mode = "DIE" THEN "DIE" ELSE "PRN"
  /\ name' = NULL
  /\ queue' = EmptyQueues
  /\ target' = "match"
  /\ items' = 0
  /\ err' = FALSE
  /\ UNCHANGED left

\* Queues go to the function that frees what is on them, one element a step.
Unwind(where, q) ==
  /\ pc' = where
  /\ left' = q
  /\ UNCHANGED locals

NextItem(failed) ==
  /\ items < MaxItems
  /\ items' = items + 1
  /\ err' = (err \/ failed)
  /\ UNCHANGED <<pc, mode, name, left>>
-----------------------------------------------------------------------------
(* rule.c *)

RuleBegin(n) ==
  /\ Begin("rule_parse", "ADD", n)
  /\ UNCHANGED <<operandVars, registry>>

\* op_parse_new() of the next item of the match or the write sequence.
OpItem(t, o, a) ==
  /\ pc = "rule_parse"
  /\ OpNew(o, a)
  /\ NextItem(FALSE)
  /\ target' = t
  /\ UNCHANGED <<queue, registry>>

\* The item is not an op mapping, op_new() refuses its arguments, or memory is out.
OpItemRefused ==
  /\ pc = "rule_parse"
  /\ at = "idle"
  /\ NextItem(TRUE)
  /\ UNCHANGED <<operandVars, queue, target, registry>>

\* op_new() goes on; jl_enqueue() refuses the NULL it returns when it fails.
OpItemStep ==
  /\ pc = "rule_parse"
  /\ \/ GetDstField /\ UNCHANGED <<queue, err>>
     \/ GetSrcField /\ UNCHANGED <<queue, err>>
     \/ GetDst /\ UNCHANGED <<queue, err>>
     \/ OpNewReturn /\ queue' = [queue EXCEPT ![target] = Append(@, cur)] /\ UNCHANGED err
     \/ OpNewDie /\ err' = TRUE /\ UNCHANGED queue
  /\ UNCHANGED <<registry, pc, mode, name, target, items, left>>

\* rule_new() of what could be resolved: items that failed do not stop it.
RuleNew ==
  /\ pc = "rule_parse"
  /\ at = "idle"
  /\ name \notin DOMAIN rule \cup LongName
  /\ rule' = Put(rule, name, [match |-> queue.match, write |-> queue.write, refcnt |-> 0])
  /\ Return
  /\ UNCHANGED <<operandVars, rout, process, iface, polled>>

\* Defect: the failure path frees the rule and forgets its queues.
RuleNewDieForgets ==
  /\ pc = "rule_parse"
  /\ at = "idle"
  /\ name \in DOMAIN rule \cup LongName
  /\ Return
  /\ UNCHANGED <<operandVars, registry>>

\* rule_new(): die.  rule_free() of the rule that was never published.
RuleNewDie ==
  /\ pc = "rule_parse"
  /\ at = "idle"
  /\ name \in DOMAIN rule \cup LongName
  /\ Unwind("rule_release_refs", queue.match \o queue.write)
  /\ UNCHANGED <<operandVars, registry>>

\* rule_parse(), process_parse(): NB_die() on a member that is neither scalar nor
\* sequence abandons the local queues.
Malformed ==
  /\ "malformed" \in Input
  /\ pc \in {"rule_parse", "process_parse"}
  /\ at = "idle"
  /\ Return
  /\ UNCHANGED <<operandVars, registry>>

\* Defect: a rule is deleted without a look at its count ...
RuleDropUnchecked(n) ==
  /\ n \in DOMAIN rule
  /\ rule' = Drop(rule, n)
  /\ Unwind("rule_release_refs", rule[n].match \o rule[n].write)
  /\ UNCHANGED <<operandVars, rout, process, iface, polled>>

\* ... or stays in rule_JS when it is freed.
RuleDropStaysListed(n) ==
  /\ n \in DOMAIN rule
  /\ rule[n].refcnt = 0
  /\ Unwind("rule_release_refs", rule[n].match \o rule[n].write)
  /\ UNCHANGED <<operandVars, registry>>

RuleDrop(n) ==
  /\ n \in DOMAIN rule
  /\ rule[n].refcnt = 0
  /\ rule' = Drop(rule, n)
  /\ Unwind("rule_release_refs", rule[n].match \o rule[n].write)
  /\ UNCHANGED <<operandVars, rout, process, iface, polled>>

RuleDel(n) == pc = "loop" /\ RuleDrop(n)

\* Defect: free() in place of op_free().
ReleaseOpBare ==
  /\ pc = "rule_release_refs"
  /\ left # <<>>
  /\ op' = Drop(op, Head(left))
  /\ left' = Tail(left)
  /\ UNCHANGED <<field, state, at, cur, args, registry, pc, locals>>

\* rule_release_refs(): match_JQ, then write_JQ.
ReleaseOp ==
  /\ pc = "rule_release_refs"
  /\ left # <<>>
  /\ OpFree(Head(left))
  /\ left' = Tail(left)
  /\ UNCHANGED <<registry, pc, locals>>

Released ==
  /\ pc \in {"rule_release_refs", "process_release_refs"}
  /\ left = <<>>
  /\ Return
  /\ UNCHANGED <<operandVars, registry>>
-----------------------------------------------------------------------------
(* process.c, rout.c *)

ProcessBegin(m, n) ==
  /\ Begin("process_parse", m, n)
  /\ UNCHANGED <<operandVars, registry>>

\* The rules sequence is parsed in every mode.
RoutsParsed == mode = "ADD" \/ "rules outside add" \in Input

\* Defect: the output interface is looked up without being counted.
RoutItemUncounted(k, r, i) ==
  /\ pc = "process_parse"
  /\ RoutsParsed
  /\ k \notin DOMAIN rout
  /\ r \in DOMAIN rule
  /\ i \in DOMAIN iface
  /\ rule' = Take(rule, r)
  /\ rout' = Put(rout, k, [rule |-> r, output |-> i,
                           match |-> rule[r].match, write |-> rule[r].write])
  /\ queue' = [queue EXCEPT !.rout = Append(@, k)]
  /\ NextItem(FALSE)
  /\ UNCHANGED <<operandVars, process, iface, polled, target>>

\* rout_new() takes the rule, then the interface, and keeps the rule's queues.
RoutItem(k, r, i) ==
  /\ pc = "process_parse"
  /\ RoutsParsed
  /\ k \notin DOMAIN rout
  /\ r \in DOMAIN rule
  /\ i \in DOMAIN iface
  /\ rule' = Take(rule, r)
  /\ iface' = Take(iface, i)
  /\ rout' = Put(rout, k, [rule |-> r, output |-> i,
                           match |-> rule[r].match, write |-> rule[r].write])
  /\ queue' = [queue EXCEPT !.rout = Append(@, k)]
  /\ NextItem(FALSE)
  /\ UNCHANGED <<operandVars, process, polled, target>>

\* rout_new(): die.  A rule that was taken before the interface was missed is released.
RoutItemDie(r, i) ==
  /\ pc = "process_parse"
  /\ RoutsParsed
  /\ r \notin DOMAIN rule \/ i \notin DOMAIN iface
  /\ rule' = IF r \in DOMAIN rule THEN Release(Take(rule, r), r) ELSE rule
  /\ NextItem(TRUE)
  /\ UNCHANGED <<operandVars, rout, process, iface, polled, queue, target>>

\* iface_handler_register(): an identical handler may be registered again.
HandlerFits(i, q) == iface[i].handler \in {NULL, q}

CanAttach(i, q) ==
  /\ i \notin DOMAIN process
  /\ i \in DOMAIN iface
  /\ HandlerFits(i, q)

ProcessNew ==
  /\ pc = "process_parse" /\ mode = "ADD"
  /\ CanAttach(name, queue.rout)
  /\ process' = Put(process, name, queue.rout)
  /\ iface' = [Take(iface, name) EXCEPT ![name].handler = queue.rout]
  /\ Return
  /\ UNCHANGED <<operandVars, rule, rout, polled>>

\* process_new(): die.  The reference to its interface is taken last, if at all.
ProcessNewDie ==
  /\ pc = "process_parse" /\ mode = "ADD"
  /\ ~ CanAttach(name, queue.rout)
  /\ Unwind("process_release_refs", queue.rout)
  /\ UNCHANGED <<operandVars, registry>>

\* Defect: the handler is left in place.
HandlerKept(i, q) == iface

\* iface_handler_clear() fails safely for a handler that is not the one given.
HandlerCleared(i, q) ==
  IF iface[i].handler = q THEN [iface EXCEPT ![i].handler = NULL] ELSE iface

ProcessDrop(n) ==
  /\ n \in DOMAIN process
  /\ iface' = Release(HandlerCleared(n, process[n]), n)
  /\ process' = Drop(process, n)
  /\ Unwind("process_release_refs", process[n])
  /\ UNCHANGED <<operandVars, rule, rout, polled>>

ProcessDel == pc = "process_parse" /\ mode = "DEL" /\ ProcessDrop(name)

\* Nothing to delete, or printing: what the mapping built stays where it is.
ProcessNop ==
  /\ pc = "process_parse"
  /\ mode = "PRN" \/ (mode = "DEL" /\ name \notin DOMAIN process)
  /\ Return
  /\ UNCHANGED <<operandVars, registry>>

\* Defect: rout_free() releases the interface only.
ReleaseRoutKeepsRule ==
  /\ pc = "process_release_refs"
  /\ left # <<>>
  /\ iface' = Release(iface, rout[Head(left)].output)
  /\ rout' = Drop(rout, Head(left))
  /\ left' = Tail(left)
  /\ UNCHANGED <<operandVars, rule, process, polled, pc, locals>>

\* process_release_refs(): rout_free() of each.
ReleaseRout ==
  /\ pc = "process_release_refs"
  /\ left # <<>>
  /\ LET k == Head(left)
     IN /\ rule' = Release(rule, rout[k].rule)
        /\ iface' = Release(iface, rout[k].output)
        /\ rout' = Drop(rout, k)
  /\ left' = Tail(left)
  /\ UNCHANGED <<operandVars, process, polled, pc, locals>>
-----------------------------------------------------------------------------
(* iface.c *)

\* iface_new() publishes the interface before eptk_register() may fail.
IfaceAdd(i) ==
  /\ pc = "loop"
  /\ i \notin DOMAIN iface \cup LongName
  /\ iface' = Put(iface, i, [handler |-> NULL, refcnt |-> 0])
  /\ \/ polled' = polled \cup {i}
     \/ "eptk_register" \in Fault /\ UNCHANGED polled
  /\ UNCHANGED <<operandVars, rule, rout, process, pc, locals, left>>

\* iface_free(), the destructor epoll_track runs when it forgets a socket.
IfaceFree(i) ==
  iface' = IF iface[i].refcnt = 0 THEN Drop(iface, i) ELSE iface

\* iface_parse() in delete mode relies on eptk_remove() to free the interface.
IfaceDel(i) ==
  /\ pc = "loop"
  /\ i \in DOMAIN iface
  /\ iface[i].refcnt = 0
  /\ i \in polled
  /\ polled' = polled \ {i}
  /\ IfaceFree(i)
  /\ UNCHANGED <<operandVars, rule, rout, process, pc, locals, left>>

\* iface_callback() returns 1 when recvfrom() fails, as it does on a downed interface.
RecvError(i) ==
  /\ "recvfrom" \in Fault
  /\ pc = "loop"
  /\ i \in polled
  /\ polled' = polled \ {i}
  /\ IfaceFree(i)
  /\ UNCHANGED <<operandVars, rule, rout, process, pc, locals, left>>
-----------------------------------------------------------------------------
(* field.c and main() *)

FieldDirective ==
  /\ pc = "loop"
  /\ \/ \E f \in FieldName, set \in FieldSet : FieldAdd(f, set)
     \/ \E f \in FieldName : FieldDel(f)
  /\ UNCHANGED <<registry, pc, locals, left>>

\* psg_kill_check() ends the loop.
Kill ==
  /\ Begin("die", "DIE", NULL)
  /\ UNCHANGED <<operandVars, registry>>

\* Defect: a loop until the table is empty, whatever the count.
EveryEntry(table) == DOMAIN table

Unreferenced(table) == {n \in DOMAIN table : table[n].refcnt = 0}

\* process_free_all(), then rule_free_all(), then field_free_all() ...
DieProcess ==
  /\ pc = "die"
  /\ \E n \in DOMAIN process : ProcessDrop(n)

DieRule ==
  /\ pc = "die"
  /\ process = EmptyTable
  /\ \E n \in Unreferenced(rule) : RuleDrop(n)

DieField ==
  /\ pc = "die"
  /\ process = EmptyTable
  /\ Unreferenced(rule) = {}
  /\ \E f \in Unreferenced(field) : FieldDel(f)
  /\ UNCHANGED <<registry, pc, locals, left>>

\* Defect: interfaces go first.
DieIfaceFirst ==
  /\ pc = "die"
  /\ polled' = {}
  /\ iface' = [i \in DOMAIN iface \ Unreferenced(iface) |-> iface[i]]
  /\ pc' = "exit"
  /\ UNCHANGED <<operandVars, rule, rout, process, locals, left>>

\* ... then eptk_free() and, for interfaces nothing polls, the destructor
\* iface_free_all().  The destructors of rules and fields find nothing more to free.
DieIface ==
  /\ pc = "die"
  /\ process = EmptyTable
  /\ Unreferenced(rule) = {}
  /\ Unreferenced(field) = {}
  /\ polled' = {}
  /\ iface' = [i \in DOMAIN iface \ Unreferenced(iface) |-> iface[i]]
  /\ pc' = "exit"
  /\ UNCHANGED <<operandVars, rule, rout, process, locals, left>>
-----------------------------------------------------------------------------
RulesetInit ==
  /\ OperandsInit
  /\ rule = EmptyTable
  /\ rout = EmptyTable
  /\ process = EmptyTable
  /\ iface = EmptyTable
  /\ polled = {}
  /\ pc = "loop"
  /\ mode = "PRN"
  /\ name = NULL
  /\ queue = EmptyQueues
  /\ target = "match"
  /\ items = 0
  /\ err = FALSE
  /\ left = <<>>

\* What happens to the program, in the loop or as the next item of its input ...
Event ==
  \/ FieldDirective
  \/ \E n \in RuleName : RuleBegin(n) \/ RuleDel(n)
  \/ \E m \in {"ADD", "DEL", "PRN"}, n \in IfaceName : ProcessBegin(m, n)
  \/ \E i \in IfaceName : IfaceAdd(i) \/ IfaceDel(i) \/ RecvError(i)
  \/ \E t \in {"match", "write"}, o \in OpId, a \in OpRequest : OpItem(t, o, a)
  \/ OpItemRefused
  \/ \E k \in RoutId, r \in RuleName, i \in IfaceName : RoutItem(k, r, i)
  \/ \E r \in RuleName, i \in IfaceName : RoutItemDie(r, i)
  \/ Malformed
  \/ Kill

\* ... and what the program does by itself.
Work ==
  \/ OpItemStep
  \/ RuleNew \/ RuleNewDie \/ ReleaseOp \/ Released
  \/ ProcessNew \/ ProcessNewDie \/ ProcessDel \/ ProcessNop \/ ReleaseRout
  \/ DieProcess \/ DieRule \/ DieField \/ DieIface

RulesetNext == Event \/ Work

RulesetSpec == RulesetInit /\ [][RulesetNext]_rulesetVars

\* The program never waits while it has work; nothing forces an event on it.
RulesetFairSpec == RulesetSpec /\ WF_rulesetVars(Work)
-----------------------------------------------------------------------------
Rule == [match : Seq(OpId), write : Seq(OpId), refcnt : Nat]

Rout == [rule : RuleName, output : IfaceName, match : Seq(OpId), write : Seq(OpId)]

Iface == [handler : Seq(RoutId) \cup {NULL}, refcnt : Nat]

RulesetTypeOK ==
  /\ DOMAIN rule \subseteq RuleName /\ rule \in [DOMAIN rule -> Rule]
  /\ DOMAIN rout \subseteq RoutId /\ rout \in [DOMAIN rout -> Rout]
  /\ DOMAIN process \subseteq IfaceName /\ process \in [DOMAIN process -> Seq(RoutId)]
  /\ DOMAIN iface \subseteq IfaceName /\ iface \in [DOMAIN iface -> Iface]
  /\ polled \subseteq DOMAIN iface
  /\ pc \in {"loop", "rule_parse", "rule_release_refs",
             "process_parse", "process_release_refs", "die", "exit"}
  /\ mode \in {"ADD", "DEL", "PRN", "DIE"}
  /\ name \in RuleName \cup IfaceName \cup {NULL}
  /\ queue \in [match : Seq(OpId), write : Seq(OpId), rout : Seq(RoutId)]
  /\ target \in {"match", "write"}
  /\ items \in 0..MaxItems
  /\ err \in BOOLEAN
  /\ left \in Seq(OpId \cup RoutId)

(* rule_get() and iface_get() against their releases: the count of a rule   *)
(* is the number of routs through it, that of an interface the number of    *)
(* routs that end there and of processes that start there.                  *)
RefcntExact ==
  /\ \A r \in DOMAIN rule :
       rule[r].refcnt = Cardinality({k \in DOMAIN rout : rout[k].rule = r})
  /\ \A i \in DOMAIN iface :
       iface[i].refcnt = Cardinality({k \in DOMAIN rout : rout[k].output = i})
                         + Cardinality({i} \cap DOMAIN process)

(* process_exec() runs off the queue iface_handler_register() was given and *)
(* rout_set_new() copied the queues of the rule: whatever a packet can      *)
(* reach through a polled interface is allocated, whole and current.        *)
HotPathLive ==
  \A i \in polled : iface[i].handler # NULL =>
     \A k \in ToSet(iface[i].handler) :
        /\ k \in DOMAIN rout
        /\ rout[k].output \in DOMAIN iface
        /\ rout[k].rule \in DOMAIN rule
        /\ rout[k].match = rule[rout[k].rule].match
        /\ rout[k].write = rule[rout[k].rule].write
        /\ \A o \in ToSet(rout[k].match \o rout[k].write) : Complete(o)

(* An interface has a handler exactly while a process is defined on it, and *)
(* it is that process: registration and clearing agree with process_JS.     *)
HandlerIsProcess ==
  /\ DOMAIN process \subseteq DOMAIN iface
  /\ \A i \in DOMAIN iface :
        iface[i].handler = IF i \in DOMAIN process THEN process[i] ELSE NULL

\* Every queue that still owns operations.
OwnerQueues ==
  {<<r, rule[r].match \o rule[r].write>> : r \in DOMAIN rule}
    \cup {<<"parser", IF pc = "rule_parse" THEN queue.match \o queue.write ELSE <<>>>>,
          <<"release", IF pc = "rule_release_refs" THEN left ELSE <<>>>>}

(* No operation is on two queues or twice on one: rule_release_refs() never *)
(* frees twice what a failed or a deleted rule had.                         *)
OneOwner ==
  /\ \A q \in OwnerQueues : IsInjective(q[2]) /\ \A o \in ToSet(q[2]) : Complete(o)
  /\ \A p, q \in OwnerQueues : p # q => ToSet(p[2]) \cap ToSet(q[2]) = {}

(* Between two events every operation belongs to a rule and every rout to a *)
(* process (process.c:13-14): no directive, failed or not, leaves an object *)
(* behind that would keep a count from ever returning to zero.              *)
NoLeak ==
  pc = "loop" =>
    /\ DOMAIN op = UNION {ToSet(rule[r].match \o rule[r].write) : r \in DOMAIN rule}
    /\ DOMAIN rout = UNION {ToSet(process[i]) : i \in DOMAIN process}

(* At exit the order of main()'s die: section has let every count reach     *)
(* zero, and the destructors find nothing to complain about.                *)
CleanExit ==
  pc = "exit" =>
    /\ {field, state, op, rule, rout, process, iface} = {EmptyTable}
    /\ polled = {}

FieldsOf(q) == (UNION {{op[o].dst_field, op[o].src_field} : o \in ToSet(q)}) \ {NULL}

Promise == INSTANCE Catalog WITH
  fields <- DOMAIN field,
  rules <- [r \in DOMAIN rule |-> FieldsOf(rule[r].match \o rule[r].write)],
  ifaces <- DOMAIN iface,
  routes <- [i \in DOMAIN process |->
               {<<rout[k].rule, rout[k].output>> : k \in ToSet(process[i])}]

(* With its counts, its rollbacks and its faults the program implements the *)
(* catalog: what some rule, process or packet uses is never deleted, and a  *)
(* directive takes effect at one step, however many steps it takes.         *)
ImplementsCatalog == Promise!CatalogSpec

(* Directives reach fields, states and operations only by way of what       *)
(* Operands describes, so that what is proved of Operands holds here.       *)
ImplementsOperands == OperandsSpec

(* Every directive comes back to the loop, and a signal, after which there  *)
(* is no way back to it, ends the program: the loops that free everything   *)
(* end though they skip what is still referenced.                           *)
DirectiveEnds == pc # "loop" ~> pc \in {"loop", "exit"}

(* iface_parse() adds an interface with its socket in epoll and deletes it  *)
(* by way of epoll: every interface that is listed can be received on.      *)
ListedIsPolled == pc = "loop" => DOMAIN iface = polled
=============================================================================
