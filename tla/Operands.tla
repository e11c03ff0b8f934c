------------------------------ MODULE Operands ------------------------------
(***************************************************************************)
(* Fields, states and operations: field.c, memref.c, operations.c.         *)
(*                                                                         *)
(* A field describes an extent of a packet; a state is a named buffer      *)
(* shared by every operation that names it; an operation holds a counted   *)
(* reference to each field and each state it uses and keeps a private      *)
(* copy of the fields' sets for the packet path.  field_JS, state_JS and   *)
(* the heap of operations are partial functions: their DOMAIN is what is   *)
(* allocated.  op_new() takes up to four references one after the other,   *)
(* any of which can fail, and is one action per reference.                 *)
(***************************************************************************)
EXTENDS Naturals, FiniteSets

CONSTANTS FieldName,    \* names a user may give to a field
          StateName,    \* names a user may give to a state
          LongName,     \* the names longer than MAXLINELEN, which no object can have
          Offset,       \* field_set.offt
          Shape,        \* field_set.len and field_set.mask
          OpId,         \* heap addresses of operations: calloc() fails when none is left
          NULL,
          VALUE         \* the literal value owned by a single operation

ASSUME FiniteHeap == IsFiniteSet(OpId)
ASSUME NullIsNoName == NULL \notin FieldName \cup StateName \cup OpId
ASSUME ValueIsNoName == VALUE \notin StateName \cup {NULL}

VARIABLES field,        \* field_JS: name -> [set, refcnt]
          state,        \* state_JS: name -> [set, refcnt]
          op,           \* address -> struct op
          at,           \* the reference op_new() takes next, or "idle"
          cur,          \* op_new(): ret
          args          \* op_new(): its parameters

operandVars == <<field, state, op, at, cur, args>>
-----------------------------------------------------------------------------
FieldSet == [offt : Offset, shape : Shape]

\* What a struct field and the shared form of a struct memref have in common.
Counted == [set : FieldSet, refcnt : Nat]

\* A pointer that calloc() left zero is NULL, and so is a set not yet copied.
Op == [dst_field : FieldName \cup {NULL}, src_field : FieldName \cup {NULL},
       dst : StateName \cup {NULL},       src : StateName \cup {NULL, VALUE},
       set_to : FieldSet \cup {NULL},     set_from : FieldSet \cup {NULL}]

\* "bad" stands for a value text that value_parse() refuses.
OpArgs == [dst_field : FieldName \cup {NULL}, src_field : FieldName \cup {NULL},
           dst : StateName \cup {NULL},       src : StateName \cup {NULL},
           value : {"none", "good", "bad"}]

ValidArgs(a) ==
  /\ a.dst_field # NULL \/ a.src_field # NULL
  /\ a.dst_field # NULL \/ a.dst # NULL
  /\ a.src_field # NULL \/ a.src # NULL \/ a.value # "none"
  /\ a.src = NULL \/ a.value = "none"

Put(table, key, entry) ==
  [k \in DOMAIN table \cup {key} |-> IF k = key THEN entry ELSE table[k]]

Drop(table, key) == [k \in DOMAIN table \ {key} |-> table[k]]

\* refcnt_take(), and refcnt_release() which only complains about a zero count.
Take(table, key) == [table EXCEPT ![key].refcnt = @ + 1]

Release(table, key) ==
  IF key \in DOMAIN table /\ table[key].refcnt > 0
  THEN [table EXCEPT ![key].refcnt = @ - 1]
  ELSE table

\* memref_release(): the last consumer frees the state; a literal value is not in the table.
StateRelease(table, key) ==
  IF key \in DOMAIN table /\ table[key].refcnt <= 1
  THEN Drop(table, key)
  ELSE Release(table, key)
-----------------------------------------------------------------------------
\* Defect: an existing field is given its new extent under those who use it.
FieldAddRedefines(f, set) ==
  /\ f \notin LongName
  /\ field' = Put(field, f, [set |-> set,
                             refcnt |-> IF f \in DOMAIN field THEN field[f].refcnt ELSE 0])
  /\ UNCHANGED <<state, op, at, cur, args>>

\* field_new() by way of field_parse(): no clobbering of an existing name.
FieldAdd(f, set) ==
  /\ f \notin DOMAIN field \cup LongName
  /\ field' = Put(field, f, [set |-> set, refcnt |-> 0])
  /\ UNCHANGED <<state, op, at, cur, args>>

\* field_parse() in delete mode: refused while the field is in use.
FieldDel(f) ==
  /\ f \in DOMAIN field
  /\ field[f].refcnt = 0
  /\ field' = Drop(field, f)
  /\ UNCHANGED <<state, op, at, cur, args>>
-----------------------------------------------------------------------------
Blank == [dst_field |-> NULL, src_field |-> NULL, dst |-> NULL, src |-> NULL,
          set_to |-> NULL, set_from |-> NULL]

\* op_new() up to its calloc().
OpNew(o, a) ==
  /\ at = "idle"
  /\ ValidArgs(a)
  /\ o \notin DOMAIN op
  /\ op' = Put(op, o, Blank)
  /\ at' = "dst_field"
  /\ cur' = o
  /\ args' = a
  /\ UNCHANGED <<field, state>>

GetDstField ==
  /\ at = "dst_field"
  /\ args.dst_field \in DOMAIN field \cup {NULL}
  /\ op' = [op EXCEPT ![cur].dst_field = args.dst_field]
  /\ field' = IF args.dst_field = NULL THEN field ELSE Take(field, args.dst_field)
  /\ at' = "src_field"
  /\ UNCHANGED <<state, cur, args>>

\* Defect: one reference is thought enough when both sides are the same field.
GetSrcFieldOnce ==
  /\ at = "src_field"
  /\ args.src_field \in DOMAIN field \cup {NULL}
  /\ op' = [op EXCEPT ![cur].src_field = args.src_field]
  /\ field' = IF args.src_field \in {NULL, args.dst_field} THEN field ELSE Take(field, args.src_field)
  /\ at' = "dst"
  /\ UNCHANGED <<state, cur, args>>

GetSrcField ==
  /\ at = "src_field"
  /\ args.src_field \in DOMAIN field \cup {NULL}
  /\ op' = [op EXCEPT ![cur].src_field = args.src_field]
  /\ field' = IF args.src_field = NULL THEN field ELSE Take(field, args.src_field)
  /\ at' = "dst"
  /\ UNCHANGED <<state, cur, args>>

\* The field an operand is sized by: its own, or else the other side's.
DstSet == field[IF args.dst_field # NULL THEN op[cur].dst_field ELSE op[cur].src_field].set
SrcSet == field[IF args.src_field # NULL THEN op[cur].src_field ELSE op[cur].dst_field].set

\* Defect: an existing state is handed out whatever its length and mask.
StateFitsAny(s, set) == s \notin LongName

\* memref_state_get(): two users of a state agree on its length and mask.
StateFits(s, set) ==
  IF s \in DOMAIN state THEN state[s].set.shape = set.shape ELSE s \notin LongName

\* Defect: only the operation that creates the state counts.
StateGetUncounted(s, set) ==
  IF s \in DOMAIN state THEN state ELSE Put(state, s, [set |-> set, refcnt |-> 1])

StateGet(s, set) ==
  IF s \in DOMAIN state
  THEN Take(state, s)
  ELSE Put(state, s, [set |-> set, refcnt |-> 1])

GetDst ==
  /\ at = "dst"
  /\ args.dst # NULL => StateFits(args.dst, DstSet)
  /\ state' = IF args.dst = NULL THEN state ELSE StateGet(args.dst, DstSet)
  /\ op' = [op EXCEPT ![cur].dst = args.dst]
  /\ at' = "src"
  /\ UNCHANGED <<field, cur, args>>

\* The source memref, and with it the encoded form that op_new() returns.
OpNewReturn ==
  /\ at = "src"
  /\ args.src # NULL => StateFits(args.src, SrcSet)
  /\ args.value # "bad"
  /\ state' = IF args.src = NULL THEN state ELSE StateGet(args.src, SrcSet)
  /\ op' = [op EXCEPT ![cur].src = IF args.value = "good" THEN VALUE ELSE args.src,
                      ![cur].set_to = DstSet,
                      ![cur].set_from = SrcSet]
  /\ at' = "idle"
  /\ cur' = NULL
  /\ args' = NULL
  /\ UNCHANGED field

\* op_free(): every reference the operation holds, in whatever state it is.
Free(o) ==
  /\ field' = Release(Release(field, op[o].dst_field), op[o].src_field)
  /\ state' = StateRelease(StateRelease(state, op[o].dst), op[o].src)
  /\ op' = Drop(op, o)

\* The reference op_new() needs next cannot be had.
CannotGet ==
  \/ at = "dst_field" /\ args.dst_field \notin DOMAIN field \cup {NULL}
  \/ at = "src_field" /\ args.src_field \notin DOMAIN field \cup {NULL}
  \/ at = "dst" /\ args.dst # NULL /\ ~ StateFits(args.dst, DstSet)
  \/ at = "src" /\ args.src # NULL /\ ~ StateFits(args.src, SrcSet)
  \/ at = "src" /\ args.value = "bad"

\* op_new(): die
OpNewDie ==
  /\ CannotGet
  /\ Free(cur)
  /\ at' = "idle"
  /\ cur' = NULL
  /\ args' = NULL

\* op_free() of an operation that op_new() returned, by the rule that owns it.
OpFree(o) ==
  /\ at = "idle"
  /\ o \in DOMAIN op
  /\ Free(o)
  /\ UNCHANGED <<at, cur, args>>
-----------------------------------------------------------------------------
EmptyTable == [k \in {} |-> NULL]

OperandsInit ==
  /\ field = EmptyTable
  /\ state = EmptyTable
  /\ op = EmptyTable
  /\ at = "idle"
  /\ cur = NULL
  /\ args = NULL

OpNewStep == GetDstField \/ GetSrcField \/ GetDst \/ OpNewReturn \/ OpNewDie

OperandsNext ==
  \/ \E f \in FieldName, set \in FieldSet : FieldAdd(f, set)
  \/ \E f \in FieldName : FieldDel(f)
  \/ \E o \in OpId, a \in OpArgs : OpNew(o, a)
  \/ OpNewStep
  \/ \E o \in OpId : OpFree(o)

OperandsSpec == OperandsInit /\ [][OperandsNext]_operandVars
-----------------------------------------------------------------------------
OperandsTypeOK ==
  /\ DOMAIN field \subseteq FieldName /\ field \in [DOMAIN field -> Counted]
  /\ DOMAIN state \subseteq StateName /\ state \in [DOMAIN state -> Counted]
  /\ DOMAIN op \subseteq OpId /\ op \in [DOMAIN op -> Op]
  /\ at \in {"idle", "dst_field", "src_field", "dst", "src"}
  /\ cur \in DOMAIN op \cup {NULL}
  /\ args \in OpArgs \cup {NULL}

DstFieldUsers(f) == {o \in DOMAIN op : op[o].dst_field = f}
SrcFieldUsers(f) == {o \in DOMAIN op : op[o].src_field = f}
DstUsers(s) == {o \in DOMAIN op : op[o].dst = s}
SrcUsers(s) == {o \in DOMAIN op : op[o].src = s}

(* The count of a field is the number of operands that point at it, and     *)
(* every such pointer is to a live field: field_get() in op_new() and       *)
(* field_release() in op_free() pair up on every path, rollback included.   *)
FieldRefExact ==
  /\ \A f \in DOMAIN field :
        field[f].refcnt = Cardinality(DstFieldUsers(f)) + Cardinality(SrcFieldUsers(f))
  /\ \A o \in DOMAIN op :
        {op[o].dst_field, op[o].src_field} \subseteq DOMAIN field \cup {NULL}

(* A state lives exactly as long as some operand points at it and counts    *)
(* those operands: memref_state_get() against memref_release().             *)
StateRefExact ==
  /\ \A s \in DOMAIN state :
        /\ state[s].refcnt = Cardinality(DstUsers(s)) + Cardinality(SrcUsers(s))
        /\ state[s].refcnt > 0
  /\ \A o \in DOMAIN op :
        {op[o].dst, op[o].src} \subseteq DOMAIN state \cup {NULL, VALUE}

Complete(o) == o \in DOMAIN op /\ o # cur

(* The packet path moves set_to's and set_from's length of bytes to and     *)
(* from a state's buffer: every finished operation agrees with the shape    *)
(* the buffer was allocated for, however the state came to be shared.       *)
SharedStateAgrees ==
  \A o \in DOMAIN op : Complete(o) =>
     /\ op[o].dst \in StateName => op[o].set_to.shape = state[op[o].dst].set.shape
     /\ op[o].src \in StateName => op[o].set_from.shape = state[op[o].src].set.shape

\* The fields whose sets op_new() copies: the other side's when a side has none.
ToField(o) == IF op[o].dst_field # NULL THEN op[o].dst_field ELSE op[o].src_field
FromField(o) == IF op[o].src_field # NULL THEN op[o].src_field ELSE op[o].dst_field

(* The sets op_new() copied for the packet path are still those of the      *)
(* fields the operation refers to: a name cannot be deleted and defined     *)
(* anew with another extent under an operation that uses it.                *)
CachedSetCurrent ==
  \A o \in DOMAIN op : Complete(o) =>
     /\ ToField(o) \in DOMAIN field /\ op[o].set_to = field[ToField(o)].set
     /\ FromField(o) \in DOMAIN field /\ op[o].set_from = field[FromField(o)].set
-----------------------------------------------------------------------------
(* What op_new() has filled in so far, at each of its steps.                *)
OpNewProgress ==
  /\ at = "idle" <=> cur = NULL
  /\ at # "idle" =>
       /\ args \in OpArgs /\ ValidArgs(args)
       /\ op[cur] =
            [dst_field |-> IF at = "dst_field" THEN NULL ELSE args.dst_field,
             src_field |-> IF at \in {"dst_field", "src_field"} THEN NULL ELSE args.src_field,
             dst |-> IF at = "src" THEN args.dst ELSE NULL,
             src |-> NULL, set_to |-> NULL, set_from |-> NULL]

(* The state op_new() has taken for the destination has the shape that it   *)
(* will copy into set_to.                                                   *)
UnfinishedAgrees ==
  at = "src" /\ args.dst # NULL => state[args.dst].set.shape = DstSet.shape

OperandsInv ==
  /\ OperandsTypeOK
  /\ OpNewProgress
  /\ UnfinishedAgrees
  /\ FieldRefExact
  /\ StateRefExact
  /\ SharedStateAgrees
  /\ CachedSetCurrent
=============================================================================
