---------------------------- MODULE RulesetProofs ----------------------------
(***************************************************************************)
(* The invariants of Operands, for every number of fields, states and      *)
(* operations; those of Ruleset, for every number of names, operations and *)
(* routs; and that Ruleset implements Operands and Catalog.                *)
(*                                                                         *)
(* OperandsInv is inductive: FieldRefExact and StateRefExact need          *)
(* OpNewProgress, which says what an unfinished op_new() holds, and        *)
(* CachedSetCurrent needs FieldRefExact, which is why a field that is in   *)
(* use cannot be deleted.                                                  *)
(*                                                                         *)
(* RulesetInv is inductive.  The counts (RefcntExact) need to know that a  *)
(* rout points at a live rule and a live interface (RoutsCurrent), which   *)
(* in turn holds because a counted object is not freed; and what a queue   *)
(* being released still holds must be allocated and on no other queue      *)
(* (OpsOwned, RoutsOwned), or it would be freed twice.  The same predicate *)
(* Owned serves operations, owned by rules, and routs, owned by processes. *)
(***************************************************************************)
EXTENDS Ruleset, FiniteSetTheorems, SequenceTheorems, TLAPS

Hits(x, k) == IF x = k THEN 1 ELSE 0
-----------------------------------------------------------------------------
(* Release() takes one reference from one entry and touches nothing else.   *)
LEMMA ReleaseOne ==
  ASSUME NEW T, T \in [DOMAIN T -> Counted], NEW k,
         NEW R, R = Release(T, k)
  PROVE  /\ DOMAIN R = DOMAIN T
         /\ R \in [DOMAIN R -> Counted]
         /\ \A x \in DOMAIN T :
              /\ R[x].set = T[x].set
              /\ T[x].refcnt > 0 => R[x].refcnt = T[x].refcnt - Hits(x, k)
              /\ x # k => R[x] = T[x]
<1>1. CASE k \in DOMAIN T /\ T[k].refcnt > 0
  <2>1. T[k] \in Counted /\ T[k].refcnt - 1 \in Nat
    BY <1>1 DEF Counted
  <2>2. R = [T EXCEPT ![k].refcnt = @ - 1]
    BY <1>1 DEF Release
  <2>. QED
    BY <1>1, <2>1, <2>2 DEF Hits, Counted
<1>2. CASE ~(k \in DOMAIN T /\ T[k].refcnt > 0)
  <2>1. R = T
    BY <1>2 DEF Release
  <2>. QED
    BY <1>2, <2>1 DEF Hits, Counted
<1>. QED
  BY <1>1, <1>2

(* op_free() releases two fields, which may be the same one.                *)
LEMMA ReleaseTwo ==
  ASSUME NEW T, T \in [DOMAIN T -> Counted], NEW a, NEW b,
         \A x \in DOMAIN T : T[x].refcnt >= Hits(x, a) + Hits(x, b),
         NEW R, R = Release(Release(T, a), b)
  PROVE  /\ DOMAIN R = DOMAIN T
         /\ R \in [DOMAIN R -> Counted]
         /\ \A x \in DOMAIN T :
              /\ R[x].set = T[x].set
              /\ R[x].refcnt = T[x].refcnt - (Hits(x, a) + Hits(x, b))
<1>1. PICK S : S = Release(T, a)
  OBVIOUS
<1>2. /\ DOMAIN S = DOMAIN T
      /\ S \in [DOMAIN S -> Counted]
      /\ \A x \in DOMAIN T :
           /\ S[x].set = T[x].set
           /\ T[x].refcnt > 0 => S[x].refcnt = T[x].refcnt - Hits(x, a)
           /\ x # a => S[x] = T[x]
  BY <1>1, ReleaseOne
<1>3. /\ DOMAIN R = DOMAIN S
      /\ R \in [DOMAIN R -> Counted]
      /\ \A x \in DOMAIN S :
           /\ R[x].set = S[x].set
           /\ S[x].refcnt > 0 => R[x].refcnt = S[x].refcnt - Hits(x, b)
           /\ x # b => R[x] = S[x]
  BY <1>1, <1>2, ReleaseOne
<1>4. ASSUME NEW x \in DOMAIN T
      PROVE  /\ R[x].set = T[x].set
             /\ R[x].refcnt = T[x].refcnt - (Hits(x, a) + Hits(x, b))
  <2>1. T[x] \in Counted /\ S[x] \in Counted /\ R[x] \in Counted
    BY <1>2, <1>3
  <2>. QED
    BY <1>2, <1>3, <2>1 DEF Hits, Counted
<1>. QED
  BY <1>2, <1>3, <1>4

(* memref_release() of a table whose entries are all in use.                *)
LEMMA StateReleaseOne ==
  ASSUME NEW T, T \in [DOMAIN T -> Counted],
         \A x \in DOMAIN T : T[x].refcnt > 0, NEW k,
         NEW R, R = StateRelease(T, k)
  PROVE  /\ \A x : x \in DOMAIN R <=> x \in DOMAIN T /\ T[x].refcnt > Hits(x, k)
         /\ R \in [DOMAIN R -> Counted]
         /\ \A x \in DOMAIN R :
              /\ R[x].set = T[x].set
              /\ R[x].refcnt = T[x].refcnt - Hits(x, k)
              /\ R[x].refcnt > 0
<1>. \A x \in DOMAIN T : T[x].refcnt \in Nat
  BY DEF Counted
<1>1. CASE k \in DOMAIN T /\ T[k].refcnt <= 1
  <2>1. R = [x \in DOMAIN T \ {k} |-> T[x]]
    BY <1>1 DEF StateRelease, Drop
  <2>. QED
    BY <1>1, <2>1 DEF Hits, Counted
<1>2. CASE ~(k \in DOMAIN T /\ T[k].refcnt <= 1)
  <2>1. R = Release(T, k)
    BY <1>2 DEF StateRelease
  <2>2. /\ DOMAIN R = DOMAIN T
        /\ R \in [DOMAIN R -> Counted]
        /\ \A x \in DOMAIN T :
             /\ R[x].set = T[x].set
             /\ R[x].refcnt = T[x].refcnt - Hits(x, k)
    BY <2>1, ReleaseOne
  <2>. QED
    BY <1>2, <2>2 DEF Hits
<1>. QED
  BY <1>1, <1>2

(* op_free() releases two memrefs, which may be the same state.             *)
LEMMA StateReleaseTwo ==
  ASSUME NEW T, T \in [DOMAIN T -> Counted], NEW a, NEW b,
         \A x \in DOMAIN T : T[x].refcnt > 0 /\ T[x].refcnt >= Hits(x, a) + Hits(x, b),
         NEW R, R = StateRelease(StateRelease(T, a), b)
  PROVE  /\ \A x : x \in DOMAIN R <=> x \in DOMAIN T /\ T[x].refcnt > Hits(x, a) + Hits(x, b)
         /\ R \in [DOMAIN R -> Counted]
         /\ \A x \in DOMAIN R :
              /\ R[x].set = T[x].set
              /\ R[x].refcnt = T[x].refcnt - (Hits(x, a) + Hits(x, b))
              /\ R[x].refcnt > 0
<1>1. PICK S : S = StateRelease(T, a)
  OBVIOUS
<1>2. /\ \A x : x \in DOMAIN S <=> x \in DOMAIN T /\ T[x].refcnt > Hits(x, a)
      /\ S \in [DOMAIN S -> Counted]
      /\ \A x \in DOMAIN S :
           /\ S[x].set = T[x].set
           /\ S[x].refcnt = T[x].refcnt - Hits(x, a)
           /\ S[x].refcnt > 0
  BY <1>1, StateReleaseOne
<1>3. /\ \A x : x \in DOMAIN R <=> x \in DOMAIN S /\ S[x].refcnt > Hits(x, b)
      /\ R \in [DOMAIN R -> Counted]
      /\ \A x \in DOMAIN R :
           /\ R[x].set = S[x].set
           /\ R[x].refcnt = S[x].refcnt - Hits(x, b)
           /\ R[x].refcnt > 0
  BY <1>1, <1>2, StateReleaseOne
<1>4. \A x \in DOMAIN T : T[x].refcnt \in Nat
  BY DEF Counted
<1>. QED
  BY <1>2, <1>3, <1>4 DEF Hits
-----------------------------------------------------------------------------
(* A set of allocated operations is finite, and counts at least its member. *)
LEMMA SubsetCounted ==
  ASSUME OperandsTypeOK
  PROVE  \A S \in SUBSET DOMAIN op :
           /\ IsFiniteSet(S)
           /\ Cardinality(S) \in Nat
           /\ \A o \in S : Cardinality(S) >= 1
<1>1. IsFiniteSet(DOMAIN op)
  BY FiniteHeap, FS_Subset DEF OperandsTypeOK
<1>2. ASSUME NEW S \in SUBSET DOMAIN op
      PROVE  IsFiniteSet(S) /\ Cardinality(S) \in Nat
  BY <1>1, FS_Subset, FS_CardinalityType
<1>3. ASSUME NEW S \in SUBSET DOMAIN op, NEW o \in S
      PROVE  Cardinality(S) >= 1
  <2>1. Cardinality(S) # 0
    BY <1>2, FS_EmptySet
  <2>. QED
    BY <1>2, <2>1
<1>. QED
  BY <1>2, <1>3

(* Every user of a field or of a state is an allocated operation.           *)
LEMMA UsersAreOps ==
  \A x : /\ DstFieldUsers(x) \in SUBSET DOMAIN op
         /\ SrcFieldUsers(x) \in SUBSET DOMAIN op
         /\ DstUsers(x) \in SUBSET DOMAIN op
         /\ SrcUsers(x) \in SUBSET DOMAIN op
BY DEF DstFieldUsers, SrcFieldUsers, DstUsers, SrcUsers

(* The users of a field or of a state are finitely many operations.         *)
LEMMA UsersFinite ==
  ASSUME OperandsTypeOK
  PROVE  \A x : /\ IsFiniteSet(DstFieldUsers(x)) /\ Cardinality(DstFieldUsers(x)) \in Nat
                /\ IsFiniteSet(SrcFieldUsers(x)) /\ Cardinality(SrcFieldUsers(x)) \in Nat
                /\ IsFiniteSet(DstUsers(x)) /\ Cardinality(DstUsers(x)) \in Nat
                /\ IsFiniteSet(SrcUsers(x)) /\ Cardinality(SrcUsers(x)) \in Nat
BY SubsetCounted, UsersAreOps

(* An operand that points at x is one of the users x counts.                *)
LEMMA UsersCounted ==
  ASSUME OperandsTypeOK, NEW o \in DOMAIN op
  PROVE  \A x : /\ Cardinality(DstFieldUsers(x)) >= Hits(x, op[o].dst_field)
                /\ Cardinality(SrcFieldUsers(x)) >= Hits(x, op[o].src_field)
                /\ Cardinality(DstUsers(x)) >= Hits(x, op[o].dst)
                /\ Cardinality(SrcUsers(x)) >= Hits(x, op[o].src)
<1>1. \A x : /\ x = op[o].dst_field => o \in DstFieldUsers(x)
             /\ x = op[o].src_field => o \in SrcFieldUsers(x)
             /\ x = op[o].dst => o \in DstUsers(x)
             /\ x = op[o].src => o \in SrcUsers(x)
  BY DEF DstFieldUsers, SrcFieldUsers, DstUsers, SrcUsers
<1>. QED
  BY <1>1, SubsetCounted, UsersAreOps, UsersFinite DEF Hits

(* Freeing an operation takes it out of every set of users it was in.       *)
LEMMA FreedUsers ==
  ASSUME OperandsTypeOK, NEW o \in DOMAIN op, op' = Drop(op, o)
  PROVE  \A x :
           /\ Cardinality(DstFieldUsers(x)') = Cardinality(DstFieldUsers(x)) - Hits(x, op[o].dst_field)
           /\ Cardinality(SrcFieldUsers(x)') = Cardinality(SrcFieldUsers(x)) - Hits(x, op[o].src_field)
           /\ Cardinality(DstUsers(x)') = Cardinality(DstUsers(x)) - Hits(x, op[o].dst)
           /\ Cardinality(SrcUsers(x)') = Cardinality(SrcUsers(x)) - Hits(x, op[o].src)
<1>1. DOMAIN op' = DOMAIN op \ {o} /\ \A p \in DOMAIN op' : op'[p] = op[p]
  BY DEF Drop
<1>2. \A x : /\ DstFieldUsers(x)' = DstFieldUsers(x) \ {o}
             /\ SrcFieldUsers(x)' = SrcFieldUsers(x) \ {o}
             /\ DstUsers(x)' = DstUsers(x) \ {o}
             /\ SrcUsers(x)' = SrcUsers(x) \ {o}
  BY <1>1 DEF DstFieldUsers, SrcFieldUsers, DstUsers, SrcUsers
<1>3. \A x : /\ x = op[o].dst_field <=> o \in DstFieldUsers(x)
             /\ x = op[o].src_field <=> o \in SrcFieldUsers(x)
             /\ x = op[o].dst <=> o \in DstUsers(x)
             /\ x = op[o].src <=> o \in SrcUsers(x)
  BY DEF DstFieldUsers, SrcFieldUsers, DstUsers, SrcUsers
<1>4. ASSUME NEW S, IsFiniteSet(S), Cardinality(S) \in Nat
      PROVE  Cardinality(S \ {o}) = IF o \in S THEN Cardinality(S) - 1 ELSE Cardinality(S)
  BY <1>4, FS_RemoveElement
<1>. QED
  BY <1>2, <1>3, <1>4, UsersFinite DEF Hits
-----------------------------------------------------------------------------
(* op_free(), called by op_new() on its own operation or by a rule on one   *)
(* that it owns, while no other operation is under construction.            *)
LEMMA FreeStep ==
  ASSUME OperandsInv, NEW o \in DOMAIN op, cur \in {o, NULL},
         Free(o), at' = "idle", cur' = NULL, args' \in OpArgs \cup {NULL}
  PROVE  OperandsInv'
<1>1. /\ DOMAIN op' = DOMAIN op \ {o}
      /\ \A p \in DOMAIN op' : op'[p] = op[p] /\ p \in DOMAIN op /\ Complete(p)
      /\ op' \in [DOMAIN op' -> Op]
  BY NullIsNoName DEF Free, Drop, OperandsInv, OperandsTypeOK, Complete
<1>2. /\ DOMAIN field' = DOMAIN field
      /\ field' \in [DOMAIN field' -> Counted]
      /\ \A f \in DOMAIN field :
           /\ field'[f].set = field[f].set
           /\ field'[f].refcnt = field[f].refcnt
                - (Hits(f, op[o].dst_field) + Hits(f, op[o].src_field))
  <2>1. \A f \in DOMAIN field :
           field[f].refcnt >= Hits(f, op[o].dst_field) + Hits(f, op[o].src_field)
    BY UsersCounted, UsersFinite DEF OperandsInv, FieldRefExact, Hits
  <2>. QED
    BY <2>1, ReleaseTwo DEF OperandsInv, OperandsTypeOK, Free
<1>3. /\ \A s : s \in DOMAIN state' <=>
              s \in DOMAIN state /\ state[s].refcnt > Hits(s, op[o].dst) + Hits(s, op[o].src)
      /\ state' \in [DOMAIN state' -> Counted]
      /\ \A s \in DOMAIN state' :
           /\ state'[s].set = state[s].set
           /\ state'[s].refcnt = state[s].refcnt - (Hits(s, op[o].dst) + Hits(s, op[o].src))
           /\ state'[s].refcnt > 0
  <2>1. \A s \in DOMAIN state :
           state[s].refcnt > 0 /\ state[s].refcnt >= Hits(s, op[o].dst) + Hits(s, op[o].src)
    BY UsersCounted, UsersFinite DEF OperandsInv, StateRefExact, Hits
  <2>. QED
    BY <2>1, StateReleaseTwo DEF OperandsInv, OperandsTypeOK, Free
<1>4. OperandsTypeOK'
  BY <1>1, <1>2, <1>3 DEF OperandsInv, OperandsTypeOK
<1>5. OpNewProgress' /\ UnfinishedAgrees'
  BY DEF OpNewProgress, UnfinishedAgrees
<1>6. FieldRefExact'
  <2>1. ASSUME NEW f \in DOMAIN field'
        PROVE  field'[f].refcnt
                 = Cardinality(DstFieldUsers(f)') + Cardinality(SrcFieldUsers(f)')
    BY <1>2, FreedUsers, UsersFinite DEF Free, OperandsInv, FieldRefExact, Hits
  <2>. QED
    BY <1>1, <1>2, <2>1 DEF OperandsInv, FieldRefExact
<1>7. StateRefExact'
  <2>1. ASSUME NEW s \in DOMAIN state'
        PROVE  /\ state'[s].refcnt = Cardinality(DstUsers(s)') + Cardinality(SrcUsers(s)')
               /\ state'[s].refcnt > 0
    BY <1>3, FreedUsers, UsersFinite DEF Free, OperandsInv, StateRefExact, Hits
  <2>2. ASSUME NEW p \in DOMAIN op', NEW s \in {op'[p].dst, op'[p].src}, s \in DOMAIN state
        PROVE  s \in DOMAIN state'
    <3>1. /\ p \in DstUsers(s)' \/ p \in SrcUsers(s)'
          /\ DstUsers(s)' \in SUBSET DOMAIN op /\ SrcUsers(s)' \in SUBSET DOMAIN op
      BY <1>1, <2>2 DEF DstUsers, SrcUsers
    <3>2. Cardinality(DstUsers(s)') + Cardinality(SrcUsers(s)') > 0
      BY <3>1, SubsetCounted DEF OperandsInv
    <3>. QED
      BY <1>3, <2>2, <3>2, FreedUsers, UsersFinite DEF Free, OperandsInv, StateRefExact, Hits
  <2>. QED
    BY <1>1, <2>1, <2>2 DEF OperandsInv, StateRefExact
<1>8. SharedStateAgrees'
  BY <1>1, <1>3, <1>7, ValueIsNoName, NullIsNoName DEF OperandsInv, SharedStateAgrees, StateRefExact, Complete
<1>9. CachedSetCurrent'
  BY <1>1, <1>2 DEF OperandsInv, CachedSetCurrent, ToField, FromField, Complete
<1>. QED
  BY <1>4, <1>5, <1>6, <1>7, <1>8, <1>9 DEF OperandsInv
-----------------------------------------------------------------------------
(* One more user is counted once.                                           *)
LEMMA OneMoreUser ==
  ASSUME OperandsTypeOK, NEW o
  PROVE  \A S \in SUBSET DOMAIN op :
           o \notin S => Cardinality(S \cup {o}) = Cardinality(S) + 1
BY SubsetCounted, FS_AddElement

(* The set an operand is sized by is that of a field the operation holds.   *)
LEMMA OperandSets ==
  ASSUME OperandsInv, at \in {"dst", "src"}
  PROVE  /\ DstSet \in FieldSet
         /\ SrcSet \in FieldSet
         /\ cur \in DOMAIN op /\ cur # NULL
         /\ args \in OpArgs
         /\ op[cur].dst_field = args.dst_field
         /\ op[cur].src_field = args.src_field
         /\ DstSet = field[IF args.dst_field # NULL THEN args.dst_field ELSE args.src_field].set
         /\ SrcSet = field[IF args.src_field # NULL THEN args.src_field ELSE args.dst_field].set
         /\ (IF args.dst_field # NULL THEN args.dst_field ELSE args.src_field) \in DOMAIN field
         /\ (IF args.src_field # NULL THEN args.src_field ELSE args.dst_field) \in DOMAIN field
<1>1. /\ cur \in DOMAIN op /\ cur # NULL
      /\ args \in OpArgs /\ ValidArgs(args)
      /\ op[cur].dst_field = args.dst_field
      /\ op[cur].src_field = args.src_field
  BY NullIsNoName DEF OperandsInv, OperandsTypeOK, OpNewProgress
<1>2. {args.dst_field, args.src_field} \subseteq DOMAIN field \cup {NULL}
  BY <1>1 DEF OperandsInv, FieldRefExact
<1>3. \A f \in DOMAIN field : field[f].set \in FieldSet
  BY DEF OperandsInv, OperandsTypeOK, Counted
<1>. QED
  BY <1>1, <1>2, <1>3 DEF ValidArgs, DstSet, SrcSet

(* field_new() defines a field that nothing refers to yet.                  *)
LEMMA FieldAddStep ==
  ASSUME OperandsInv, NEW f \in FieldName, NEW set \in FieldSet, FieldAdd(f, set)
  PROVE  OperandsInv'
<1>1. /\ DOMAIN field' = DOMAIN field \cup {f}
      /\ f \notin DOMAIN field
      /\ field'[f] = [set |-> set, refcnt |-> 0]
      /\ \A g \in DOMAIN field : field'[g] = field[g]
      /\ field' = [g \in DOMAIN field' |-> field'[g]]
      /\ UNCHANGED <<state, op, at, cur, args>>
  BY DEF FieldAdd, Put
<1>2. OperandsTypeOK'
  BY <1>1 DEF OperandsInv, OperandsTypeOK, Counted
<1>3. OpNewProgress' /\ UnfinishedAgrees'
  <2>1. at = "src" => DstSet' = DstSet
    BY <1>1, OperandSets DEF DstSet
  <2>. QED
    BY <1>1, <2>1 DEF OperandsInv, OpNewProgress, UnfinishedAgrees
<1>4. FieldRefExact'
  <2>1. \A x : /\ DstFieldUsers(x)' = DstFieldUsers(x)
               /\ SrcFieldUsers(x)' = SrcFieldUsers(x)
    BY <1>1 DEF DstFieldUsers, SrcFieldUsers
  <2>2. DstFieldUsers(f) = {} /\ SrcFieldUsers(f) = {}
    BY <1>1, NullIsNoName DEF OperandsInv, FieldRefExact, DstFieldUsers, SrcFieldUsers
  <2>3. ASSUME NEW g \in DOMAIN field'
        PROVE  field'[g].refcnt
                 = Cardinality(DstFieldUsers(g)') + Cardinality(SrcFieldUsers(g)')
    <3>1. CASE g = f
      BY <1>1, <2>1, <2>2, <3>1, FS_EmptySet
    <3>2. CASE g # f
      BY <1>1, <2>1, <3>2 DEF OperandsInv, FieldRefExact
    <3>. QED
      BY <3>1, <3>2
  <2>. QED
    BY <1>1, <2>3 DEF OperandsInv, FieldRefExact
<1>5. StateRefExact' /\ SharedStateAgrees'
  BY <1>1 DEF OperandsInv, StateRefExact, SharedStateAgrees, DstUsers, SrcUsers, Complete
<1>6. CachedSetCurrent'
  BY <1>1 DEF OperandsInv, CachedSetCurrent, ToField, FromField, Complete
<1>. QED
  BY <1>2, <1>3, <1>4, <1>5, <1>6 DEF OperandsInv

(* field_free() takes away a field that no operation can miss.              *)
LEMMA FieldDelStep ==
  ASSUME OperandsInv, NEW f \in FieldName, FieldDel(f)
  PROVE  OperandsInv'
<1>1. /\ DOMAIN field' = DOMAIN field \ {f}
      /\ \A g \in DOMAIN field' : field'[g] = field[g]
      /\ field' = [g \in DOMAIN field' |-> field'[g]]
      /\ UNCHANGED <<state, op, at, cur, args>>
      /\ f \in DOMAIN field /\ field[f].refcnt = 0
  BY DEF FieldDel, Drop
<1>2. \A o \in DOMAIN op : op[o].dst_field # f /\ op[o].src_field # f
  <2>1. Cardinality(DstFieldUsers(f)) = 0 /\ Cardinality(SrcFieldUsers(f)) = 0
    BY <1>1, UsersFinite DEF OperandsInv, FieldRefExact
  <2>2. DstFieldUsers(f) = {} /\ SrcFieldUsers(f) = {}
    BY <2>1, UsersFinite, FS_EmptySet DEF OperandsInv
  <2>. QED
    BY <2>2 DEF DstFieldUsers, SrcFieldUsers
<1>3. OperandsTypeOK'
  BY <1>1 DEF OperandsInv, OperandsTypeOK
<1>4. OpNewProgress' /\ UnfinishedAgrees'
  <2>1. at = "src" => DstSet' = DstSet
    BY <1>1, <1>2, OperandSets DEF DstSet
  <2>. QED
    BY <1>1, <2>1 DEF OperandsInv, OpNewProgress, UnfinishedAgrees
<1>5. FieldRefExact'
  BY <1>1, <1>2 DEF OperandsInv, FieldRefExact, DstFieldUsers, SrcFieldUsers
<1>6. StateRefExact' /\ SharedStateAgrees'
  BY <1>1 DEF OperandsInv, StateRefExact, SharedStateAgrees, DstUsers, SrcUsers, Complete
<1>7. CachedSetCurrent'
  BY <1>1, <1>2 DEF OperandsInv, CachedSetCurrent, ToField, FromField, Complete
<1>. QED
  BY <1>3, <1>4, <1>5, <1>6, <1>7 DEF OperandsInv

(* A blank operation uses nothing.                                          *)
LEMMA OpNewBegins ==
  ASSUME OperandsInv, NEW o \in OpId, NEW a \in OpArgs, OpNew(o, a)
  PROVE  OperandsInv'
<1>1. /\ DOMAIN op' = DOMAIN op \cup {o} /\ o \notin DOMAIN op
      /\ op'[o] = Blank
      /\ \A p \in DOMAIN op : op'[p] = op[p]
      /\ op' = [p \in DOMAIN op' |-> op'[p]]
      /\ cur = NULL /\ at' = "dst_field" /\ cur' = o /\ args' = a
      /\ UNCHANGED <<field, state>>
  BY DEF OpNew, Put, OperandsInv, OpNewProgress
<1>2. OperandsTypeOK'
  BY <1>1 DEF OperandsInv, OperandsTypeOK, Op, Blank
<1>3. OpNewProgress' /\ UnfinishedAgrees'
  <2>1. ValidArgs(args')
    BY <1>1 DEF OpNew
  <2>. QED
    BY <1>1, <2>1, NullIsNoName DEF OpNewProgress, UnfinishedAgrees, Blank
<1>4. \A x : x # NULL => /\ DstFieldUsers(x)' = DstFieldUsers(x)
                         /\ SrcFieldUsers(x)' = SrcFieldUsers(x)
                         /\ DstUsers(x)' = DstUsers(x)
                         /\ SrcUsers(x)' = SrcUsers(x)
  BY <1>1 DEF DstFieldUsers, SrcFieldUsers, DstUsers, SrcUsers, Blank
<1>5. FieldRefExact'
  BY <1>1, <1>4, NullIsNoName DEF OperandsInv, OperandsTypeOK, FieldRefExact, Blank
<1>6. StateRefExact'
  BY <1>1, <1>4, NullIsNoName DEF OperandsInv, OperandsTypeOK, StateRefExact, Blank
<1>7. SharedStateAgrees' /\ CachedSetCurrent'
  BY <1>1, NullIsNoName DEF OperandsInv, OperandsTypeOK, SharedStateAgrees, CachedSetCurrent, ToField, FromField, Complete
<1>. QED
  BY <1>2, <1>3, <1>5, <1>6, <1>7 DEF OperandsInv
-----------------------------------------------------------------------------
(* refcnt_take() adds one reference to one entry.                           *)
LEMMA TakeOne ==
  ASSUME NEW T, T \in [DOMAIN T -> Counted], NEW k \in DOMAIN T,
         NEW R, R = Take(T, k)
  PROVE  /\ DOMAIN R = DOMAIN T
         /\ R \in [DOMAIN R -> Counted]
         /\ \A x \in DOMAIN T :
              R[x].set = T[x].set /\ R[x].refcnt = T[x].refcnt + Hits(x, k)
<1>1. T[k] \in Counted /\ T[k].refcnt + 1 \in Nat
  BY DEF Counted
<1>2. R = [T EXCEPT ![k].refcnt = @ + 1]
  BY DEF Take
<1>. QED
  BY <1>1, <1>2 DEF Hits, Counted

(* memref_state_get() adds one reference to a state, which it may create.   *)
LEMMA StateGetOne ==
  ASSUME NEW s \in StateName, NEW set \in FieldSet,
         state \in [DOMAIN state -> Counted], state' = StateGet(s, set)
  PROVE  /\ DOMAIN state' = DOMAIN state \cup {s}
         /\ state' \in [DOMAIN state' -> Counted]
         /\ \A x \in DOMAIN state :
              state'[x].set = state[x].set /\ state'[x].refcnt = state[x].refcnt + Hits(x, s)
         /\ s \notin DOMAIN state => state'[s] = [set |-> set, refcnt |-> 1]
<1>1. CASE s \in DOMAIN state
  <2>1. state' = Take(state, s)
    BY <1>1 DEF StateGet
  <2>2. /\ DOMAIN state' = DOMAIN state
        /\ state' \in [DOMAIN state' -> Counted]
        /\ \A x \in DOMAIN state :
             state'[x].set = state[x].set /\ state'[x].refcnt = state[x].refcnt + Hits(x, s)
    BY <1>1, <2>1, TakeOne
  <2>. QED
    BY <1>1, <2>2
<1>2. CASE s \notin DOMAIN state
  BY <1>2 DEF StateGet, Put, Hits, Counted
<1>. QED
  BY <1>1, <1>2

(* The first reference op_new() takes: the destination's field.             *)
LEMMA GetDstFieldStep ==
  ASSUME OperandsInv, GetDstField
  PROVE  OperandsInv'
<1>1. /\ cur \in DOMAIN op /\ cur # NULL /\ op[cur].dst_field = NULL
      /\ args \in OpArgs
  BY NullIsNoName DEF GetDstField, OperandsInv, OperandsTypeOK, OpNewProgress
<1>2. /\ DOMAIN op' = DOMAIN op
      /\ \A o \in DOMAIN op : o # cur => op'[o] = op[o]
      /\ op'[cur] = [op[cur] EXCEPT !.dst_field = args.dst_field]
      /\ op' \in [DOMAIN op -> Op]
  BY <1>1 DEF GetDstField, OperandsInv, OperandsTypeOK, Op, OpArgs
<1>3. /\ DOMAIN field' = DOMAIN field
      /\ field' \in [DOMAIN field' -> Counted]
      /\ \A f \in DOMAIN field :
           /\ field'[f].set = field[f].set
           /\ field'[f].refcnt = field[f].refcnt + Hits(f, args.dst_field)
  <2>1. CASE args.dst_field = NULL
    BY <2>1, NullIsNoName DEF GetDstField, OperandsInv, OperandsTypeOK, Hits, Counted
  <2>2. CASE args.dst_field # NULL
    BY <2>2, TakeOne DEF GetDstField, OperandsInv, OperandsTypeOK
  <2>. QED
    BY <2>1, <2>2
<1>4. \A x : x # NULL =>
        /\ DstFieldUsers(x)' = IF x = args.dst_field THEN DstFieldUsers(x) \cup {cur}
                                                     ELSE DstFieldUsers(x)
        /\ x = args.dst_field => cur \notin DstFieldUsers(x)
  BY <1>1, <1>2 DEF DstFieldUsers, OperandsInv, OperandsTypeOK, Op
<1>5. \A x : /\ SrcFieldUsers(x)' = SrcFieldUsers(x)
             /\ DstUsers(x)' = DstUsers(x)
             /\ SrcUsers(x)' = SrcUsers(x)
  BY <1>1, <1>2 DEF SrcFieldUsers, DstUsers, SrcUsers, OperandsInv, OperandsTypeOK, Op
<1>6. OperandsTypeOK'
  BY <1>2, <1>3 DEF GetDstField, OperandsInv, OperandsTypeOK
<1>7. OpNewProgress' /\ UnfinishedAgrees'
  BY <1>2 DEF GetDstField, OperandsInv, OpNewProgress, UnfinishedAgrees
<1>8. FieldRefExact'
  <2>1. ASSUME NEW f \in DOMAIN field'
        PROVE  field'[f].refcnt
                 = Cardinality(DstFieldUsers(f)') + Cardinality(SrcFieldUsers(f)')
    <3>1. f \in DOMAIN field /\ f # NULL
      BY <1>3, NullIsNoName DEF OperandsInv, OperandsTypeOK
    <3>2. Cardinality(DstFieldUsers(f)') = Cardinality(DstFieldUsers(f)) + Hits(f, args.dst_field)
      BY <1>4, <3>1, OneMoreUser, UsersAreOps, UsersFinite DEF OperandsInv, Hits
    <3>3. Cardinality(SrcFieldUsers(f)') = Cardinality(SrcFieldUsers(f))
      BY <1>5
    <3>4. field[f].refcnt = Cardinality(DstFieldUsers(f)) + Cardinality(SrcFieldUsers(f))
      BY <3>1 DEF OperandsInv, FieldRefExact
    <3>. QED
      BY <1>3, <3>1, <3>2, <3>3, <3>4, UsersFinite DEF OperandsInv, Hits
  <2>. QED
    BY <1>1, <1>2, <1>3, <2>1 DEF GetDstField, OperandsInv, OperandsTypeOK, Op, FieldRefExact
<1>9. StateRefExact' /\ SharedStateAgrees' /\ CachedSetCurrent'
  BY <1>1, <1>2, <1>3, <1>5
     DEF GetDstField, OperandsInv, OperandsTypeOK, Op,
         StateRefExact, SharedStateAgrees, CachedSetCurrent, ToField, FromField, Complete
<1>. QED
  BY <1>6, <1>7, <1>8, <1>9 DEF OperandsInv

(* The second reference: the source's field.                                *)
LEMMA GetSrcFieldStep ==
  ASSUME OperandsInv, GetSrcField
  PROVE  OperandsInv'
<1>1. /\ cur \in DOMAIN op /\ cur # NULL /\ op[cur].src_field = NULL
      /\ args \in OpArgs
  BY NullIsNoName DEF GetSrcField, OperandsInv, OperandsTypeOK, OpNewProgress
<1>2. /\ DOMAIN op' = DOMAIN op
      /\ \A o \in DOMAIN op : o # cur => op'[o] = op[o]
      /\ op'[cur] = [op[cur] EXCEPT !.src_field = args.src_field]
      /\ op' \in [DOMAIN op -> Op]
  BY <1>1 DEF GetSrcField, OperandsInv, OperandsTypeOK, Op, OpArgs
<1>3. /\ DOMAIN field' = DOMAIN field
      /\ field' \in [DOMAIN field' -> Counted]
      /\ \A f \in DOMAIN field :
           /\ field'[f].set = field[f].set
           /\ field'[f].refcnt = field[f].refcnt + Hits(f, args.src_field)
  <2>1. CASE args.src_field = NULL
    BY <2>1, NullIsNoName DEF GetSrcField, OperandsInv, OperandsTypeOK, Hits, Counted
  <2>2. CASE args.src_field # NULL
    BY <2>2, TakeOne DEF GetSrcField, OperandsInv, OperandsTypeOK
  <2>. QED
    BY <2>1, <2>2
<1>4. \A x : x # NULL =>
        /\ SrcFieldUsers(x)' = IF x = args.src_field THEN SrcFieldUsers(x) \cup {cur}
                                                     ELSE SrcFieldUsers(x)
        /\ x = args.src_field => cur \notin SrcFieldUsers(x)
  BY <1>1, <1>2 DEF SrcFieldUsers, OperandsInv, OperandsTypeOK, Op
<1>5. \A x : /\ DstFieldUsers(x)' = DstFieldUsers(x)
             /\ DstUsers(x)' = DstUsers(x)
             /\ SrcUsers(x)' = SrcUsers(x)
  BY <1>1, <1>2 DEF DstFieldUsers, DstUsers, SrcUsers, OperandsInv, OperandsTypeOK, Op
<1>6. OperandsTypeOK'
  BY <1>2, <1>3 DEF GetSrcField, OperandsInv, OperandsTypeOK
<1>7. OpNewProgress' /\ UnfinishedAgrees'
  BY <1>2 DEF GetSrcField, OperandsInv, OpNewProgress, UnfinishedAgrees
<1>8. FieldRefExact'
  <2>1. ASSUME NEW f \in DOMAIN field'
        PROVE  field'[f].refcnt
                 = Cardinality(DstFieldUsers(f)') + Cardinality(SrcFieldUsers(f)')
    <3>1. f \in DOMAIN field /\ f # NULL
      BY <1>3, NullIsNoName DEF OperandsInv, OperandsTypeOK
    <3>2. Cardinality(SrcFieldUsers(f)') = Cardinality(SrcFieldUsers(f)) + Hits(f, args.src_field)
      BY <1>4, <3>1, OneMoreUser, UsersAreOps, UsersFinite DEF OperandsInv, Hits
    <3>3. Cardinality(DstFieldUsers(f)') = Cardinality(DstFieldUsers(f))
      BY <1>5
    <3>4. field[f].refcnt = Cardinality(DstFieldUsers(f)) + Cardinality(SrcFieldUsers(f))
      BY <3>1 DEF OperandsInv, FieldRefExact
    <3>. QED
      BY <1>3, <3>1, <3>2, <3>3, <3>4, UsersFinite DEF OperandsInv, Hits
  <2>. QED
    BY <1>1, <1>2, <1>3, <2>1 DEF GetSrcField, OperandsInv, OperandsTypeOK, Op, FieldRefExact
<1>9. StateRefExact' /\ SharedStateAgrees' /\ CachedSetCurrent'
  BY <1>1, <1>2, <1>3, <1>5
     DEF GetSrcField, OperandsInv, OperandsTypeOK, Op,
         StateRefExact, SharedStateAgrees, CachedSetCurrent, ToField, FromField, Complete
<1>. QED
  BY <1>6, <1>7, <1>8, <1>9 DEF OperandsInv

(* What taking a memref does to the table, for an operand that may have none. *)
LEMMA StateTaken ==
  ASSUME OperandsInv, NEW s \in StateName \cup {NULL}, NEW set \in FieldSet,
         state' = IF s = NULL THEN state ELSE StateGet(s, set)
  PROVE  /\ DOMAIN state' = DOMAIN state \cup ({s} \ {NULL})
         /\ state' \in [DOMAIN state' -> Counted]
         /\ \A x \in DOMAIN state :
              /\ state'[x].set = state[x].set
              /\ state'[x].refcnt = state[x].refcnt + Hits(x, s)
         /\ s \notin DOMAIN state \cup {NULL} => state'[s] = [set |-> set, refcnt |-> 1]
<1>1. state \in [DOMAIN state -> Counted] /\ DOMAIN state \subseteq StateName
  BY DEF OperandsInv, OperandsTypeOK
<1>2. CASE s = NULL
  <2>1. state' = state /\ s \notin DOMAIN state
    BY <1>1, <1>2, NullIsNoName
  <2>2. \A x \in DOMAIN state : state[x].refcnt = state[x].refcnt + Hits(x, s)
    BY <1>1, <2>1 DEF Hits, Counted
  <2>3. DOMAIN state' = DOMAIN state \cup ({s} \ {NULL})
    BY <1>2, <2>1
  <2>. QED
    BY <1>1, <1>2, <2>1, <2>2, <2>3
<1>3. CASE s # NULL
  <2>1. s \in StateName /\ state' = StateGet(s, set)
    BY <1>3
  <2>2. /\ DOMAIN state' = DOMAIN state \cup {s}
        /\ state' \in [DOMAIN state' -> Counted]
        /\ \A x \in DOMAIN state :
             state'[x].set = state[x].set /\ state'[x].refcnt = state[x].refcnt + Hits(x, s)
        /\ s \notin DOMAIN state => state'[s] = [set |-> set, refcnt |-> 1]
    BY <1>1, <2>1, StateGetOne
  <2>. QED
    BY <1>3, <2>2
<1>. QED
  BY <1>2, <1>3

(* A state that nobody has taken yet has no users.                          *)
LEMMA NewStateUnused ==
  ASSUME OperandsInv, NEW s \in StateName, s \notin DOMAIN state
  PROVE  Cardinality(DstUsers(s)) = 0 /\ Cardinality(SrcUsers(s)) = 0
<1>1. DstUsers(s) = {} /\ SrcUsers(s) = {}
  BY NullIsNoName, ValueIsNoName DEF OperandsInv, StateRefExact, DstUsers, SrcUsers
<1>. QED
  BY <1>1, FS_EmptySet

(* The destination's memref.  A state that exists already keeps its set,    *)
(* and a state that is created gets the set of the operand it is for.       *)
LEMMA GetDstStep ==
  ASSUME OperandsInv, GetDst
  PROVE  OperandsInv'
<1>1. /\ cur \in DOMAIN op /\ cur # NULL /\ op[cur].dst = NULL
      /\ args \in OpArgs
      /\ DstSet \in FieldSet
  BY OperandSets, NullIsNoName DEF GetDst, OperandsInv, OperandsTypeOK, OpNewProgress
<1>2. /\ DOMAIN op' = DOMAIN op
      /\ \A o \in DOMAIN op : o # cur => op'[o] = op[o]
      /\ op'[cur] = [op[cur] EXCEPT !.dst = args.dst]
      /\ op' \in [DOMAIN op -> Op]
  BY <1>1 DEF GetDst, OperandsInv, OperandsTypeOK, Op, OpArgs
<1>3. /\ DOMAIN state' = DOMAIN state \cup ({args.dst} \ {NULL})
      /\ state' \in [DOMAIN state' -> Counted]
      /\ \A s \in DOMAIN state :
           /\ state'[s].set = state[s].set
           /\ state'[s].refcnt = state[s].refcnt + Hits(s, args.dst)
      /\ args.dst \notin DOMAIN state \cup {NULL} =>
           state'[args.dst] = [set |-> DstSet, refcnt |-> 1]
  <2>1. args.dst \in StateName \cup {NULL}
    BY <1>1 DEF OpArgs
  <2>2. args.dst \notin DOMAIN state \cup {NULL} =>
          state'[args.dst] = [set |-> DstSet, refcnt |-> 1]
    BY <1>1, <2>1, StateTaken DEF GetDst
  <2>. QED
    BY <1>1, <2>1, <2>2, StateTaken DEF GetDst
<1>4. \A x : x # NULL =>
        /\ DstUsers(x)' = IF x = args.dst THEN DstUsers(x) \cup {cur} ELSE DstUsers(x)
        /\ x = args.dst => cur \notin DstUsers(x)
  BY <1>1, <1>2 DEF DstUsers, OperandsInv, OperandsTypeOK, Op
<1>5. \A x : /\ DstFieldUsers(x)' = DstFieldUsers(x)
             /\ SrcFieldUsers(x)' = SrcFieldUsers(x)
             /\ SrcUsers(x)' = SrcUsers(x)
  BY <1>1, <1>2 DEF DstFieldUsers, SrcFieldUsers, SrcUsers, OperandsInv, OperandsTypeOK, Op
<1>6. OperandsTypeOK'
  BY <1>1, <1>2, <1>3 DEF GetDst, OperandsInv, OperandsTypeOK, OpArgs
<1>7. OpNewProgress' /\ UnfinishedAgrees'
  <2>1. OpNewProgress'
    BY <1>2 DEF GetDst, OperandsInv, OpNewProgress
  <2>2. DstSet' = DstSet
    BY <1>1, <1>2 DEF GetDst, DstSet, OperandsInv, OperandsTypeOK, Op
  <2>3. args.dst \in DOMAIN state => state'[args.dst].set = state[args.dst].set
    BY <1>3
  <2>4. args.dst # NULL => state'[args.dst].set.shape = DstSet.shape
    BY <1>3, <2>3 DEF GetDst, StateFits
  <2>. QED
    BY <2>1, <2>2, <2>4 DEF GetDst, UnfinishedAgrees
<1>8. FieldRefExact'
  BY <1>1, <1>2, <1>5 DEF GetDst, OperandsInv, OperandsTypeOK, Op, FieldRefExact
<1>9. StateRefExact'
  <2>1. ASSUME NEW s \in DOMAIN state'
        PROVE  /\ state'[s].refcnt = Cardinality(DstUsers(s)') + Cardinality(SrcUsers(s)')
               /\ state'[s].refcnt > 0
    <3>. s # NULL /\ s # VALUE
      BY <1>6, NullIsNoName, ValueIsNoName DEF OperandsTypeOK
    <3>1. CASE s \in DOMAIN state
      BY <1>3, <1>4, <1>5, <3>1, OneMoreUser, UsersAreOps, UsersFinite
         DEF OperandsInv, StateRefExact, Hits
    <3>2. CASE s \notin DOMAIN state
      <4>1. s = args.dst /\ s \in StateName
        BY <1>3, <1>6, <3>2 DEF OperandsTypeOK
      <4>2. /\ Cardinality(DstUsers(s)') = Cardinality(DstUsers(s)) + 1
            /\ Cardinality(SrcUsers(s)') = Cardinality(SrcUsers(s))
        BY <1>4, <1>5, <4>1, OneMoreUser, UsersAreOps DEF OperandsInv
      <4>. QED
        BY <1>3, <3>2, <4>1, <4>2, NewStateUnused
    <3>. QED
      BY <3>1, <3>2
  <2>2. \A o \in DOMAIN op' : {op'[o].dst, op'[o].src} \subseteq DOMAIN state' \cup {NULL, VALUE}
    BY <1>1, <1>2, <1>3 DEF OperandsInv, OperandsTypeOK, Op, StateRefExact
  <2>. QED
    BY <2>1, <2>2 DEF StateRefExact
<1>10. SharedStateAgrees'
  BY <1>1, <1>2, <1>3, NullIsNoName, ValueIsNoName
     DEF GetDst, OperandsInv, StateRefExact, SharedStateAgrees, Complete
<1>11. CachedSetCurrent'
  BY <1>1, <1>2 DEF GetDst, OperandsInv, CachedSetCurrent, ToField, FromField, Complete
<1>. QED
  BY <1>6, <1>7, <1>8, <1>9, <1>10, <1>11 DEF OperandsInv

(* The source's memref, and the sets copied for the packet path: from here  *)
(* on the operation is complete.                                            *)
LEMMA OpNewReturnStep ==
  ASSUME OperandsInv, OpNewReturn
  PROVE  OperandsInv'
<1> DEFINE v == IF args.value = "good" THEN VALUE ELSE args.src
           to == IF args.dst_field # NULL THEN args.dst_field ELSE args.src_field
           from == IF args.src_field # NULL THEN args.src_field ELSE args.dst_field
<1>1. /\ cur \in DOMAIN op /\ cur # NULL /\ op[cur].src = NULL
      /\ args \in OpArgs /\ ValidArgs(args)
      /\ op[cur].dst = args.dst
      /\ op[cur].dst_field = args.dst_field
      /\ op[cur].src_field = args.src_field
      /\ args.src # NULL => v = args.src
      /\ v \in StateName \cup {NULL, VALUE}
      /\ args.src = NULL => v \in {NULL, VALUE}
  BY NullIsNoName DEF OpNewReturn, OperandsInv, OperandsTypeOK, OpNewProgress, ValidArgs, OpArgs
<1>2. /\ DstSet \in FieldSet /\ SrcSet \in FieldSet
      /\ DstSet = field[to].set /\ SrcSet = field[from].set
      /\ to \in DOMAIN field /\ from \in DOMAIN field
  BY OperandSets DEF OpNewReturn
<1>. HIDE DEF v, to, from
<1>3. /\ DOMAIN op' = DOMAIN op
      /\ \A o \in DOMAIN op : o # cur => op'[o] = op[o]
      /\ op'[cur] = [op[cur] EXCEPT !.src = v, !.set_to = DstSet, !.set_from = SrcSet]
      /\ op' \in [DOMAIN op -> Op]
  BY <1>1, <1>2 DEF OpNewReturn, OperandsInv, OperandsTypeOK, Op, v
<1>13. /\ op'[cur].dst_field = args.dst_field /\ op'[cur].src_field = args.src_field
      /\ op'[cur].dst = args.dst /\ op'[cur].src = v
      /\ op'[cur].set_to = DstSet /\ op'[cur].set_from = SrcSet
  BY <1>1, <1>3 DEF OperandsInv, OperandsTypeOK, Op
<1>4. /\ DOMAIN state' = DOMAIN state \cup ({args.src} \ {NULL})
      /\ state' \in [DOMAIN state' -> Counted]
      /\ \A s \in DOMAIN state :
           /\ state'[s].set = state[s].set
           /\ state'[s].refcnt = state[s].refcnt + Hits(s, args.src)
      /\ args.src \notin DOMAIN state \cup {NULL} =>
           state'[args.src] = [set |-> SrcSet, refcnt |-> 1]
  <2>1. args.src \in StateName \cup {NULL}
    BY <1>1 DEF OpArgs
  <2>2. args.src \notin DOMAIN state \cup {NULL} =>
          state'[args.src] = [set |-> SrcSet, refcnt |-> 1]
    BY <1>2, <2>1, StateTaken DEF OpNewReturn
  <2>. QED
    BY <1>2, <2>1, <2>2, StateTaken DEF OpNewReturn
<1>5. \A x : x \notin {NULL, VALUE} =>
        /\ SrcUsers(x)' = IF x = args.src THEN SrcUsers(x) \cup {cur} ELSE SrcUsers(x)
        /\ x = args.src => cur \notin SrcUsers(x)
  <2>1. ASSUME NEW x, x \notin {NULL, VALUE}
        PROVE  /\ v = x <=> x = args.src
               /\ cur \notin SrcUsers(x)
    BY <1>1, <2>1 DEF v, SrcUsers
  <2>2. ASSUME NEW x, x \notin {NULL, VALUE}, NEW o
        PROVE  o \in SrcUsers(x)' <=> o \in SrcUsers(x) \/ (o = cur /\ x = args.src)
    <3>1. CASE o = cur
      BY <1>1, <1>3, <1>13, <2>1, <2>2, <3>1 DEF SrcUsers
    <3>2. CASE o # cur
      BY <1>3, <3>2 DEF SrcUsers
    <3>. QED
      BY <3>1, <3>2
  <2>. QED
    BY <2>1, <2>2
<1>6. \A x : /\ DstFieldUsers(x)' = DstFieldUsers(x)
             /\ SrcFieldUsers(x)' = SrcFieldUsers(x)
             /\ DstUsers(x)' = DstUsers(x)
  <2>1. \A o \in DOMAIN op : /\ op'[o].dst_field = op[o].dst_field
                             /\ op'[o].src_field = op[o].src_field
                             /\ op'[o].dst = op[o].dst
    BY <1>1, <1>3, <1>13
  <2>. QED
    BY <1>3, <2>1 DEF DstFieldUsers, SrcFieldUsers, DstUsers
<1>7. OperandsTypeOK'
  BY <1>1, <1>3, <1>4 DEF OpNewReturn, OperandsInv, OperandsTypeOK, OpArgs
<1>8. OpNewProgress' /\ UnfinishedAgrees'
  BY DEF OpNewReturn, OpNewProgress, UnfinishedAgrees
<1>9. FieldRefExact'
  BY <1>1, <1>3, <1>6 DEF OpNewReturn, OperandsInv, OperandsTypeOK, Op, FieldRefExact
<1>10. StateRefExact'
  <2>1. ASSUME NEW s \in DOMAIN state'
        PROVE  /\ state'[s].refcnt = Cardinality(DstUsers(s)') + Cardinality(SrcUsers(s)')
               /\ state'[s].refcnt > 0
    <3>. s # NULL /\ s # VALUE
      BY <1>7, NullIsNoName, ValueIsNoName DEF OperandsTypeOK
    <3>1. CASE s \in DOMAIN state
      BY <1>4, <1>5, <1>6, <3>1, OneMoreUser, UsersAreOps, UsersFinite
         DEF OperandsInv, StateRefExact, Hits
    <3>2. CASE s \notin DOMAIN state
      <4>1. s = args.src /\ s \in StateName
        BY <1>4, <1>7, <3>2 DEF OperandsTypeOK
      <4>2. /\ Cardinality(DstUsers(s)') = Cardinality(DstUsers(s))
            /\ Cardinality(SrcUsers(s)') = Cardinality(SrcUsers(s)) + 1
        BY <1>5, <1>6, <4>1, OneMoreUser, UsersAreOps DEF OperandsInv
      <4>. QED
        BY <1>4, <3>2, <4>1, <4>2, NewStateUnused
    <3>. QED
      BY <3>1, <3>2
  <2>2. \A o \in DOMAIN op' : {op'[o].dst, op'[o].src} \subseteq DOMAIN state' \cup {NULL, VALUE}
    <3>1. ASSUME NEW o \in DOMAIN op, o # cur
          PROVE  {op'[o].dst, op'[o].src} \subseteq DOMAIN state' \cup {NULL, VALUE}
      BY <1>3, <1>4, <3>1 DEF OperandsInv, StateRefExact
    <3>2. op'[cur].dst \in DOMAIN state' \cup {NULL, VALUE}
      BY <1>1, <1>4, <1>13 DEF OperandsInv, StateRefExact
    <3>3. op'[cur].src \in DOMAIN state' \cup {NULL, VALUE}
      BY <1>4, <1>13 DEF v
    <3>. QED
      BY <1>3, <3>1, <3>2, <3>3
  <2>. QED
    BY <2>1, <2>2 DEF StateRefExact
<1>11. SharedStateAgrees'
  <2>1. ASSUME NEW o \in DOMAIN op, o # cur
        PROVE  /\ op'[o].dst \in StateName =>
                    op'[o].set_to.shape = state'[op'[o].dst].set.shape
               /\ op'[o].src \in StateName =>
                    op'[o].set_from.shape = state'[op'[o].src].set.shape
    BY <1>3, <1>4, <2>1, NullIsNoName, ValueIsNoName
       DEF OperandsInv, StateRefExact, SharedStateAgrees, Complete
  <2>2. args.dst \in StateName => state'[args.dst].set.shape = DstSet.shape
    BY <1>1, <1>4, NullIsNoName, ValueIsNoName
       DEF OpNewReturn, OperandsInv, UnfinishedAgrees, StateRefExact
  <2>3. args.src \in StateName => state'[args.src].set.shape = SrcSet.shape
    BY <1>4, NullIsNoName DEF OpNewReturn, StateFits
  <2>4. /\ op'[cur].dst = args.dst /\ op'[cur].set_to = DstSet
        /\ op'[cur].set_from = SrcSet
        /\ op'[cur].src \in StateName => op'[cur].src = args.src
    BY <1>1, <1>3, NullIsNoName, ValueIsNoName DEF OperandsInv, OperandsTypeOK, Op
  <2>. QED
    BY <1>3, <2>1, <2>2, <2>3, <2>4 DEF SharedStateAgrees, Complete
<1>12. CachedSetCurrent'
  <2>1. /\ cur' = NULL /\ field' = field
        /\ \A o \in DOMAIN op : o # cur => op'[o] = op[o] /\ Complete(o)
    BY <1>3 DEF OpNewReturn, Complete
  <2>2. PICK c : c = cur
    OBVIOUS
  <2>3. /\ to \in DOMAIN field /\ from \in DOMAIN field
        /\ to = ToField(c)' /\ from = FromField(c)'
        /\ op'[c].set_to = field[to].set /\ op'[c].set_from = field[from].set
    BY <1>1, <1>2, <1>13, <2>2 DEF to, from, ToField, FromField
  <2>4. \A o \in DOMAIN op : o # c => ToField(o)' = ToField(o) /\ FromField(o)' = FromField(o)
    BY <2>1, <2>2 DEF ToField, FromField
  <2>. QED
    BY <1>3, <2>1, <2>2, <2>3, <2>4 DEF OperandsInv, CachedSetCurrent
<1>. QED
  BY <1>7, <1>8, <1>9, <1>10, <1>11, <1>12 DEF OperandsInv
-----------------------------------------------------------------------------
(* At start there is nothing to count.                                      *)
LEMMA OperandsStart == OperandsInit => OperandsInv
<1>1. ASSUME OperandsInit
      PROVE  DOMAIN field = {} /\ DOMAIN state = {} /\ DOMAIN op = {}
             /\ at = "idle" /\ cur = NULL /\ args = NULL
  BY <1>1 DEF OperandsInit, EmptyTable
<1>2. ASSUME OperandsInit
      PROVE  field \in [{} -> Counted] /\ state \in [{} -> Counted] /\ op \in [{} -> Op]
  BY <1>2 DEF OperandsInit, EmptyTable
<1>. QED
  BY <1>1, <1>2 DEF OperandsInv, OperandsTypeOK, OpNewProgress, UnfinishedAgrees,
                    FieldRefExact, StateRefExact, SharedStateAgrees, CachedSetCurrent

(* Every request on fields and operations, whole or half done, keeps the    *)
(* operand layer's invariant.                                               *)
LEMMA OperandsStep == OperandsInv /\ [OperandsNext]_operandVars => OperandsInv'
<1> SUFFICES ASSUME OperandsInv, [OperandsNext]_operandVars
             PROVE  OperandsInv'
  OBVIOUS
<1>1. CASE \E f \in FieldName, set \in FieldSet : FieldAdd(f, set)
  BY <1>1, FieldAddStep
<1>2. CASE \E f \in FieldName : FieldDel(f)
  BY <1>2, FieldDelStep
<1>3. CASE \E o \in OpId, a \in OpArgs : OpNew(o, a)
  BY <1>3, OpNewBegins
<1>4. CASE GetDstField
  BY <1>4, GetDstFieldStep
<1>5. CASE GetSrcField
  BY <1>5, GetSrcFieldStep
<1>6. CASE GetDst
  BY <1>6, GetDstStep
<1>7. CASE OpNewReturn
  BY <1>7, OpNewReturnStep
<1>8. CASE OpNewDie
  <2>1. at # "idle"
    BY <1>8 DEF OpNewDie, CannotGet
  <2>2. cur \in DOMAIN op
    BY <2>1 DEF OperandsInv, OperandsTypeOK, OpNewProgress
  <2>. QED
    BY <1>8, <2>2, FreeStep DEF OpNewDie
<1>9. CASE \E o \in OpId : OpFree(o)
  <2>1. PICK o \in OpId : OpFree(o)
    BY <1>9
  <2>2. /\ at' = "idle" /\ cur = NULL /\ cur' = NULL
        /\ args' \in OpArgs \cup {NULL}
        /\ o \in DOMAIN op /\ Free(o)
    BY <2>1 DEF OpFree, OperandsInv, OperandsTypeOK, OpNewProgress
  <2>. QED
    BY <2>2, FreeStep
<1>10. CASE UNCHANGED operandVars
  BY <1>10 DEF operandVars, OperandsInv, OperandsTypeOK, OpNewProgress, UnfinishedAgrees,
               FieldRefExact, StateRefExact, SharedStateAgrees, CachedSetCurrent,
               DstFieldUsers, SrcFieldUsers, DstUsers, SrcUsers, ToField, FromField,
               Complete, DstSet
<1>. QED
  BY <1>1, <1>2, <1>3, <1>4, <1>5, <1>6, <1>7, <1>8, <1>9, <1>10
     DEF OperandsNext, OpNewStep

(* Every reference count in the operand layer is exact, whatever sequence   *)
(* of field and operation requests is made and however they fail: types,    *)
(* field and state counts, shared buffers and cached sets.                  *)
THEOREM OperandsSafe == OperandsSpec => []OperandsInv
BY OperandsStart, OperandsStep, PTL DEF OperandsSpec

(* The tables hold what they are declared to hold, and op_new() keeps no    *)
(* pointer to an operation that its die: section freed.                     *)
THEOREM OperandsTypes == OperandsSpec => []OperandsTypeOK
<1>1. OperandsInv => OperandsTypeOK
  BY DEF OperandsInv
<1>. QED
  BY <1>1, OperandsSafe, PTL

(* field_get() and field_release() pair up: a field is deletable exactly    *)
(* when no operand points at it.                                            *)
THEOREM FieldCountsExact == OperandsSpec => []FieldRefExact
<1>1. OperandsInv => FieldRefExact
  BY DEF OperandsInv
<1>. QED
  BY <1>1, OperandsSafe, PTL

(* memref_state_get() and memref_release() pair up: a state lives exactly   *)
(* as long as some operand points at it.                                    *)
THEOREM StateCountsExact == OperandsSpec => []StateRefExact
<1>1. OperandsInv => StateRefExact
  BY DEF OperandsInv
<1>. QED
  BY <1>1, OperandsSafe, PTL

(* Whoever shares a state's buffer moves the bytes it was allocated for.    *)
THEOREM SharedStatesFit == OperandsSpec => []SharedStateAgrees
<1>1. OperandsInv => SharedStateAgrees
  BY DEF OperandsInv
<1>. QED
  BY <1>1, OperandsSafe, PTL

(* The packet path's copies of field extents are never stale.               *)
THEOREM CachedSetsCurrent == OperandsSpec => []CachedSetCurrent
<1>1. OperandsInv => CachedSetCurrent
  BY DEF OperandsInv
<1>. QED
  BY <1>1, OperandsSafe, PTL
-----------------------------------------------------------------------------
(* The composition: rules, routs, processes and interfaces on top of Operands. *)

\* The queue in the hands of the function at work: being filled, or being released.
HeldOps ==
  CASE pc = "rule_parse" -> queue.match \o queue.write
    [] pc = "rule_release_refs" -> left
    [] OTHER -> <<>>

HeldRouts ==
  CASE pc = "process_parse" -> queue.rout
    [] pc = "process_release_refs" -> left
    [] OTHER -> <<>>

RuleQueues == [r \in DOMAIN rule |-> rule[r].match \o rule[r].write]

\* Queues q and h hold members of live, each at one place of one queue.
Owned(q, h, live) ==
  /\ \A n \in DOMAIN q : IsInjective(q[n]) /\ ToSet(q[n]) \subseteq live
  /\ IsInjective(h) /\ ToSet(h) \subseteq live
  /\ \A m, n \in DOMAIN q : \A x \in live : x \in ToSet(q[m]) /\ x \in ToSet(q[n]) => m = n
  /\ \A n \in DOMAIN q : \A x \in live : ~ (x \in ToSet(q[n]) /\ x \in ToSet(h))

\* Nothing in live is on none of the queues.
Covered(q, h, live) ==
  \A x \in live : x \in ToSet(h) \/ \E n \in DOMAIN q : x \in ToSet(q[n])

LiveOps == DOMAIN op \ {cur}

OpsOwned == Owned(RuleQueues, HeldOps, LiveOps)
RoutsOwned == Owned(process, HeldRouts, DOMAIN rout)

\* rout_new() keeps its rule and its interface alive, and the rule does not change.
RoutsCurrent ==
  \A k \in DOMAIN rout :
    /\ rout[k].output \in DOMAIN iface
    /\ rout[k].rule \in DOMAIN rule
    /\ rout[k].match = rule[rout[k].rule].match
    /\ rout[k].write = rule[rout[k].rule].write

\* What the function at work knows of its locals.
ControlOK ==
  /\ pc = "rule_parse" => name \in RuleName
  /\ pc = "process_parse" => name \in IfaceName
  /\ pc \in {"loop", "die"} => queue = EmptyQueues
  /\ at # "idle" => pc = "rule_parse"

\* Well-formed input only: every object is on some queue, and so can be freed.
OpsCovered == Input = {} => Covered(RuleQueues, HeldOps, LiveOps)
RoutsCovered == Input = {} => Covered(process, HeldRouts, DOMAIN rout)
NothingLost ==
  /\ OpsCovered
  /\ RoutsCovered
  /\ Input = {} /\ pc = "process_parse" /\ mode # "ADD" => queue.rout = <<>>
  /\ Input = {} => CleanExit

RulesetInv ==
  /\ RulesetTypeOK
  /\ ControlOK
  /\ OpsOwned
  /\ RoutsOwned
  /\ RoutsCurrent
  /\ RefcntExact
  /\ HandlerIsProcess
  /\ NothingLost
-----------------------------------------------------------------------------
(* Sequences as queues: what is on one after enqueueing, joining, dequeuing. *)

(* An empty queue holds nothing.                                             *)
LEMMA EmptyQueue == ToSet(<<>>) = {} /\ IsInjective(<<>>) /\ <<>> \o <<>> = <<>>
<1>1. DOMAIN <<>> = {}
  OBVIOUS
<1>. QED
  BY <1>1 DEF ToSet, IsInjective

(* Two queues joined hold what either holds, and each thing once if they do  *)
(* and have nothing in common.                                               *)
LEMMA ConcatQueue ==
  ASSUME NEW S, NEW s \in Seq(S), NEW t \in Seq(S)
  PROVE  /\ s \o t \in Seq(S)
         /\ ToSet(s \o t) = ToSet(s) \cup ToSet(t)
         /\ IsInjective(s \o t) <=>
              IsInjective(s) /\ IsInjective(t) /\ ToSet(s) \cap ToSet(t) = {}
<1>1. /\ s \o t \in Seq(S)
      /\ DOMAIN s = 1 .. Len(s) /\ DOMAIN t = 1 .. Len(t)
      /\ Len(s) \in Nat /\ Len(t) \in Nat
      /\ DOMAIN (s \o t) = 1 .. (Len(s) + Len(t))
      /\ \A i \in 1 .. (Len(s) + Len(t)) :
           (s \o t)[i] = IF i <= Len(s) THEN s[i] ELSE t[i - Len(s)]
  BY ConcatProperties, LenProperties
<1>2. /\ \A i \in DOMAIN s : i \in DOMAIN (s \o t) /\ (s \o t)[i] = s[i]
      /\ \A j \in DOMAIN t : Len(s) + j \in DOMAIN (s \o t) /\ (s \o t)[Len(s) + j] = t[j]
      /\ \A i \in DOMAIN (s \o t) :
           \/ i \in DOMAIN s /\ (s \o t)[i] = s[i]
           \/ i - Len(s) \in DOMAIN t /\ (s \o t)[i] = t[i - Len(s)]
  BY <1>1
<1>3. ToSet(s \o t) = ToSet(s) \cup ToSet(t)
  <2>1. /\ \A i \in DOMAIN s : s[i] \in ToSet(s \o t)
        /\ \A j \in DOMAIN t : t[j] \in ToSet(s \o t)
    BY <1>2 DEF ToSet
  <2>2. ToSet(s) \subseteq ToSet(s \o t) /\ ToSet(t) \subseteq ToSet(s \o t)
    BY <2>1, Zenon DEF ToSet
  <2>3. ASSUME NEW i \in DOMAIN (s \o t)
        PROVE  (s \o t)[i] \in ToSet(s) \cup ToSet(t)
    BY <1>2 DEF ToSet
  <2>4. ToSet(s \o t) \subseteq ToSet(s) \cup ToSet(t)
    BY <2>3, Zenon DEF ToSet
  <2>. QED
    BY <2>2, <2>4
<1>4. ASSUME IsInjective(s \o t)
      PROVE  IsInjective(s) /\ IsInjective(t) /\ ToSet(s) \cap ToSet(t) = {}
  <2>1. \A i, j \in DOMAIN (s \o t) : (s \o t)[i] = (s \o t)[j] => i = j
    BY <1>4 DEF IsInjective
  <2>2. IsInjective(s)
    BY <1>2, <2>1 DEF IsInjective
  <2>3. ASSUME NEW i \in DOMAIN s, NEW j \in DOMAIN t
        PROVE  s[i] # t[j]
    <3>1. i # Len(s) + j
      BY <1>1
    <3>. QED
      BY <1>2, <2>1, <3>1
  <2>4. ToSet(s) \cap ToSet(t) = {}
    BY <2>3 DEF ToSet
  <2>5. ASSUME NEW i \in DOMAIN t, NEW j \in DOMAIN t, t[i] = t[j]
        PROVE  i = j
    <3>1. Len(s) + i = Len(s) + j
      BY <1>2, <2>1, <2>5
    <3>. QED
      BY <1>1, <3>1
  <2>. QED
    BY <2>2, <2>4, <2>5 DEF IsInjective
<1>5. ASSUME IsInjective(s), IsInjective(t), ToSet(s) \cap ToSet(t) = {}
      PROVE  IsInjective(s \o t)
  <2> SUFFICES ASSUME NEW i \in DOMAIN (s \o t), NEW j \in DOMAIN (s \o t),
                      (s \o t)[i] = (s \o t)[j]
               PROVE  i = j
    BY DEF IsInjective
  <2>1. \A m \in DOMAIN s, n \in DOMAIN t : s[m] # t[n]
    BY <1>5 DEF ToSet
  <2>2. CASE i \in DOMAIN s /\ j \in DOMAIN s
    BY <1>2, <1>5, <2>2 DEF IsInjective
  <2>3. CASE i - Len(s) \in DOMAIN t /\ j - Len(s) \in DOMAIN t
    <3>1. t[i - Len(s)] = t[j - Len(s)]
      BY <1>1, <2>3
    <3>2. i - Len(s) = j - Len(s)
      BY <1>5, <2>3, <3>1 DEF IsInjective
    <3>. QED
      BY <1>1, <3>2
  <2>. QED
    BY <1>1, <1>2, <2>1, <2>2, <2>3
<1>. QED
  BY <1>1, <1>3, <1>4, <1>5

(* jl_enqueue(): what is new on a queue is on it once.                       *)
LEMMA AppendQueue ==
  ASSUME NEW S, NEW s \in Seq(S), NEW x \in S
  PROVE  /\ Append(s, x) \in Seq(S)
         /\ ToSet(Append(s, x)) = ToSet(s) \cup {x}
         /\ IsInjective(s) /\ x \notin ToSet(s) => IsInjective(Append(s, x))
<1>1. /\ Append(s, x) \in Seq(S) /\ Len(s) \in Nat
      /\ DOMAIN s = 1 .. Len(s) /\ DOMAIN Append(s, x) = 1 .. (Len(s) + 1)
      /\ \A i \in 1 .. Len(s) : Append(s, x)[i] = s[i]
      /\ Append(s, x)[Len(s) + 1] = x
  BY AppendProperties, LenProperties
<1>2. ToSet(Append(s, x)) = ToSet(s) \cup {x}
  BY <1>1 DEF ToSet
<1>3. ASSUME IsInjective(s), x \notin ToSet(s)
      PROVE  IsInjective(Append(s, x))
  BY <1>1, <1>3 DEF IsInjective, ToSet
<1>. QED
  BY <1>1, <1>2, <1>3

(* jl_dequeue(): the first is gone, and only the first.                      *)
LEMMA TailQueue ==
  ASSUME NEW S, NEW s \in Seq(S), s # <<>>
  PROVE  /\ Tail(s) \in Seq(S) /\ Head(s) \in ToSet(s)
         /\ IsInjective(s) => /\ IsInjective(Tail(s))
                              /\ ToSet(Tail(s)) = ToSet(s) \ {Head(s)}
<1>1. /\ Tail(s) \in Seq(S) /\ Len(s) \in Nat /\ Len(s) > 0
      /\ DOMAIN s = 1 .. Len(s) /\ DOMAIN Tail(s) = 1 .. (Len(s) - 1)
      /\ \A i \in 1 .. (Len(s) - 1) : Tail(s)[i] = s[i + 1]
      /\ Head(s) = s[1]
  BY HeadTailProperties, LenProperties, EmptySeq
<1>2. Head(s) \in ToSet(s)
  BY <1>1 DEF ToSet
<1>3. ASSUME IsInjective(s)
      PROVE  IsInjective(Tail(s)) /\ ToSet(Tail(s)) = ToSet(s) \ {Head(s)}
  <2>1. \A i, j \in DOMAIN s : s[i] = s[j] => i = j
    BY <1>3 DEF IsInjective
  <2>2. \A i \in DOMAIN Tail(s) : i + 1 \in DOMAIN s /\ Tail(s)[i] = s[i + 1] /\ i + 1 # 1
    BY <1>1
  <2>3. \A j \in DOMAIN s : j # 1 => j - 1 \in DOMAIN Tail(s) /\ Tail(s)[j - 1] = s[j]
    BY <1>1
  <2>4. ToSet(Tail(s)) \subseteq ToSet(s) \ {Head(s)}
    BY <1>1, <2>1, <2>2 DEF ToSet
  <2>5. ASSUME NEW j \in DOMAIN s, s[j] # Head(s)
        PROVE  s[j] \in ToSet(Tail(s))
    <3>1. j - 1 \in DOMAIN Tail(s) /\ Tail(s)[j - 1] = s[j]
      BY <1>1, <2>3, <2>5
    <3>. QED
      BY <3>1, Zenon DEF ToSet
  <2>6. ToSet(s) \ {Head(s)} \subseteq ToSet(Tail(s))
    BY <2>5, Zenon DEF ToSet
  <2>7. IsInjective(Tail(s))
    <3> SUFFICES ASSUME NEW i \in DOMAIN Tail(s), NEW j \in DOMAIN Tail(s),
                        Tail(s)[i] = Tail(s)[j]
                 PROVE  i = j
      BY DEF IsInjective
    <3>1. i + 1 = j + 1
      BY <2>1, <2>2
    <3>. QED
      BY <1>1, <3>1
  <2>. QED
    BY <2>4, <2>6, <2>7
<1>. QED
  BY <1>1, <1>2, <1>3
-----------------------------------------------------------------------------
(* Ownership moves as queues do, whether of operations or of routs.          *)

(* An object is published: the queue in hand becomes the one listed as n.   *)
LEMMA Publish ==
  ASSUME NEW q, NEW h, NEW live, Owned(q, h, live), NEW n, n \notin DOMAIN q
  PROVE  /\ Owned(Put(q, n, h), <<>>, live)
         /\ Covered(q, h, live) => Covered(Put(q, n, h), <<>>, live)
<1>1. /\ DOMAIN Put(q, n, h) = DOMAIN q \cup {n}
      /\ Put(q, n, h)[n] = h
      /\ \A m \in DOMAIN q : Put(q, n, h)[m] = q[m]
  BY DEF Put
<1>. QED
  BY <1>1, EmptyQueue DEF Owned, Covered

(* An object is delisted: its queue is now the one in hand.                 *)
LEMMA Delist ==
  ASSUME NEW q, NEW live, Owned(q, <<>>, live), NEW n \in DOMAIN q
  PROVE  /\ Owned(Drop(q, n), q[n], live)
         /\ Covered(q, <<>>, live) => Covered(Drop(q, n), q[n], live)
<1>1. /\ DOMAIN Drop(q, n) = DOMAIN q \ {n}
      /\ \A m \in DOMAIN q \ {n} : Drop(q, n)[m] = q[m]
  BY DEF Drop
<1>. QED
  BY <1>1, EmptyQueue DEF Owned, Covered

(* A new object x is put on the queue in hand.                              *)
LEMMA Enqueue ==
  ASSUME NEW q, NEW h, NEW live, Owned(q, h, live), NEW x, x \notin live,
         NEW g, IsInjective(g), ToSet(g) = ToSet(h) \cup {x}
  PROVE  /\ Owned(q, g, live \cup {x})
         /\ Covered(q, h, live) => Covered(q, g, live \cup {x})
BY DEF Owned, Covered

(* The first object of the queue in hand is freed.                          *)
LEMMA FreeHead ==
  ASSUME NEW q, NEW h, NEW live, Owned(q, h, live), NEW S, h \in Seq(S), h # <<>>
  PROVE  /\ Owned(q, Tail(h), live \ {Head(h)})
         /\ Covered(q, h, live) => Covered(q, Tail(h), live \ {Head(h)})
         /\ Head(h) \in live
         /\ \A n \in DOMAIN q : Head(h) \notin ToSet(q[n])
<1>1. /\ Head(h) \in ToSet(h) /\ IsInjective(Tail(h))
      /\ ToSet(Tail(h)) = ToSet(h) \ {Head(h)}
  BY TailQueue DEF Owned
<1>. QED
  BY <1>1 DEF Owned, Covered

(* The queue in hand is abandoned, or was empty.                            *)
LEMMA Abandon ==
  ASSUME NEW q, NEW h, NEW live, Owned(q, h, live)
  PROVE  /\ Owned(q, <<>>, live)
         /\ Covered(q, h, live) /\ h = <<>> => Covered(q, <<>>, live)
BY EmptyQueue DEF Owned, Covered
-----------------------------------------------------------------------------
(* Directives reach the operand layer only by its own requests.              *)
LEMMA OperandsSteps ==
  ASSUME OperandsTypeOK, [RulesetNext]_rulesetVars
  PROVE  [OperandsNext]_operandVars
<1>1. CASE FieldDirective
  BY <1>1 DEF FieldDirective, OperandsNext
<1>2. CASE \E t \in {"match", "write"}, o \in OpId, a \in OpRequest : OpItem(t, o, a)
  BY <1>2, RequestsAreArgs DEF OpItem, OperandsNext
<1>3. CASE OpItemStep
  BY <1>3 DEF OpItemStep, OperandsNext, OpNewStep
<1>4. CASE ReleaseOp
  <2>1. OpFree(Head(left)) /\ Head(left) \in DOMAIN op
    BY <1>4 DEF ReleaseOp, OpFree
  <2>. QED
    BY <2>1 DEF OperandsTypeOK, OperandsNext
<1>5. CASE DieField
  <2>1. DOMAIN field \subseteq FieldName
    BY DEF OperandsTypeOK
  <2>. QED
    BY <1>5, <2>1 DEF DieField, Unreferenced, OperandsNext
<1>6. CASE OpItemRefused
  BY <1>6 DEF OpItemRefused
<1>7. CASE \/ \E n \in RuleName : RuleBegin(n) \/ RuleDel(n)
           \/ RuleNew \/ RuleNewDie \/ Released \/ Malformed \/ Kill
  BY <1>7 DEF RuleBegin, RuleDel, RuleDrop, RuleNew, RuleNewDie, Released, Malformed, Kill
<1>8. CASE \/ \E m \in {"ADD", "DEL", "PRN"}, n \in IfaceName : ProcessBegin(m, n)
           \/ \E k \in RoutId, r \in RuleName, i \in IfaceName : RoutItem(k, r, i)
           \/ \E r \in RuleName, i \in IfaceName : RoutItemDie(r, i)
           \/ ProcessNew \/ ProcessNewDie \/ ProcessDel \/ ProcessNop \/ ReleaseRout
  BY <1>8 DEF ProcessBegin, RoutItem, RoutItemDie, ProcessNew, ProcessNewDie, ProcessDel,
              ProcessDrop, ProcessNop, ReleaseRout
<1>9. CASE \/ \E i \in IfaceName : IfaceAdd(i) \/ IfaceDel(i) \/ RecvError(i)
           \/ DieProcess \/ DieRule \/ DieIface
  BY <1>9 DEF IfaceAdd, IfaceDel, RecvError, DieProcess, ProcessDrop, DieRule, RuleDrop, DieIface
<1>10. CASE UNCHANGED rulesetVars
  BY <1>10 DEF rulesetVars, operandVars
<1>. QED
  BY <1>1, <1>2, <1>3, <1>4, <1>5, <1>6, <1>7, <1>8, <1>9, <1>10
     DEF RulesetNext, Event, Work

(* The operand layer keeps its invariant under every directive.              *)
LEMMA OperandsKept ==
  OperandsInv /\ [RulesetNext]_rulesetVars => OperandsInv' /\ [OperandsNext]_operandVars
BY OperandsSteps, OperandsStep DEF OperandsInv

(* Whatever directives arrive, in whatever order and with whatever failures, *)
(* rule.c uses field.c, memref.c and operations.c as Operands describes.     *)
THEOREM RulesetImplementsOperands == RulesetSpec => ImplementsOperands
<1>1. RulesetInit => OperandsInit
  BY DEF RulesetInit
<1>. QED
  BY <1>1, OperandsStart, OperandsKept, PTL DEF RulesetSpec, ImplementsOperands, OperandsSpec

(* What is proved of Operands therefore holds of the whole program: counts   *)
(* of fields and states, shared buffers and cached sets.                     *)
THEOREM RulesetOperandsSafe == RulesetSpec => []OperandsInv
BY RulesetImplementsOperands, OperandsSafe, PTL DEF ImplementsOperands
-----------------------------------------------------------------------------
(* Counts of rules and of interfaces.                                        *)

(* refcnt_take() of a rule counts, and changes nothing else.                 *)
LEMMA TakeRule ==
  ASSUME NEW T, T \in [DOMAIN T -> Rule], NEW k \in DOMAIN T, NEW R, R = Take(T, k)
  PROVE  /\ DOMAIN R = DOMAIN T /\ R \in [DOMAIN R -> Rule]
         /\ \A x \in DOMAIN T : /\ R[x].match = T[x].match /\ R[x].write = T[x].write
                                /\ R[x].refcnt = T[x].refcnt + Hits(x, k)
<1>1. T[k] \in Rule /\ T[k].refcnt + 1 \in Nat
  BY DEF Rule
<1>2. PICK e : e = [T[k] EXCEPT !.refcnt = @ + 1]
  OBVIOUS
<1>3. e \in Rule /\ e.match = T[k].match /\ e.write = T[k].write /\ e.refcnt = T[k].refcnt + 1
  BY <1>1, <1>2 DEF Rule
<1>4. R = [T EXCEPT ![k] = e]
  BY <1>2 DEF Take
<1>5. \A x \in DOMAIN T : T[x].refcnt \in Nat
  BY DEF Rule
<1>. QED
  BY <1>3, <1>4, <1>5 DEF Hits

(* refcnt_release() of a rule.                                               *)
LEMMA ReleaseRule ==
  ASSUME NEW T, T \in [DOMAIN T -> Rule], NEW k \in DOMAIN T, T[k].refcnt > 0,
         NEW R, R = Release(T, k)
  PROVE  /\ DOMAIN R = DOMAIN T /\ R \in [DOMAIN R -> Rule]
         /\ \A x \in DOMAIN T : /\ R[x].match = T[x].match /\ R[x].write = T[x].write
                                /\ R[x].refcnt = T[x].refcnt - Hits(x, k)
<1>1. T[k] \in Rule /\ T[k].refcnt - 1 \in Nat
  BY DEF Rule
<1>2. PICK e : e = [T[k] EXCEPT !.refcnt = @ - 1]
  OBVIOUS
<1>3. e \in Rule /\ e.match = T[k].match /\ e.write = T[k].write /\ e.refcnt = T[k].refcnt - 1
  BY <1>1, <1>2 DEF Rule
<1>4. R = [T EXCEPT ![k] = e]
  BY <1>2 DEF Release
<1>5. \A x \in DOMAIN T : T[x].refcnt \in Nat
  BY DEF Rule
<1>. QED
  BY <1>3, <1>4, <1>5 DEF Hits

(* refcnt_take() of an interface.                                            *)
LEMMA TakeIface ==
  ASSUME NEW T, T \in [DOMAIN T -> Iface], NEW k \in DOMAIN T, NEW R, R = Take(T, k)
  PROVE  /\ DOMAIN R = DOMAIN T /\ R \in [DOMAIN R -> Iface]
         /\ \A x \in DOMAIN T : /\ R[x].handler = T[x].handler
                                /\ R[x].refcnt = T[x].refcnt + Hits(x, k)
<1>1. T[k] \in Iface /\ T[k].refcnt + 1 \in Nat
  BY DEF Iface
<1>. QED
  BY <1>1 DEF Take, Iface, Hits

(* refcnt_release() of an interface.                                         *)
LEMMA ReleaseIface ==
  ASSUME NEW T, T \in [DOMAIN T -> Iface], NEW k \in DOMAIN T, T[k].refcnt > 0,
         NEW R, R = Release(T, k)
  PROVE  /\ DOMAIN R = DOMAIN T /\ R \in [DOMAIN R -> Iface]
         /\ \A x \in DOMAIN T : /\ R[x].handler = T[x].handler
                                /\ R[x].refcnt = T[x].refcnt - Hits(x, k)
<1>1. T[k] \in Iface /\ T[k].refcnt - 1 \in Nat
  BY DEF Iface
<1>2. R = [T EXCEPT ![k].refcnt = @ - 1]
  BY DEF Release
<1>. QED
  BY <1>1, <1>2 DEF Iface, Hits

Through(r) == {k \in DOMAIN rout : rout[k].rule = r}
To(i) == {k \in DOMAIN rout : rout[k].output = i}
Runs(i) == IF i \in DOMAIN process THEN 1 ELSE 0

(* RefcntExact, in the terms the steps below change one at a time.           *)
Counts ==
  /\ \A r \in DOMAIN rule : rule[r].refcnt = Cardinality(Through(r))
  /\ \A i \in DOMAIN iface : iface[i].refcnt = Cardinality(To(i)) + Runs(i)

(* Counts says no more and no less than RefcntExact, before and after a step.*)
LEMMA CountsAreRefcnt == (RefcntExact <=> Counts) /\ (RefcntExact <=> Counts)'
<1>1. \A i : Cardinality({i} \cap DOMAIN process) = Runs(i)
  <2> TAKE i
  <2>1. CASE i \in DOMAIN process
    <3>1. {i} \cap DOMAIN process = {i}
      BY <2>1
    <3>. QED
      BY <2>1, <3>1, FS_Singleton DEF Runs
  <2>2. CASE i \notin DOMAIN process
    <3>1. {i} \cap DOMAIN process = {}
      BY <2>2
    <3>. QED
      BY <2>2, <3>1, FS_EmptySet DEF Runs
  <2>. QED
    BY <2>1, <2>2
<1>2. \A i : Cardinality({i} \cap DOMAIN process') = Runs(i)'
  <2> TAKE i
  <2>1. CASE i \in DOMAIN process'
    <3>1. {i} \cap DOMAIN process' = {i}
      BY <2>1
    <3>. QED
      BY <2>1, <3>1, FS_Singleton DEF Runs
  <2>2. CASE i \notin DOMAIN process'
    <3>1. {i} \cap DOMAIN process' = {}
      BY <2>2
    <3>. QED
      BY <2>2, <3>1, FS_EmptySet DEF Runs
  <2>. QED
    BY <2>1, <2>2
<1>. QED
  BY <1>1, <1>2 DEF RefcntExact, Counts, Through, To

(* There are finitely many routs, so those that use a rule can be counted.   *)
LEMMA RoutsFinite ==
  ASSUME RulesetTypeOK
  PROVE  \A x : /\ IsFiniteSet(Through(x)) /\ Cardinality(Through(x)) \in Nat
                /\ IsFiniteSet(To(x)) /\ Cardinality(To(x)) \in Nat
<1>1. IsFiniteSet(DOMAIN rout)
  BY FiniteRouts, FS_Subset DEF RulesetTypeOK
<1>2. \A x : Through(x) \subseteq DOMAIN rout /\ To(x) \subseteq DOMAIN rout
  BY DEF Through, To
<1>. QED
  BY <1>1, <1>2, FS_Subset, FS_CardinalityType

(* rout_new(): one more rout through its rule and to its interface.          *)
LEMMA OneMoreRout ==
  ASSUME RulesetTypeOK, NEW k, k \notin DOMAIN rout, NEW e, rout' = Put(rout, k, e)
  PROVE  \A x : /\ Cardinality(Through(x)') = Cardinality(Through(x)) + Hits(x, e.rule)
                /\ Cardinality(To(x)') = Cardinality(To(x)) + Hits(x, e.output)
<1>1. /\ DOMAIN rout' = DOMAIN rout \cup {k} /\ rout'[k] = e
      /\ \A j \in DOMAIN rout : rout'[j] = rout[j]
  BY DEF Put
<1>2. \A x : k \notin Through(x) /\ k \notin To(x)
  BY DEF Through, To
<1>3. \A x : /\ Through(x)' = IF x = e.rule THEN Through(x) \cup {k} ELSE Through(x)
             /\ To(x)' = IF x = e.output THEN To(x) \cup {k} ELSE To(x)
  BY <1>1 DEF Through, To
<1>4. \A S : IsFiniteSet(S) /\ k \notin S => Cardinality(S \cup {k}) = Cardinality(S) + 1
  BY FS_AddElement
<1>5. ASSUME NEW x
      PROVE  /\ Cardinality(Through(x)') = Cardinality(Through(x)) + Hits(x, e.rule)
             /\ Cardinality(To(x)') = Cardinality(To(x)) + Hits(x, e.output)
  <2>1. CASE x = e.rule /\ x = e.output
    BY <1>2, <1>3, <1>4, <2>1, RoutsFinite DEF Hits
  <2>2. CASE x = e.rule /\ x # e.output
    BY <1>2, <1>3, <1>4, <2>2, RoutsFinite DEF Hits
  <2>3. CASE x # e.rule /\ x = e.output
    BY <1>2, <1>3, <1>4, <2>3, RoutsFinite DEF Hits
  <2>4. CASE x # e.rule /\ x # e.output
    BY <1>3, <2>4, RoutsFinite DEF Hits
  <2>. QED
    BY <2>1, <2>2, <2>3, <2>4
<1>. QED
  BY <1>5

(* rout_free(): one less, and what is left was counted.                      *)
LEMMA OneRoutLess ==
  ASSUME RulesetTypeOK, NEW k \in DOMAIN rout
  PROVE  /\ \A x : Cardinality(Through(x)) >= Hits(x, rout[k].rule)
                   /\ Cardinality(To(x)) >= Hits(x, rout[k].output)
         /\ rout' = Drop(rout, k) =>
              \A x : /\ Cardinality(Through(x)') = Cardinality(Through(x)) - Hits(x, rout[k].rule)
                     /\ Cardinality(To(x)') = Cardinality(To(x)) - Hits(x, rout[k].output)
<1>1. \A x : /\ k \in Through(x) <=> x = rout[k].rule
             /\ k \in To(x) <=> x = rout[k].output
  BY DEF Through, To
<1>2. \A S : IsFiniteSet(S) /\ k \in S => Cardinality(S) >= 1 /\ Cardinality(S \ {k}) = Cardinality(S) - 1
  <2> SUFFICES ASSUME NEW S, IsFiniteSet(S), k \in S
               PROVE  Cardinality(S) >= 1 /\ Cardinality(S \ {k}) = Cardinality(S) - 1
    OBVIOUS
  <2>1. Cardinality(S \ {k}) = Cardinality(S) - 1 /\ Cardinality(S \ {k}) \in Nat
        /\ Cardinality(S) \in Nat
    BY FS_RemoveElement, FS_CardinalityType
  <2>. QED
    BY <2>1
<1>3. ASSUME rout' = Drop(rout, k)
      PROVE  \A x : /\ Through(x)' = Through(x) \ {k}
                    /\ To(x)' = To(x) \ {k}
  <2>1. DOMAIN rout' = DOMAIN rout \ {k} /\ \A j \in DOMAIN rout' : rout'[j] = rout[j]
    BY <1>3 DEF Drop
  <2>. QED
    BY <2>1 DEF Through, To
<1>4. ASSUME NEW x
      PROVE  Cardinality(Through(x)) >= Hits(x, rout[k].rule)
             /\ Cardinality(To(x)) >= Hits(x, rout[k].output)
  <2>1. /\ IsFiniteSet(Through(x)) /\ Cardinality(Through(x)) \in Nat
        /\ IsFiniteSet(To(x)) /\ Cardinality(To(x)) \in Nat
    BY RoutsFinite
  <2>2. /\ x = rout[k].rule => Cardinality(Through(x)) >= 1
        /\ x = rout[k].output => Cardinality(To(x)) >= 1
    BY <1>1, <1>2, <2>1, Zenon
  <2>. QED
    BY <2>1, <2>2 DEF Hits
<1>5. ASSUME rout' = Drop(rout, k), NEW x
      PROVE  /\ Cardinality(Through(x)') = Cardinality(Through(x)) - Hits(x, rout[k].rule)
             /\ Cardinality(To(x)') = Cardinality(To(x)) - Hits(x, rout[k].output)
  <2>1. k \notin Through(x) => Through(x)' = Through(x)
    BY <1>3, <1>5
  <2>2. k \notin To(x) => To(x)' = To(x)
    BY <1>3, <1>5
  <2>. QED
    BY <1>1, <1>2, <1>3, <1>5, <2>1, <2>2, RoutsFinite DEF Hits
<1>. QED
  BY <1>4, <1>5
-----------------------------------------------------------------------------
(* Steps of the registry's invariant, one lemma per action or kind of action. *)

(* What does not touch the registry keeps what is said of it alone.          *)
LEMMA RegistryKept ==
  ASSUME RulesetInv, UNCHANGED registry
  PROVE  RuleQueues' = RuleQueues /\ RoutsCurrent' /\ RefcntExact' /\ HandlerIsProcess'
<1>1. UNCHANGED <<rule, rout, process, iface, polled>>
  BY DEF registry
<1>. QED
  BY <1>1 DEF RulesetInv, RuleQueues, RoutsCurrent, RefcntExact, HandlerIsProcess

(* A step that moves nothing between queues.                                 *)
LEMMA NothingMoves ==
  ASSUME RulesetInv, UNCHANGED registry,
         HeldOps' = HeldOps, HeldRouts' = HeldRouts, LiveOps' = LiveOps
  PROVE  /\ OpsOwned' /\ RoutsOwned' /\ OpsCovered' /\ RoutsCovered'
         /\ RoutsCurrent' /\ RefcntExact' /\ HandlerIsProcess'
<1>1. UNCHANGED <<rule, rout, process, iface, polled>>
  BY DEF registry
<1>2. RuleQueues' = RuleQueues
  BY RegistryKept
<1>. QED
  BY <1>1, <1>2, RegistryKept
     DEF RulesetInv, OpsOwned, RoutsOwned, NothingLost, OpsCovered, RoutsCovered

(* A directive begins with queues that hold nothing.                         *)
LEMMA EmptyQueuesType ==
  /\ EmptyQueues \in [match : Seq(OpId), write : Seq(OpId), rout : Seq(RoutId)]
  /\ EmptyQueues.match \o EmptyQueues.write = <<>>
  /\ EmptyQueues.rout = <<>>
BY EmptyQueue, EmptySeq DEF EmptyQueues

(* A directive on fields leaves the registry alone.                          *)
LEMMA FieldSteps ==
  ASSUME RulesetInv, FieldDirective \/ DieField
  PROVE  RulesetInv'
<1>1. /\ UNCHANGED <<op, at, cur>> /\ UNCHANGED <<registry, pc, locals, left>>
  BY DEF FieldDirective, DieField, FieldAdd, FieldDel
<1>2. UNCHANGED <<rule, rout, process, iface, polled, pc, mode, name, queue, target, items, err, left>>
  BY <1>1 DEF registry, locals
<1>3. HeldOps' = HeldOps /\ HeldRouts' = HeldRouts /\ LiveOps' = LiveOps
  BY <1>1, <1>2 DEF HeldOps, HeldRouts, LiveOps
<1>4. RulesetTypeOK' /\ ControlOK'
  BY <1>1, <1>2 DEF RulesetInv, RulesetTypeOK, ControlOK
<1>5. pc' # "exit"
  BY <1>2 DEF FieldDirective, DieField
<1>. QED
  BY <1>1, <1>2, <1>3, <1>4, <1>5, NothingMoves
     DEF RulesetInv, NothingLost, CleanExit

(* A directive begins with empty queues, and so does the end of the program.  *)
LEMMA BeginSteps ==
  ASSUME RulesetInv,
         \/ \E n \in RuleName : RuleBegin(n)
         \/ \E m \in {"ADD", "DEL", "PRN"}, n \in IfaceName : ProcessBegin(m, n)
         \/ Kill
  PROVE  RulesetInv'
<1>1. /\ UNCHANGED <<operandVars, registry>> /\ UNCHANGED <<queue, target, items, err, left>>
      /\ pc = "loop" /\ pc' \in {"rule_parse", "process_parse", "die"}
      /\ mode' \in {"ADD", "DEL", "PRN", "DIE"}
      /\ pc' = "rule_parse" => name' \in RuleName
      /\ pc' = "process_parse" => name' \in IfaceName
      /\ pc' = "die" => name' = NULL
  BY DEF RuleBegin, ProcessBegin, Kill, Begin
<1>2. UNCHANGED <<op, at, cur, rule, rout, process, iface, polled>>
  BY <1>1 DEF registry, operandVars
<1>3. queue = EmptyQueues /\ queue' = EmptyQueues /\ at' = "idle"
  BY <1>1, <1>2 DEF RulesetInv, ControlOK
<1>4. HeldOps' = HeldOps /\ HeldRouts' = HeldRouts /\ LiveOps' = LiveOps
  BY <1>1, <1>2, <1>3, EmptyQueuesType DEF HeldOps, HeldRouts, LiveOps
<1>5. RulesetTypeOK'
  BY <1>1, <1>2 DEF RulesetInv, RulesetTypeOK
<1>6. ControlOK'
  BY <1>1, <1>3 DEF ControlOK
<1>7. pc' # "exit" /\ queue'.rout = <<>>
  BY <1>1, <1>3, EmptyQueuesType
<1>. QED
  BY <1>1, <1>4, <1>5, <1>6, <1>7, NothingMoves DEF RulesetInv, NothingLost, CleanExit

(* op_parse_new() of an item, up to what it returns: an operation under       *)
(* construction is on no queue.                                               *)
LEMMA OpItemBegins ==
  ASSUME RulesetInv, OperandsInv,
         \/ \E t \in {"match", "write"}, o \in OpId, a \in OpRequest : OpItem(t, o, a)
         \/ OpItemRefused
  PROVE  RulesetInv'
<1>1. /\ UNCHANGED registry /\ UNCHANGED <<pc, mode, name, left, queue>>
      /\ pc = "rule_parse" /\ at = "idle"
      /\ target' \in {"match", "write"}
      /\ items < MaxItems /\ items' = items + 1 /\ err' \in BOOLEAN
  BY DEF OpItem, OpItemRefused, NextItem, OpNew, RulesetInv, RulesetTypeOK
<1>2. UNCHANGED <<rule, rout, process, iface, polled>>
  BY <1>1 DEF registry
<1>3. cur \notin DOMAIN op
  BY <1>1, NullIsNoName DEF OperandsInv, OperandsTypeOK, OpNewProgress
<1>4. LiveOps' = LiveOps
  <2>1. CASE \E t \in {"match", "write"}, o \in OpId, a \in OpRequest : OpItem(t, o, a)
    BY <1>3, <2>1 DEF OpItem, OpNew, Put, LiveOps
  <2>2. CASE OpItemRefused
    BY <2>2 DEF OpItemRefused, operandVars, LiveOps
  <2>. QED
    BY <2>1, <2>2
<1>5. HeldOps' = HeldOps /\ HeldRouts' = HeldRouts
  BY <1>1 DEF HeldOps, HeldRouts
<1>6. RulesetTypeOK'
  BY <1>1, <1>2, BoundedMappings DEF RulesetInv, RulesetTypeOK
<1>7. ControlOK'
  BY <1>1 DEF RulesetInv, ControlOK
<1>. QED
  BY <1>1, <1>4, <1>5, <1>6, <1>7, NothingMoves DEF RulesetInv, NothingLost, CleanExit

(* op_new() goes on or fails: still nothing is on a queue.                    *)
LEMMA OpItemGoesOn ==
  ASSUME RulesetInv, OperandsInv, pc = "rule_parse",
         GetDstField \/ GetSrcField \/ GetDst \/ OpNewDie,
         err' \in BOOLEAN, UNCHANGED <<registry, pc, mode, name, target, items, left, queue>>
  PROVE  RulesetInv'
<1>1. UNCHANGED <<rule, rout, process, iface, polled>>
  BY DEF registry
<1>2. at # "idle" /\ cur \in DOMAIN op /\ NULL \notin DOMAIN op
  BY NullIsNoName
     DEF GetDstField, GetSrcField, GetDst, OpNewDie, CannotGet, OperandsInv, OperandsTypeOK,
         OpNewProgress
<1>3. LiveOps' = LiveOps
  <2>1. CASE GetDstField \/ GetSrcField \/ GetDst
    BY <1>2, <2>1 DEF GetDstField, GetSrcField, GetDst, LiveOps
  <2>2. CASE OpNewDie
    BY <1>2, <2>2 DEF OpNewDie, Free, Drop, LiveOps
  <2>. QED
    BY <2>1, <2>2
<1>4. HeldOps' = HeldOps /\ HeldRouts' = HeldRouts
  BY DEF HeldOps, HeldRouts
<1>5. RulesetTypeOK' /\ ControlOK'
  BY <1>1 DEF RulesetInv, RulesetTypeOK, ControlOK
<1>. QED
  BY <1>3, <1>4, <1>5, NothingMoves DEF RulesetInv, NothingLost, CleanExit

(* op_new() returns: the operation is enqueued, and is now on one queue.      *)
LEMMA OpItemReturns ==
  ASSUME RulesetInv, OperandsInv, pc = "rule_parse", OpNewReturn,
         queue' = [queue EXCEPT ![target] = Append(@, cur)],
         UNCHANGED <<registry, pc, mode, name, target, items, left, err>>
  PROVE  RulesetInv'
<1>1. UNCHANGED <<rule, rout, process, iface, polled>>
  BY DEF registry
<1>2. /\ cur \in DOMAIN op /\ cur \in OpId /\ NULL \notin DOMAIN op
      /\ at' = "idle" /\ cur' = NULL /\ DOMAIN op' = DOMAIN op
  BY NullIsNoName DEF OpNewReturn, OperandsInv, OperandsTypeOK, OpNewProgress
<1>3. LiveOps' = LiveOps \cup {cur} /\ cur \notin LiveOps
  BY <1>2 DEF LiveOps
<1>4. /\ queue.match \in Seq(OpId) /\ queue.write \in Seq(OpId) /\ target \in {"match", "write"}
      /\ queue \in [match : Seq(OpId), write : Seq(OpId), rout : Seq(RoutId)]
  BY DEF RulesetInv, RulesetTypeOK
<1>5. /\ queue' \in [match : Seq(OpId), write : Seq(OpId), rout : Seq(RoutId)]
      /\ queue'.rout = queue.rout
      /\ \/ queue'.match = Append(queue.match, cur) /\ queue'.write = queue.write
         \/ queue'.match = queue.match /\ queue'.write = Append(queue.write, cur)
  <2>1. Append(queue.match, cur) \in Seq(OpId) /\ Append(queue.write, cur) \in Seq(OpId)
    BY <1>2, <1>4, AppendQueue
  <2>2. CASE target = "match"
    BY <1>4, <2>1, <2>2
  <2>3. CASE target = "write"
    BY <1>4, <2>1, <2>3
  <2>. QED
    BY <1>4, <2>2, <2>3
<1>6. /\ HeldOps = queue.match \o queue.write /\ HeldOps' = queue'.match \o queue'.write
      /\ HeldRouts' = HeldRouts
  BY DEF HeldOps, HeldRouts
<1>7. IsInjective(HeldOps') /\ ToSet(HeldOps') = ToSet(HeldOps) \cup {cur}
  <2>1. /\ ToSet(HeldOps) = ToSet(queue.match) \cup ToSet(queue.write)
        /\ IsInjective(queue.match) /\ IsInjective(queue.write)
        /\ ToSet(queue.match) \cap ToSet(queue.write) = {}
        /\ cur \notin ToSet(queue.match) /\ cur \notin ToSet(queue.write)
    BY <1>3, <1>4, <1>6, ConcatQueue DEF RulesetInv, OpsOwned, Owned
  <2>2. /\ ToSet(Append(queue.match, cur)) = ToSet(queue.match) \cup {cur}
        /\ ToSet(Append(queue.write, cur)) = ToSet(queue.write) \cup {cur}
        /\ IsInjective(Append(queue.match, cur)) /\ IsInjective(Append(queue.write, cur))
    BY <1>2, <1>4, <2>1, AppendQueue
  <2>3. /\ ToSet(HeldOps') = ToSet(queue'.match) \cup ToSet(queue'.write)
        /\ IsInjective(HeldOps') <=>
             /\ IsInjective(queue'.match) /\ IsInjective(queue'.write)
             /\ ToSet(queue'.match) \cap ToSet(queue'.write) = {}
    <3>1. PICK m \in Seq(OpId), w \in Seq(OpId) : m = queue'.match /\ w = queue'.write
      BY <1>5
    <3>2. /\ ToSet(m \o w) = ToSet(m) \cup ToSet(w)
          /\ IsInjective(m \o w) <=>
               IsInjective(m) /\ IsInjective(w) /\ ToSet(m) \cap ToSet(w) = {}
      BY ConcatQueue
    <3>. QED
      BY <1>6, <3>1, <3>2
  <2>. QED
    BY <1>5, <2>1, <2>2, <2>3
<1>8. OpsOwned' /\ OpsCovered'
  <2>1. RuleQueues' = RuleQueues
    BY RegistryKept
  <2>2. Owned(RuleQueues, HeldOps', LiveOps \cup {cur})
    BY <1>3, <1>7, Enqueue DEF RulesetInv, OpsOwned
  <2>3. Input = {} => Covered(RuleQueues, HeldOps', LiveOps \cup {cur})
    BY <1>3, <1>7, Enqueue DEF RulesetInv, OpsOwned, NothingLost, OpsCovered
  <2>. QED
    BY <1>3, <2>1, <2>2, <2>3 DEF OpsOwned, OpsCovered
<1>9. RoutsOwned' /\ RoutsCovered'
  BY <1>1, <1>6 DEF RulesetInv, RoutsOwned, NothingLost, RoutsCovered
<1>10. RulesetTypeOK'
  BY <1>1, <1>5 DEF RulesetInv, RulesetTypeOK
<1>11. ControlOK'
  BY <1>2 DEF RulesetInv, ControlOK
<1>. QED
  BY <1>8, <1>9, <1>10, <1>11, RegistryKept DEF RulesetInv, NothingLost, CleanExit

(* rule_new(), process_new(): die.  The queues go on to be released.          *)
LEMMA UnwindSteps ==
  ASSUME RulesetInv, RuleNewDie \/ ProcessNewDie
  PROVE  RulesetInv'
<1>1. /\ UNCHANGED <<operandVars, registry>> /\ UNCHANGED locals
      /\ \/ /\ pc = "rule_parse" /\ at = "idle" /\ pc' = "rule_release_refs"
            /\ left' = queue.match \o queue.write
         \/ /\ pc = "process_parse" /\ pc' = "process_release_refs" /\ left' = queue.rout
  BY DEF RuleNewDie, ProcessNewDie, Unwind
<1>2. /\ UNCHANGED <<op, at, cur, rule, rout, process, iface, polled>>
      /\ UNCHANGED <<mode, name, queue, target, items, err>>
  BY <1>1 DEF registry, operandVars, locals
<1>3. HeldOps' = HeldOps /\ HeldRouts' = HeldRouts /\ LiveOps' = LiveOps
  BY <1>1, <1>2 DEF HeldOps, HeldRouts, LiveOps
<1>4. left' \in Seq(OpId \cup RoutId)
  <2>1. queue.match \o queue.write \in Seq(OpId) /\ queue.rout \in Seq(RoutId)
    BY ConcatQueue DEF RulesetInv, RulesetTypeOK
  <2>. QED
    BY <1>1, <2>1, SeqMonotonic
<1>5. RulesetTypeOK'
  BY <1>1, <1>2, <1>4 DEF RulesetInv, RulesetTypeOK
<1>6. ControlOK'
  BY <1>1, <1>2 DEF RulesetInv, ControlOK
<1>. QED
  BY <1>1, <1>3, <1>5, <1>6, NothingMoves DEF RulesetInv, NothingLost, CleanExit

(* What Return leaves behind.                                                 *)
LEMMA ReturnEffect ==
  ASSUME RulesetInv, at' = "idle", Return
  PROVE  /\ ControlOK' /\ HeldOps' = <<>> /\ HeldRouts' = <<>>
         /\ pc' \in {"loop", "die"} /\ mode' \in {"ADD", "DEL", "PRN", "DIE"} /\ name' = NULL
         /\ queue' \in [match : Seq(OpId), write : Seq(OpId), rout : Seq(RoutId)]
         /\ target' \in {"match", "write"} /\ items' \in 0 .. MaxItems /\ err' \in BOOLEAN
         /\ left' \in Seq(OpId \cup RoutId)
         /\ pc' # "exit" /\ pc' # "process_parse"
<1>1. pc' \in {"loop", "die"} /\ queue' = EmptyQueues
  BY DEF Return
<1>2. ControlOK' /\ HeldOps' = <<>> /\ HeldRouts' = <<>>
  BY <1>1 DEF ControlOK, HeldOps, HeldRouts
<1>3. mode' \in {"ADD", "DEL", "PRN", "DIE"} /\ name' = NULL /\ target' \in {"match", "write"}
  BY DEF Return
<1>4. items' \in 0 .. MaxItems /\ err' \in BOOLEAN /\ left' \in Seq(OpId \cup RoutId)
  <2>1. items' = 0 /\ err' = FALSE /\ left' = left
    BY DEF Return
  <2>2. items' \in 0 .. MaxItems
    BY <2>1, BoundedMappings
  <2>3. err' \in BOOLEAN
    BY <2>1, Zenon
  <2>4. left' \in Seq(OpId \cup RoutId)
    BY <2>1 DEF RulesetInv, RulesetTypeOK
  <2>. QED
    BY <2>2, <2>3, <2>4
<1>. QED
  BY <1>1, <1>2, <1>3, <1>4, EmptyQueuesType

(* The end of a directive that lists nothing: by then the queue in hand is    *)
(* empty, unless the input was malformed.                                     *)
LEMMA ReturnSteps ==
  ASSUME RulesetInv, Released \/ ProcessNop \/ Malformed
  PROVE  RulesetInv'
<1>1. /\ UNCHANGED <<operandVars, registry>> /\ Return
      /\ pc \in {"rule_release_refs", "process_release_refs", "rule_parse", "process_parse"}
      /\ Malformed => "malformed" \in Input
  BY DEF Released, ProcessNop, Malformed
<1>2. UNCHANGED <<op, at, cur, rule, rout, process, iface, polled>>
  BY <1>1 DEF registry, operandVars
<1>3. at' = "idle"
  BY <1>1, <1>2 DEF Released, ProcessNop, Malformed, RulesetInv, ControlOK
<1>4. HeldOps' = <<>> /\ HeldRouts' = <<>> /\ LiveOps' = LiveOps
  BY <1>1, <1>2, <1>3, ReturnEffect DEF LiveOps
<1>5. Input = {} => HeldOps = <<>> /\ HeldRouts = <<>>
  BY <1>1 DEF Released, ProcessNop, HeldOps, HeldRouts, RulesetInv, NothingLost
<1>6. RuleQueues' = RuleQueues
  BY <1>1, RegistryKept
<1>7. OpsOwned' /\ RoutsOwned'
  BY <1>2, <1>4, <1>6, Abandon DEF RulesetInv, OpsOwned, RoutsOwned
<1>8. OpsCovered' /\ RoutsCovered'
  BY <1>2, <1>4, <1>5, <1>6 DEF RulesetInv, NothingLost, OpsCovered, RoutsCovered
<1>9. RulesetTypeOK'
  BY <1>1, <1>2, <1>3, ReturnEffect DEF RulesetInv, RulesetTypeOK
<1>. QED
  BY <1>1, <1>3, <1>7, <1>8, <1>9, RegistryKept, ReturnEffect
     DEF RulesetInv, NothingLost, CleanExit

(* A rule that no rout goes through, listed or not, is one whose count is zero. *)
LEMMA UnusedRule ==
  ASSUME RulesetInv
  PROVE  \A r : (r \notin DOMAIN rule \/ rule[r].refcnt = 0) =>
                  /\ \A k \in DOMAIN rout : rout[k].rule # r
                  /\ Cardinality(Through(r)) = 0
<1> SUFFICES ASSUME NEW r, r \notin DOMAIN rule \/ rule[r].refcnt = 0
             PROVE  /\ \A k \in DOMAIN rout : rout[k].rule # r
                    /\ Cardinality(Through(r)) = 0
  OBVIOUS
<1>1. Through(r) = {}
  <2>1. CASE r \notin DOMAIN rule
    BY <2>1 DEF RulesetInv, RoutsCurrent, Through
  <2>2. CASE r \in DOMAIN rule
    <3>1. Cardinality(Through(r)) = 0 /\ IsFiniteSet(Through(r))
      BY <2>2, CountsAreRefcnt, RoutsFinite DEF RulesetInv, Counts
    <3>. QED
      BY <3>1, FS_EmptySet
  <2>. QED
    BY <2>1, <2>2
<1>. QED
  BY <1>1, FS_EmptySet DEF Through

(* The same for an interface, on which no process runs either.                 *)
LEMMA UnusedIface ==
  ASSUME RulesetInv
  PROVE  \A i : (i \notin DOMAIN iface \/ iface[i].refcnt = 0) =>
                  /\ i \notin DOMAIN process
                  /\ \A k \in DOMAIN rout : rout[k].output # i
                  /\ Cardinality(To(i)) = 0
<1> SUFFICES ASSUME NEW i, i \notin DOMAIN iface \/ iface[i].refcnt = 0
             PROVE  i \notin DOMAIN process /\ To(i) = {}
  BY FS_EmptySet DEF To
<1>1. CASE i \notin DOMAIN iface
  BY <1>1 DEF RulesetInv, RoutsCurrent, HandlerIsProcess, To
<1>2. CASE i \in DOMAIN iface
  <2>1. /\ Cardinality(To(i)) + Runs(i) = 0
        /\ IsFiniteSet(To(i)) /\ Cardinality(To(i)) \in Nat
    BY <1>2, CountsAreRefcnt, RoutsFinite DEF RulesetInv, Counts
  <2>2. Cardinality(To(i)) = 0 /\ Runs(i) = 0
    BY <2>1 DEF Runs
  <2>. QED
    BY <2>1, <2>2, FS_EmptySet DEF Runs
<1>. QED
  BY <1>1, <1>2

(* rule_new() publishes a rule with the queues the parser filled.              *)
LEMMA RuleNewStep ==
  ASSUME RulesetInv, RuleNew
  PROVE  RulesetInv'
<1> DEFINE e == [match |-> queue.match, write |-> queue.write, refcnt |-> 0]
<1>1. /\ pc = "rule_parse" /\ at = "idle" /\ name \in RuleName /\ name \notin DOMAIN rule
      /\ rule' = Put(rule, name, e) /\ Return
      /\ UNCHANGED <<op, at, cur, rout, process, iface, polled>>
  BY DEF RuleNew, RulesetInv, ControlOK, operandVars
<1>2. /\ queue.match \in Seq(OpId) /\ queue.write \in Seq(OpId)
  BY DEF RulesetInv, RulesetTypeOK
<1>3. e \in Rule /\ e.match = queue.match /\ e.write = queue.write /\ e.refcnt = 0
  BY <1>2 DEF Rule
<1>4. /\ DOMAIN rule' = DOMAIN rule \cup {name} /\ rule'[name] = e
      /\ \A r \in DOMAIN rule : rule'[r] = rule[r]
  BY <1>1 DEF Put
<1>5. RulesetTypeOK'
  <2>1. rule' \in [DOMAIN rule' -> Rule] /\ DOMAIN rule' \subseteq RuleName
    BY <1>1, <1>3, <1>4 DEF RulesetInv, RulesetTypeOK, Put
  <2>. QED
    BY <1>1, <2>1, ReturnEffect DEF RulesetInv, RulesetTypeOK
<1>6. OpsOwned' /\ OpsCovered'
  <2>1. RuleQueues' = Put(RuleQueues, name, HeldOps) /\ name \notin DOMAIN RuleQueues
    BY <1>1, <1>3, <1>4 DEF RuleQueues, Put, HeldOps
  <2>2. HeldOps' = <<>> /\ LiveOps' = LiveOps
    BY <1>1, ReturnEffect DEF LiveOps
  <2>. QED
    BY <2>1, <2>2, Publish DEF RulesetInv, OpsOwned, NothingLost, OpsCovered
<1>7. RoutsOwned' /\ RoutsCovered'
  <2>1. HeldRouts = <<>> /\ HeldRouts' = <<>>
    BY <1>1, ReturnEffect DEF HeldRouts
  <2>. QED
    BY <1>1, <2>1 DEF RulesetInv, RoutsOwned, NothingLost, RoutsCovered
<1>8. RoutsCurrent' /\ HandlerIsProcess'
  BY <1>1, <1>4 DEF RulesetInv, RoutsCurrent, HandlerIsProcess
<1>9. RefcntExact'
  <2>1. \A x : Through(x)' = Through(x) /\ To(x)' = To(x) /\ Runs(x)' = Runs(x)
    BY <1>1 DEF Through, To, Runs
  <2>2. Cardinality(Through(name)) = 0
    BY <1>1, UnusedRule
  <2>3. Counts
    BY CountsAreRefcnt DEF RulesetInv
  <2>4. Counts'
    BY <1>1, <1>3, <1>4, <2>1, <2>2, <2>3 DEF Counts
  <2>. QED
    BY <2>4, CountsAreRefcnt
<1>. QED
  BY <1>1, <1>5, <1>6, <1>7, <1>8, <1>9, ReturnEffect DEF RulesetInv, NothingLost, CleanExit

(* A rule is deleted, by a directive or at the end: no rout goes through it,   *)
(* and its operations go to be released.                                       *)
LEMMA RuleDropStep ==
  ASSUME RulesetInv, pc \in {"loop", "die"}, NEW n, RuleDrop(n)
  PROVE  RulesetInv'
<1>1. /\ n \in DOMAIN rule /\ rule[n].refcnt = 0 /\ rule' = Drop(rule, n)
      /\ pc' = "rule_release_refs" /\ left' = rule[n].match \o rule[n].write
      /\ UNCHANGED <<op, at, cur, rout, process, iface, polled>>
      /\ UNCHANGED <<mode, name, queue, target, items, err>>
  BY DEF RuleDrop, Unwind, locals, operandVars
<1>2. DOMAIN rule' = DOMAIN rule \ {n} /\ \A r \in DOMAIN rule' : rule'[r] = rule[r]
  BY <1>1 DEF Drop
<1>3. RulesetTypeOK'
  <2>1. left' \in Seq(OpId \cup RoutId)
    <3>1. rule[n] \in Rule
      BY <1>1 DEF RulesetInv, RulesetTypeOK
    <3>2. rule[n].match \in Seq(OpId) /\ rule[n].write \in Seq(OpId)
      BY <3>1 DEF Rule
    <3>. QED
      BY <1>1, <3>2, ConcatQueue, SeqMonotonic
  <2>2. rule' \in [DOMAIN rule' -> Rule] /\ DOMAIN rule' \subseteq RuleName
    BY <1>1, <1>2 DEF RulesetInv, RulesetTypeOK, Drop
  <2>. QED
    BY <1>1, <2>1, <2>2 DEF RulesetInv, RulesetTypeOK
<1>4. ControlOK'
  BY <1>1 DEF RulesetInv, ControlOK
<1>5. OpsOwned' /\ OpsCovered'
  <2>1. /\ RuleQueues' = Drop(RuleQueues, n) /\ n \in DOMAIN RuleQueues
        /\ HeldOps = <<>> /\ HeldOps' = RuleQueues[n] /\ LiveOps' = LiveOps
    BY <1>1, <1>2 DEF RuleQueues, Drop, HeldOps, LiveOps
  <2>. QED
    BY <2>1, Delist DEF RulesetInv, OpsOwned, NothingLost, OpsCovered
<1>6. RoutsOwned' /\ RoutsCovered'
  <2>1. HeldRouts = <<>> /\ HeldRouts' = <<>>
    BY <1>1 DEF HeldRouts
  <2>. QED
    BY <1>1, <2>1 DEF RulesetInv, RoutsOwned, NothingLost, RoutsCovered
<1>7. RoutsCurrent' /\ HandlerIsProcess'
  <2>1. \A k \in DOMAIN rout : rout[k].rule # n
    BY <1>1, UnusedRule
  <2>. QED
    BY <1>1, <1>2, <2>1 DEF RulesetInv, RoutsCurrent, HandlerIsProcess
<1>8. RefcntExact'
  <2>1. \A x : Through(x)' = Through(x) /\ To(x)' = To(x) /\ Runs(x)' = Runs(x)
    BY <1>1 DEF Through, To, Runs
  <2>2. Counts
    BY CountsAreRefcnt DEF RulesetInv
  <2>3. Counts'
    BY <1>1, <1>2, <2>1, <2>2 DEF Counts
  <2>. QED
    BY <2>3, CountsAreRefcnt
<1>. QED
  BY <1>1, <1>3, <1>4, <1>5, <1>6, <1>7, <1>8 DEF RulesetInv, NothingLost, CleanExit

(* rule_release_refs() frees the next operation, which no other queue holds.   *)
LEMMA ReleaseOpStep ==
  ASSUME RulesetInv, ReleaseOp
  PROVE  RulesetInv'
<1>1. /\ pc = "rule_release_refs" /\ left # <<>> /\ left' = Tail(left) /\ UNCHANGED registry
      /\ UNCHANGED <<pc, mode, name, queue, target, items, err, at, cur>>
      /\ op' = Drop(op, Head(left)) /\ at = "idle"
  BY DEF ReleaseOp, OpFree, Free, locals
<1>2. UNCHANGED <<rule, rout, process, iface, polled>>
  BY <1>1 DEF registry
<1>3. left \in Seq(OpId \cup RoutId)
  BY DEF RulesetInv, RulesetTypeOK
<1>4. /\ HeldOps = left /\ HeldOps' = Tail(left) /\ HeldRouts' = HeldRouts
      /\ LiveOps' = LiveOps \ {Head(left)}
  BY <1>1 DEF HeldOps, HeldRouts, LiveOps, Drop
<1>5. RuleQueues' = RuleQueues
  BY <1>1, RegistryKept
<1>6. OpsOwned' /\ OpsCovered'
  <2>1. /\ Owned(RuleQueues, Tail(left), LiveOps \ {Head(left)})
        /\ Covered(RuleQueues, left, LiveOps) =>
             Covered(RuleQueues, Tail(left), LiveOps \ {Head(left)})
    BY <1>1, <1>3, <1>4, FreeHead DEF RulesetInv, OpsOwned
  <2>. QED
    BY <1>4, <1>5, <2>1 DEF RulesetInv, OpsOwned, NothingLost, OpsCovered
<1>7. RoutsOwned' /\ RoutsCovered'
  BY <1>2, <1>4 DEF RulesetInv, RoutsOwned, NothingLost, RoutsCovered
<1>8. RulesetTypeOK' /\ ControlOK'
  <2>1. left' \in Seq(OpId \cup RoutId)
    BY <1>1, <1>3, TailQueue
  <2>. QED
    BY <1>1, <1>2, <2>1 DEF RulesetInv, RulesetTypeOK, ControlOK
<1>. QED
  BY <1>1, <1>6, <1>7, <1>8, RegistryKept DEF RulesetInv, NothingLost, CleanExit

(* rout_new() takes a reference to the rule and to the interface, and the      *)
(* rout is enqueued.                                                           *)
LEMMA RoutItemStep ==
  ASSUME RulesetInv, NEW k \in RoutId, NEW r \in RuleName, NEW i \in IfaceName, RoutItem(k, r, i)
  PROVE  RulesetInv'
<1> DEFINE e == [rule |-> r, output |-> i, match |-> rule[r].match, write |-> rule[r].write]
<1>1. /\ pc = "process_parse" /\ RoutsParsed
      /\ k \notin DOMAIN rout /\ r \in DOMAIN rule /\ i \in DOMAIN iface
      /\ rule' = Take(rule, r) /\ iface' = Take(iface, i) /\ rout' = Put(rout, k, e)
      /\ queue' = [queue EXCEPT !.rout = Append(@, k)]
      /\ items < MaxItems /\ items' = items + 1 /\ err' = (err \/ FALSE)
      /\ UNCHANGED <<op, at, cur, process, polled, target, pc, mode, name, left>>
  BY DEF RoutItem, NextItem, operandVars
<1>2. /\ DOMAIN rule' = DOMAIN rule /\ rule' \in [DOMAIN rule' -> Rule]
      /\ \A x \in DOMAIN rule : /\ rule'[x].match = rule[x].match
                                /\ rule'[x].write = rule[x].write
                                /\ rule'[x].refcnt = rule[x].refcnt + Hits(x, r)
  <2>1. rule \in [DOMAIN rule -> Rule]
    BY DEF RulesetInv, RulesetTypeOK
  <2>. QED
    BY <1>1, <2>1, TakeRule
<1>3. /\ DOMAIN iface' = DOMAIN iface /\ iface' \in [DOMAIN iface' -> Iface]
      /\ \A x \in DOMAIN iface : /\ iface'[x].handler = iface[x].handler
                                 /\ iface'[x].refcnt = iface[x].refcnt + Hits(x, i)
  <2>1. iface \in [DOMAIN iface -> Iface]
    BY DEF RulesetInv, RulesetTypeOK
  <2>. QED
    BY <1>1, <2>1, TakeIface
<1>4. /\ DOMAIN rout' = DOMAIN rout \cup {k} /\ rout'[k] = e
      /\ \A j \in DOMAIN rout : rout'[j] = rout[j]
  BY <1>1 DEF Put
<1>5. e \in Rout
  <2>1. rule[r] \in Rule
    BY <1>1 DEF RulesetInv, RulesetTypeOK
  <2>. QED
    BY <2>1 DEF Rule, Rout
<1>6. /\ queue.rout \in Seq(RoutId)
      /\ queue' \in [match : Seq(OpId), write : Seq(OpId), rout : Seq(RoutId)]
      /\ queue'.rout = Append(queue.rout, k)
  <2>1. /\ queue \in [match : Seq(OpId), write : Seq(OpId), rout : Seq(RoutId)]
        /\ queue.rout \in Seq(RoutId)
    BY DEF RulesetInv, RulesetTypeOK
  <2>2. Append(queue.rout, k) \in Seq(RoutId)
    BY <2>1, AppendQueue
  <2>. QED
    BY <1>1, <2>1, <2>2
<1>7. RulesetTypeOK'
  <2>1. rout' \in [DOMAIN rout' -> Rout] /\ DOMAIN rout' \subseteq RoutId
    BY <1>1, <1>4, <1>5 DEF RulesetInv, RulesetTypeOK, Put
  <2>2. items' \in 0 .. MaxItems
    BY <1>1, BoundedMappings DEF RulesetInv, RulesetTypeOK
  <2>3. err' \in BOOLEAN
    BY <1>1 DEF RulesetInv, RulesetTypeOK
  <2>. QED
    BY <1>1, <1>2, <1>3, <1>6, <2>1, <2>2, <2>3 DEF RulesetInv, RulesetTypeOK
<1>8. ControlOK'
  BY <1>1 DEF RulesetInv, ControlOK
<1>9. OpsOwned' /\ OpsCovered'
  <2>1. HeldOps = <<>> /\ HeldOps' = <<>> /\ LiveOps' = LiveOps
    BY <1>1 DEF HeldOps, LiveOps
  <2>2. RuleQueues' = RuleQueues
    BY <1>2 DEF RuleQueues
  <2>. QED
    BY <2>1, <2>2 DEF RulesetInv, OpsOwned, NothingLost, OpsCovered
<1>10. RoutsOwned' /\ RoutsCovered'
  <2>1. HeldRouts = queue.rout /\ HeldRouts' = Append(queue.rout, k)
    BY <1>1, <1>6 DEF HeldRouts
  <2>2. IsInjective(HeldRouts) /\ k \notin ToSet(HeldRouts)
    BY <1>1 DEF RulesetInv, RoutsOwned, Owned
  <2>3. IsInjective(HeldRouts') /\ ToSet(HeldRouts') = ToSet(HeldRouts) \cup {k}
    BY <1>6, <2>1, <2>2, AppendQueue
  <2>4. /\ Owned(process, HeldRouts', DOMAIN rout \cup {k})
        /\ Covered(process, HeldRouts, DOMAIN rout) =>
             Covered(process, HeldRouts', DOMAIN rout \cup {k})
    BY <1>1, <2>3, Enqueue DEF RulesetInv, RoutsOwned
  <2>. QED
    BY <1>1, <1>4, <2>4 DEF RulesetInv, RoutsOwned, NothingLost, RoutsCovered
<1>11. RoutsCurrent'
  BY <1>1, <1>2, <1>3, <1>4 DEF RulesetInv, RoutsCurrent
<1>12. RefcntExact'
  <2>1. \A x : /\ Cardinality(Through(x)') = Cardinality(Through(x)) + Hits(x, r)
               /\ Cardinality(To(x)') = Cardinality(To(x)) + Hits(x, i)
               /\ Runs(x)' = Runs(x)
    BY <1>1, OneMoreRout DEF RulesetInv, Runs
  <2>2. Counts
    BY CountsAreRefcnt DEF RulesetInv
  <2>3. \A x : Cardinality(Through(x)) \in Nat /\ Cardinality(To(x)) \in Nat
               /\ Runs(x) \in Nat /\ Hits(x, i) \in Nat
    BY RoutsFinite DEF RulesetInv, Runs, Hits
  <2>4. Counts'
    BY <1>2, <1>3, <2>1, <2>2, <2>3 DEF Counts
  <2>. QED
    BY <2>4, CountsAreRefcnt
<1>13. HandlerIsProcess'
  BY <1>1, <1>3 DEF RulesetInv, HandlerIsProcess
<1>14. Input = {} /\ pc' = "process_parse" /\ mode' # "ADD" => queue'.rout = <<>>
  BY <1>1 DEF RoutsParsed
<1>. QED
  BY <1>1, <1>7, <1>8, <1>9, <1>10, <1>11, <1>12, <1>13, <1>14 DEF RulesetInv, NothingLost, CleanExit

(* rout_new(): die.  Taking a rule and releasing it again changes nothing.     *)
LEMMA RoutItemDieStep ==
  ASSUME RulesetInv, NEW r, NEW i, RoutItemDie(r, i)
  PROVE  RulesetInv' /\ UNCHANGED registry
<1>1. /\ pc = "process_parse"
      /\ items < MaxItems /\ items' = items + 1 /\ err' = (err \/ TRUE)
      /\ rule' = IF r \in DOMAIN rule THEN Release(Take(rule, r), r) ELSE rule
      /\ UNCHANGED <<op, at, cur, rout, process, iface, polled>>
      /\ UNCHANGED <<queue, target, pc, mode, name, left>>
  BY DEF RoutItemDie, NextItem, operandVars
<1>2. rule' = rule
  <2>1. CASE r \in DOMAIN rule
    <3>1. rule \in [DOMAIN rule -> Rule] /\ rule[r] \in Rule /\ rule[r].refcnt \in Nat
      BY <2>1 DEF RulesetInv, RulesetTypeOK, Rule
    <3>2. PICK T : T = Take(rule, r)
      OBVIOUS
    <3>3. /\ DOMAIN T = DOMAIN rule /\ T \in [DOMAIN T -> Rule]
          /\ \A x \in DOMAIN rule : /\ T[x].match = rule[x].match /\ T[x].write = rule[x].write
                                    /\ T[x].refcnt = rule[x].refcnt + Hits(x, r)
      BY <2>1, <3>1, <3>2, TakeRule
    <3>4. T[r].refcnt > 0
      BY <2>1, <3>1, <3>3 DEF Hits
    <3>5. /\ DOMAIN rule' = DOMAIN T /\ rule' \in [DOMAIN rule' -> Rule]
          /\ \A x \in DOMAIN T : /\ rule'[x].match = T[x].match /\ rule'[x].write = T[x].write
                                 /\ rule'[x].refcnt = T[x].refcnt - Hits(x, r)
      BY <1>1, <2>1, <3>2, <3>3, <3>4, ReleaseRule
    <3>6. ASSUME NEW x \in DOMAIN rule
          PROVE  rule'[x] = rule[x]
      <4>1. rule[x] \in Rule /\ rule'[x] \in Rule
        BY <3>1, <3>3, <3>5
      <4>2. rule'[x].refcnt = rule[x].refcnt
        <5>1. rule[x].refcnt \in Nat
          BY <4>1 DEF Rule
        <5>2. rule'[x].refcnt = (rule[x].refcnt + Hits(x, r)) - Hits(x, r)
          BY <3>3, <3>5
        <5>. QED
          BY <5>1, <5>2 DEF Hits
      <4>3. \A a, b \in Rule : a.match = b.match /\ a.write = b.write /\ a.refcnt = b.refcnt => a = b
        BY DEF Rule
      <4>4. rule'[x].match = rule[x].match /\ rule'[x].write = rule[x].write
        BY <3>3, <3>5
      <4>. QED
        BY <4>1, <4>2, <4>3, <4>4
    <3>. QED
      BY <3>1, <3>3, <3>5, <3>6
  <2>. QED
    BY <1>1, <2>1
<1>3. UNCHANGED registry
  BY <1>1, <1>2 DEF registry
<1>4. HeldOps' = HeldOps /\ HeldRouts' = HeldRouts /\ LiveOps' = LiveOps
  BY <1>1 DEF HeldOps, HeldRouts, LiveOps
<1>5. RulesetTypeOK'
  <2>1. items' \in 0 .. MaxItems
    BY <1>1, BoundedMappings DEF RulesetInv, RulesetTypeOK
  <2>2. err' \in BOOLEAN
    BY <1>1
  <2>. QED
    BY <1>1, <1>2, <2>1, <2>2 DEF RulesetInv, RulesetTypeOK
<1>6. ControlOK'
  BY <1>1 DEF RulesetInv, ControlOK
<1>. QED
  BY <1>1, <1>3, <1>4, <1>5, <1>6, NothingMoves DEF RulesetInv, NothingLost, CleanExit

(* iface_handler_register() and iface_handler_clear() change one handler.      *)
LEMMA HandlerSet ==
  ASSUME NEW T, T \in [DOMAIN T -> Iface], NEW k \in DOMAIN T, NEW q \in Seq(RoutId) \cup {NULL},
         NEW R, R = [T EXCEPT ![k].handler = q]
  PROVE  /\ DOMAIN R = DOMAIN T /\ R \in [DOMAIN R -> Iface]
         /\ \A x \in DOMAIN T : /\ R[x].handler = IF x = k THEN q ELSE T[x].handler
                                /\ R[x].refcnt = T[x].refcnt
<1>1. PICK e : e = [T[k] EXCEPT !.handler = q]
  OBVIOUS
<1>2. T[k] \in Iface
  OBVIOUS
<1>3. e \in Iface /\ e.handler = q /\ e.refcnt = T[k].refcnt
  BY <1>1, <1>2 DEF Iface
<1>4. R = [T EXCEPT ![k] = e]
  BY <1>1
<1>. QED
  BY <1>3, <1>4

(* process_new() publishes a process and makes it the interface's handler.     *)
LEMMA ProcessNewStep ==
  ASSUME RulesetInv, ProcessNew
  PROVE  RulesetInv'
<1>1. /\ pc = "process_parse" /\ name \in IfaceName /\ name \notin DOMAIN process
      /\ name \in DOMAIN iface /\ process' = Put(process, name, queue.rout) /\ Return
      /\ iface' = [Take(iface, name) EXCEPT ![name].handler = queue.rout]
      /\ UNCHANGED <<op, at, cur, rule, rout, polled>>
  BY DEF ProcessNew, CanAttach, RulesetInv, ControlOK, operandVars
<1>2. queue.rout \in Seq(RoutId) /\ iface \in [DOMAIN iface -> Iface]
  BY DEF RulesetInv, RulesetTypeOK
<1>3. at' = "idle"
  BY <1>1 DEF RulesetInv, ControlOK
<1>4. /\ DOMAIN process' = DOMAIN process \cup {name} /\ process'[name] = queue.rout
      /\ \A j \in DOMAIN process : process'[j] = process[j]
  BY <1>1 DEF Put
<1>5. /\ DOMAIN iface' = DOMAIN iface /\ iface' \in [DOMAIN iface' -> Iface]
      /\ \A x \in DOMAIN iface :
           /\ iface'[x].handler = IF x = name THEN queue.rout ELSE iface[x].handler
           /\ iface'[x].refcnt = iface[x].refcnt + Hits(x, name)
  <2>1. PICK T : T = Take(iface, name)
    OBVIOUS
  <2>2. /\ DOMAIN T = DOMAIN iface /\ T \in [DOMAIN T -> Iface]
        /\ \A x \in DOMAIN iface : /\ T[x].handler = iface[x].handler
                                   /\ T[x].refcnt = iface[x].refcnt + Hits(x, name)
    BY <1>1, <1>2, <2>1, TakeIface
  <2>3. /\ DOMAIN iface' = DOMAIN T /\ iface' \in [DOMAIN iface' -> Iface]
        /\ \A x \in DOMAIN T : /\ iface'[x].handler = IF x = name THEN queue.rout ELSE T[x].handler
                               /\ iface'[x].refcnt = T[x].refcnt
    <3>1. PICK e : e = [T[name] EXCEPT !.handler = queue.rout]
      OBVIOUS
    <3>2. name \in DOMAIN T /\ T[name] \in Iface
      BY <1>1, <2>2
    <3>3. e \in Iface /\ e.handler = queue.rout /\ e.refcnt = T[name].refcnt
      BY <1>2, <3>1, <3>2 DEF Iface
    <3>4. iface' = [T EXCEPT ![name] = e]
      BY <1>1, <2>1, <3>1
    <3>. QED
      BY <2>2, <3>3, <3>4
  <2>. QED
    BY <2>2, <2>3
<1>6. RulesetTypeOK'
  <2>1. process' \in [DOMAIN process' -> Seq(RoutId)] /\ DOMAIN process' \subseteq IfaceName
    BY <1>1, <1>2, <1>4 DEF RulesetInv, RulesetTypeOK, Put
  <2>. QED
    BY <1>1, <1>3, <1>5, <2>1, ReturnEffect DEF RulesetInv, RulesetTypeOK
<1>7. OpsOwned' /\ OpsCovered'
  <2>1. HeldOps = <<>> /\ HeldOps' = <<>> /\ LiveOps' = LiveOps /\ RuleQueues' = RuleQueues
    BY <1>1, <1>3, ReturnEffect DEF HeldOps, LiveOps, RuleQueues
  <2>. QED
    BY <2>1 DEF RulesetInv, OpsOwned, NothingLost, OpsCovered
<1>8. RoutsOwned' /\ RoutsCovered'
  <2>1. HeldRouts = queue.rout /\ HeldRouts' = <<>>
    BY <1>1, <1>3, ReturnEffect DEF HeldRouts
  <2>. QED
    BY <1>1, <2>1, Publish DEF RulesetInv, RoutsOwned, NothingLost, RoutsCovered
<1>9. RoutsCurrent'
  BY <1>1, <1>5 DEF RulesetInv, RoutsCurrent
<1>10. HandlerIsProcess'
  BY <1>1, <1>4, <1>5 DEF RulesetInv, HandlerIsProcess
<1>11. RefcntExact'
  <2>1. \A x : Through(x)' = Through(x) /\ To(x)' = To(x) /\ Runs(x)' = Runs(x) + Hits(x, name)
    BY <1>1, <1>4 DEF Through, To, Runs, Hits
  <2>2. Counts
    BY CountsAreRefcnt DEF RulesetInv
  <2>3. \A x : Cardinality(To(x)) \in Nat /\ Runs(x) \in Nat /\ Hits(x, name) \in Nat
    BY RoutsFinite DEF RulesetInv, Runs, Hits
  <2>4. Counts'
    BY <1>1, <1>5, <2>1, <2>2, <2>3 DEF Counts
  <2>. QED
    BY <2>4, CountsAreRefcnt
<1>. QED
  BY <1>1, <1>3, <1>6, <1>7, <1>8, <1>9, <1>10, <1>11, ReturnEffect
     DEF RulesetInv, NothingLost, CleanExit

(* A process is deleted, by a directive or at the end: its interface has no    *)
(* handler any more, and its routs go to be released.                          *)
LEMMA ProcessDropStep ==
  ASSUME RulesetInv, NEW n, ProcessDrop(n),
         \/ pc = "die"
         \/ pc = "process_parse" /\ mode = "DEL"
  PROVE  RulesetInv'
<1>1. /\ n \in DOMAIN process /\ process' = Drop(process, n)
      /\ iface' = Release(HandlerCleared(n, process[n]), n)
      /\ pc' = "process_release_refs" /\ left' = process[n]
      /\ UNCHANGED <<op, at, cur, rule, rout, polled>>
      /\ UNCHANGED <<mode, name, queue, target, items, err>>
  BY DEF ProcessDrop, Unwind, locals, operandVars
<1>2. /\ n \in DOMAIN iface /\ iface[n].handler = process[n] /\ at = "idle"
      /\ iface \in [DOMAIN iface -> Iface] /\ process[n] \in Seq(RoutId)
  BY <1>1 DEF RulesetInv, RulesetTypeOK, HandlerIsProcess, ControlOK
<1>3. DOMAIN process' = DOMAIN process \ {n} /\ \A j \in DOMAIN process' : process'[j] = process[j]
  BY <1>1 DEF Drop
<1>4. Counts /\ \A x : Cardinality(To(x)) \in Nat /\ Runs(x) \in Nat
  BY CountsAreRefcnt, RoutsFinite DEF RulesetInv, Runs
<1>5. /\ DOMAIN iface' = DOMAIN iface /\ iface' \in [DOMAIN iface' -> Iface]
      /\ \A x \in DOMAIN iface :
           /\ iface'[x].handler = IF x = n THEN NULL ELSE iface[x].handler
           /\ iface'[x].refcnt = iface[x].refcnt - Hits(x, n)
  <2>1. PICK T : T = [iface EXCEPT ![n].handler = NULL]
    OBVIOUS
  <2>2. /\ DOMAIN T = DOMAIN iface /\ T \in [DOMAIN T -> Iface]
        /\ \A x \in DOMAIN iface : /\ T[x].handler = IF x = n THEN NULL ELSE iface[x].handler
                                   /\ T[x].refcnt = iface[x].refcnt
    BY <1>2, <2>1, HandlerSet
  <2>3. iface[n].refcnt > 0
    BY <1>1, <1>2, <1>4 DEF Counts, Runs
  <2>4. iface' = Release(T, n)
    BY <1>1, <1>2, <2>1 DEF HandlerCleared
  <2>5. /\ DOMAIN iface' = DOMAIN T /\ iface' \in [DOMAIN iface' -> Iface]
        /\ \A x \in DOMAIN T : /\ iface'[x].handler = T[x].handler
                               /\ iface'[x].refcnt = T[x].refcnt - Hits(x, n)
    BY <1>2, <2>2, <2>3, <2>4, ReleaseIface
  <2>. QED
    BY <2>2, <2>5
<1>6. RulesetTypeOK'
  <2>1. process' \in [DOMAIN process' -> Seq(RoutId)] /\ DOMAIN process' \subseteq IfaceName
    BY <1>1, <1>3 DEF RulesetInv, RulesetTypeOK, Drop
  <2>2. left' \in Seq(OpId \cup RoutId)
    BY <1>1, <1>2, SeqMonotonic
  <2>. QED
    BY <1>1, <1>5, <2>1, <2>2 DEF RulesetInv, RulesetTypeOK
<1>7. ControlOK'
  BY <1>1, <1>2 DEF ControlOK
<1>8. OpsOwned' /\ OpsCovered'
  <2>1. HeldOps = <<>> /\ HeldOps' = <<>> /\ LiveOps' = LiveOps /\ RuleQueues' = RuleQueues
    BY <1>1 DEF HeldOps, LiveOps, RuleQueues
  <2>. QED
    BY <2>1 DEF RulesetInv, OpsOwned, NothingLost, OpsCovered
<1>9. RoutsOwned' /\ RoutsCovered'
  <2>1. HeldRouts' = process[n]
    BY <1>1 DEF HeldRouts
  <2>2. Owned(process, <<>>, DOMAIN rout)
    BY Abandon DEF RulesetInv, RoutsOwned
  <2>3. Input = {} => HeldRouts = <<>>
    BY DEF HeldRouts, RulesetInv, NothingLost
  <2>4. /\ Owned(process', process[n], DOMAIN rout)
        /\ Covered(process, <<>>, DOMAIN rout) => Covered(process', process[n], DOMAIN rout)
    BY <1>1, <2>2, Delist
  <2>. QED
    BY <1>1, <2>1, <2>3, <2>4 DEF RulesetInv, RoutsOwned, NothingLost, RoutsCovered
<1>10. RoutsCurrent' /\ HandlerIsProcess'
  BY <1>1, <1>3, <1>5 DEF RulesetInv, RoutsCurrent, HandlerIsProcess
<1>11. RefcntExact'
  <2>1. \A x : Through(x)' = Through(x) /\ To(x)' = To(x) /\ Runs(x)' = Runs(x) - Hits(x, n)
    BY <1>1, <1>3 DEF Through, To, Runs, Hits
  <2>2. \A x : Hits(x, n) \in Nat
    BY DEF Hits
  <2>3. Counts'
    BY <1>1, <1>4, <1>5, <2>1, <2>2 DEF Counts
  <2>. QED
    BY <2>3, CountsAreRefcnt
<1>. QED
  BY <1>1, <1>6, <1>7, <1>8, <1>9, <1>10, <1>11 DEF RulesetInv, NothingLost, CleanExit

(* rout_free() of the next rout: no process has it, and its rule and its       *)
(* interface, which it kept alive until now, are released.                     *)
LEMMA ReleaseRoutStep ==
  ASSUME RulesetInv, ReleaseRout
  PROVE  RulesetInv'
<1> DEFINE k == Head(left)
<1>1. /\ pc = "process_release_refs" /\ left # <<>> /\ left' = Tail(left)
      /\ rule' = Release(rule, rout[k].rule) /\ iface' = Release(iface, rout[k].output)
      /\ rout' = Drop(rout, k)
      /\ UNCHANGED <<op, at, cur, process, polled, pc, mode, name, queue, target, items, err>>
  BY DEF ReleaseRout, locals, operandVars
<1>2. HeldRouts = left /\ left \in Seq(OpId \cup RoutId)
  BY <1>1 DEF HeldRouts, RulesetInv, RulesetTypeOK
<1>3. /\ Owned(process, Tail(left), DOMAIN rout \ {k}) /\ k \in DOMAIN rout
      /\ Covered(process, left, DOMAIN rout) => Covered(process, Tail(left), DOMAIN rout \ {k})
  BY <1>1, <1>2, FreeHead DEF RulesetInv, RoutsOwned
<1>4. /\ DOMAIN rout' = DOMAIN rout \ {k} /\ \A j \in DOMAIN rout' : rout'[j] = rout[j]
  BY <1>1 DEF Drop
<1>5. /\ rout[k].rule \in DOMAIN rule /\ rout[k].output \in DOMAIN iface
      /\ rule \in [DOMAIN rule -> Rule] /\ iface \in [DOMAIN iface -> Iface]
  BY <1>3 DEF RulesetInv, RulesetTypeOK, RoutsCurrent
<1>6. /\ Counts
      /\ \A x : /\ Cardinality(Through(x)) \in Nat /\ Cardinality(To(x)) \in Nat /\ Runs(x) \in Nat
                /\ Cardinality(Through(x)) >= Hits(x, rout[k].rule)
                /\ Cardinality(To(x)) >= Hits(x, rout[k].output)
  BY <1>3, CountsAreRefcnt, RoutsFinite, OneRoutLess DEF RulesetInv, Runs
<1>7. rule[rout[k].rule].refcnt > 0 /\ iface[rout[k].output].refcnt > 0
  BY <1>5, <1>6 DEF Counts, Hits
<1>8. /\ DOMAIN rule' = DOMAIN rule /\ rule' \in [DOMAIN rule' -> Rule]
      /\ \A x \in DOMAIN rule : /\ rule'[x].match = rule[x].match /\ rule'[x].write = rule[x].write
                                /\ rule'[x].refcnt = rule[x].refcnt - Hits(x, rout[k].rule)
  BY <1>1, <1>5, <1>7, ReleaseRule
<1>9. /\ DOMAIN iface' = DOMAIN iface /\ iface' \in [DOMAIN iface' -> Iface]
      /\ \A x \in DOMAIN iface : /\ iface'[x].handler = iface[x].handler
                                 /\ iface'[x].refcnt = iface[x].refcnt - Hits(x, rout[k].output)
  BY <1>1, <1>5, <1>7, ReleaseIface
<1>10. RulesetTypeOK' /\ ControlOK'
  <2>1. left' \in Seq(OpId \cup RoutId)
    BY <1>1, <1>2, TailQueue
  <2>2. rout' \in [DOMAIN rout' -> Rout] /\ DOMAIN rout' \subseteq RoutId
    BY <1>1, <1>4 DEF RulesetInv, RulesetTypeOK, Drop
  <2>. QED
    BY <1>1, <1>8, <1>9, <2>1, <2>2 DEF RulesetInv, RulesetTypeOK, ControlOK
<1>11. OpsOwned' /\ OpsCovered'
  <2>1. HeldOps = <<>> /\ HeldOps' = <<>> /\ LiveOps' = LiveOps
    BY <1>1 DEF HeldOps, LiveOps
  <2>2. RuleQueues' = RuleQueues
    BY <1>8 DEF RuleQueues
  <2>. QED
    BY <2>1, <2>2 DEF RulesetInv, OpsOwned, NothingLost, OpsCovered
<1>12. RoutsOwned' /\ RoutsCovered'
  <2>1. HeldRouts' = Tail(left)
    BY <1>1 DEF HeldRouts
  <2>. QED
    BY <1>1, <1>2, <1>3, <1>4, <2>1 DEF RulesetInv, RoutsOwned, NothingLost, RoutsCovered
<1>13. RoutsCurrent' /\ HandlerIsProcess'
  BY <1>1, <1>4, <1>8, <1>9 DEF RulesetInv, RoutsCurrent, HandlerIsProcess
<1>14. RefcntExact'
  <2>1. \A x : /\ Cardinality(Through(x)') = Cardinality(Through(x)) - Hits(x, rout[k].rule)
               /\ Cardinality(To(x)') = Cardinality(To(x)) - Hits(x, rout[k].output)
               /\ Runs(x)' = Runs(x)
    BY <1>1, <1>3, OneRoutLess DEF RulesetInv, Runs
  <2>2. \A x, y : Hits(x, y) \in Nat
    BY DEF Hits
  <2>3. Counts'
    BY <1>6, <1>8, <1>9, <2>1, <2>2 DEF Counts
  <2>. QED
    BY <2>3, CountsAreRefcnt
<1>. QED
  BY <1>1, <1>10, <1>11, <1>12, <1>13, <1>14 DEF RulesetInv, NothingLost, CleanExit

(* iface_parse() in add mode: a name nothing refers to yet.                    *)
LEMMA IfaceAddStep ==
  ASSUME RulesetInv, NEW i \in IfaceName, IfaceAdd(i)
  PROVE  RulesetInv'
<1> DEFINE e == [handler |-> NULL, refcnt |-> 0]
<1>1. /\ pc = "loop" /\ i \notin DOMAIN iface /\ iface' = Put(iface, i, e)
      /\ polled' \subseteq polled \cup {i}
      /\ UNCHANGED <<op, at, cur, rule, rout, process>>
      /\ UNCHANGED <<pc, mode, name, queue, target, items, err, left>>
  BY DEF IfaceAdd, locals, operandVars
<1>2. /\ DOMAIN iface' = DOMAIN iface \cup {i} /\ iface'[i] = e
      /\ \A j \in DOMAIN iface : iface'[j] = iface[j]
  BY <1>1 DEF Put
<1>3. e \in Iface /\ e.handler = NULL /\ e.refcnt = 0
  BY DEF Iface
<1>4. RulesetTypeOK' /\ ControlOK'
  <2>1. iface' \in [DOMAIN iface' -> Iface] /\ DOMAIN iface' \subseteq IfaceName
    BY <1>1, <1>2, <1>3 DEF RulesetInv, RulesetTypeOK, Put
  <2>2. polled' \subseteq DOMAIN iface'
    BY <1>1, <1>2 DEF RulesetInv, RulesetTypeOK
  <2>. QED
    BY <1>1, <2>1, <2>2 DEF RulesetInv, RulesetTypeOK, ControlOK
<1>5. OpsOwned' /\ OpsCovered' /\ RoutsOwned' /\ RoutsCovered'
  <2>1. /\ HeldOps' = HeldOps /\ HeldRouts' = HeldRouts /\ LiveOps' = LiveOps
        /\ RuleQueues' = RuleQueues
    BY <1>1 DEF HeldOps, HeldRouts, LiveOps, RuleQueues
  <2>. QED
    BY <1>1, <2>1 DEF RulesetInv, OpsOwned, RoutsOwned, NothingLost, OpsCovered, RoutsCovered
<1>6. /\ i \notin DOMAIN process /\ Cardinality(To(i)) = 0
  BY <1>1, UnusedIface
<1>7. RoutsCurrent' /\ HandlerIsProcess'
  BY <1>1, <1>2, <1>3, <1>6 DEF RulesetInv, RoutsCurrent, HandlerIsProcess
<1>8. RefcntExact'
  <2>1. \A x : Through(x)' = Through(x) /\ To(x)' = To(x) /\ Runs(x)' = Runs(x)
    BY <1>1 DEF Through, To, Runs
  <2>2. Counts /\ Runs(i) = 0
    BY <1>6, CountsAreRefcnt DEF RulesetInv, Runs
  <2>3. Counts'
    BY <1>1, <1>2, <1>3, <1>6, <2>1, <2>2 DEF Counts
  <2>. QED
    BY <2>3, CountsAreRefcnt
<1>. QED
  BY <1>1, <1>4, <1>5, <1>7, <1>8 DEF RulesetInv, NothingLost, CleanExit

(* iface_free(), of one interface or of all: what is referenced stays.         *)
LEMMA IfacesGone ==
  ASSUME RulesetInv, NEW gone, gone \subseteq Unreferenced(iface),
         iface' = [i \in DOMAIN iface \ gone |-> iface[i]],
         polled' \subseteq polled \ gone,
         UNCHANGED <<op, at, cur, rule, rout, process>>,
         UNCHANGED <<mode, name, queue, target, items, err, left>>,
         \/ pc = "loop" /\ pc' = "loop"
         \/ pc = "die" /\ pc' = "exit"
  PROVE  /\ RulesetTypeOK' /\ ControlOK' /\ OpsOwned' /\ RoutsOwned'
         /\ OpsCovered' /\ RoutsCovered'
         /\ RoutsCurrent' /\ RefcntExact' /\ HandlerIsProcess'
<1>1. DOMAIN iface' = DOMAIN iface \ gone /\ \A j \in DOMAIN iface' : iface'[j] = iface[j]
  OBVIOUS
<1>2. RulesetTypeOK' /\ ControlOK'
  <2>1. iface' \in [DOMAIN iface' -> Iface] /\ DOMAIN iface' \subseteq IfaceName
    BY <1>1 DEF RulesetInv, RulesetTypeOK
  <2>2. polled' \subseteq DOMAIN iface'
    BY <1>1 DEF RulesetInv, RulesetTypeOK
  <2>. QED
    BY <2>1, <2>2 DEF RulesetInv, RulesetTypeOK, ControlOK
<1>3. OpsOwned' /\ OpsCovered' /\ RoutsOwned' /\ RoutsCovered'
  <2>1. /\ HeldOps' = HeldOps /\ HeldRouts' = HeldRouts /\ LiveOps' = LiveOps
        /\ RuleQueues' = RuleQueues
    BY DEF HeldOps, HeldRouts, LiveOps, RuleQueues
  <2>. QED
    BY <2>1 DEF RulesetInv, OpsOwned, RoutsOwned, NothingLost, OpsCovered, RoutsCovered
<1>4. \A i \in gone : i \notin DOMAIN process /\ \A k \in DOMAIN rout : rout[k].output # i
  BY UnusedIface DEF Unreferenced
<1>5. RoutsCurrent' /\ HandlerIsProcess'
  BY <1>1, <1>4 DEF RulesetInv, RoutsCurrent, HandlerIsProcess
<1>6. RefcntExact'
  <2>1. \A x : Through(x)' = Through(x) /\ To(x)' = To(x) /\ Runs(x)' = Runs(x)
    BY DEF Through, To, Runs
  <2>2. Counts
    BY CountsAreRefcnt DEF RulesetInv
  <2>3. Counts'
    BY <1>1, <2>1, <2>2 DEF Counts
  <2>. QED
    BY <2>3, CountsAreRefcnt
<1>. QED
  BY <1>2, <1>3, <1>5, <1>6

(* What is freed when epoll_track forgets the socket of one interface.         *)
LEMMA IfaceFreeEffect ==
  ASSUME RulesetInv, NEW i, IfaceDel(i) \/ RecvError(i)
  PROVE  \E gone \in SUBSET {i} :
           /\ gone \subseteq Unreferenced(iface)
           /\ iface' = [j \in DOMAIN iface \ gone |-> iface[j]]
           /\ polled' \subseteq polled \ gone
<1>1. /\ polled' = polled \ {i} /\ i \in DOMAIN iface
      /\ iface' = IF iface[i].refcnt = 0 THEN Drop(iface, i) ELSE iface
      /\ iface \in [DOMAIN iface -> Iface]
  BY DEF IfaceDel, RecvError, IfaceFree, RulesetInv, RulesetTypeOK
<1>2. CASE iface[i].refcnt = 0
  <2>1. {i} \subseteq Unreferenced(iface) /\ iface' = [j \in DOMAIN iface \ {i} |-> iface[j]]
    BY <1>1, <1>2 DEF Unreferenced, Drop
  <2>. QED
    BY <1>1, <2>1
<1>3. CASE iface[i].refcnt # 0
  <2>1. iface' = [j \in DOMAIN iface \ {} |-> iface[j]]
    BY <1>1, <1>3
  <2>. QED
    BY <1>1, <2>1
<1>. QED
  BY <1>2, <1>3

(* iface_parse() in delete mode, and a socket that fails: at most that one goes.*)
LEMMA IfaceGoneSteps ==
  ASSUME RulesetInv, NEW i, IfaceDel(i) \/ RecvError(i)
  PROVE  RulesetInv'
<1>1. /\ pc = "loop" /\ pc' = "loop"
      /\ UNCHANGED <<op, at, cur, rule, rout, process>>
      /\ UNCHANGED <<mode, name, queue, target, items, err, left>>
  BY DEF IfaceDel, RecvError, locals, operandVars
<1>2. PICK gone \in SUBSET {i} :
           /\ gone \subseteq Unreferenced(iface)
           /\ iface' = [j \in DOMAIN iface \ gone |-> iface[j]]
           /\ polled' \subseteq polled \ gone
  BY IfaceFreeEffect
<1>3. /\ RulesetTypeOK' /\ ControlOK' /\ OpsOwned' /\ RoutsOwned'
      /\ OpsCovered' /\ RoutsCovered'
      /\ RoutsCurrent' /\ RefcntExact' /\ HandlerIsProcess'
  BY <1>1, <1>2, IfacesGone
<1>. QED
  BY <1>1, <1>3 DEF RulesetInv, NothingLost, CleanExit

(* main()'s die: section, when nothing is left to do but close interfaces: if  *)
(* no object was lost, processes are gone, so no rout is left, so no rule is   *)
(* referenced and none is left, so no operation, no state and no field.        *)
LEMMA NothingLeft ==
  ASSUME RulesetInv, OperandsInv, Input = {}, pc = "die", process = EmptyTable,
         Unreferenced(rule) = {}, Unreferenced(field) = {}
  PROVE  /\ DOMAIN rout = {} /\ DOMAIN rule = {} /\ DOMAIN op = {}
         /\ DOMAIN field = {} /\ DOMAIN state = {}
         /\ Unreferenced(iface) = DOMAIN iface
<1>1. DOMAIN process = {} /\ HeldRouts = <<>> /\ HeldOps = <<>>
  BY DEF EmptyTable, HeldRouts, HeldOps
<1>2. DOMAIN rout = {}
  BY <1>1, EmptyQueue DEF RulesetInv, NothingLost, RoutsCovered, Covered
<1>3. Counts /\ \A x : Cardinality(Through(x)) = 0 /\ Cardinality(To(x)) = 0 /\ Runs(x) = 0
  <2>1. \A x : Through(x) = {} /\ To(x) = {} /\ Runs(x) = 0
    BY <1>1, <1>2 DEF Through, To, Runs
  <2>. QED
    BY <2>1, CountsAreRefcnt, FS_EmptySet DEF RulesetInv
<1>4. DOMAIN rule = {}
  BY <1>3 DEF Counts, Unreferenced
<1>5. Unreferenced(iface) = DOMAIN iface
  <2>1. \A i \in DOMAIN iface : iface[i].refcnt = 0 + 0
    BY <1>3, Zenon DEF Counts
  <2>2. 0 + 0 = 0
    OBVIOUS
  <2>. QED
    BY <2>1, <2>2, Zenon DEF Unreferenced
<1>6. DOMAIN op = {}
  <2>1. cur = NULL /\ NULL \notin DOMAIN op
    BY NullIsNoName DEF RulesetInv, ControlOK, OperandsInv, OperandsTypeOK, OpNewProgress
  <2>2. DOMAIN RuleQueues = {}
    BY <1>4 DEF RuleQueues
  <2>3. LiveOps = {}
    BY <1>1, <2>2, EmptyQueue DEF RulesetInv, NothingLost, OpsCovered, Covered
  <2>. QED
    BY <2>1, <2>3 DEF LiveOps
<1>7. \A x : /\ Cardinality(DstFieldUsers(x)) = 0 /\ Cardinality(SrcFieldUsers(x)) = 0
             /\ Cardinality(DstUsers(x)) = 0 /\ Cardinality(SrcUsers(x)) = 0
  <2>1. \A x : DstFieldUsers(x) = {} /\ SrcFieldUsers(x) = {} /\ DstUsers(x) = {} /\ SrcUsers(x) = {}
    BY <1>6 DEF DstFieldUsers, SrcFieldUsers, DstUsers, SrcUsers
  <2>. QED
    BY <2>1, FS_EmptySet
<1>8. DOMAIN field = {} /\ DOMAIN state = {}
  <2>1. \A f \in DOMAIN field : field[f].refcnt = 0 + 0
    BY <1>7, Zenon DEF OperandsInv, FieldRefExact
  <2>2. \A x \in DOMAIN state : state[x].refcnt = 0 + 0 /\ state[x].refcnt > 0
    BY <1>7, Zenon DEF OperandsInv, StateRefExact
  <2>3. 0 + 0 = 0 /\ ~ (0 + 0 > 0)
    OBVIOUS
  <2>4. DOMAIN field = {}
    BY <2>1, <2>3, Zenon DEF Unreferenced
  <2>5. DOMAIN state = {}
    BY <2>2, <2>3, Zenon
  <2>. QED
    BY <2>4, <2>5
<1>. QED
  BY <1>2, <1>4, <1>5, <1>6, <1>8

(* eptk_free() and the destructor of iface.c: the program is at its end.       *)
LEMMA DieIfaceStep ==
  ASSUME RulesetInv, OperandsInv, DieIface
  PROVE  RulesetInv'
<1>1. /\ pc = "die" /\ pc' = "exit" /\ process = EmptyTable
      /\ Unreferenced(rule) = {} /\ Unreferenced(field) = {}
      /\ polled' = {} /\ iface' = [i \in DOMAIN iface \ Unreferenced(iface) |-> iface[i]]
      /\ UNCHANGED <<field, state, op, at, cur, rule, rout, process>>
      /\ UNCHANGED <<mode, name, queue, target, items, err, left>>
  BY DEF DieIface, locals, operandVars
<1>2. /\ RulesetTypeOK' /\ ControlOK' /\ OpsOwned' /\ RoutsOwned'
      /\ OpsCovered' /\ RoutsCovered'
      /\ RoutsCurrent' /\ RefcntExact' /\ HandlerIsProcess'
  BY <1>1, IfacesGone
<1>3. ASSUME Input = {}
      PROVE  CleanExit'
  <2>1. /\ DOMAIN rout = {} /\ DOMAIN rule = {} /\ DOMAIN op = {}
        /\ DOMAIN field = {} /\ DOMAIN state = {} /\ DOMAIN iface \ Unreferenced(iface) = {}
    BY <1>1, <1>3, NothingLeft
  <2>2. /\ rout \in [DOMAIN rout -> Rout] /\ rule \in [DOMAIN rule -> Rule]
        /\ op \in [DOMAIN op -> Op]
        /\ field \in [DOMAIN field -> Counted] /\ state \in [DOMAIN state -> Counted]
    BY DEF RulesetInv, RulesetTypeOK, OperandsInv, OperandsTypeOK
  <2>3. /\ rout = EmptyTable /\ rule = EmptyTable /\ op = EmptyTable
        /\ field = EmptyTable /\ state = EmptyTable
    BY <2>1, <2>2 DEF EmptyTable
  <2>4. iface' = EmptyTable
    BY <1>1, <2>1 DEF EmptyTable
  <2>. QED
    BY <1>1, <2>3, <2>4 DEF CleanExit
<1>. QED
  BY <1>1, <1>2, <1>3 DEF RulesetInv, NothingLost

(* The program starts with nothing: every table and queue is empty.          *)
LEMMA RulesetStart == RulesetInit => RulesetInv
<1> SUFFICES ASSUME RulesetInit
             PROVE  RulesetInv
  OBVIOUS
<1>1. /\ DOMAIN rule = {} /\ DOMAIN rout = {} /\ DOMAIN process = {} /\ DOMAIN iface = {}
      /\ DOMAIN op = {} /\ at = "idle" /\ polled = {} /\ pc = "loop" /\ queue = EmptyQueues
  BY DEF RulesetInit, OperandsInit, EmptyTable
<1>2. RulesetTypeOK
  <2>1. /\ rule \in [{} -> Rule] /\ rout \in [{} -> Rout] /\ process \in [{} -> Seq(RoutId)]
        /\ iface \in [{} -> Iface]
    BY DEF RulesetInit, EmptyTable
  <2>2. left \in Seq(OpId \cup RoutId) /\ items \in 0 .. MaxItems
    BY EmptySeq, BoundedMappings DEF RulesetInit
  <2>3. err \in BOOLEAN
    BY DEF RulesetInit
  <2>. QED
    BY <1>1, <2>1, <2>2, <2>3, EmptyQueuesType DEF RulesetInit, RulesetTypeOK
<1>3. ControlOK
  BY <1>1 DEF ControlOK
<1>4. OpsOwned /\ RoutsOwned /\ OpsCovered /\ RoutsCovered
  <2>1. /\ HeldOps = <<>> /\ HeldRouts = <<>> /\ DOMAIN RuleQueues = {} /\ LiveOps = {}
    BY <1>1 DEF HeldOps, HeldRouts, RuleQueues, LiveOps
  <2>. QED
    BY <1>1, <2>1, EmptyQueue DEF OpsOwned, RoutsOwned, OpsCovered, RoutsCovered, Owned, Covered
<1>. QED
  BY <1>1, <1>2, <1>3, <1>4
     DEF RulesetInv, RoutsCurrent, RefcntExact, HandlerIsProcess, NothingLost, CleanExit

(* Every step of every directive, and of the end of the program, keeps the     *)
(* invariant of the registry.                                                  *)
LEMMA RulesetStep ==
  RulesetInv /\ OperandsInv /\ [RulesetNext]_rulesetVars => RulesetInv'
<1> SUFFICES ASSUME RulesetInv, OperandsInv, [RulesetNext]_rulesetVars
             PROVE  RulesetInv'
  OBVIOUS
<1>1. CASE FieldDirective \/ DieField
  BY <1>1, FieldSteps
<1>2. CASE \/ \E n \in RuleName : RuleBegin(n)
           \/ \E m \in {"ADD", "DEL", "PRN"}, n \in IfaceName : ProcessBegin(m, n)
           \/ Kill
  BY <1>2, BeginSteps
<1>3. CASE \/ \E t \in {"match", "write"}, o \in OpId, a \in OpRequest : OpItem(t, o, a)
           \/ OpItemRefused
  BY <1>3, OpItemBegins
<1>4. CASE OpItemStep
  <2>1. CASE OpNewReturn /\ queue' = [queue EXCEPT ![target] = Append(@, cur)] /\ UNCHANGED err
    BY <1>4, <2>1, OpItemReturns DEF OpItemStep
  <2>2. CASE (GetDstField \/ GetSrcField \/ GetDst) /\ UNCHANGED <<queue, err>>
    <3>1. err' \in BOOLEAN
      BY <2>2 DEF RulesetInv, RulesetTypeOK
    <3>. QED
      BY <1>4, <2>2, <3>1, OpItemGoesOn DEF OpItemStep
  <2>3. CASE OpNewDie /\ err' = TRUE /\ UNCHANGED queue
    BY <1>4, <2>3, OpItemGoesOn DEF OpItemStep
  <2>. QED
    BY <1>4, <2>1, <2>2, <2>3 DEF OpItemStep
<1>5. CASE RuleNewDie \/ ProcessNewDie
  BY <1>5, UnwindSteps
<1>6. CASE Released \/ ProcessNop \/ Malformed
  BY <1>6, ReturnSteps
<1>7. CASE RuleNew
  BY <1>7, RuleNewStep
<1>8. CASE DieRule \/ \E n \in RuleName : RuleDel(n)
  BY <1>8, RuleDropStep DEF DieRule, RuleDel
<1>9. CASE ReleaseOp
  BY <1>9, ReleaseOpStep
<1>10. CASE \E k \in RoutId, r \in RuleName, i \in IfaceName : RoutItem(k, r, i)
  BY <1>10, RoutItemStep
<1>11. CASE \E r \in RuleName, i \in IfaceName : RoutItemDie(r, i)
  BY <1>11, RoutItemDieStep
<1>12. CASE ProcessNew
  BY <1>12, ProcessNewStep
<1>13. CASE ProcessDel \/ DieProcess
  BY <1>13, ProcessDropStep DEF ProcessDel, DieProcess
<1>14. CASE ReleaseRout
  BY <1>14, ReleaseRoutStep
<1>15. CASE \E i \in IfaceName : IfaceAdd(i) \/ IfaceDel(i) \/ RecvError(i)
  BY <1>15, IfaceAddStep, IfaceGoneSteps
<1>16. CASE DieIface
  BY <1>16, DieIfaceStep
<1>17. CASE UNCHANGED rulesetVars
  <2>1. /\ UNCHANGED <<field, state, op, at, cur, args, rule, rout, process, iface, polled>>
        /\ UNCHANGED <<pc, mode, name, queue, target, items, err, left>>
    BY <1>17 DEF rulesetVars, operandVars, registry, locals
  <2>2. UNCHANGED registry
    BY <1>17 DEF rulesetVars
  <2>3. HeldOps' = HeldOps /\ HeldRouts' = HeldRouts /\ LiveOps' = LiveOps
    BY <2>1 DEF HeldOps, HeldRouts, LiveOps
  <2>4. RulesetTypeOK' /\ ControlOK'
    BY <2>1 DEF RulesetInv, RulesetTypeOK, ControlOK
  <2>. QED
    BY <2>1, <2>2, <2>3, <2>4, NothingMoves DEF RulesetInv, NothingLost, CleanExit
<1>. QED
  BY <1>1, <1>2, <1>3, <1>4, <1>5, <1>6, <1>7, <1>8, <1>9, <1>10, <1>11, <1>12, <1>13,
     <1>14, <1>15, <1>16, <1>17
     DEF RulesetNext, Event, Work
-----------------------------------------------------------------------------
(* The registry of rules, routs, processes and interfaces keeps its invariant, *)
(* with that of the operand layer, under every sequence of directives,         *)
(* failures and faults and through the end of the program.                     *)
THEOREM RulesetSafe == RulesetSpec => [](RulesetInv /\ OperandsInv)
<1>1. RulesetInit => RulesetInv /\ OperandsInv
  BY RulesetStart, OperandsStart DEF RulesetInit
<1>2. RulesetInv /\ OperandsInv /\ [RulesetNext]_rulesetVars => (RulesetInv /\ OperandsInv)'
  BY RulesetStep, OperandsKept
<1>. QED
  BY <1>1, <1>2, PTL DEF RulesetSpec

(* The tables hold what they are declared to hold, and epoll_track watches     *)
(* only interfaces that exist.                                                 *)
THEOREM RulesetTypes == RulesetSpec => []RulesetTypeOK
<1>1. RulesetInv => RulesetTypeOK
  BY DEF RulesetInv
<1>. QED
  BY <1>1, RulesetSafe, PTL

(* rule_get() and iface_get() pair up with their releases on every path,       *)
(* rollbacks included: a rule or an interface can be deleted exactly when      *)
(* nothing uses it.                                                            *)
THEOREM RegistryCountsExact == RulesetSpec => []RefcntExact
<1>1. RulesetInv => RefcntExact
  BY DEF RulesetInv
<1>. QED
  BY <1>1, RulesetSafe, PTL

(* An interface has the handler of the process defined on it, and none when    *)
(* there is no such process.                                                   *)
THEOREM HandlersAreProcesses == RulesetSpec => []HandlerIsProcess
<1>1. RulesetInv => HandlerIsProcess
  BY DEF RulesetInv
<1>. QED
  BY <1>1, RulesetSafe, PTL

(* What a packet reaches through a polled interface is allocated, whole and    *)
(* current, at every moment of every directive.                                *)
THEOREM HotPathAlwaysLive == RulesetSpec => []HotPathLive
<1>1. RulesetInv => HotPathLive
  <2> SUFFICES ASSUME RulesetInv, NEW i \in polled, iface[i].handler # NULL,
                      NEW k \in ToSet(iface[i].handler)
               PROVE  /\ k \in DOMAIN rout
                      /\ rout[k].output \in DOMAIN iface
                      /\ rout[k].rule \in DOMAIN rule
                      /\ rout[k].match = rule[rout[k].rule].match
                      /\ rout[k].write = rule[rout[k].rule].write
                      /\ \A o \in ToSet(rout[k].match \o rout[k].write) : Complete(o)
    BY DEF HotPathLive
  <2>1. i \in DOMAIN process /\ k \in ToSet(process[i])
    BY DEF RulesetInv, RulesetTypeOK, HandlerIsProcess
  <2>2. k \in DOMAIN rout
    BY <2>1 DEF RulesetInv, RoutsOwned, Owned
  <2>3. /\ rout[k].output \in DOMAIN iface /\ rout[k].rule \in DOMAIN rule
        /\ rout[k].match = rule[rout[k].rule].match
        /\ rout[k].write = rule[rout[k].rule].write
    BY <2>2 DEF RulesetInv, RoutsCurrent
  <2>4. ToSet(RuleQueues[rout[k].rule]) \subseteq LiveOps
    BY <2>3 DEF RulesetInv, OpsOwned, Owned, RuleQueues
  <2>. QED
    BY <2>2, <2>3, <2>4 DEF RuleQueues, LiveOps, Complete
<1>. QED
  BY <1>1, RulesetSafe, PTL

(* No operation is on two queues or twice on one, and none that is on a queue  *)
(* is freed or unfinished: rule_release_refs() never frees an operation twice. *)
THEOREM EveryOpOneOwner == RulesetSpec => []OneOwner
<1>1. RulesetInv => OneOwner
  <2> SUFFICES ASSUME RulesetInv
               PROVE  OneOwner
    OBVIOUS
  <2> DEFINE parser == IF pc = "rule_parse" THEN queue.match \o queue.write ELSE <<>>
             release == IF pc = "rule_release_refs" THEN left ELSE <<>>
  <2>1. /\ \A r \in DOMAIN rule : RuleQueues[r] = rule[r].match \o rule[r].write
        /\ DOMAIN RuleQueues = DOMAIN rule
        /\ OwnerQueues = {<<r, RuleQueues[r]>> : r \in DOMAIN rule}
                           \cup {<<"parser", parser>>, <<"release", release>>}
    BY DEF RuleQueues, OwnerQueues
  <2>2. /\ parser = <<>> \/ parser = HeldOps
        /\ release = <<>> \/ release = HeldOps
        /\ parser = <<>> \/ release = <<>>
    BY DEF HeldOps
  <2>3. /\ IsInjective(parser) /\ ToSet(parser) \subseteq LiveOps
        /\ IsInjective(release) /\ ToSet(release) \subseteq LiveOps
        /\ ToSet(parser) \cap ToSet(release) = {}
        /\ \A r \in DOMAIN rule : /\ ToSet(RuleQueues[r]) \cap ToSet(parser) = {}
                                  /\ ToSet(RuleQueues[r]) \cap ToSet(release) = {}
    BY <2>1, <2>2, EmptyQueue DEF RulesetInv, OpsOwned, Owned
  <2>4. /\ \A r \in DOMAIN rule : IsInjective(RuleQueues[r]) /\ ToSet(RuleQueues[r]) \subseteq LiveOps
        /\ \A r, s \in DOMAIN rule : r # s => ToSet(RuleQueues[r]) \cap ToSet(RuleQueues[s]) = {}
    BY <2>1 DEF RulesetInv, OpsOwned, Owned
  <2>5. \A o \in LiveOps : Complete(o)
    BY DEF LiveOps, Complete
  <2> HIDE DEF parser, release
  <2>6. ASSUME NEW q \in OwnerQueues
        PROVE  IsInjective(q[2]) /\ \A o \in ToSet(q[2]) : Complete(o)
    BY <2>1, <2>3, <2>4, <2>5
  <2>7. ASSUME NEW p \in OwnerQueues, NEW q \in OwnerQueues, p # q
        PROVE  ToSet(p[2]) \cap ToSet(q[2]) = {}
    BY <2>1, <2>3, <2>4, <2>7
  <2>. QED
    BY <2>6, <2>7 DEF OneOwner
<1>. QED
  BY <1>1, RulesetSafe, PTL

(* Between two events every operation belongs to a rule and every rout to a    *)
(* process, if the input is well-formed; MCLeakedRouts shows what it takes     *)
(* away when it is not.                                                        *)
THEOREM NothingLeaks ==
  ASSUME Input = {}
  PROVE  RulesetSpec => []NoLeak
<1>1. RulesetInv /\ OperandsInv => NoLeak
  <2> SUFFICES ASSUME RulesetInv, OperandsInv, pc = "loop"
               PROVE  /\ DOMAIN op = UNION {ToSet(rule[r].match \o rule[r].write) : r \in DOMAIN rule}
                      /\ DOMAIN rout = UNION {ToSet(process[i]) : i \in DOMAIN process}
    BY DEF NoLeak
  <2>1. HeldOps = <<>> /\ HeldRouts = <<>> /\ ToSet(<<>>) = {}
    BY EmptyQueue DEF HeldOps, HeldRouts
  <2>2. LiveOps = DOMAIN op
    BY NullIsNoName
       DEF LiveOps, RulesetInv, ControlOK, OperandsInv, OperandsTypeOK, OpNewProgress
  <2>3. /\ \A r \in DOMAIN rule : ToSet(rule[r].match \o rule[r].write) \subseteq DOMAIN op
        /\ \A o \in DOMAIN op : \E r \in DOMAIN rule : o \in ToSet(rule[r].match \o rule[r].write)
    BY <2>1, <2>2 DEF RulesetInv, OpsOwned, Owned, NothingLost, OpsCovered, Covered, RuleQueues
  <2>4. /\ \A i \in DOMAIN process : ToSet(process[i]) \subseteq DOMAIN rout
        /\ \A k \in DOMAIN rout : \E i \in DOMAIN process : k \in ToSet(process[i])
    BY <2>1 DEF RulesetInv, RoutsOwned, Owned, NothingLost, RoutsCovered, Covered
  <2>. QED
    BY <2>3, <2>4
<1>. QED
  BY <1>1, RulesetSafe, PTL

(* With well-formed input the program ends with every object freed: the order  *)
(* of main()'s die: section lets every count come to zero.                     *)
THEOREM ExitIsClean ==
  ASSUME Input = {}
  PROVE  RulesetSpec => []CleanExit
<1>1. RulesetInv => CleanExit
  BY DEF RulesetInv, NothingLost
<1>. QED
  BY <1>1, RulesetSafe, PTL
-----------------------------------------------------------------------------
(* The catalog, as Promise maps it.                                            *)

AbsRules == [r \in DOMAIN rule |-> FieldsOf(rule[r].match \o rule[r].write)]
Hops(q) == {<<rout[k].rule, rout[k].output>> : k \in ToSet(q)}
AbsRoutes == [i \in DOMAIN process |-> Hops(process[i])]

(* A step changes the fields of no finished operation.                         *)
LEMMA OpFieldsKept ==
  ASSUME OperandsInv, [OperandsNext]_operandVars
  PROVE  \A o \in LiveOps : o \in DOMAIN op' =>
           op'[o].dst_field = op[o].dst_field /\ op'[o].src_field = op[o].src_field
<1> SUFFICES ASSUME NEW o, o \in DOMAIN op, o # cur, o \in DOMAIN op'
             PROVE  op'[o].dst_field = op[o].dst_field /\ op'[o].src_field = op[o].src_field
  BY DEF LiveOps
<1>1. CASE \/ \E f \in FieldName, set \in FieldSet : FieldAdd(f, set)
           \/ \E f \in FieldName : FieldDel(f)
           \/ UNCHANGED operandVars
  BY <1>1 DEF FieldAdd, FieldDel, operandVars
<1>2. CASE \E p \in OpId, a \in OpArgs : OpNew(p, a)
  BY <1>2 DEF OpNew, Put
<1>3. CASE GetDstField \/ GetSrcField \/ GetDst \/ OpNewReturn
  <2>1. op'[o] = op[o]
    BY <1>3 DEF GetDstField, GetSrcField, GetDst, OpNewReturn
  <2>. QED
    BY <2>1
<1>4. CASE OpNewDie \/ \E p \in OpId : OpFree(p)
  BY <1>4 DEF OpNewDie, OpFree, Free, Drop
<1>. QED
  BY <1>1, <1>2, <1>3, <1>4 DEF OperandsNext, OpNewStep

(* Requests on operations define and delete no field.                          *)
LEMMA FieldNamesKept ==
  ASSUME \/ \E o, a : OpNew(o, a)
         \/ OpNewStep
         \/ \E o : OpFree(o)
  PROVE  DOMAIN field' = DOMAIN field
<1>1. /\ \A T, k : DOMAIN Take(T, k) = DOMAIN T
      /\ \A T, k : DOMAIN Release(T, k) = DOMAIN T
  BY DEF Take, Release
<1>2. CASE \E o, a : OpNew(o, a)
  BY <1>2 DEF OpNew
<1>3. CASE GetDstField \/ GetSrcField \/ GetDst \/ OpNewReturn
  BY <1>1, <1>3 DEF GetDstField, GetSrcField, GetDst, OpNewReturn
<1>4. CASE OpNewDie \/ \E o : OpFree(o)
  BY <1>1, <1>4 DEF OpNewDie, OpFree, Free
<1>. QED
  BY <1>2, <1>3, <1>4 DEF OpNewStep

(* The fields of a queue change only when an operation on it does.             *)
LEMMA FieldsOfKept ==
  ASSUME OperandsInv, [OperandsNext]_operandVars, NEW q,
         ToSet(q) \subseteq LiveOps, ToSet(q) \subseteq DOMAIN op'
  PROVE  FieldsOf(q)' = FieldsOf(q)
<1>1. \A o \in ToSet(q) : op'[o].dst_field = op[o].dst_field /\ op'[o].src_field = op[o].src_field
  BY OpFieldsKept
<1>2. FieldsOf(q)' = (UNION {{op'[o].dst_field, op'[o].src_field} : o \in ToSet(q)}) \ {NULL}
  BY DEF FieldsOf
<1>. QED
  BY <1>1, <1>2 DEF FieldsOf

(* What the mapping shows of rules and processes changes only where a queue    *)
(* is listed or delisted.                                                      *)
LEMMA MappingKept ==
  ASSUME RulesetInv, RulesetInv', OperandsInv, [OperandsNext]_operandVars,
         \A k \in DOMAIN rout : k \in DOMAIN rout' =>
           rout'[k].rule = rout[k].rule /\ rout'[k].output = rout[k].output
  PROVE  /\ \A r \in DOMAIN rule : r \in DOMAIN rule' /\ RuleQueues'[r] = RuleQueues[r] =>
              AbsRules'[r] = AbsRules[r]
         /\ \A i \in DOMAIN process : i \in DOMAIN process' /\ process'[i] = process[i] =>
              AbsRoutes'[i] = AbsRoutes[i]
<1>1. ASSUME NEW r \in DOMAIN rule, r \in DOMAIN rule', RuleQueues'[r] = RuleQueues[r]
      PROVE  AbsRules'[r] = AbsRules[r]
  <2>1. ToSet(RuleQueues[r]) \subseteq LiveOps
    BY DEF RulesetInv, OpsOwned, Owned, RuleQueues
  <2>2. ToSet(RuleQueues'[r]) \subseteq DOMAIN op'
    BY <1>1 DEF RulesetInv, OpsOwned, Owned, RuleQueues, LiveOps
  <2>3. PICK q : q = RuleQueues[r]
    OBVIOUS
  <2>4. FieldsOf(q)' = FieldsOf(q)
    BY <1>1, <2>1, <2>2, <2>3, FieldsOfKept
  <2>5. AbsRules[r] = FieldsOf(q)
    BY <2>3 DEF AbsRules, RuleQueues
  <2>6. AbsRules'[r] = FieldsOf(q)'
    BY <1>1, <2>3 DEF AbsRules, RuleQueues, FieldsOf
  <2>. QED
    BY <2>4, <2>5, <2>6
<1>2. ASSUME NEW i \in DOMAIN process, i \in DOMAIN process', process'[i] = process[i]
      PROVE  AbsRoutes'[i] = AbsRoutes[i]
  <2>1. ToSet(process[i]) \subseteq DOMAIN rout /\ ToSet(process'[i]) \subseteq DOMAIN rout'
    BY <1>2 DEF RulesetInv, RoutsOwned, Owned
  <2>2. \A k \in ToSet(process[i]) : rout'[k].rule = rout[k].rule /\ rout'[k].output = rout[k].output
    BY <1>2, <2>1
  <2>. QED
    BY <1>2, <2>2 DEF AbsRoutes, Hops
<1>. QED
  BY <1>1, <1>2

(* A step that lists and delists nothing is no step of the catalog.            *)
LEMMA CatalogStutters ==
  ASSUME RulesetInv, RulesetInv', OperandsInv, [OperandsNext]_operandVars,
         \A k \in DOMAIN rout : k \in DOMAIN rout' =>
           rout'[k].rule = rout[k].rule /\ rout'[k].output = rout[k].output,
         DOMAIN field' = DOMAIN field, DOMAIN iface' = DOMAIN iface,
         RuleQueues' = RuleQueues, process' = process
  PROVE  UNCHANGED Promise!catalogVars
<1>1. DOMAIN rule' = DOMAIN rule
  BY DEF RuleQueues
<1>2. AbsRules' = AbsRules
  BY <1>1, MappingKept DEF AbsRules
<1>3. AbsRoutes' = AbsRoutes
  BY MappingKept DEF AbsRoutes
<1>. QED
  BY <1>2, <1>3 DEF Promise!catalogVars, AbsRules, AbsRoutes, Hops

(* A field whose count is zero is named by no listed rule.                     *)
LEMMA UnusedField ==
  ASSUME RulesetInv, OperandsInv, NEW f \in DOMAIN field, field[f].refcnt = 0
  PROVE  \A r \in DOMAIN rule : f \notin AbsRules[r]
<1>1. DstFieldUsers(f) = {} /\ SrcFieldUsers(f) = {}
  <2>1. /\ 0 = Cardinality(DstFieldUsers(f)) + Cardinality(SrcFieldUsers(f))
        /\ IsFiniteSet(DstFieldUsers(f)) /\ Cardinality(DstFieldUsers(f)) \in Nat
        /\ IsFiniteSet(SrcFieldUsers(f)) /\ Cardinality(SrcFieldUsers(f)) \in Nat
    BY UsersFinite DEF OperandsInv, FieldRefExact
  <2>2. Cardinality(DstFieldUsers(f)) = 0 /\ Cardinality(SrcFieldUsers(f)) = 0
    BY <2>1
  <2>. QED
    BY <2>1, <2>2, FS_EmptySet
<1>2. \A o \in DOMAIN op : op[o].dst_field # f /\ op[o].src_field # f
  BY <1>1 DEF DstFieldUsers, SrcFieldUsers
<1>3. \A r \in DOMAIN rule : ToSet(rule[r].match \o rule[r].write) \subseteq DOMAIN op
  BY DEF RulesetInv, OpsOwned, Owned, RuleQueues, LiveOps
<1>. QED
  BY <1>2, <1>3 DEF AbsRules, FieldsOf

(* field_parse(): a field is defined or deleted.                               *)
LEMMA FieldIsCatalogStep ==
  ASSUME RulesetInv, RulesetInv', OperandsInv, FieldDirective \/ DieField
  PROVE  Promise!CatalogNext
<1>1. /\ UNCHANGED <<op, at, cur>> /\ UNCHANGED <<rule, rout, process, iface>>
      /\ DOMAIN field \subseteq FieldName
  BY DEF FieldDirective, DieField, FieldAdd, FieldDel, registry, OperandsInv, OperandsTypeOK
<1>2. AbsRules' = AbsRules /\ AbsRoutes' = AbsRoutes /\ DOMAIN iface' = DOMAIN iface
  BY <1>1 DEF AbsRules, FieldsOf, AbsRoutes, Hops
<1>3. CASE \E f \in FieldName, set \in FieldSet : FieldAdd(f, set)
  <2>1. PICK f \in FieldName, set \in FieldSet : FieldAdd(f, set)
    BY <1>3
  <2>2. f \notin DOMAIN field /\ DOMAIN field' = DOMAIN field \cup {f}
    BY <2>1 DEF FieldAdd, Put
  <2>3. Promise!AddField(f)
    BY <1>2, <2>2 DEF Promise!AddField, AbsRules, AbsRoutes, Hops
  <2>. QED
    BY <2>1, <2>3 DEF Promise!CatalogNext
<1>4. CASE \E f \in DOMAIN field : FieldDel(f)
  <2>1. PICK f \in DOMAIN field : FieldDel(f)
    BY <1>4
  <2>2. f \in FieldName /\ field[f].refcnt = 0 /\ DOMAIN field' = DOMAIN field \ {f}
    BY <1>1, <2>1 DEF FieldDel, Drop
  <2>3. \A r \in DOMAIN AbsRules : f \notin AbsRules[r]
    BY <2>1, <2>2, UnusedField DEF AbsRules
  <2>4. Promise!DelField(f)
    BY <1>2, <2>1, <2>2, <2>3 DEF Promise!DelField, Promise!FieldUsed, AbsRules, AbsRoutes, Hops
  <2>. QED
    BY <2>2, <2>4 DEF Promise!CatalogNext
<1>. QED
  BY <1>3, <1>4 DEF FieldDirective, DieField, FieldDel, Unreferenced

(* rule_new() adds the rule with the fields of what could be resolved.         *)
LEMMA RuleNewIsCatalogStep ==
  ASSUME RulesetInv, RulesetInv', OperandsInv, [OperandsNext]_operandVars, RuleNew
  PROVE  Promise!CatalogNext
<1> DEFINE used == FieldsOf(queue.match \o queue.write)
<1>1. /\ pc = "rule_parse" /\ name \in RuleName /\ name \notin DOMAIN rule
      /\ rule' = Put(rule, name, [match |-> queue.match, write |-> queue.write, refcnt |-> 0])
      /\ UNCHANGED <<field, op, rout, process, iface>>
  BY DEF RuleNew, RulesetInv, ControlOK, operandVars
<1>2. /\ DOMAIN rule' = DOMAIN rule \cup {name}
      /\ rule'[name].match = queue.match /\ rule'[name].write = queue.write
      /\ \A r \in DOMAIN rule : rule'[r] = rule[r]
  BY <1>1 DEF Put
<1>3. used \subseteq DOMAIN field /\ used \in SUBSET FieldName
  <2>1. ToSet(queue.match \o queue.write) \subseteq DOMAIN op
    BY <1>1 DEF RulesetInv, OpsOwned, Owned, HeldOps, LiveOps
  <2>2. used \subseteq DOMAIN field
    <3> SUFFICES ASSUME NEW f \in used
                 PROVE  f \in DOMAIN field
      OBVIOUS
    <3>1. f # NULL /\ f \in UNION {{op[o].dst_field, op[o].src_field} :
                                    o \in ToSet(queue.match \o queue.write)}
      BY DEF FieldsOf
    <3>2. PICK o \in ToSet(queue.match \o queue.write) : f \in {op[o].dst_field, op[o].src_field}
      BY <3>1
    <3>. QED
      BY <2>1, <3>1, <3>2 DEF OperandsInv, FieldRefExact
  <2>. QED
    BY <2>2 DEF OperandsInv, OperandsTypeOK
<1>4. AbsRules' = Promise!With(AbsRules, name, used)
  <2>1. \A q : FieldsOf(q)' = FieldsOf(q)
    BY <1>1 DEF FieldsOf
  <2>2. AbsRules' = [r \in DOMAIN rule \cup {name} |->
                       IF r = name THEN used ELSE FieldsOf(rule[r].match \o rule[r].write)]
    BY <1>1, <1>2 DEF AbsRules, FieldsOf
  <2>. QED
    BY <1>1, <2>2 DEF AbsRules, Promise!With
<1>5. AbsRoutes' = AbsRoutes
  BY <1>1 DEF AbsRoutes, Hops
<1>6. Promise!AddRule(name, used)
  BY <1>1, <1>3, <1>4, <1>5 DEF Promise!AddRule, AbsRules, AbsRoutes, Hops
<1>. QED
  BY <1>1, <1>3, <1>6 DEF Promise!CatalogNext

(* A rule goes that no process routes through.                                 *)
LEMMA RuleDropIsCatalogStep ==
  ASSUME RulesetInv, NEW n, RuleDrop(n)
  PROVE  Promise!CatalogNext
<1>1. /\ n \in DOMAIN rule /\ rule[n].refcnt = 0 /\ rule' = Drop(rule, n) /\ n \in RuleName
      /\ UNCHANGED <<field, op, rout, process, iface>>
  BY DEF RuleDrop, operandVars, RulesetInv, RulesetTypeOK
<1>2. AbsRules' = Promise!Without(AbsRules, n) /\ AbsRoutes' = AbsRoutes
  BY <1>1 DEF AbsRules, FieldsOf, AbsRoutes, Hops, Drop, Promise!Without
<1>3. \A i \in DOMAIN AbsRoutes : \A hop \in AbsRoutes[i] : hop[1] # n
  <2>1. \A k \in DOMAIN rout : rout[k].rule # n
    BY <1>1, UnusedRule
  <2>2. \A i \in DOMAIN process : ToSet(process[i]) \subseteq DOMAIN rout
    BY DEF RulesetInv, RoutsOwned, Owned
  <2>. QED
    BY <2>1, <2>2 DEF AbsRoutes, Hops
<1>4. Promise!DelRule(n)
  BY <1>1, <1>2, <1>3 DEF Promise!DelRule, Promise!RuleUsed, AbsRules, AbsRoutes, Hops
<1>. QED
  BY <1>1, <1>4 DEF Promise!CatalogNext

(* process_new() adds a process whose rules and outputs are all listed.        *)
LEMMA ProcessNewIsCatalogStep ==
  ASSUME RulesetInv, ProcessNew
  PROVE  Promise!CatalogNext
<1> DEFINE hops == Hops(queue.rout)
<1>1. /\ pc = "process_parse" /\ name \in IfaceName /\ name \in DOMAIN iface \ DOMAIN process
      /\ process' = Put(process, name, queue.rout)
      /\ iface' = [Take(iface, name) EXCEPT ![name].handler = queue.rout]
      /\ UNCHANGED <<field, op, rule, rout>>
  BY DEF ProcessNew, CanAttach, RulesetInv, ControlOK, operandVars
<1>2. DOMAIN iface' = DOMAIN iface
  BY <1>1 DEF Take
<1>3. hops \subseteq (DOMAIN rule) \X (DOMAIN iface) /\ hops \in SUBSET (RuleName \X IfaceName)
  <2>1. ToSet(queue.rout) \subseteq DOMAIN rout
    BY <1>1 DEF RulesetInv, RoutsOwned, Owned, HeldRouts
  <2>2. hops \subseteq (DOMAIN rule) \X (DOMAIN iface)
    BY <2>1 DEF RulesetInv, RoutsCurrent, Hops
  <2>. QED
    BY <2>2 DEF RulesetInv, RulesetTypeOK
<1>4. AbsRoutes' = Promise!With(AbsRoutes, name, hops) /\ AbsRules' = AbsRules
  <2>1. AbsRoutes' = [i \in DOMAIN process \cup {name} |->
                        IF i = name THEN hops ELSE Hops(process[i])]
    BY <1>1 DEF AbsRoutes, Hops, Put
  <2>. QED
    BY <1>1, <2>1 DEF AbsRoutes, AbsRules, FieldsOf, Promise!With
<1>5. PICK i, h : i = name /\ h = hops
  OBVIOUS
<1>6. Promise!AddProcess(i, h)
  BY <1>1, <1>2, <1>3, <1>4, <1>5 DEF Promise!AddProcess, AbsRules, AbsRoutes, Hops
<1>7. i \in IfaceName /\ h \in SUBSET (RuleName \X IfaceName)
  BY <1>1, <1>3, <1>5
<1>. QED
  BY <1>6, <1>7, Zenon DEF Promise!CatalogNext

(* A process goes, with all its routes at once.                                *)
LEMMA ProcessDropIsCatalogStep ==
  ASSUME RulesetInv, NEW n, ProcessDrop(n)
  PROVE  Promise!CatalogNext
<1>1. /\ n \in DOMAIN process /\ n \in IfaceName /\ process' = Drop(process, n)
      /\ iface' = Release(HandlerCleared(n, process[n]), n)
      /\ UNCHANGED <<field, op, rule, rout>>
  BY DEF ProcessDrop, operandVars, RulesetInv, RulesetTypeOK
<1>2. DOMAIN iface' = DOMAIN iface
  BY <1>1 DEF Release, HandlerCleared
<1>3. AbsRoutes' = Promise!Without(AbsRoutes, n) /\ AbsRules' = AbsRules
  BY <1>1 DEF AbsRules, FieldsOf, AbsRoutes, Hops, Drop, Promise!Without
<1>4. Promise!DelProcess(n)
  BY <1>1, <1>2, <1>3 DEF Promise!DelProcess, AbsRules, AbsRoutes, Hops
<1>. QED
  BY <1>1, <1>4 DEF Promise!CatalogNext

(* An interface is opened.                                                     *)
LEMMA IfaceAddIsCatalogStep ==
  ASSUME NEW i \in IfaceName, IfaceAdd(i)
  PROVE  Promise!CatalogNext
<1>1. /\ i \notin DOMAIN iface /\ DOMAIN iface' = DOMAIN iface \cup {i}
      /\ UNCHANGED <<field, op, rule, rout, process>>
  BY DEF IfaceAdd, Put, operandVars
<1>2. AbsRules' = AbsRules /\ AbsRoutes' = AbsRoutes
  BY <1>1 DEF AbsRules, FieldsOf, AbsRoutes, Hops
<1>3. Promise!OpenIface(i)
  BY <1>1, <1>2 DEF Promise!OpenIface, AbsRules, AbsRoutes, Hops
<1>. QED
  BY <1>3 DEF Promise!CatalogNext

(* Interfaces go that no process starts or ends at.                            *)
LEMMA IfacesGoneIsCatalogStep ==
  ASSUME RulesetInv, NEW gone, gone \subseteq Unreferenced(iface),
         iface' = [i \in DOMAIN iface \ gone |-> iface[i]],
         UNCHANGED <<field, op, rule, rout, process>>
  PROVE  Promise!CatalogNext
<1>1. /\ gone \subseteq DOMAIN iface /\ gone \in SUBSET IfaceName
      /\ DOMAIN iface' = DOMAIN iface \ gone
  BY DEF Unreferenced, RulesetInv, RulesetTypeOK
<1>2. AbsRules' = AbsRules /\ AbsRoutes' = AbsRoutes
  BY DEF AbsRules, FieldsOf, AbsRoutes, Hops
<1>3. \A i \in gone : /\ i \notin DOMAIN AbsRoutes
                      /\ \A j \in DOMAIN AbsRoutes : \A hop \in AbsRoutes[j] : hop[2] # i
  <2>1. \A i \in gone : i \notin DOMAIN process /\ \A k \in DOMAIN rout : rout[k].output # i
    BY UnusedIface DEF Unreferenced
  <2>2. \A j \in DOMAIN process : ToSet(process[j]) \subseteq DOMAIN rout
    BY DEF RulesetInv, RoutsOwned, Owned
  <2>. QED
    BY <2>1, <2>2 DEF AbsRoutes, Hops
<1>4. Promise!CloseIfaces(gone)
  BY <1>1, <1>2, <1>3 DEF Promise!CloseIfaces, Promise!IfaceUsed, AbsRules, AbsRoutes, Hops
<1>. QED
  BY <1>1, <1>4 DEF Promise!CatalogNext

(* Each step of the program is one step of the catalog or leaves it alone.     *)
LEMMA CatalogSteps ==
  ASSUME RulesetInv, RulesetInv', OperandsInv, [RulesetNext]_rulesetVars
  PROVE  [Promise!CatalogNext]_(Promise!catalogVars)
<1>. [OperandsNext]_operandVars
  BY OperandsKept
<1>1. CASE FieldDirective \/ DieField
  BY <1>1, FieldIsCatalogStep
<1>2. CASE RuleNew
  BY <1>2, RuleNewIsCatalogStep
<1>3. CASE DieRule \/ \E n \in RuleName : RuleDel(n)
  BY <1>3, RuleDropIsCatalogStep DEF DieRule, RuleDel
<1>4. CASE ProcessNew
  BY <1>4, ProcessNewIsCatalogStep
<1>5. CASE ProcessDel \/ DieProcess
  BY <1>5, ProcessDropIsCatalogStep DEF ProcessDel, DieProcess
<1>6. CASE \E i \in IfaceName : IfaceAdd(i)
  BY <1>6, IfaceAddIsCatalogStep
<1>7. CASE \E i \in IfaceName : IfaceDel(i) \/ RecvError(i)
  <2>1. UNCHANGED <<field, op, rule, rout, process>>
    BY <1>7 DEF IfaceDel, RecvError, operandVars
  <2>. QED
    BY <1>7, <2>1, IfaceFreeEffect, IfacesGoneIsCatalogStep
<1>8. CASE DieIface
  BY <1>8, IfacesGoneIsCatalogStep DEF DieIface, operandVars
<1>9. CASE \/ \E n \in RuleName : RuleBegin(n)
           \/ \E m \in {"ADD", "DEL", "PRN"}, n \in IfaceName : ProcessBegin(m, n)
           \/ Kill \/ OpItemRefused \/ RuleNewDie \/ ProcessNewDie
           \/ Released \/ ProcessNop \/ Malformed
  <2>1. UNCHANGED <<field, rule, rout, process, iface>>
    BY <1>9 DEF RuleBegin, ProcessBegin, Kill, OpItemRefused, RuleNewDie, ProcessNewDie, Released,
                ProcessNop, Malformed, registry, operandVars
  <2>2. RuleQueues' = RuleQueues
    BY <2>1 DEF RuleQueues
  <2>. QED
    BY <2>1, <2>2, CatalogStutters
<1>10. CASE \/ \E t \in {"match", "write"}, o \in OpId, a \in OpRequest : OpItem(t, o, a)
            \/ OpItemStep \/ ReleaseOp
  <2>1. UNCHANGED <<rule, rout, process, iface>>
    BY <1>10 DEF OpItem, OpItemStep, ReleaseOp, registry
  <2>2. DOMAIN field' = DOMAIN field
    BY <1>10, FieldNamesKept DEF OpItem, OpItemStep, ReleaseOp, OpNewStep
  <2>3. RuleQueues' = RuleQueues
    BY <2>1 DEF RuleQueues
  <2>. QED
    BY <2>1, <2>2, <2>3, CatalogStutters
<1>11. CASE \E k \in RoutId, r \in RuleName, i \in IfaceName : RoutItem(k, r, i)
  <2>1. PICK k \in RoutId, r \in RuleName, i \in IfaceName : RoutItem(k, r, i)
    BY <1>11
  <2>2. /\ UNCHANGED <<field, process>> /\ rule' = Take(rule, r) /\ iface' = Take(iface, i)
        /\ r \in DOMAIN rule
        /\ \A j \in DOMAIN rout : rout'[j] = rout[j]
    BY <2>1 DEF RoutItem, Put, operandVars
  <2>3. rule \in [DOMAIN rule -> Rule]
    BY DEF RulesetInv, RulesetTypeOK
  <2>4. RuleQueues' = RuleQueues
    <3>1. /\ DOMAIN rule' = DOMAIN rule
          /\ \A x \in DOMAIN rule : rule'[x].match = rule[x].match /\ rule'[x].write = rule[x].write
      BY <2>2, <2>3, TakeRule
    <3>. QED
      BY <3>1 DEF RuleQueues
  <2>5. DOMAIN iface' = DOMAIN iface
    BY <2>2 DEF Take
  <2>. QED
    BY <2>2, <2>4, <2>5, CatalogStutters
<1>12. CASE \E r \in RuleName, i \in IfaceName : RoutItemDie(r, i)
  <2>1. UNCHANGED registry
    BY <1>12, RoutItemDieStep
  <2>2. UNCHANGED <<field, rule, rout, process, iface>>
    BY <1>12, <2>1 DEF RoutItemDie, registry, operandVars
  <2>3. RuleQueues' = RuleQueues
    BY <2>2 DEF RuleQueues
  <2>. QED
    BY <2>2, <2>3, CatalogStutters
<1>13. CASE ReleaseRout
  <2> DEFINE k == Head(left)
  <2>1. /\ UNCHANGED <<field, process>>
        /\ rule' = Release(rule, rout[k].rule) /\ iface' = Release(iface, rout[k].output)
        /\ \A j \in DOMAIN rout' : rout'[j] = rout[j]
    BY <1>13 DEF ReleaseRout, Drop, operandVars
  <2>2. DOMAIN iface' = DOMAIN iface /\ DOMAIN rule' = DOMAIN rule
    BY <2>1 DEF Release
  <2>3. RuleQueues' = RuleQueues
    <3>1. \A x \in DOMAIN rule : rule'[x].match = rule[x].match /\ rule'[x].write = rule[x].write
      BY <2>1 DEF Release, RulesetInv, RulesetTypeOK, Rule
    <3>. QED
      BY <2>2, <3>1 DEF RuleQueues
  <2>. QED
    BY <2>1, <2>2, <2>3, CatalogStutters
<1>14. CASE UNCHANGED rulesetVars
  <2>1. UNCHANGED <<field, rule, rout, process, iface>>
    BY <1>14 DEF rulesetVars, operandVars, registry
  <2>2. RuleQueues' = RuleQueues
    BY <2>1 DEF RuleQueues
  <2>. QED
    BY <2>1, <2>2, CatalogStutters
<1>. QED
  BY <1>1, <1>2, <1>3, <1>4, <1>5, <1>6, <1>7, <1>8, <1>9, <1>10, <1>11, <1>12, <1>13, <1>14
     DEF RulesetNext, Event, Work

(* The control interface keeps its promise, whatever the names, the heaps and  *)
(* the failures: a directive takes effect at one of its steps or not at all,   *)
(* and nothing a rule, a process or a packet uses is ever deleted.             *)
THEOREM RulesetImplementsCatalog == RulesetSpec => ImplementsCatalog
<1>1. RulesetInit => Promise!CatalogInit
  <2> SUFFICES ASSUME RulesetInit
               PROVE  Promise!CatalogInit
    OBVIOUS
  <2>1. DOMAIN field = {} /\ DOMAIN rule = {} /\ DOMAIN iface = {} /\ DOMAIN process = {}
    BY DEF RulesetInit, OperandsInit, EmptyTable
  <2>. QED
    BY <2>1 DEF Promise!CatalogInit
<1>2. /\ RulesetInv /\ OperandsInv /\ RulesetInv' /\ [RulesetNext]_rulesetVars
      => [Promise!CatalogNext]_(Promise!catalogVars)
  BY CatalogSteps
<1>. QED
  BY <1>1, <1>2, RulesetSafe, PTL DEF RulesetSpec, ImplementsCatalog, Promise!CatalogSpec
=============================================================================
