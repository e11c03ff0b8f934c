---------------------------- MODULE CatalogProofs ----------------------------
(* The catalog is closed whatever the names are and however many.           *)
EXTENDS Catalog, TLAPS

(* Nothing that is used goes away: the guards of the four deletions keep    *)
(* every rule's fields, and every process's rules and interfaces, present.  *)
THEOREM CatalogAlwaysClosed == CatalogSpec => []CatalogClosed
<1>1. CatalogInit => CatalogClosed
  BY DEF CatalogInit, CatalogClosed
<1>2. CatalogClosed /\ [CatalogNext]_catalogVars => CatalogClosed'
  <2> SUFFICES ASSUME CatalogClosed, [CatalogNext]_catalogVars
               PROVE  CatalogClosed'
    OBVIOUS
  <2>1. CASE \E f \in FieldName : AddField(f) \/ DelField(f)
    BY <2>1 DEF AddField, DelField, FieldUsed, CatalogClosed
  <2>2. CASE \E r \in RuleName, used \in SUBSET FieldName : AddRule(r, used)
    BY <2>2 DEF AddRule, With, CatalogClosed
  <2>3. CASE \E r \in RuleName : DelRule(r)
    <3>1. PICK r \in RuleName : DelRule(r)
      BY <2>3
    <3>2. /\ DOMAIN rules' = DOMAIN rules \ {r}
          /\ \A s \in DOMAIN rules' : rules'[s] = rules[s]
          /\ UNCHANGED <<fields, ifaces, routes>>
      BY <3>1 DEF DelRule, Without
    <3>3. \A i \in DOMAIN routes : routes[i] \subseteq (DOMAIN rules \ {r}) \X ifaces
      BY <3>1 DEF DelRule, RuleUsed, CatalogClosed
    <3>. QED
      BY <3>2, <3>3 DEF CatalogClosed
  <2>4. CASE \E i \in IfaceName : OpenIface(i)
    BY <2>4 DEF OpenIface, CatalogClosed
  <2>5. CASE \E gone \in SUBSET IfaceName : CloseIfaces(gone)
    <3>1. PICK gone \in SUBSET IfaceName : CloseIfaces(gone)
      BY <2>5
    <3>2. \A i \in DOMAIN routes : /\ i \in ifaces \ gone
                                   /\ routes[i] \subseteq (DOMAIN rules) \X (ifaces \ gone)
      BY <3>1 DEF CloseIfaces, IfaceUsed, CatalogClosed
    <3>. QED
      BY <3>1, <3>2 DEF CloseIfaces, CatalogClosed
  <2>6. CASE \E i \in IfaceName, hops \in SUBSET (RuleName \X IfaceName) : AddProcess(i, hops)
    BY <2>6 DEF AddProcess, With, CatalogClosed
  <2>7. CASE \E i \in IfaceName : DelProcess(i)
    BY <2>7 DEF DelProcess, Without, CatalogClosed
  <2>8. CASE UNCHANGED catalogVars
    BY <2>8 DEF catalogVars, CatalogClosed
  <2>. QED
    BY <2>1, <2>2, <2>3, <2>4, <2>5, <2>6, <2>7, <2>8 DEF CatalogNext
<1>. QED
  BY <1>1, <1>2, PTL DEF CatalogSpec
=============================================================================
