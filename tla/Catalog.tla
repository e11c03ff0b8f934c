------------------------------- MODULE Catalog -------------------------------
(***************************************************************************)
(* What the control interface promises: a catalog of fields, rules,        *)
(* interfaces and processes in which nothing that is used ever goes away.  *)
(* There are no counts here and no order of construction; a directive      *)
(* either changes the catalog in one step or leaves it alone.              *)
(***************************************************************************)
CONSTANTS FieldName, RuleName, IfaceName

VARIABLES fields,       \* the fields that are defined
          rules,        \* rule -> the fields it names
          ifaces,       \* the interfaces that are open
          routes        \* input interface -> the <<rule, output>> pairs of its process

catalogVars == <<fields, rules, ifaces, routes>>
-----------------------------------------------------------------------------
FieldUsed(f) == \E r \in DOMAIN rules : f \in rules[r]
RuleUsed(r) == \E i \in DOMAIN routes : \E hop \in routes[i] : hop[1] = r
IfaceUsed(i) == i \in DOMAIN routes \/ \E j \in DOMAIN routes : \E hop \in routes[j] : hop[2] = i

With(table, key, entry) ==
  [k \in DOMAIN table \cup {key} |-> IF k = key THEN entry ELSE table[k]]
Without(table, key) == [k \in DOMAIN table \ {key} |-> table[k]]

AddField(f) ==
  /\ f \notin fields
  /\ fields' = fields \cup {f}
  /\ UNCHANGED <<rules, ifaces, routes>>

DelField(f) ==
  /\ f \in fields
  /\ ~ FieldUsed(f)
  /\ fields' = fields \ {f}
  /\ UNCHANGED <<rules, ifaces, routes>>

AddRule(r, used) ==
  /\ r \notin DOMAIN rules
  /\ used \subseteq fields
  /\ rules' = With(rules, r, used)
  /\ UNCHANGED <<fields, ifaces, routes>>

DelRule(r) ==
  /\ r \in DOMAIN rules
  /\ ~ RuleUsed(r)
  /\ rules' = Without(rules, r)
  /\ UNCHANGED <<fields, ifaces, routes>>

OpenIface(i) ==
  /\ i \notin ifaces
  /\ ifaces' = ifaces \cup {i}
  /\ UNCHANGED <<fields, rules, routes>>

\* One interface is deleted or goes down; at exit, all that are unused.
CloseIfaces(gone) ==
  /\ gone \subseteq ifaces
  /\ \A i \in gone : ~ IfaceUsed(i)
  /\ ifaces' = ifaces \ gone
  /\ UNCHANGED <<fields, rules, routes>>

AddProcess(i, hops) ==
  /\ i \in ifaces \ DOMAIN routes
  /\ hops \subseteq (DOMAIN rules) \X ifaces
  /\ routes' = With(routes, i, hops)
  /\ UNCHANGED <<fields, rules, ifaces>>

DelProcess(i) ==
  /\ i \in DOMAIN routes
  /\ routes' = Without(routes, i)
  /\ UNCHANGED <<fields, rules, ifaces>>
-----------------------------------------------------------------------------
CatalogInit ==
  /\ fields = {}
  /\ rules = [r \in {} |-> {}]
  /\ ifaces = {}
  /\ routes = [i \in {} |-> {}]

CatalogNext ==
  \/ \E f \in FieldName : AddField(f) \/ DelField(f)
  \/ \E r \in RuleName, used \in SUBSET FieldName : AddRule(r, used)
  \/ \E r \in RuleName : DelRule(r)
  \/ \E i \in IfaceName : OpenIface(i)
  \/ \E gone \in SUBSET IfaceName : CloseIfaces(gone)
  \/ \E i \in IfaceName, hops \in SUBSET (RuleName \X IfaceName) : AddProcess(i, hops)
  \/ \E i \in IfaceName : DelProcess(i)

CatalogSpec == CatalogInit /\ [][CatalogNext]_catalogVars

(* What a packet needs is in the catalog: the processes' interfaces are     *)
(* open, the rules they route through exist, and so do the rules' fields.   *)
CatalogClosed ==
  /\ \A r \in DOMAIN rules : rules[r] \subseteq fields
  /\ \A i \in DOMAIN routes : i \in ifaces /\ routes[i] \subseteq (DOMAIN rules) \X ifaces
=============================================================================
