------------------------------ MODULE MCRuleset ------------------------------
(* Instances of Ruleset for TLC. *)
EXTENDS Ruleset, TLC

CONSTANTS f1, f2, s1

Request(df, ds, sf, ss, v) ==
  [dst_field |-> df, src_field |-> sf, dst |-> ds, src |-> ss, value |-> v]

\* Match a field with a value; copy a field to a state; name a field that may be
\* missing, after one that is not; give a value that does not parse.
Requests ==
  {Request(f1, NULL, NULL, NULL, "good"),
   Request(NULL, s1, f1, NULL, "none"),
   Request(f1, s1, f2, NULL, "none"),
   Request(f1, s1, NULL, NULL, "bad")}

Symmetry == Permutations(OpId) \cup Permutations(RoutId)
              \cup Permutations(RuleName) \cup Permutations(IfaceName)
=============================================================================
