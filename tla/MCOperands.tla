----------------------------- MODULE MCOperands -----------------------------
(* Instances of Operands for TLC. *)
EXTENDS Operands, TLC

Symmetry == Permutations(FieldName) \cup Permutations(OpId) \cup Permutations(Shape)
=============================================================================
