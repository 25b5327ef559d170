--------------------------- MODULE MCDynamicTableWriter ---------------------------
(* Small instances of DynamicTableWriter: three workers for a queue behind the *)
(* lock, two table families so that workers of one wait for DDL of the other.  *)
EXTENDS DynamicTableWriter, TLC

CONSTANTS w1, w2, w3, r1, r2

Symmetry == Permutations(Workers) \cup Permutations(Routes)
=============================================================================
