---------------------------- MODULE MCCompaction ----------------------------
(* Compaction with two teams, one company and two prices: enough for two   *)
(* records of every kind and a start in the middle of them.                *)
EXTENDS Compaction, TLC

Same == Permutations(Team)

=============================================================================
