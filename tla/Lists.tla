-------------------------------- MODULE Lists --------------------------------
(* What several of the models need of sequences. *)
EXTENDS Sequences, SequencesExt

(* What is in S of the sequence s, in its order. *)
Among(s, S) == FoldLeft(LAMBDA kept, x : IF x \in S THEN Append(kept, x) ELSE kept, <<>>, s)
=============================================================================
