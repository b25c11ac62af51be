--------------------------- MODULE MCCheckpoints ---------------------------
(* Model checking of Checkpoints: one buffer, two file names, two regions. *)
EXTENDS Checkpoints, TLC

CONSTANT Draft      \* what every region of every file holds to begin with

MCInitTexts == {[s \in Segs |-> Draft]}

Symmetry == Permutations(Chk) \cup Permutations(Segs) \cup Permutations(Files)
=============================================================================
