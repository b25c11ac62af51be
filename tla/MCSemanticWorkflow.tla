------------------------- MODULE MCSemanticWorkflow -------------------------
(* Model checking of SemanticWorkflow: one file buffer of two regions.     *)
EXTENDS SemanticWorkflow

CONSTANT Draft      \* what every region holds to begin with

MCInitTexts == {[s \in Segs |-> Draft]}
=============================================================================
