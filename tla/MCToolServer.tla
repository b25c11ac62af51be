---------------------------- MODULE MCToolServer ----------------------------
(* Model checking of ToolServer: the request ids that clients retry.       *)
EXTENDS ToolServer, TLC

CONSTANT Retried    \* the tools whose callers send request ids of their own

MCKeys == Retried \X {"r1"}

Symmetry == Permutations(Sessions)
=============================================================================
