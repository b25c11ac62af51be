--------------------------- MODULE MCAgentTrials ----------------------------
(* Model checking of AgentTrials: a file to change and a protected one.     *)
EXTENDS AgentTrials

MCChecks == <<[type |-> "command", file |-> "task", required |-> TRUE, weight |-> 2],
              [type |-> "unchanged", file |-> "guarded", required |-> FALSE, weight |-> 1]>>
=============================================================================
