---------------------------- MODULE MCHostRuntime ---------------------------
(* Model checking of HostRuntime: pids and clients are model values.       *)
EXTENDS HostRuntime
=============================================================================
