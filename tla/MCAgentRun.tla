------------------------------ MODULE MCAgentRun ------------------------------
(* Instances of AgentRun for TLC. *)
EXTENDS AgentRun

CONSTANTS r1, r2

=============================================================================
