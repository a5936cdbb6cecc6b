---------------------------- MODULE MCAgentLoop ----------------------------
(* One run of the agent loop beside another, for TLC. *)
EXTENDS AgentLoop

CONSTANTS loop, other, k1, k2

MCRuns == {loop, other}
MCKeys == {k1, k2}
MCBoth == {"ollama", "anthropic"}
MCCloud == {"anthropic"}
=============================================================================
