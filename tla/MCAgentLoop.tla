----------------------------- MODULE MCAgentLoop -----------------------------
(* Small instances of AgentLoop for TLC. *)
EXTENDS AgentLoop, TLC

\* Messages sent in the same way are interchangeable.
Symmetry == Permutations(Prompts) \cup Permutations(Steers) \cup Permutations(FollowUps)
=============================================================================
