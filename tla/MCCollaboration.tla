-------------------------- MODULE MCCollaboration --------------------------
(* Instances of Collaboration for TLC. *)
EXTENDS Collaboration, TLC

\* Agents are interchangeable (safety runs only).
Symmetry == Permutations(Agents)
=============================================================================
