-------------------------- MODULE MCMailboxActivity --------------------------
(* A small instance of MailboxActivity for TLC. *)
EXTENDS MailboxActivity, TLC

\* Agents, and calls of wait(), are interchangeable.
Symmetry == Permutations(Callers) \cup Permutations(Waits)
=============================================================================
