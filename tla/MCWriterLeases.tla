---------------------------- MODULE MCWriterLeases ----------------------------
(* Small instances of WriterLeases for TLC. *)
EXTENDS WriterLeases, TLC

\* Repositories, and storages, are interchangeable.
Symmetry == Permutations(Repos) \cup Permutations(Storages)
=============================================================================
