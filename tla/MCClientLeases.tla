---------------------------- MODULE MCClientLeases ----------------------------
(* Small instances of the client for TLC. *)
EXTENDS ClientLeases
===============================================================================
