---------------------------- MODULE MCLiveSessions ----------------------------
(* Small instances of LiveSessions for TLC. *)
EXTENDS LiveSessions
===============================================================================
