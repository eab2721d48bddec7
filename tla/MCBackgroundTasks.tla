-------------------------- MODULE MCBackgroundTasks --------------------------
(* The instance of BackgroundTasks in BackgroundTasks.cfg. *)
EXTENDS BackgroundTasks
=============================================================================
