------------------------- MODULE MCFileMutationQueue -------------------------
(* The instance of FileMutationQueue in FileMutationQueue.cfg. *)
EXTENDS FileMutationQueue
=============================================================================
