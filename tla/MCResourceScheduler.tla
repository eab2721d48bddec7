------------------------- MODULE MCResourceScheduler -------------------------
(* The instance of ResourceScheduler in ResourceScheduler.cfg.  The calls are    *)
(* interchangeable: they are numbers, made in their order.  The mode of a        *)
(* request without a key is read nowhere, and left unset.                        *)
EXTENDS ResourceScheduler

Canonical ==
    /\ \A c, d \in Calls : c < d /\ status'[d] # "new" => status'[c] # "new"
    /\ \A c \in Calls : request'[c].key = NoKey => request'[c].mode = "unset"

MCSpec == Init /\ [][Next /\ Canonical]_vars /\ Fairness
=============================================================================
