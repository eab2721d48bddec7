------------------------------ MODULE FencedLog ------------------------------
(***************************************************************************)
(* What exclusive writers of one session promise: only the present holder    *)
(* writes, and whoever has lost the session never holds it again.            *)
(***************************************************************************)
EXTENDS Sequences

CONSTANT Writers

VARIABLES
    holder,  \* who holds the session, or "none"
    used,    \* those that hold it or have held it
    log      \* who wrote each of the session's entries

vars == <<holder, used, log>>

Init == holder = "none" /\ used = {} /\ log = <<>>

\* A new writer takes the session over; a session begins without entries.
Claim(s) ==
    /\ s \notin used
    /\ holder' = s /\ used' = used \cup {s}
    /\ log' \in {log, <<>>}

Write ==
    /\ holder # "none"
    /\ log' = Append(log, holder)
    /\ UNCHANGED <<holder, used>>

\* The session is given up, or deleted.
Vacate ==
    /\ holder' = "none"
    /\ log' \in {log, <<>>}
    /\ UNCHANGED used

Next == Write \/ Vacate \/ \E s \in Writers : Claim(s)

Spec == Init /\ [][Next]_vars
=============================================================================
