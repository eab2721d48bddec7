--------------------------- MODULE MailboxActivity ---------------------------
(***************************************************************************)
(* wait_agent: the waiters of a team                                         *)
(* (packages/subagent/src/collaboration-mailbox.ts), with the two callers    *)
(* of the controller: wait() for mail and waitForTurn() for a pinned turn.   *)
(*                                                                          *)
(* A wait does not poll.  What it waits for is read by check(), which runs   *)
(* in a microtask of its own: between a notification and its check the wait  *)
(* may have ended and another one of the same agent begun.                   *)
(***************************************************************************)
EXTENDS Naturals, FiniteSets

CONSTANTS Callers, \* the agents that may wait
          Waits    \* bound: the calls of wait()

\* "none" stands for an absent map entry.
ASSUME MailboxAssumption == "none" \notin Waits /\ "none" \notin Callers

VARIABLES
    ready,      \* the agents for which pending() holds: mail, or a settled turn
    userInput,  \* the agents with user input
    waiters,    \* agent -> its registered wait, or "none"
    asked,      \* wait -> the agent it is for, or "none" before the call
    outcome,    \* wait -> "none", "waiting", or how it ended
    checks,     \* the microtasks queued by check(), by wait
    closed

mailboxVars == <<ready, userInput, waiters, asked, outcome, checks, closed>>

Ends == {"mailbox", "user_input", "timeout", "interrupted", "error"}

MailboxInit ==
    /\ ready = {} /\ userInput = {}
    /\ waiters = [p \in Callers |-> "none"]
    /\ asked = [w \in Waits |-> "none"]
    /\ outcome = [w \in Waits |-> "none"]
    /\ checks = {}
    /\ closed = FALSE

\* notify(): the registered wait, if there is one, checks again.
Notified(p) == checks \cup ({waiters[p]} \ {"none"})

\* finish(): timer and abort listener are released and the promise is settled.
FinishWait(w, how) ==
    /\ waiters' = [waiters EXCEPT ![asked[w]] = "none"]
    /\ outcome' = [outcome EXCEPT ![w] = how]

\* Bug: what happened before the call is not looked at.
WaitUnchecked(w, p) ==
    /\ ~closed
    /\ outcome[w] = "none" /\ waiters[p] = "none"
    /\ waiters' = [waiters EXCEPT ![p] = w]
    /\ asked' = [asked EXCEPT ![w] = p]
    /\ outcome' = [outcome EXCEPT ![w] = "waiting"]
    /\ UNCHANGED <<ready, userInput, checks, closed>>

\* wait(): one per agent.  The first check catches what happened before the call.
Wait(w, p) ==
    /\ ~closed
    /\ outcome[w] = "none" /\ waiters[p] = "none"
    /\ waiters' = [waiters EXCEPT ![p] = w]
    /\ asked' = [asked EXCEPT ![w] = p]
    /\ outcome' = [outcome EXCEPT ![w] = "waiting"]
    /\ checks' = checks \cup {w}
    /\ UNCHANGED <<ready, userInput, closed>>

\* The wait has not ended, and no other wait has taken its place.
IsCurrent(w) == waiters[asked[w]] = w

\* Bug: mail is looked at before user input.
CheckMailFirst(w) ==
    /\ w \in checks
    /\ checks' = checks \ {w}
    /\ \/ IsCurrent(w) /\ asked[w] \in ready /\ FinishWait(w, "mailbox")
       \/ IsCurrent(w) /\ asked[w] \in userInput \ ready /\ FinishWait(w, "user_input")
       \/ /\ IsCurrent(w) => asked[w] \notin userInput \cup ready
          /\ UNCHANGED <<waiters, outcome>>
    /\ UNCHANGED <<ready, userInput, asked, closed>>

\* The microtask of check().  User input outranks mail; pending() may throw.
Check(w) ==
    /\ w \in checks
    /\ checks' = checks \ {w}
    /\ \/ IsCurrent(w) /\ asked[w] \in userInput /\ FinishWait(w, "user_input")
       \/ IsCurrent(w) /\ asked[w] \notin userInput /\ asked[w] \in ready /\ FinishWait(w, "mailbox")
       \/ IsCurrent(w) /\ asked[w] \notin userInput /\ FinishWait(w, "error")
       \/ /\ IsCurrent(w) => asked[w] \notin userInput \cup ready
          /\ UNCHANGED <<waiters, outcome>>
    /\ UNCHANGED <<ready, userInput, asked, closed>>

\* The timer.  Node runs it only when no microtask is left.
Timeout(w) ==
    /\ outcome[w] = "waiting" /\ checks = {}
    /\ FinishWait(w, "timeout")
    /\ UNCHANGED <<ready, userInput, asked, checks, closed>>

\* The caller's AbortSignal.
Cancel(w) ==
    /\ outcome[w] = "waiting"
    /\ FinishWait(w, "interrupted")
    /\ UNCHANGED <<ready, userInput, asked, checks, closed>>

\* The controller commits what a wait is for, then notifies.
Arrive(p) ==
    /\ ready' = ready \cup {p}
    /\ checks' = Notified(p)
    /\ UNCHANGED <<userInput, waiters, asked, outcome, closed>>

\* Mail is acknowledged: nobody is notified.
Consume(p) ==
    /\ p \in ready
    /\ ready' = ready \ {p}
    /\ UNCHANGED <<userInput, waiters, asked, outcome, checks, closed>>

\* notifyUserInput(), refused by the controller once it is stopping.
NotifyUserInput(p) ==
    /\ ~closed
    /\ userInput' = userInput \cup {p}
    /\ checks' = Notified(p)
    /\ UNCHANGED <<ready, waiters, asked, outcome, closed>>

\* consumeUserInput()
ConsumeUserInput(p) ==
    /\ ~closed /\ p \in userInput
    /\ userInput' = userInput \ {p}
    /\ UNCHANGED <<ready, waiters, asked, outcome, checks, closed>>

\* close(): every wait is interrupted.
CloseWaits ==
    /\ ~closed
    /\ closed' = TRUE
    /\ waiters' = [p \in Callers |-> "none"]
    /\ outcome' = [w \in Waits |-> IF \E p \in Callers : waiters[p] = w THEN "interrupted" ELSE outcome[w]]
    /\ userInput' = {}
    /\ UNCHANGED <<ready, asked, checks>>

MailboxNext ==
    \/ \E w \in Waits : \/ \E p \in Callers : Wait(w, p)
                        \/ Check(w) \/ Timeout(w) \/ Cancel(w)
    \/ \E p \in Callers : Arrive(p) \/ Consume(p) \/ NotifyUserInput(p) \/ ConsumeUserInput(p)
    \/ CloseWaits

MailboxSpec == MailboxInit /\ [][MailboxNext]_mailboxVars

-----------------------------------------------------------------------------
\* Types: a wait ends with one of the reasons its callers distinguish, and only
\* waits that were called have a check queued.
MailboxTypeOK ==
    /\ ready \subseteq Callers /\ userInput \subseteq Callers
    /\ waiters \in [Callers -> Waits \cup {"none"}]
    /\ asked \in [Waits -> Callers \cup {"none"}]
    /\ outcome \in [Waits -> Ends \cup {"none", "waiting"}]
    /\ checks \subseteq {w \in Waits : outcome[w] # "none"}
    /\ closed \in BOOLEAN

\* A wait is registered exactly while its promise is unsettled, and none survives
\* close(): a check left over from an earlier wait of the same agent, a timer or an
\* abort never unregisters the wait that took its place.
WaiterRegistered ==
    /\ \A w \in Waits : outcome[w] = "waiting" <=> \E p \in Callers : waiters[p] = w
    /\ \A w \in Waits : outcome[w] = "waiting" => waiters[asked[w]] = w
    /\ closed => \A p \in Callers : waiters[p] = "none"

\* No lost wake-up: while an agent waits and there is mail, a settled turn or user
\* input for it, a check of its wait is queued, whichever came first.
NoLostWakeup ==
    \A p \in Callers : waiters[p] # "none" /\ p \in ready \cup userInput => waiters[p] \in checks

\* A wait reports what is the case: it times out only if there is neither mail nor
\* user input for its agent, and reports mail only if there is no user input.
OutcomeJustified ==
    [][\A w \in Waits : outcome[w] = "waiting" /\ outcome'[w] # "waiting" =>
          /\ outcome'[w] = "timeout" => asked[w] \notin ready \cup userInput
          /\ outcome'[w] = "mailbox" => asked[w] \in ready \ userInput
          /\ outcome'[w] = "user_input" => asked[w] \in userInput]_mailboxVars
=============================================================================
