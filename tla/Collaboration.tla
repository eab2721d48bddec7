---------------------------- MODULE Collaboration ----------------------------
(***************************************************************************)
(* Native delegation: the controller of a root session's team of child      *)
(* agents and the store it persists the team in                             *)
(* (packages/subagent/src/collaboration-controller.ts, -store.ts).          *)
(*                                                                          *)
(* Every operation on the control queue is synchronous, so it is one        *)
(* action.  Child startup runs on a second serial queue (lifecycle) and     *)
(* awaits its host, and a running turn is a promise of its own: these are   *)
(* split at their awaits.  A commit may fail; the process may crash between *)
(* any two actions and another one reopen the team.                         *)
(*                                                                          *)
(* Only /root may spawn, so every child's parent is Root.  Texts, models,   *)
(* delegation contracts, tools, usage and timestamps are left out.          *)
(***************************************************************************)
EXTENDS Naturals, Sequences, FiniteSets

CONSTANTS Agents,              \* the task names root may use
          Root,
          MaxActiveSessions,   \* COLLABORATION_LIMITS; one slot is the root's
          MaxAgents,           \* likewise, open agents and the root
          MaxPendingMessages,  \* per mailbox, reservations included
          MaxRetainedTurns,    \* COLLABORATION_HISTORY_LIMITS
          Correspondents,      \* bound: the paths that messages are sent to
          Reporters,           \* bound: the agents that report progress
          RunOutcomes,         \* bound: how a host may settle a run
          StorageMayFail,      \* bound: whether SQLite may refuse a commit
          MaxOpens             \* bound on the number of processes

ASSUME CollaborationAssumption ==
    /\ IsFiniteSet(Agents) /\ Root \notin Agents
    /\ {MaxActiveSessions, MaxAgents, MaxPendingMessages} \subseteq Nat \ {0}
    /\ {MaxRetainedTurns, MaxOpens} \subseteq Nat
    /\ Correspondents \subseteq Agents \cup {Root} /\ Reporters \subseteq Agents
    /\ StorageMayFail \in BOOLEAN /\ RunOutcomes \subseteq {"completed", "failed", "interrupted"}

VARIABLES
    agent,      \* persisted: agent -> [status, turn, reserved (completionPending)]
    chat,       \* persisted: path -> number of pending "message" mails
    inbox,      \* persisted: the progress and result mails pending for Root
    turns,      \* persisted: agent -> its turn ledger
    up,         \* the owner of the store: "up", "crashed", "closed" or "broken"
    opens,      \* processes started so far
    loading,    \* agent -> [phase, turn, aborted] of its startup
    active,     \* agent -> [phase, turn, result, aborting] of its running turn
    lifecycle,  \* the serial queue of startups
    sessions,   \* agents with a native session in memory
    evicting,   \* the session load() is disposing of, if any
    closing,    \* sessions close() is disposing of
    stopping,   \* shutdown(): "no", "yes", or "stuck" on a failed disposal
    failure     \* "none", "storage" (a commit was refused by SQLite) or
                \* "logic" (the controller's own checks threw)

store  == <<agent, chat, inbox, turns>>
memory == <<loading, active, lifecycle, sessions, evicting, closing, stopping, failure>>
owner  == <<up, opens>>
vars   == <<agent, chat, inbox, turns, up, opens, loading, active, lifecycle,
            sessions, evicting, closing, stopping, failure>>

Settled  == {"completed", "failed", "interrupted"}
Statuses == Settled \cup {"none", "pending", "running", "closed"}
Paths    == Agents \cup {Root}

NoLoad == [phase |-> "none", turn |-> 0, aborted |-> FALSE]
NoRun  == [phase |-> "none", turn |-> 0, result |-> "none", aborting |-> FALSE]

EmptyMemory ==
    /\ loading = [a \in Agents |-> NoLoad]
    /\ active = [a \in Agents |-> NoRun]
    /\ lifecycle = <<>>
    /\ sessions = {} /\ evicting = {} /\ closing = {}
    /\ stopping = "no" /\ failure = "none"

Init ==
    /\ agent = [a \in Agents |-> [status |-> "none", turn |-> 0, reserved |-> FALSE]]
    /\ chat = [p \in Paths |-> 0]
    /\ inbox = {}
    /\ turns = [a \in Agents |-> <<>>]
    /\ up = "up" /\ opens = 1
    /\ EmptyMemory

\* What a new process starts from.
ClearMemory ==
    /\ loading' = [a \in Agents |-> NoLoad]
    /\ active' = [a \in Agents |-> NoRun]
    /\ lifecycle' = <<>>
    /\ sessions' = {} /\ evicting' = {} /\ closing' = {}
    /\ stopping' = "no" /\ failure' = "none"

-----------------------------------------------------------------------------
(* The store.  A snapshot is [agent, chat, inbox].                          *)

Current == [agent |-> agent, chat |-> chat, inbox |-> inbox]

Open(s)     == {a \in Agents : s.agent[a].status \notin {"none", "closed"}}
Reserved(s) == {a \in Agents : s.agent[a].reserved}

\* Pending mails of p, with the completion notifications reserved for it.
Load(s, p) ==
    s.chat[p] + (IF p = Root THEN Cardinality(s.inbox) + Cardinality(Reserved(s)) ELSE 0)

\* validateCollaborationSnapshot(): the limits a snapshot must respect.
Valid(s) ==
    /\ Cardinality(Open(s)) <= MaxAgents - 1
    /\ \A p \in Paths : Load(s, p) <= MaxPendingMessages

Mail(kind, a, t, status) == [kind |-> kind, from |-> a, turn |-> t, status |-> status]

\* Bug: an interrupted agent never settles its turn in the ledger.
SyncStatusIgnoresInterrupted(s, a) ==
    LET r == s.agent[a] IN
    IF r = agent[a] \/ r.status \in {"closed", "interrupted"} THEN turns[a]
    ELSE IF r.turn > Len(turns[a])
      THEN Append(turns[a], [status |-> r.status, started |-> FALSE, delivery |-> "not_enqueued"])
    ELSE [turns[a] EXCEPT ![r.turn].status = r.status,
                          ![r.turn].started = @ \/ r.status = "running"]

\* syncHistory(), first loop: the ledger of an agent follows its record, but an
\* interrupt request is not settlement and close() leaves the turn alone.
SyncStatus(s, a) ==
    LET r == s.agent[a] IN
    IF r = agent[a] \/ r.status = "closed" THEN turns[a]
    ELSE IF r.turn > Len(turns[a])
      THEN Append(turns[a], [status |-> r.status, started |-> FALSE, delivery |-> "not_enqueued"])
    ELSE IF r.status = "interrupted" /\ r.reserved THEN turns[a]
    ELSE [turns[a] EXCEPT ![r.turn].status = r.status,
                          ![r.turn].started = @ \/ r.status = "running"]

\* Second and third loop: new result mails are enqueued, removed ones acknowledged.
SyncHistory(s, pushed, acked) ==
    [a \in Agents |->
        LET ledger == SyncStatus(s, a) IN
        [t \in 1 .. Len(ledger) |->
            [ledger[t] EXCEPT !.delivery =
                IF \E m \in pushed : m.from = a /\ m.turn = t THEN "enqueued"
                ELSE IF \E m \in acked : m.kind = "result" /\ m.from = a /\ m.turn = t
                  THEN "acknowledged"
                ELSE @]]]

\* A second result for a turn, or one that contradicts the ledger, is refused.
Conflict(s, pushed) ==
    \E m \in pushed :
        \/ SyncStatus(s, m.from)[m.turn].delivery # "not_enqueued"
        \/ SyncStatus(s, m.from)[m.turn].status # m.status

\* persist(): commit() succeeds,
Committed(s, pushed, acked) ==
    /\ Valid(s) /\ ~Conflict(s, pushed)
    /\ agent' = s.agent /\ chat' = s.chat /\ inbox' = s.inbox
    /\ turns' = SyncHistory(s, pushed, acked)

\* or throws: the team is poisoned, every startup and every run is aborted.
CommitFails(s, pushed, loads, runs) ==
    /\ Valid(s) /\ ~Conflict(s, pushed) => StorageMayFail
    /\ UNCHANGED store
    /\ failure' = IF Valid(s) /\ ~Conflict(s, pushed) THEN "storage" ELSE "logic"
    /\ loading' = [a \in Agents |-> [loads[a] EXCEPT !.aborted = @ \/ loads[a].phase # "none"]]
    /\ active' = [a \in Agents |-> [runs[a] EXCEPT !.aborting = @ \/ runs[a].phase # "none"]]

-----------------------------------------------------------------------------
(* Control operations.                                                      *)

Ready == up = "up" /\ stopping = "no" /\ failure = "none"

IsLoading(a) == loading[a].phase # "none"
IsActive(a)  == active[a].phase # "none"

\* Bug: a turn counts only once it runs.
SlotFreeOfRuns == Cardinality({a \in Agents : IsActive(a)}) < MaxActiveSessions - 1

\* checkCapacity(): running turns and startup reservations share the slots.
SlotFree == Cardinality({a \in Agents : IsLoading(a) \/ IsActive(a)}) < MaxActiveSessions - 1

TurnCapacity ==
    Cardinality({x \in Agents \X (1 .. MaxRetainedTurns) : x[2] <= Len(turns[x[1]])}) < MaxRetainedTurns

\* Bug: reserved completion notifications are not counted.
MailboxFreeOfMail(p) ==
    chat[p] + (IF p = Root THEN Cardinality(inbox) ELSE 0) < MaxPendingMessages

\* checkMailboxCapacity()
MailboxFree(p) == Load(Current, p) < MaxPendingMessages

\* reserve() and schedule(): a new turn, owning a slot and a place in the mailbox
\* of its parent, is persisted before its startup is queued.
Admit(a) ==
    LET t == agent[a].turn + 1
        s == [Current EXCEPT !.agent[a] = [status |-> "pending", turn |-> t, reserved |-> TRUE]]
    IN  \/ /\ Committed(s, {}, {})
           /\ loading' = [loading EXCEPT ![a] = [phase |-> "queued", turn |-> t, aborted |-> FALSE]]
           /\ lifecycle' = Append(lifecycle, a)
           /\ UNCHANGED <<active, failure>>
        \/ /\ CommitFails(s, {}, loading, active)
           /\ UNCHANGED lifecycle

\* spawnTurn(): a name is never reused, not even that of a closed agent.
Spawn(a) ==
    /\ Ready
    /\ agent[a].status = "none"
    /\ Cardinality(Open(Current)) < MaxAgents - 1
    /\ TurnCapacity /\ SlotFree /\ MailboxFree(Root)
    /\ Admit(a)
    /\ UNCHANGED <<owner, sessions, evicting, closing, stopping>>

\* followupTurn(): the agent has settled, in the record and in memory,
Reusable(a) ==
    /\ ~IsActive(a) /\ ~IsLoading(a)
    /\ agent[a].status \in Settled

\* and takes another turn.
Followup(a) ==
    /\ Ready
    /\ Reusable(a)
    /\ TurnCapacity /\ SlotFree /\ MailboxFree(Root)
    /\ Admit(a)
    /\ UNCHANGED <<owner, sessions, evicting, closing, stopping>>

\* A commit that touches only mail.
CommitMail(s, acked) ==
    /\ \/ Committed(s, {}, acked) /\ UNCHANGED <<loading, active, failure>>
       \/ CommitFails(s, {}, loading, active)
    /\ UNCHANGED <<owner, lifecycle, sessions, evicting, closing, stopping>>

\* send(): a message to root or to an open agent.
Send(p) ==
    /\ Ready
    /\ p # Root => agent[p].status \notin {"none", "closed"}
    /\ MailboxFree(p)
    /\ CommitMail([Current EXCEPT !.chat[p] = @ + 1], {})

\* reportProgress(): only the running turn; a later report replaces the pending one.
ReportProgress(a) ==
    LET m == Mail("progress", a, agent[a].turn, "none") IN
    /\ Ready
    /\ agent[a].status = "running" /\ IsActive(a)
    /\ m \in inbox \/ MailboxFree(Root)
    /\ CommitMail([Current EXCEPT !.inbox = @ \cup {m}], {})

\* acknowledge(): the caller's selected mails leave the mailbox.
Acknowledge(p, n, selected) ==
    /\ Ready
    /\ p # Root => agent[p].status \notin {"none", "closed"} /\ selected = {}
    /\ n + Cardinality(selected) > 0
    /\ CommitMail([Current EXCEPT !.chat[p] = @ - n, !.inbox = @ \ selected], selected)

\* Bug: only startups are aborted.
AbortStartup(a) ==
    /\ loading' = [loading EXCEPT ![a].aborted = IsLoading(a)]
    /\ UNCHANGED active

\* loading.abort.abort(), or session.abort() for a turn that runs.
AbortTurn(a) ==
    /\ loading' = [loading EXCEPT ![a].aborted = IsLoading(a)]
    /\ active' = [active EXCEPT ![a].aborting = @ \/ (IsActive(a) /\ ~IsLoading(a))]

\* interruptWithHandoff(): admission decides from loading and active whether there
\* is something to interrupt; the session is aborted after the operation.
Interrupt(a) ==
    LET s == [Current EXCEPT !.agent[a].status = "interrupted"] IN
    /\ Ready
    /\ IsLoading(a) \/ IsActive(a)
    /\ \/ /\ Committed(s, {}, {})
          /\ AbortTurn(a)
          /\ UNCHANGED failure
       \/ CommitFails(s, {}, loading, active)
    /\ UNCHANGED <<owner, lifecycle, sessions, evicting, closing, stopping>>

\* close(): retire a settled agent, then dispose of its session outside the queue.
\* On a closed agent it only retries the disposal.
Close(a) ==
    LET s == [Current EXCEPT !.agent[a].status = "closed", !.agent[a].reserved = FALSE] IN
    /\ Ready
    /\ \/ /\ agent[a].status \in Settled /\ ~IsActive(a) /\ ~IsLoading(a)
          /\ \/ /\ Committed(s, {}, {})
                /\ closing' = closing \cup ({a} \cap sessions)
                /\ UNCHANGED <<loading, active, failure>>
             \/ CommitFails(s, {}, loading, active) /\ UNCHANGED closing
       \/ /\ agent[a].status = "closed" /\ a \in sessions
          /\ closing' = closing \cup {a}
          /\ UNCHANGED <<store, loading, active, failure>>
    /\ UNCHANGED <<owner, lifecycle, sessions, evicting, stopping>>

\* The disposal close() awaits: done, or rejected with the session still mapped.
CloseDisposed(a) ==
    /\ up = "up" /\ a \in closing
    /\ closing' = closing \ {a}
    /\ sessions' \in {sessions, sessions \ {a}}
    /\ UNCHANGED <<store, owner, loading, active, lifecycle, evicting, stopping, failure>>

-----------------------------------------------------------------------------
(* Startup: schedule() and load() on the lifecycle queue.                   *)

AtHead(a, phase) ==
    /\ up = "up" /\ lifecycle # <<>> /\ Head(lifecycle) = a
    /\ loading[a].phase = phase

To(a, phase) == [loading EXCEPT ![a].phase = phase]

\* The AbortSignal of the spawn or follow-up call.
CancelStartup(a) ==
    /\ up = "up" /\ IsLoading(a) /\ ~loading[a].aborted
    /\ loading' = [loading EXCEPT ![a].aborted = TRUE]
    /\ UNCHANGED <<store, owner, active, lifecycle, sessions, evicting, closing, stopping, failure>>

\* The sessions load() may evict (whether the host can unload one is its choice).
Evictable(v) == v \in sessions /\ ~IsActive(v) /\ ~IsLoading(v)

\* load() reuses the session in memory; at the session limit it first evicts an
\* idle one, if there is one that can be unloaded.
LoadBegin(a) ==
    /\ AtHead(a, "queued")
    /\ LET full == Cardinality(sessions) >= MaxActiveSessions - 1 IN
       \/ loading[a].aborted /\ loading' = To(a, "failing") /\ UNCHANGED evicting
       \/ /\ ~loading[a].aborted
          /\ \/ a \in sessions /\ loading' = To(a, "ready") /\ UNCHANGED evicting
             \/ a \notin sessions /\ ~full /\ loading' = To(a, "creating") /\ UNCHANGED evicting
             \/ /\ a \notin sessions /\ full
                /\ \E v \in Agents : Evictable(v) /\ evicting' = {v}
                /\ loading' = To(a, "evicting")
             \/ a \notin sessions /\ full /\ loading' = To(a, "failing") /\ UNCHANGED evicting
    /\ UNCHANGED <<store, owner, active, lifecycle, sessions, closing, stopping, failure>>

\* The eviction's dispose() settles.
Evicted(a) ==
    /\ AtHead(a, "evicting")
    /\ \/ /\ sessions' = sessions \ evicting
          /\ loading' = To(a, IF loading[a].aborted THEN "failing" ELSE "creating")
       \/ UNCHANGED sessions /\ loading' = To(a, "failing")
    /\ evicting' = {}
    /\ UNCHANGED <<store, owner, active, lifecycle, closing, stopping, failure>>

\* host.create() settles.  The new session's file is recorded (a commit that may
\* fail); a session that came too late is disposed of, never mapped.
Created(a) ==
    /\ AtHead(a, "creating")
    /\ \/ /\ ~loading[a].aborted /\ stopping = "no" /\ failure = "none"
          /\ sessions' = sessions \cup {a}
          /\ loading' = To(a, "ready")
          /\ UNCHANGED <<active, failure>>
       \/ /\ loading' = To(a, "failing")
          /\ UNCHANGED <<sessions, active, failure>>
       \/ /\ failure = "none"
          /\ CommitFails(Current, {}, To(a, "failing"), active)
          /\ UNCHANGED sessions
    /\ UNCHANGED <<store, owner, lifecycle, evicting, closing, stopping>>

\* The startup was neither cancelled nor superseded while it loaded.
Startable(a) ==
    /\ Ready /\ ~loading[a].aborted
    /\ agent[a].status = "pending" /\ agent[a].turn = loading[a].turn

\* The control operation that turns a loaded startup into a running turn.
Start(a) ==
    LET s == [Current EXCEPT !.agent[a].status = "running"]
        ok == Startable(a)
    IN  /\ AtHead(a, "ready")
        /\ \/ /\ ok /\ Committed(s, {}, {})
              /\ loading' = [loading EXCEPT ![a] = NoLoad]
              /\ lifecycle' = Tail(lifecycle)
              /\ active' = [active EXCEPT ![a] = [phase |-> "run", turn |-> agent[a].turn,
                                                  result |-> "none", aborting |-> FALSE]]
              /\ UNCHANGED failure
           \/ /\ ok /\ CommitFails(s, {}, To(a, "failing"), active)
              /\ UNCHANGED lifecycle
           \/ /\ ~ok /\ loading' = To(a, "failing")
              /\ UNCHANGED <<store, active, lifecycle, failure>>
        /\ UNCHANGED <<owner, sessions, evicting, closing, stopping>>

\* Bug: the reservation of a failed startup is kept.
UnstartedKeepingReservation(a) ==
    [Current EXCEPT !.agent[a].status = IF loading[a].aborted THEN "interrupted" ELSE "failed"]

\* How a failed startup settles its turn: no result mail, and no look at which
\* turn the record is at.
Unstarted(a) ==
    [Current EXCEPT
        !.agent[a].status = IF loading[a].aborted THEN "interrupted" ELSE "failed",
        !.agent[a].reserved = FALSE]

\* The control operation that does so.  The finally block that releases the slot
\* runs before the next control operation.
Cleanup(a) ==
    LET s == Unstarted(a)
        rest == [loading EXCEPT ![a] = NoLoad]
    IN  /\ AtHead(a, "failing")
        /\ lifecycle' = Tail(lifecycle)
        /\ \/ /\ failure # "none" /\ loading' = rest
              /\ UNCHANGED <<store, active, failure>>
           \/ /\ failure = "none" /\ Committed(s, {}, {}) /\ loading' = rest
              /\ UNCHANGED <<active, failure>>
           \/ failure = "none" /\ CommitFails(s, {}, rest, active)
        /\ UNCHANGED <<owner, sessions, evicting, closing, stopping>>

-----------------------------------------------------------------------------
(* A running turn.                                                          *)

\* session.run() settles (the host decides how; an abort is a request).
RunEnds(a, result) ==
    /\ up = "up" /\ active[a].phase = "run"
    /\ active' = [active EXCEPT ![a].phase = "finish", ![a].result = result]
    /\ UNCHANGED <<store, owner, loading, lifecycle, sessions, evicting, closing, stopping, failure>>

\* finish(): an interrupt request outranks the result,
FinalStatus(a) == IF agent[a].status = "interrupted" THEN "interrupted" ELSE active[a].result

\* Bug: an interrupted turn is not announced.
NotificationUnlessInterrupted(a) ==
    IF FinalStatus(a) = "interrupted" THEN {}
    ELSE {Mail("result", a, agent[a].turn, FinalStatus(a))}

\* the parent is notified,
Notification(a) == {Mail("result", a, agent[a].turn, FinalStatus(a))}

\* and the turn is settled, in one commit.  A stale completion poisons the team.
Finish(a) ==
    LET new == Notification(a)
        s == [Current EXCEPT !.agent[a].status = FinalStatus(a), !.agent[a].reserved = FALSE,
                             !.inbox = @ \cup new]
        done == [active EXCEPT ![a].phase = "settled"]
        stale == agent[a].turn # active[a].turn
    IN  /\ up = "up" /\ active[a].phase = "finish"
        /\ \/ /\ ~stale /\ Committed(s, new, {})
              /\ active' = done /\ UNCHANGED <<loading, failure>>
           \/ ~stale /\ CommitFails(s, new, loading, done)
           \/ /\ stale /\ active' = done /\ failure' = "logic"
              /\ UNCHANGED <<store, loading>>
        /\ UNCHANGED <<owner, lifecycle, sessions, evicting, closing, stopping>>

\* active.delete() in the task's finally block, two promise reactions after
\* finish(): a control operation queued right behind finish() runs first.
ActiveDone(a) ==
    /\ up = "up" /\ active[a].phase = "settled"
    /\ active' = [active EXCEPT ![a] = NoRun]
    /\ UNCHANGED <<store, owner, loading, lifecycle, sessions, evicting, closing, stopping, failure>>

-----------------------------------------------------------------------------
(* Shutdown, crash and recovery.                                            *)

\* Bug: running sessions are not asked to abort.
ShutdownWithoutAbort ==
    /\ up = "up" /\ stopping = "no"
    /\ stopping' = "yes"
    /\ loading' = [a \in Agents |-> [loading[a] EXCEPT !.aborted = IsLoading(a)]]
    /\ UNCHANGED <<store, owner, active, lifecycle, sessions, evicting, closing, failure>>

\* shutdown(): refuse new work, cancel startups, ask every session to abort.
Shutdown ==
    /\ up = "up" /\ stopping = "no"
    /\ stopping' = "yes"
    /\ loading' = [a \in Agents |-> [loading[a] EXCEPT !.aborted = IsLoading(a)]]
    /\ active' = [a \in Agents |-> [active[a] EXCEPT !.aborting = IsActive(a)]]
    /\ UNCHANGED <<store, owner, lifecycle, sessions, evicting, closing, failure>>

\* Its end: every startup and run has settled, the sessions are disposed of and
\* the ownership is released, or a disposal failed and the owner stays.
ShutdownEnds ==
    /\ up = "up" /\ stopping = "yes"
    /\ lifecycle = <<>> /\ \A a \in Agents : ~IsActive(a)
    /\ \/ up' = "closed" /\ sessions' = {} /\ UNCHANGED stopping
       \/ stopping' = "stuck" /\ UNCHANGED <<up, sessions>>
    /\ UNCHANGED <<store, opens, loading, active, lifecycle, evicting, closing, failure>>

\* The process dies; what is not persisted is gone.
Crash ==
    /\ up = "up"
    /\ up' = "crashed"
    /\ ClearMemory
    /\ UNCHANGED <<store, opens>>

\* Bug: a turn whose interrupt was requested is not announced.
RecoveryMailsOfUninterrupted(s) ==
    {Mail("result", a, s.agent[a].turn, "interrupted") :
        a \in {b \in Reserved(s) : s.agent[b].status # "interrupted"}}

\* Every reserved completion becomes an interrupted result.
RecoveryMails(s) == {Mail("result", a, s.agent[a].turn, "interrupted") : a \in Reserved(s)}

\* What the previous owner left in flight is interrupted, never resumed.
Recovered(s) ==
    [s EXCEPT !.agent = [a \in Agents |->
                [s.agent[a] EXCEPT
                    !.status = IF @ \in {"pending", "running"} THEN "interrupted" ELSE @,
                    !.reserved = FALSE]],
              !.inbox = @ \cup RecoveryMails(s)]

\* new CollaborationStore(), the acquiring transaction.  The row it reads must be
\* valid; the row it writes is not validated.
Reopen ==
    LET s == Recovered(Current)
        pushed == RecoveryMails(Current)
    IN  /\ up \in {"crashed", "closed"} /\ opens < MaxOpens
        /\ opens' = opens + 1
        /\ \/ /\ Valid(Current) /\ ~Conflict(s, pushed)
              /\ up' = "up"
              /\ agent' = s.agent /\ inbox' = s.inbox
              /\ turns' = SyncHistory(s, pushed, {})
              /\ ClearMemory
              /\ UNCHANGED chat
           \/ /\ ~Valid(Current) \/ Conflict(s, pushed)
              /\ up' = "broken"
              /\ UNCHANGED <<store, memory>>

-----------------------------------------------------------------------------
Control ==
    \/ \E a \in Agents : Spawn(a) \/ Followup(a) \/ Interrupt(a) \/ Close(a)
    \/ \E a \in Reporters : ReportProgress(a)
    \/ \E p \in Correspondents : Send(p)
    \/ \E p \in Paths : \E n \in 0 .. chat[p], selected \in SUBSET inbox : Acknowledge(p, n, selected)

Startup(a) == LoadBegin(a) \/ Evicted(a) \/ Created(a) \/ Start(a) \/ Cleanup(a)

RunSettles(a) == Finish(a) \/ ActiveDone(a)

Next ==
    \/ Control
    \/ \E a \in Agents : CancelStartup(a) \/ Startup(a) \/ CloseDisposed(a) \/ RunSettles(a)
    \/ \E a \in Agents, r \in RunOutcomes : RunEnds(a, r)
    \/ Shutdown \/ ShutdownEnds \/ Crash \/ Reopen

Spec == Init /\ [][Next]_vars

\* Queued continuations run; a host settles create() and dispose(), and settles a
\* run it was asked to abort.  Nothing makes a run end by itself.
FairSpec ==
    /\ Spec
    /\ \A a \in Agents : WF_vars(Startup(a)) /\ WF_vars(RunSettles(a)) /\ WF_vars(CloseDisposed(a))
    /\ \A a \in Agents : WF_vars(active[a].aborting /\ \E r \in RunOutcomes : RunEnds(a, r))
    /\ WF_vars(ShutdownEnds)

-----------------------------------------------------------------------------
TurnRecords == [status : Settled \cup {"pending", "running"}, started : BOOLEAN,
                delivery : {"not_enqueued", "enqueued", "acknowledged"}]

\* Types: a settled turn has one of the statuses a completion may carry, and the
\* in-memory maps of the controller hold only turns of its agents.
TypeOK ==
    /\ agent \in [Agents -> [status : Statuses, turn : Nat, reserved : BOOLEAN]]
    /\ chat \in [Paths -> Nat]
    /\ inbox \subseteq [kind : {"progress", "result"}, from : Agents, turn : Nat,
                        status : Settled \cup {"none"}]
    /\ turns \in [Agents -> Seq(TurnRecords)]
    /\ up \in {"up", "crashed", "closed", "broken"} /\ opens \in Nat
    /\ loading \in [Agents -> [phase : {"none", "queued", "evicting", "creating", "ready",
                                        "failing"},
                               turn : Nat, aborted : BOOLEAN]]
    /\ active \in [Agents -> [phase : {"none", "run", "finish", "settled"}, turn : Nat,
                              result : Settled \cup {"none"}, aborting : BOOLEAN]]
    /\ lifecycle \in Seq(Agents)
    /\ sessions \subseteq Agents /\ evicting \subseteq Agents /\ closing \subseteq Agents
    /\ stopping \in {"no", "yes", "stuck"}
    /\ failure \in {"none", "storage", "logic"}

\* The startup has not settled, or the run has not been finished.
InFlight(a) == IsLoading(a) \/ active[a].phase \in {"run", "finish"}

\* A turn holds its completion reservation exactly as long as it is in flight,
\* whatever interrupts, cancels, evicts or shuts down around it: finish() and the
\* startup cleanup settle each admitted turn once, and nothing else does.
ReservationMatchesFlight ==
    up = "up" /\ failure = "none" => \A a \in Agents : agent[a].reserved = InFlight(a)

\* The persisted team is within its limits, also after a recovery that turned
\* reservations into mails without validating the result: the row stays readable,
\* and every turn in flight will find room for its result.
PersistedTeamValid ==
    /\ Cardinality(Open(Current)) <= MaxAgents - 1
    /\ \A a \in Agents : chat[a] <= MaxPendingMessages
    /\ chat[Root] + Cardinality(inbox) + Cardinality(Reserved(Current)) <= MaxPendingMessages

\* The books of the controller agree, in memory and in the persisted row: types,
\* reservations and limits, at every point where an operation may interleave.
Consistent == TypeOK /\ ReservationMatchesFlight /\ PersistedTeamValid

\* The controller never poisons itself and never leaves a team that cannot be
\* reopened: the mailbox reservations, the one-result-per-turn check and the
\* stale-completion check of finish() only ever see what they expect.
NoSelfInflictedFailure == failure # "logic" /\ up # "broken"

\* Running turns and startup reservations share maxActiveSessions - 1 slots, and
\* load(), which awaits between its size check and sessions.set(), respects them.
SlotsBounded ==
    /\ Cardinality({a \in Agents : IsLoading(a) \/ IsActive(a)}) <= MaxActiveSessions - 1
    /\ Cardinality(sessions) <= MaxActiveSessions - 1

\* A turn runs on a session that is in memory and that neither an eviction nor a
\* close() is disposing of.
RunsOnLiveSession ==
    \A a \in Agents : active[a].phase \in {"run", "finish"} =>
        a \in sessions /\ a \notin evicting \cup closing

\* The live sessions respect their limits and serve the turns that run on them.
SessionsSound == SlotsBounded /\ RunsOnLiveSession

\* No completion is lost or duplicated: a turn that started and is settled has
\* had its one result mail, which is in the inbox until it is acknowledged.
CompletionNotLost ==
    \A a \in Agents : \A t \in 1 .. Len(turns[a]) :
        LET r == turns[a][t]
            mails == {m \in inbox : m.kind = "result" /\ m.from = a /\ m.turn = t}
        IN  /\ r.started /\ r.status \in Settled => r.delivery # "not_enqueued"
            /\ Cardinality(mails) = IF r.delivery = "enqueued" THEN 1 ELSE 0

\* Ledger and agent record tell one story: every turn but the latest is settled,
\* and an agent that is not in flight shows the status of its latest turn.
LedgerFollowsAgent ==
    \A a \in Agents :
        /\ Len(turns[a]) = agent[a].turn
        /\ \A t \in 1 .. Len(turns[a]) - 1 : turns[a][t].status \in Settled
        /\ agent[a].turn > 0 /\ ~agent[a].reserved =>
              LET last == turns[a][agent[a].turn].status IN
              last \in Settled /\ agent[a].status \in {last, "closed"}

\* Recovery resumes nothing: after any process start every turn is settled and
\* every turn that was in flight has an unacknowledged interrupted result.
RecoverySettles ==
    [][up # "up" /\ up' = "up" =>
          \A a \in Agents :
              /\ ~agent'[a].reserved /\ agent'[a].status \notin {"pending", "running"}
              /\ agent[a].reserved =>
                    turns'[a][agent[a].turn].delivery = "enqueued"]_vars

\* An interrupt request settles: the turn's reservation is resolved, by the host
\* that honours its abort or by the cancelled startup, unless the process ends.
InterruptSettles ==
    \A a \in Agents :
        up = "up" /\ failure = "none" /\ agent[a].status = "interrupted" /\ agent[a].reserved
          ~> ~agent[a].reserved \/ up # "up" \/ failure # "none"

\* shutdown() ends: no startup waits for a run that waits for it.
ShutdownTerminates == stopping = "yes" ~> up # "up" \/ stopping = "stuck"

\* TRANSITIONS in collaboration-contract.ts: the table assertAgentTransition() is
\* written against.  "none" is an agent that has not been created.
Transitions == [none        |-> {"pending"},
                pending     |-> {"running", "failed", "interrupted"},
                running     |-> Settled,
                completed   |-> {"pending", "running", "closed"},
                failed      |-> {"pending", "running", "closed"},
                interrupted |-> {"pending", "running", "closed"},
                closed      |-> {}]

\* An agent's status changes only along that table.  Does not hold: see
\* "Disagreements" in README.md.
StatusFollowsTable ==
    [][\A a \in Agents : agent'[a].status # agent[a].status =>
          agent'[a].status \in Transitions[agent[a].status]]_vars
=============================================================================
