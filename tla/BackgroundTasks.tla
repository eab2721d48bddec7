--------------------------- MODULE BackgroundTasks ---------------------------
(***************************************************************************)
(* The manager of background shell tasks                                     *)
(* (packages/agent/src/harness/env/background-task-manager.ts), on POSIX:    *)
(* launches that wait for the file system and for the shell's configuration, *)
(* adopted foreground processes, two-phase stops of process groups whose     *)
(* leader may exit before its descendants, output logs that close late,      *)
(* wait(), the stall sweep's timer, shutdown() and cleanup().  What follows  *)
(* in promise continuations alone, without a timer or an event, is one step. *)
(***************************************************************************)
EXTENDS Naturals, FiniteSets

CONSTANTS Tasks,         \* bound: the calls of start() and adopt(), and the task of each
          Waiters,       \* bound: the calls of wait()
          MaxTasks,      \* maxTasks, or 0
          MaxShutdowns   \* bound: the shutdowns that are not shared

ASSUME TasksAssumption == IsFiniteSet(Tasks) /\ MaxTasks \in Nat /\ MaxShutdowns \in Nat /\ "none" \notin Tasks

VARIABLES
    call,       \* how far each start() has got
    status,     \* record.status; "none" before there is a record
    tracked,    \* this.tasks
    promoted,   \* the tasks that were adopted
    stopped,    \* stopRequested
    timedOut,   \* timedOut
    timer,      \* the tasks with a timeout timer
    grace,      \* the tasks with a stop grace timer
    pending,    \* pendingExit
    leader,     \* the process of each task
    exit,       \* how it exited
    group,      \* the tasks whose process group has a live member
    log,        \* logStream
    settled,    \* settled
    waits,      \* the task each wait() waits for
    sweep,      \* whether there is a stall sweep timer
    accepting,  \* accepting
    shutting,   \* the shutdown in flight, and whether a cleanup() waits for it
    joined,     \* its tasks
    shutdowns,  \* how many there were
    sealed      \* the launches that were under way when a shutdown began

procs == <<leader, exit, group>>
manager == <<sweep, accepting, shutting, joined, shutdowns, sealed>>
vars == <<call, status, tracked, promoted, stopped, timedOut, timer, grace, pending, procs, log, settled,
          waits, manager>>

Terminal == {"stopped", "timed_out", "succeeded", "failed"}
Active == {t \in tracked : status[t] \notin Terminal}

Init ==
    /\ call = [t \in Tasks |-> "idle"]
    /\ status = [t \in Tasks |-> "none"]
    /\ tracked = {} /\ promoted = {} /\ stopped = {} /\ timedOut = {} /\ timer = {} /\ grace = {}
    /\ pending = [t \in Tasks |-> "none"]
    /\ leader = [t \in Tasks |-> "none"]
    /\ exit = [t \in Tasks |-> "none"]
    /\ group = {}
    /\ log = [t \in Tasks |-> "none"]
    /\ settled = {}
    /\ waits = [w \in Waiters |-> "none"]
    /\ sweep = FALSE /\ accepting = TRUE /\ shutting = "no" /\ joined = {} /\ shutdowns = 0 /\ sealed = {}

-----------------------------------------------------------------------------
(* Launches *)

\* createTask(): the record, its log and, perhaps, its timeout.
CreateTask(t) ==
    /\ status' = [status EXCEPT ![t] = "running"]
    /\ log' = [log EXCEPT ![t] = "open"]
    /\ timer' \in {timer, timer \cup {t}}
    /\ tracked' = tracked \cup {t}
    /\ sweep' = TRUE

\* attach() to a process that runs, or could not be executed and has no pid.
Spawned(t) ==
    \/ /\ leader' = [leader EXCEPT ![t] = "alive"]
       /\ group' = group \cup {t}
       /\ exit' = exit
    \/ /\ leader' = [leader EXCEPT ![t] = "error"]
       /\ exit' = [exit EXCEPT ![t] = "fail"]
       /\ group' = group

LaunchEnds(t) ==
    /\ call' = [call EXCEPT ![t] = "done"]
    /\ UNCHANGED <<stopped, timedOut, grace, pending, settled, waits, accepting, shutting, joined, shutdowns, sealed>>

Refused(t) ==
    /\ LaunchEnds(t)
    /\ UNCHANGED <<status, tracked, promoted, timer, procs, log, sweep>>

\* start(), until it waits for the file system.
Start(t) ==
    /\ call[t] = "idle"
    /\ IF accepting
       THEN /\ call' = [call EXCEPT ![t] = "stat"]
            /\ UNCHANGED <<status, tracked, promoted, stopped, timedOut, timer, grace, pending, procs, log, settled,
                           waits, manager>>
       ELSE Refused(t)

\* The directory has been checked; or there is none, or the call is aborted.
CwdChecked(t) ==
    /\ call[t] = "stat"
    /\ \/ /\ call' = [call EXCEPT ![t] = "shell"]
          /\ UNCHANGED <<status, tracked, promoted, stopped, timedOut, timer, grace, pending, procs, log, settled,
                         waits, manager>>
       \/ Refused(t)

\* Bug: there is no second look at accepting.
AdmissibleUnsealed == MaxTasks = 0 \/ Cardinality(Active) < MaxTasks

Admissible == accepting /\ (MaxTasks = 0 \/ Cardinality(Active) < MaxTasks)

\* The rest of start(): admission and registration are one synchronous section.
Launch(t) ==
    /\ call[t] = "shell" /\ Admissible
    /\ CreateTask(t) /\ Spawned(t) /\ LaunchEnds(t)
    /\ UNCHANGED promoted

\* No shell, an aborted call, a closed or full manager, or a log that cannot be created.
LaunchRefused(t) == call[t] = "shell" /\ Refused(t)

\* spawn() throws: the record is forgotten; its timeout and the sweep are not cleared.
SpawnThrows(t) ==
    /\ call[t] = "shell" /\ Admissible
    /\ status' = [status EXCEPT ![t] = "running"]
    /\ log' = [log EXCEPT ![t] = "closed"]
    /\ timer' \in {timer, timer \cup {t}}
    /\ sweep' = TRUE
    /\ LaunchEnds(t)
    /\ UNCHANGED <<tracked, promoted, procs>>

\* adopt() of a foreground process, which no limit holds up.  If it throws, the process stays
\* with the executor.
Adopt(t) ==
    /\ call[t] = "idle" /\ accepting
    /\ CreateTask(t) /\ LaunchEnds(t)
    /\ promoted' = promoted \cup {t}
    /\ leader' = [leader EXCEPT ![t] = "alive"]
    /\ group' = group \cup {t}
    /\ exit' = exit

-----------------------------------------------------------------------------
(* The end of a task *)

HasPid(t) == leader[t] \in {"alive", "exited", "seen"}

\* Bug: the exit of the leader is taken for the end of its group.
ParkedNever(t) == FALSE

\* finalize() during the grace period: somebody in the process group is still there.
Parked(t) == t \in grace /\ HasPid(t) /\ t \in group

\* The status of a task that ends, from its flags and its process's exit.
Outcome(t) == IF t \in stopped THEN "stopped"
              ELSE IF t \in timedOut THEN "timed_out"
              ELSE IF exit[t] = "ok" THEN "succeeded" ELSE "failed"

\* Bug: who waits is not told.
WokenNever(t) == waits

Woken(t) == [w \in Waiters |-> IF waits[w] = t THEN "none" ELSE waits[w]]

\* stopStallSweepIfIdle()
SweepAfter(t) == sweep /\ Active \ {t} # {}

\* The rest of finalize().  The task settles when its log is closed.
Finished(t) ==
    /\ status' = [status EXCEPT ![t] = Outcome(t)]
    /\ timer' = timer \ {t}
    /\ grace' = grace \ {t}
    /\ sweep' = SweepAfter(t)
    /\ IF log[t] = "closed" THEN settled' = settled \cup {t} /\ log' = log
       ELSE settled' = settled /\ log' = [log EXCEPT ![t] = "ended"]
    /\ waits' = Woken(t)

\* The observer of the process settles, at the end of its pipes or when they have been idle
\* for EXIT_STDIO_GRACE_MS, and calls finalize().
ObserveExit(t) ==
    /\ leader[t] \in {"exited", "error"}
    /\ leader' = [leader EXCEPT ![t] = IF @ = "exited" THEN "seen" ELSE "gone"]
    /\ IF status[t] \in Terminal
       THEN UNCHANGED <<status, timer, grace, pending, log, settled, waits, sweep>>
       ELSE IF Parked(t)
       THEN pending' = [pending EXCEPT ![t] = exit[t]]
            /\ UNCHANGED <<status, timer, grace, log, settled, waits, sweep>>
       ELSE Finished(t) /\ UNCHANGED pending
    /\ UNCHANGED <<call, tracked, promoted, stopped, timedOut, exit, group, accepting, shutting, joined, shutdowns, sealed>>

\* The timeout: the two-phase termination begins.
TimeoutFires(t) ==
    /\ t \in timer
    /\ timer' = timer \ {t}
    /\ IF status[t] \in Terminal THEN UNCHANGED <<status, timedOut, grace>>
       ELSE /\ timedOut' = timedOut \cup {t}
            /\ status' = [status EXCEPT ![t] = "stopping"]
            /\ grace' = grace \cup {t}
    /\ UNCHANGED <<call, tracked, promoted, stopped, pending, procs, log, settled, waits, manager>>

\* stop()
Stop(t) ==
    /\ t \in tracked /\ status[t] = "running"
    /\ stopped' = stopped \cup {t}
    /\ status' = [status EXCEPT ![t] = "stopping"]
    /\ timer' = timer \ {t}
    /\ grace' = grace \cup {t}
    /\ UNCHANGED <<call, tracked, promoted, timedOut, pending, procs, log, settled, waits, manager>>

\* SIGKILL to the process group.
Killed(t) ==
    /\ leader' = [leader EXCEPT ![t] = IF @ = "alive" THEN "exited" ELSE @]
    /\ exit' = [exit EXCEPT ![t] = IF leader[t] = "alive" THEN "fail" ELSE @]
    /\ group' = group \ {t}

\* Bug: a parked exit is not taken up again.
GraceFiresForgetting(t) ==
    /\ t \in grace /\ Killed(t)
    /\ grace' = grace \ {t}
    /\ UNCHANGED <<call, status, tracked, promoted, stopped, timedOut, timer, pending, log, settled, waits, manager>>

\* The grace period is over, and the task has not ended, for finalize() clears the timer.
GraceFires(t) ==
    /\ t \in grace /\ Killed(t)
    /\ IF pending[t] # "none" THEN Finished(t)
       ELSE grace' = grace \ {t} /\ UNCHANGED <<status, timer, log, settled, waits, sweep>>
    /\ UNCHANGED <<call, tracked, promoted, stopped, timedOut, pending, accepting, shutting, joined, shutdowns, sealed>>

\* The process exits, of itself or on SIGTERM; its descendants may live on.
LeaderExits(t) ==
    /\ leader[t] = "alive"
    /\ leader' = [leader EXCEPT ![t] = "exited"]
    /\ \E how \in {"ok", "fail"} : exit' = [exit EXCEPT ![t] = how]
    /\ group' \in {group, group \ {t}}
    /\ UNCHANGED <<call, status, tracked, promoted, stopped, timedOut, timer, grace, pending, log, settled, waits, manager>>

GroupEnds(t) ==
    /\ t \in group /\ leader[t] # "alive"
    /\ group' = group \ {t}
    /\ UNCHANGED <<call, status, tracked, promoted, stopped, timedOut, timer, grace, pending, leader, exit, log, settled,
                   waits, manager>>

\* The log stream closes after its end, or earlier, on an error.
LogCloses(t) ==
    /\ log[t] \in {"open", "ended"}
    /\ log' = [log EXCEPT ![t] = "closed"]
    /\ settled' = IF log[t] = "ended" THEN settled \cup {t} ELSE settled
    /\ UNCHANGED <<call, status, tracked, promoted, stopped, timedOut, timer, grace, pending, procs, waits, manager>>

-----------------------------------------------------------------------------
(* Waiting, the stall sweep and shutting down *)

Wait(w, t) ==
    /\ t \in tracked /\ waits[w] = "none" /\ status[t] \notin Terminal
    /\ waits' = [waits EXCEPT ![w] = t]
    /\ UNCHANGED <<call, status, tracked, promoted, stopped, timedOut, timer, grace, pending, procs, log, settled, manager>>

\* wait() times out or is aborted.
WaitEnds(w) ==
    /\ waits[w] # "none"
    /\ waits' = [waits EXCEPT ![w] = "none"]
    /\ UNCHANGED <<call, status, tracked, promoted, stopped, timedOut, timer, grace, pending, procs, log, settled, manager>>

\* sweepStalls() tells of silent tasks; without active tasks it ends the timer.
SweepFires ==
    /\ sweep /\ Active = {}
    /\ sweep' = FALSE
    /\ UNCHANGED <<call, status, tracked, promoted, stopped, timedOut, timer, grace, pending, procs, log, settled, waits,
                   accepting, shutting, joined, shutdowns, sealed>>

\* cleanup() shares the shutdown in flight.  So does shutdown(), which changes nothing.
CleanupShared ==
    /\ shutting = "shutdown"
    /\ shutting' = "cleanup"
    /\ UNCHANGED <<call, status, tracked, promoted, stopped, timedOut, timer, grace, pending, procs, log, settled, waits,
                   sweep, accepting, joined, shutdowns, sealed>>

\* A new shutdown(), by itself or from cleanup(), seals the manager and stops what runs.
Shutdown(by) ==
    /\ shutting = "no" /\ shutdowns < MaxShutdowns
    /\ shutting' = by
    /\ joined' = tracked
    /\ shutdowns' = shutdowns + 1
    /\ accepting' = FALSE /\ sweep' = FALSE
    /\ LET running == {t \in tracked : status[t] = "running"}
       IN /\ stopped' = stopped \cup running
          /\ status' = [t \in Tasks |-> IF t \in running THEN "stopping" ELSE status[t]]
          /\ grace' = grace \cup running
    /\ timer' = timer \ tracked
    /\ sealed' = sealed \cup {t \in Tasks : call[t] \in {"stat", "shell"}}
    /\ UNCHANGED <<call, tracked, promoted, timedOut, pending, procs, log, settled, waits>>

Remaining == joined \ settled

\* The report is complete, and who asked for a cleanup gets it.
Complete == shutting = "cleanup" /\ Remaining = {}

\* The shutdown ends when all has settled, or at the deadline with what remains; a complete
\* cleanup forgets the tasks and opens the manager again.
ShutdownEnds ==
    /\ shutting # "no"
    /\ shutting' = "no" /\ joined' = {}
    /\ IF Complete THEN tracked' = {} /\ accepting' = TRUE ELSE UNCHANGED <<tracked, accepting>>
    /\ UNCHANGED <<call, status, promoted, stopped, timedOut, timer, grace, pending, procs, log, settled, waits,
                   sweep, shutdowns, sealed>>

Event(t) ==
    \/ Start(t) \/ CwdChecked(t) \/ Launch(t) \/ LaunchRefused(t) \/ SpawnThrows(t) \/ Adopt(t)
    \/ ObserveExit(t) \/ TimeoutFires(t) \/ Stop(t) \/ GraceFires(t)
    \/ LeaderExits(t) \/ GroupEnds(t) \/ LogCloses(t)

Next ==
    \/ \E t \in Tasks : Event(t) \/ \E w \in Waiters : Wait(w, t)
    \/ \E w \in Waiters : WaitEnds(w)
    \/ \E by \in {"shutdown", "cleanup"} : Shutdown(by)
    \/ CleanupShared \/ SweepFires \/ ShutdownEnds

Spec == Init /\ [][Next]_vars

\* Timers fire and logs that are ended close.  The observer waits until the pipes of the
\* process end or are idle for a while, and a descendant that keeps writing makes it wait
\* on: an exit is surely observed only when the process group is dead.  (A descendant that
\* has left the group is assumed to fall silent.)
Fairness ==
    /\ \A t \in Tasks :
          /\ WF_vars(GraceFires(t))
          /\ WF_vars(ObserveExit(t) /\ t \notin group)
          /\ WF_vars(LogCloses(t) /\ log[t] = "ended")
    /\ WF_vars(ShutdownEnds)

FairSpec == Spec /\ Fairness

-----------------------------------------------------------------------------
\* Types: a task in the map has a log and a process, or had one.
TypeOK ==
    /\ call \in [Tasks -> {"idle", "stat", "shell", "done"}]
    /\ status \in [Tasks -> {"none", "running", "stopping"} \cup Terminal]
    /\ tracked \subseteq Tasks /\ promoted \subseteq Tasks /\ stopped \subseteq Tasks /\ timedOut \subseteq Tasks
    /\ timer \subseteq Tasks /\ grace \subseteq Tasks /\ group \subseteq Tasks /\ settled \subseteq Tasks
    /\ pending \in [Tasks -> {"none", "ok", "fail"}]
    /\ leader \in [Tasks -> {"none", "alive", "exited", "seen", "error", "gone"}]
    /\ exit \in [Tasks -> {"none", "ok", "fail"}]
    /\ log \in [Tasks -> {"none", "open", "ended", "closed"}]
    /\ waits \in [Waiters -> Tasks \cup {"none"}]
    /\ sweep \in BOOLEAN /\ accepting \in BOOLEAN
    /\ shutting \in {"no", "shutdown", "cleanup"} /\ joined \subseteq Tasks
    /\ shutdowns \in Nat /\ sealed \subseteq Tasks
    /\ \A t \in tracked : leader[t] # "none" /\ status[t] # "none"

\* Tasks stay tracked until their process and their log have ended: whatever the manager
\* launched and no longer knows of has settled.
NothingForgotten == \A t \in Tasks : leader[t] # "none" /\ t \notin settled => t \in tracked

\* A task that was stopped, or stopped for its timeout, has left no process behind, although
\* its leader may have ended first.
StoppedIsDead == \A t \in Tasks : status[t] \in {"stopped", "timed_out"} => t \notin group

\* The limit counts launches that overtook each other in their awaits.
LimitKept == MaxTasks # 0 => Cardinality(Active \ promoted) <= MaxTasks

\* Nobody waits for a task that has ended.
NoLostWaiter == \A w \in Waiters : waits[w] # "none" => status[waits[w]] \notin Terminal

\* As long as the manager is open, active tasks are watched for silence.
SweepWatches == accepting /\ Active # {} => sweep

\* The manager's map, its limit and its sweep timer follow the tasks, whatever launches,
\* exits, stops and shutdowns overtake each other.
Consistent == TypeOK /\ NothingForgotten /\ LimitKept /\ SweepWatches

\* A launch that was under way when the manager was shut down does not start a task.  Does
\* not hold: see "Disagreements" in README.md.
SealedLaunch == \A t \in sealed : status[t] = "none"

\* A task that is being stopped, or whose process and all its group have ended, is reported
\* as ended and its log closed: neither descendants that outlive the leader and write, nor an
\* exit parked during the grace period, nor a log that closed early hold up a stop for ever.
\* A task that nobody stops may go on as long as a descendant of its process writes.
TasksEnd ==
    \A t \in Tasks :
        (t \in tracked /\ (status[t] = "stopping" \/ (leader[t] \in {"exited", "error"} /\ t \notin group)))
            ~> (t \in settled)
=============================================================================
