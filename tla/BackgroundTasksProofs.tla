------------------------- MODULE BackgroundTasksProofs -------------------------
(***************************************************************************)
(* Proofs about BackgroundTasks, for any number of tasks, waits and          *)
(* shutdowns.                                                                *)
(***************************************************************************)
EXTENDS BackgroundTasks, FiniteSetTheorems, TLAPS

\* While a shutdown is in flight, the manager is closed and the shutdown knows every task.
ShutdownOwns == shutting # "no" => ~accepting /\ tracked \subseteq joined

\* A launch that has not ended has neither a record nor a process.
Fresh ==
    \A t \in Tasks :
        /\ call[t] # "done" => status[t] = "none"
        /\ status[t] = "none" => leader[t] = "none" /\ t \notin stopped \cup timedOut

\* A task that is being stopped has its grace period ahead, or its group is dead.
StopArmed == \A t \in Tasks : t \in stopped \cup timedOut /\ status[t] \notin Terminal => t \in grace \/ t \notin group

\* A grace timer, a timeout and a parked exit are of a task that has a process and has not ended.
Parking == \A t \in Tasks : /\ t \in grace => status[t] \in {"running", "stopping"}
                            /\ t \in timer => status[t] # "none"
                            /\ pending[t] # "none" => leader[t] # "none"

\* Processes have a pid, and a process that could not be executed has none.
GroupHasPid == \A t \in group : HasPid(t)

IInv == /\ TypeOK /\ ShutdownOwns /\ Fresh /\ StopArmed /\ Parking /\ GroupHasPid
        /\ NothingForgotten /\ StoppedIsDead /\ NoLostWaiter /\ SweepWatches

\* TypeOK, without the Boolean variables.
Domains ==
    /\ call \in [Tasks -> {"idle", "stat", "shell", "done"}]
    /\ status \in [Tasks -> {"none", "running", "stopping"} \cup Terminal]
    /\ tracked \subseteq Tasks /\ promoted \subseteq Tasks /\ stopped \subseteq Tasks /\ timedOut \subseteq Tasks
    /\ timer \subseteq Tasks /\ grace \subseteq Tasks /\ group \subseteq Tasks /\ settled \subseteq Tasks
    /\ pending \in [Tasks -> {"none", "ok", "fail"}]
    /\ leader \in [Tasks -> {"none", "alive", "exited", "seen", "error", "gone"}]
    /\ exit \in [Tasks -> {"none", "ok", "fail"}]
    /\ log \in [Tasks -> {"none", "open", "ended", "closed"}]
    /\ waits \in [Waiters -> Tasks \cup {"none"}]
    /\ shutting \in {"no", "shutdown", "cleanup"} /\ joined \subseteq Tasks
    /\ shutdowns \in Nat /\ sealed \subseteq Tasks
    /\ \A t \in tracked : leader[t] # "none" /\ status[t] # "none"

Flags == sweep \in BOOLEAN /\ accepting \in BOOLEAN

\* TypeOK falls into the domains of the functions and sets, and the Boolean flags.
LEMMA TypeParts == (TypeOK <=> Domains /\ Flags) /\ (TypeOK' <=> Domains' /\ Flags')
BY DEF TypeOK, Domains, Flags

\* The initial state satisfies the invariant.
LEMMA InitIInv == Init => IInv
<1> SUFFICES ASSUME Init PROVE IInv
  OBVIOUS
<1>1. Domains
  BY DEF Init, Domains, Terminal
<1>2. Flags
  BY DEF Init, Flags
<1>3. ShutdownOwns /\ Fresh /\ StopArmed /\ Parking /\ GroupHasPid
  BY DEF Init, ShutdownOwns, Fresh, StopArmed, Parking, GroupHasPid
<1>4. NothingForgotten /\ StoppedIsDead /\ NoLostWaiter /\ SweepWatches
  BY DEF Init, NothingForgotten, StoppedIsDead, NoLostWaiter, SweepWatches, Active
<1> QED BY <1>1, <1>2, <1>3, <1>4, TypeParts DEF IInv

\* A step that only moves a launch, or refuses it.
LEMMA RefusedStep ==
    ASSUME IInv, NEW t \in Tasks, status[t] = "none",
           call' = [call EXCEPT ![t] = "stat"] \/ call' = [call EXCEPT ![t] = "shell"] \/ call' = [call EXCEPT ![t] = "done"],
           UNCHANGED <<status, tracked, promoted, stopped, timedOut, timer, grace, pending, procs, log, settled,
                       waits, manager>>
    PROVE  IInv'
<1> USE DEF IInv, procs, manager
<1>1. Domains'
  BY TypeParts DEF Domains
<1>2. Flags'
  BY TypeParts DEF Flags
<1>3. Fresh'
  BY TypeParts DEF Fresh, Domains
<1>4. ShutdownOwns' /\ StopArmed' /\ Parking' /\ GroupHasPid' /\ NothingForgotten' /\ StoppedIsDead' /\ NoLostWaiter' /\ SweepWatches'
  BY DEF ShutdownOwns, StopArmed, Parking, GroupHasPid, HasPid, NothingForgotten, StoppedIsDead, NoLostWaiter, SweepWatches, Active
<1> QED BY <1>1, <1>2, <1>3, <1>4, TypeParts

\* A task begins, with a process or with one that could not be executed.
LEMMA LaunchStep ==
    ASSUME IInv, NEW t \in Tasks, Launch(t) \/ Adopt(t)
    PROVE  IInv'
<1> USE DEF IInv
<1>1. /\ accepting /\ call[t] # "done" /\ CreateTask(t) /\ LaunchEnds(t)
      /\ \/ leader' = [leader EXCEPT ![t] = "alive"] /\ group' = group \cup {t} /\ exit' = exit
         \/ leader' = [leader EXCEPT ![t] = "error"] /\ group' = group /\ exit' = [exit EXCEPT ![t] = "fail"]
      /\ promoted' \subseteq promoted \cup {t}
  BY TypeParts DEF Launch, Adopt, Admissible, Spawned, Domains
<1>2. status[t] = "none" /\ leader[t] = "none" /\ t \notin stopped \cup timedOut /\ t \notin group
  BY <1>1, TypeParts DEF Fresh, GroupHasPid, HasPid, Domains
<1>3. shutting = "no"
  BY <1>1 DEF ShutdownOwns
<1>4. Domains'
  BY <1>1, TypeParts DEF CreateTask, LaunchEnds, Domains
<1>5. Flags'
  BY <1>1, TypeParts DEF CreateTask, LaunchEnds, Flags
<1>6. ShutdownOwns' /\ SweepWatches'
  BY <1>1, <1>3 DEF CreateTask, LaunchEnds, ShutdownOwns, SweepWatches
<1>7. Fresh' /\ StopArmed' /\ Parking'
  BY <1>1, <1>2, TypeParts DEF CreateTask, LaunchEnds, Fresh, StopArmed, Parking, Domains
<1>8. GroupHasPid' /\ NothingForgotten'
  BY <1>1, <1>2, TypeParts DEF CreateTask, LaunchEnds, GroupHasPid, HasPid, NothingForgotten, Domains
<1>9. StoppedIsDead' /\ NoLostWaiter'
  BY <1>1, <1>2, TypeParts, TasksAssumption DEF CreateTask, LaunchEnds, StoppedIsDead, NoLostWaiter, Terminal, Domains
<1> QED BY <1>4, <1>5, <1>6, <1>7, <1>8, <1>9, TypeParts

\* spawn() throws.
LEMMA SpawnThrowsStep ==
    ASSUME IInv, NEW t \in Tasks, SpawnThrows(t)
    PROVE  IInv'
<1> USE DEF IInv, SpawnThrows, LaunchEnds, procs
<1>1. status[t] = "none" /\ leader[t] = "none" /\ t \notin stopped \cup timedOut /\ t \notin tracked
  BY TypeParts DEF Fresh, Domains
<1>2. Domains'
  BY <1>1, TypeParts DEF Domains
<1>3. Flags'
  BY TypeParts DEF Flags
<1>4. ShutdownOwns' /\ SweepWatches'
  BY DEF ShutdownOwns, SweepWatches
<1>5. Fresh' /\ StopArmed' /\ Parking'
  BY <1>1, TypeParts DEF Fresh, StopArmed, Parking, Domains
<1>6. GroupHasPid' /\ NothingForgotten'
  BY DEF GroupHasPid, HasPid, NothingForgotten
<1>7. StoppedIsDead' /\ NoLostWaiter'
  BY <1>1, TypeParts, TasksAssumption DEF StoppedIsDead, NoLostWaiter, Terminal, Domains
<1> QED BY <1>2, <1>3, <1>4, <1>5, <1>6, <1>7, TypeParts

\* stop(), the timeout and shutdown() begin the two-phase termination of running tasks.
LEMMA TerminationStep ==
    ASSUME IInv, NEW S \in SUBSET Tasks, \A t \in S : status[t] \in {"running", "stopping"},
           status' = [t \in Tasks |-> IF t \in S THEN "stopping" ELSE status[t]],
           grace' = grace \cup S, timer' \subseteq timer,
           (stopped' = stopped \cup S /\ timedOut' = timedOut) \/ (timedOut' = timedOut \cup S /\ stopped' = stopped),
           UNCHANGED <<call, tracked, promoted, pending, procs, log, settled, waits>>,
           \/ UNCHANGED manager
           \/ accepting' = FALSE /\ sweep' = FALSE /\ joined' = tracked /\ shutting' \in {"shutdown", "cleanup"}
              /\ shutdowns' \in Nat /\ sealed' \subseteq Tasks
    PROVE  IInv'
<1> USE DEF IInv, procs, manager
<1>1. Domains'
  BY TypeParts DEF Domains
<1>2. Flags'
  BY TypeParts DEF Flags
<1>3. ShutdownOwns' /\ NothingForgotten' /\ GroupHasPid'
  BY DEF ShutdownOwns, NothingForgotten, GroupHasPid, HasPid
<1>4. Fresh' /\ StopArmed' /\ Parking'
  BY TypeParts DEF Fresh, StopArmed, Parking, Domains, Terminal
<1>5. StoppedIsDead' /\ NoLostWaiter'
  BY TypeParts, TasksAssumption DEF StoppedIsDead, NoLostWaiter, Domains, Terminal
<1>6. Active' = Active
  BY TypeParts DEF Active, Domains, Terminal
<1>7. SweepWatches'
  BY <1>6 DEF SweepWatches
<1> QED BY <1>1, <1>2, <1>3, <1>4, <1>5, <1>7, TypeParts

\* finalize() to the end: the task is no longer active, and if it was stopped its group is dead.
LEMMA FinishedStep ==
    ASSUME IInv, NEW t \in Tasks, Finished(t), status[t] \notin Terminal, leader[t] # "none",
           group' \subseteq group, t \in stopped \cup timedOut => t \notin group',
           leader' \in [Tasks -> {"none", "alive", "exited", "seen", "error", "gone"}],
           \A u \in Tasks : (leader[u] = "none" <=> leader'[u] = "none"),
           \A u \in group' : leader'[u] \in {"alive", "exited", "seen"},
           exit' \in [Tasks -> {"none", "ok", "fail"}],
           UNCHANGED <<call, tracked, promoted, stopped, timedOut, pending, accepting, shutting, joined, shutdowns, sealed>>
    PROVE  IInv'
<1> USE DEF IInv
<1>0. Outcome(t) \in Terminal /\ (Outcome(t) \in {"stopped", "timed_out"} => t \in stopped \cup timedOut)
  BY DEF Outcome, Terminal
<1>1. Domains'
  <2>1. status' \in [Tasks -> {"none", "running", "stopping"} \cup Terminal] /\ timer' \subseteq Tasks /\ grace' \subseteq Tasks
    BY <1>0, TypeParts DEF Finished, Domains
  <2>2. log' \in [Tasks -> {"none", "open", "ended", "closed"}] /\ settled' \subseteq Tasks
    BY TypeParts DEF Finished, Domains
  <2>3. waits' \in [Waiters -> Tasks \cup {"none"}]
    BY TypeParts DEF Finished, Woken, Domains
  <2>4. \A u \in tracked : leader'[u] # "none" /\ status'[u] # "none"
    BY <1>0, TypeParts DEF Finished, Domains, Terminal
  <2> QED BY <2>1, <2>2, <2>3, <2>4, TypeParts DEF Domains
<1>2. Flags'
  BY TypeParts DEF Finished, SweepAfter, Flags
<1>3. ShutdownOwns' /\ NothingForgotten' /\ GroupHasPid'
  BY TypeParts DEF Finished, ShutdownOwns, NothingForgotten, GroupHasPid, HasPid, Domains
<1>4. Fresh' /\ StopArmed' /\ Parking'
  BY <1>0, TypeParts DEF Finished, Fresh, StopArmed, Parking, Domains, Terminal
<1>5. StoppedIsDead'
  BY <1>0, TypeParts DEF Finished, StoppedIsDead, Domains
<1>6. NoLostWaiter'
  BY TypeParts, TasksAssumption DEF Finished, Woken, NoLostWaiter, Domains
<1>7. Active' = Active \ {t}
  BY <1>0, TypeParts DEF Finished, Active, Domains
<1>8. SweepWatches'
  BY <1>7 DEF Finished, SweepAfter, SweepWatches
<1> QED BY <1>1, <1>2, <1>3, <1>4, <1>5, <1>6, <1>8, TypeParts

\* A step of the processes, of the log or of the manager's timers that leaves the tasks' status.
LEMMA QuietStep ==
    ASSUME IInv,
           group' \subseteq group, settled \subseteq settled', settled' \subseteq Tasks,
           leader' \in [Tasks -> {"none", "alive", "exited", "seen", "error", "gone"}],
           \A u \in Tasks : (leader[u] = "none" <=> leader'[u] = "none"),
           \A u \in group' : leader'[u] \in {"alive", "exited", "seen"},
           exit' \in [Tasks -> {"none", "ok", "fail"}],
           pending' \in [Tasks -> {"none", "ok", "fail"}],
           \A u \in Tasks : pending'[u] # "none" => leader'[u] # "none",
           log' \in [Tasks -> {"none", "open", "ended", "closed"}],
           timer' \subseteq timer, grace' \subseteq grace, \A u \in Tasks : u \in grace \ grace' => u \notin group',
           UNCHANGED <<call, status, tracked, promoted, stopped, timedOut, waits, manager>>
    PROVE  IInv'
<1> USE DEF IInv, manager
<1>1. Domains'
  BY TypeParts DEF Domains
<1>2. Flags'
  BY TypeParts DEF Flags
<1>3. ShutdownOwns' /\ NothingForgotten' /\ GroupHasPid'
  BY TypeParts DEF ShutdownOwns, NothingForgotten, GroupHasPid, HasPid, Domains
<1>4. Fresh' /\ StopArmed' /\ Parking'
  BY TypeParts DEF Fresh, StopArmed, Parking, Domains
<1>5. StoppedIsDead' /\ NoLostWaiter' /\ SweepWatches'
  BY DEF StoppedIsDead, NoLostWaiter, SweepWatches, Active
<1> QED BY <1>1, <1>2, <1>3, <1>4, <1>5, TypeParts

\* Exits, observed and unobserved, timers and logs.
LEMMA ProcessStep ==
    ASSUME IInv, NEW t \in Tasks,
           ObserveExit(t) \/ GraceFires(t) \/ LeaderExits(t) \/ GroupEnds(t) \/ LogCloses(t)
    PROVE  IInv'
<1> USE DEF IInv
<1>0. Domains /\ GroupHasPid
  BY TypeParts
<1>1. CASE ObserveExit(t)
  <2>1. /\ leader' \in [Tasks -> {"none", "alive", "exited", "seen", "error", "gone"}]
        /\ \A u \in Tasks : (leader[u] = "none" <=> leader'[u] = "none")
        /\ \A u \in group : leader'[u] \in {"alive", "exited", "seen"}
        /\ group' = group /\ exit' = exit /\ leader[t] \in {"exited", "error"}
    BY <1>0, <1>1 DEF ObserveExit, Domains, GroupHasPid, HasPid
  <2>2. CASE status[t] \notin Terminal /\ ~Parked(t)
    <3>1. Finished(t) /\ UNCHANGED <<call, tracked, promoted, stopped, timedOut, pending, accepting, shutting, joined, shutdowns, sealed>>
      BY <1>1, <2>2, Zenon DEF ObserveExit
    <3>2. t \in stopped \cup timedOut => t \notin group
      BY <2>2 DEF Parked, StopArmed, Parking, GroupHasPid
    <3> QED BY <1>0, <2>1, <2>2, <3>1, <3>2, FinishedStep DEF Domains
  <2>3. CASE ~(status[t] \notin Terminal /\ ~Parked(t))
    <3>1. UNCHANGED <<call, status, tracked, promoted, stopped, timedOut, timer, grace, log, settled, waits, manager>>
      BY <1>1, <2>3, Zenon DEF ObserveExit, manager
    <3>2. pending' \in [Tasks -> {"none", "ok", "fail"}]
      BY <1>0, <1>1, <2>3 DEF ObserveExit, Domains
    <3>3. \A u \in Tasks : pending'[u] # "none" => leader'[u] # "none"
      BY <1>0, <1>1, <2>1, <2>3 DEF ObserveExit, Parking, Domains
    <3> QED BY <1>0, <2>1, <3>1, <3>2, <3>3, QuietStep DEF Domains
  <2> QED BY <2>2, <2>3
<1>2. CASE GraceFires(t)
  <2>1. /\ leader' \in [Tasks -> {"none", "alive", "exited", "seen", "error", "gone"}]
        /\ \A u \in Tasks : (leader[u] = "none" <=> leader'[u] = "none")
        /\ \A u \in group' : leader'[u] \in {"alive", "exited", "seen"}
        /\ exit' \in [Tasks -> {"none", "ok", "fail"}]
        /\ group' = group \ {t}
    BY <1>0, <1>2 DEF GraceFires, Killed, Domains, GroupHasPid, HasPid
  <2>2. CASE pending[t] = "none"
    <3>1. UNCHANGED <<call, status, tracked, promoted, stopped, timedOut, timer, pending, log, settled, waits, manager>>
          /\ grace' = grace \ {t}
      BY <1>2, <2>2, Zenon DEF GraceFires, manager
    <3> QED BY <1>0, <2>1, <3>1, QuietStep DEF Domains, Parking
  <2>3. CASE pending[t] # "none"
    <3>1. Finished(t) /\ UNCHANGED <<call, tracked, promoted, stopped, timedOut, pending, accepting, shutting, joined, shutdowns, sealed>>
      BY <1>2, <2>3, Zenon DEF GraceFires
    <3>2. status[t] \notin Terminal /\ leader[t] # "none"
      BY <1>2, <2>3 DEF GraceFires, Parking, Terminal
    <3> QED BY <2>1, <3>1, <3>2, FinishedStep
  <2> QED BY <2>2, <2>3
<1>3. CASE LeaderExits(t)
  BY <1>0, <1>3, QuietStep DEF LeaderExits, Parking, Domains, GroupHasPid, HasPid
<1>4. CASE GroupEnds(t)
  BY <1>0, <1>4, QuietStep DEF GroupEnds, Parking, Domains, GroupHasPid, HasPid
<1>5. CASE LogCloses(t)
  BY <1>0, <1>5, QuietStep DEF LogCloses, Parking, procs, Domains, GroupHasPid, HasPid
<1> QED BY <1>1, <1>2, <1>3, <1>4, <1>5

\* wait() and the stall sweep.
LEMMA WaitStep ==
    ASSUME IInv,
           (\E w \in Waiters : WaitEnds(w) \/ \E t \in Tasks : Wait(w, t)) \/ SweepFires
    PROVE  IInv'
<1> USE DEF IInv, procs, manager
<1>1. UNCHANGED <<call, status, tracked, promoted, stopped, timedOut, timer, grace, pending, procs, log, settled,
                  accepting, shutting, joined, shutdowns, sealed>>
  BY DEF WaitEnds, Wait, SweepFires
<1>2. Domains'
  BY <1>1, TypeParts DEF WaitEnds, Wait, SweepFires, Domains
<1>3. Flags'
  BY <1>1, TypeParts DEF WaitEnds, Wait, SweepFires, Flags
<1>4. NoLostWaiter'
  BY <1>1, TypeParts DEF WaitEnds, Wait, SweepFires, NoLostWaiter, Domains
<1>5. SweepWatches'
  BY <1>1 DEF WaitEnds, Wait, SweepFires, SweepWatches, Active
<1>6. ShutdownOwns' /\ Fresh' /\ StopArmed' /\ Parking' /\ GroupHasPid' /\ NothingForgotten' /\ StoppedIsDead'
  BY <1>1 DEF ShutdownOwns, Fresh, StopArmed, Parking, GroupHasPid, HasPid, NothingForgotten, StoppedIsDead
<1> QED BY <1>2, <1>3, <1>4, <1>5, <1>6, TypeParts

\* A shutdown is joined by a cleanup(), or ends.
LEMMA ShutdownEndStep ==
    ASSUME IInv, CleanupShared \/ ShutdownEnds
    PROVE  IInv'
<1> USE DEF IInv, procs
<1>1. UNCHANGED <<call, status, promoted, stopped, timedOut, timer, grace, pending, procs, log, settled, waits,
                  sweep, shutdowns, sealed>>
  BY DEF CleanupShared, ShutdownEnds
<1>2. tracked' = tracked \/ (tracked' = {} /\ tracked \subseteq settled)
  BY DEF CleanupShared, ShutdownEnds, Complete, Remaining, ShutdownOwns
<1>3. Domains'
  BY <1>1, <1>2, TypeParts DEF CleanupShared, ShutdownEnds, Domains
<1>4. Flags'
  BY <1>1, TypeParts DEF CleanupShared, ShutdownEnds, Flags
<1>5. NothingForgotten'
  BY <1>1, <1>2 DEF NothingForgotten
<1>6. ShutdownOwns' /\ SweepWatches'
  BY <1>1 DEF CleanupShared, ShutdownEnds, ShutdownOwns, SweepWatches, Active
<1>7. Fresh' /\ StopArmed' /\ Parking' /\ GroupHasPid' /\ StoppedIsDead' /\ NoLostWaiter'
  BY <1>1 DEF Fresh, StopArmed, Parking, GroupHasPid, HasPid, StoppedIsDead, NoLostWaiter
<1> QED BY <1>3, <1>4, <1>5, <1>6, <1>7, TypeParts

\* Every step keeps the invariant.
LEMMA StepIInv == IInv /\ [Next]_vars => IInv'
<1> SUFFICES ASSUME IInv, [Next]_vars PROVE IInv'
  OBVIOUS
<1>0. Domains
  BY TypeParts DEF IInv
<1>1. CASE UNCHANGED vars
  <2>1. Domains' /\ Flags'
    BY <1>1, TypeParts DEF vars, procs, manager, IInv, Domains, Flags
  <2> QED BY <1>1, <2>1, TypeParts DEF vars, procs, manager, IInv, ShutdownOwns, Fresh, StopArmed, Parking, GroupHasPid, HasPid,
              NothingForgotten, StoppedIsDead, NoLostWaiter, SweepWatches, Active
<1>2. ASSUME NEW t \in Tasks, Start(t) \/ CwdChecked(t) \/ LaunchRefused(t) PROVE IInv'
  <2>1. status[t] = "none"
    BY <1>2 DEF Start, CwdChecked, LaunchRefused, IInv, Fresh
  <2>2. /\ call' = [call EXCEPT ![t] = "stat"] \/ call' = [call EXCEPT ![t] = "shell"] \/ call' = [call EXCEPT ![t] = "done"]
        /\ UNCHANGED <<status, tracked, promoted, stopped, timedOut, timer, grace, pending, procs, log, settled, waits, manager>>
    BY <1>2, Zenon DEF Start, CwdChecked, LaunchRefused, Refused, LaunchEnds, manager
  <2> QED BY <2>1, <2>2, RefusedStep
<1>3. ASSUME NEW t \in Tasks, Stop(t) PROVE IInv'
  <2>1. status' = [u \in Tasks |-> IF u \in {t} THEN "stopping" ELSE status[u]]
    BY <1>0, <1>3 DEF Stop, Domains
  <2> QED BY <1>3, <2>1, TerminationStep DEF Stop
<1>4. ASSUME NEW t \in Tasks, TimeoutFires(t) PROVE IInv'
  <2>1. CASE status[t] \in Terminal
    <3>1. IInv /\ Domains /\ GroupHasPid /\ Parking
      BY <1>0 DEF IInv
    <3> QED BY <1>4, <2>1, <3>1, QuietStep DEF TimeoutFires, procs, Domains, GroupHasPid, HasPid, Parking
  <2>2. CASE status[t] \in {"running", "stopping"}
    <3>1. status' = [u \in Tasks |-> IF u \in {t} THEN "stopping" ELSE status[u]]
      BY <1>0, <1>4, <2>2 DEF TimeoutFires, Domains, Terminal
    <3>2. status[t] \notin Terminal
      BY <2>2 DEF Terminal
    <3> QED BY <1>4, <2>2, <3>1, <3>2, TerminationStep DEF TimeoutFires
  <2>3. CASE status[t] = "none"
    BY <1>4, <2>3 DEF TimeoutFires, IInv, Parking
  <2> QED BY <1>0, <2>1, <2>2, <2>3 DEF Domains
<1>5. ASSUME NEW by \in {"shutdown", "cleanup"}, Shutdown(by) PROVE IInv'
  <2> DEFINE S == {t \in tracked : status[t] = "running"}
  <2>1. S \in SUBSET Tasks /\ \A t \in S : status[t] \in {"running", "stopping"}
    BY <1>0 DEF Domains
  <2>2. /\ status' = [t \in Tasks |-> IF t \in S THEN "stopping" ELSE status[t]]
        /\ grace' = grace \cup S /\ stopped' = stopped \cup S /\ timedOut' = timedOut /\ timer' \subseteq timer
    BY <1>5 DEF Shutdown
  <2>3. /\ UNCHANGED <<call, tracked, promoted, pending, procs, log, settled, waits>>
        /\ joined' = tracked /\ shutting' \in {"shutdown", "cleanup"}
    BY <1>5 DEF Shutdown
  <2>4. accepting' = FALSE /\ sweep' = FALSE
    BY <1>5, Zenon DEF Shutdown
  <2>5. shutdowns' \in Nat /\ sealed' \subseteq Tasks
    BY <1>0, <1>5 DEF Shutdown, Domains
  <2> HIDE DEF S
  <2> QED BY <2>1, <2>2, <2>3, <2>4, <2>5, TerminationStep
<1> QED BY <1>1, <1>2, <1>3, <1>4, <1>5, LaunchStep, SpawnThrowsStep, ProcessStep, WaitStep, ShutdownEndStep DEF Next, Event

\* The invariant holds throughout.
LEMMA Invariance == Spec => []IInv
BY InitIInv, StepIInv, PTL DEF Spec

-----------------------------------------------------------------------------
(* What the manager promises *)

\* The state stays in its domains, and a task in the map has, or had, a process.
THEOREM TypeCorrect == Spec => []TypeOK
<1>1. IInv => TypeOK
  BY DEF IInv
<1> QED BY <1>1, Invariance, PTL

\* Whatever the manager launched and no longer knows of has settled, after any number of
\* shutdowns and cleanups and any launches that were under way.
THEOREM TrackedUntilSettled == Spec => []NothingForgotten
<1>1. IInv => NothingForgotten
  BY DEF IInv
<1> QED BY <1>1, Invariance, PTL

\* A stopped or timed-out task leaves no process of its group behind.
THEOREM StoppedGroups == Spec => []StoppedIsDead
<1>1. IInv => StoppedIsDead
  BY DEF IInv
<1> QED BY <1>1, Invariance, PTL

\* Nobody waits for a task that has ended.
THEOREM WaitersWoken == Spec => []NoLostWaiter
<1>1. IInv => NoLostWaiter
  BY DEF IInv
<1> QED BY <1>1, Invariance, PTL

\* While the manager is open, active tasks are watched by the stall sweep.
THEOREM Watched == Spec => []SweepWatches
<1>1. IInv => SweepWatches
  BY DEF IInv
<1> QED BY <1>1, Invariance, PTL

\* Only an admitted launch adds to the tasks the limit counts.
LEMMA CountedShrinks ==
    ASSUME IInv, [Next]_vars, \A t \in Tasks : ~Launch(t)
    PROVE  Active' \ promoted' \subseteq Active \ promoted
<1>0. Domains
  BY TypeParts DEF IInv
<1>1. SUFFICES ASSUME NEW u \in Tasks, u \in tracked', status'[u] \notin Terminal, u \notin promoted'
               PROVE  u \in tracked /\ status[u] \notin Terminal /\ u \notin promoted
  <2>1. Domains'
    BY StepIInv, TypeParts DEF IInv
  <2> QED BY <1>1, <2>1 DEF Active, Domains
<1>2. ASSUME NEW t \in Tasks, Adopt(t) PROVE u \in tracked /\ status[u] \notin Terminal /\ u \notin promoted
  BY <1>0, <1>1, <1>2 DEF Adopt, CreateTask, Domains
<1>3. ASSUME NEW t \in Tasks, ObserveExit(t) \/ GraceFires(t) PROVE u \in tracked /\ status[u] \notin Terminal /\ u \notin promoted
  <2>1. tracked' = tracked /\ promoted' = promoted
    BY <1>3 DEF ObserveExit, GraceFires
  <2>2. status' = status \/ status' = [status EXCEPT ![t] = Outcome(t)]
    BY <1>3 DEF ObserveExit, GraceFires, Finished
  <2>3. Outcome(t) \in Terminal
    BY DEF Outcome, Terminal
  <2> QED BY <1>0, <1>1, <2>1, <2>2, <2>3 DEF Domains
<1>4. ASSUME NEW t \in Tasks, Stop(t) \/ TimeoutFires(t) \/ SpawnThrows(t)
      PROVE u \in tracked /\ status[u] \notin Terminal /\ u \notin promoted
  <2>1. t \notin tracked \/ status[t] \notin Terminal \/ status' = status
    BY <1>4, <1>0 DEF Stop, TimeoutFires, SpawnThrows, IInv, Fresh, Terminal, Domains
  <2>2. tracked' = tracked /\ promoted' = promoted /\ (status' = status \/ \A v \in Tasks : v # t => status'[v] = status[v])
    BY <1>4, <1>0 DEF Stop, TimeoutFires, SpawnThrows, Domains
  <2> QED BY <1>1, <2>1, <2>2
<1>5. ASSUME NEW by \in {"shutdown", "cleanup"}, Shutdown(by) PROVE u \in tracked /\ status[u] \notin Terminal /\ u \notin promoted
  BY <1>1, <1>5 DEF Shutdown, Terminal
<1>6. ASSUME \/ UNCHANGED vars
             \/ \E t \in Tasks : \/ Start(t) \/ CwdChecked(t) \/ LaunchRefused(t) \/ LeaderExits(t) \/ GroupEnds(t) \/ LogCloses(t)
                                 \/ \E w \in Waiters : Wait(w, t)
             \/ \E w \in Waiters : WaitEnds(w)
             \/ CleanupShared \/ SweepFires
      PROVE  u \in tracked /\ status[u] \notin Terminal /\ u \notin promoted
  <2>1. UNCHANGED <<status, tracked, promoted>>
    BY <1>6 DEF vars, Start, CwdChecked, LaunchRefused, Refused, LeaderExits, GroupEnds, LogCloses, Wait, WaitEnds, CleanupShared, SweepFires
  <2> QED BY <1>1, <2>1
<1>7. ASSUME ShutdownEnds PROVE u \in tracked /\ status[u] \notin Terminal /\ u \notin promoted
  BY <1>1, <1>7 DEF ShutdownEnds
<1> QED BY <1>2, <1>3, <1>4, <1>5, <1>6, <1>7 DEF Next, Event

\* The limit on tasks that were started holds, whatever launches overtake each other in
\* their awaits.
THEOREM Limited == Spec => []LimitKept
<1>1. Init => LimitKept
  <2> SUFFICES ASSUME Init PROVE LimitKept
    OBVIOUS
  <2>1. Active \ promoted = {}
    BY DEF Init, Active
  <2> QED BY <2>1, FS_EmptySet, TasksAssumption DEF LimitKept
<1>2. IInv /\ LimitKept /\ [Next]_vars => LimitKept'
  <2> SUFFICES ASSUME IInv, LimitKept, [Next]_vars, MaxTasks # 0
               PROVE  Cardinality(Active' \ promoted') <= MaxTasks
    BY DEF LimitKept
  <2>0. Active \subseteq Tasks /\ IsFiniteSet(Active) /\ IsFiniteSet(Active \ promoted)
    <3>1. Active \subseteq Tasks
      BY TypeParts DEF IInv, Domains, Active
    <3> QED BY <3>1, FS_Subset, TasksAssumption
  <2>1. ASSUME NEW t \in Tasks, Launch(t) PROVE Cardinality(Active' \ promoted') <= MaxTasks
    <3>1. Cardinality(Active) < MaxTasks
      BY <2>1 DEF Launch, Admissible
    <3>2. Cardinality(Active \ promoted) <= Cardinality(Active)
      BY <2>0, FS_Subset
    <3>3. Active' \ promoted' \subseteq (Active \ promoted) \cup {t}
      BY <2>1, TypeParts DEF Launch, CreateTask, Active, IInv, Domains
    <3>4. IsFiniteSet((Active \ promoted) \cup {t})
          /\ Cardinality((Active \ promoted) \cup {t}) <= Cardinality(Active \ promoted) + 1
      <4> DEFINE A == Active \ promoted
      <4> HIDE DEF A
      <4>1. IsFiniteSet(A)
        BY <2>0 DEF A
      <4>2. IsFiniteSet(A \cup {t}) /\ Cardinality(A \cup {t}) = IF t \in A THEN Cardinality(A) ELSE Cardinality(A) + 1
        BY <4>1, FS_AddElement
      <4>3. Cardinality(A) \in Nat
        BY <4>1, FS_CardinalityType
      <4>4. IsFiniteSet(A \cup {t}) /\ Cardinality(A \cup {t}) <= Cardinality(A) + 1
        BY <4>2, <4>3
      <4> QED BY <4>4 DEF A
    <3>5. Cardinality(Active' \ promoted') <= Cardinality((Active \ promoted) \cup {t})
          /\ IsFiniteSet(Active' \ promoted')
      BY <3>3, <3>4, FS_Subset
    <3> QED BY <2>0, <3>1, <3>2, <3>4, <3>5, FS_CardinalityType, TasksAssumption
  <2>2. ASSUME \A t \in Tasks : ~Launch(t) PROVE Cardinality(Active' \ promoted') <= MaxTasks
    <3>1. Active' \ promoted' \subseteq Active \ promoted
      BY <2>2, CountedShrinks
    <3>2. Cardinality(Active' \ promoted') <= Cardinality(Active \ promoted) /\ IsFiniteSet(Active' \ promoted')
      BY <2>0, <3>1, FS_Subset
    <3> QED BY <2>0, <3>2, FS_CardinalityType, TasksAssumption DEF LimitKept
  <2> QED BY <2>1, <2>2
<1> QED BY <1>1, <1>2, Invariance, PTL DEF Spec

\* The manager's map, limit and sweep timer follow the tasks, for any number of tasks,
\* waiters and shutdowns.
THEOREM ConsistentManager == Spec => []Consistent
BY TypeCorrect, TrackedUntilSettled, Watched, Limited, PTL DEF Consistent
=============================================================================
