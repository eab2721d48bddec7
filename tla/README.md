# easy-pi: a verification development

TLA+ models of the concurrent core of easy-pi, a coding agent written in
TypeScript: the loop that runs an agent and its tools, the scheduler of tool
executions, the queue of file mutations and the background tasks those tools use;
the controller that lets a root agent delegate work to a team of child agents; the
writer leases of stored sessions; and the server that shares a live session among
clients, with the client that connects to it. Each model is translated from the
source; TLC checks it on small instances and TLAPS proves the central safety
properties for every instance.

Paths below are relative to `src/packages/`.

## 1. Inventory

| Component | State | Operations | Talks to |
|---|---|---|---|
| Agent loop (`agent/src/agent-loop.ts`) | context of the run, pending messages, no-progress guard, tool batch | request, respond, execute a batch, poll queues, end | agent (events), provider (stream), tools, resource scheduler (leases) |
| Agent and run scope (`agent/src/agent.ts`, `run-scope.ts`) | transcript, steering and follow-up queues, the active run | prompt, continue, resumeToolCalls, steer, followUp, abort, reset | agent loop, listeners |
| Resource scheduler (`agent/src/resource-scheduler.ts`) | active slots, modes per key, waiters | acquire, release, abort listener | agent loop |
| Collaboration controller (`subagent/src/collaboration-controller.ts`) | control queue, startup queue, loading and active turns, resident sessions | spawn, followup, send, progress, acknowledge, interrupt, close, shutdown | store, session host, mailbox activity |
| Collaboration store (`subagent/src/collaboration-store.ts`) | SQLite row of the team, turn ledger | commit, load and validate, recover, close | controller |
| Mailbox activity (`subagent/src/collaboration-mailbox.ts`) | waiters, user input | wait, notify, close | controller |
| Child session host (`subagent/src/session-host.ts`) | native sessions | create, run, abort, dispose | controller |
| Background task manager (`agent/src/harness/env/`) | tasks, waiters, log writers | start, adopt, stop, wait, shutdown, cleanup | bash tool, operating system |
| File mutation queue (`agent/src/harness/tools/file-mutation-queue.ts`) | registration chain, promise chain per file | withFileMutationQueue | edit and write tools |
| Agent harness and reducer (`agent/src/harness/`) | durable session of a run | turns, save points | session storage, agent loop |
| Session storage (`agent/src/harness/session/`, `session-backends/sqlite-node/`) | session trees, writer leases | append, branch, claim, renew, release | harness |
| Server sessions (`server/src/`) | live sessions, opening sessions, connections | create, attach, detach, prompt, terminate, dispose | client, runtime |
| Client connection (`client/src/connection.ts`) | lifecycle, transports of attempts | connect, send, disconnect | transport, listeners |
| Client session leases (`client/src/client.ts`, `state.ts`) | lease counts, attachments, detachments, reconciliations | acquireSession, release, dispose | connection, server |
| Protocol codec (`protocol/src/`) | decoder buffer | encode, decode | client, server |
| MCP client (`mcp/src/`) | pending requests, transport | request, notify, cancel | MCP servers |
| Code mode (`codemode/src/`) | executions, bridged calls | execute, call, close | tools |
| Permissions, external mutation journal (`permissions/src/`) | append-only journal | authorise, observe, read | write tools, legacy orchestration |
| Task recovery (`coding-agent/src/core/task-recovery.ts`, hooks and `resumeTask()` of `agent-session.ts`) | journal of the tool calls of a step: dispatched, safe to replay, result | begin a step, dispatch, store a result, reconcile, resume | agent |
| Coding-agent application (`coding-agent/src/core/`) | session tree, settings, credentials, extensions | commands, compaction, retries | all of the above |
| Legacy orchestration (`subagent/src/dag-*.ts`, `ledger.ts`, ...) | task graph, event ledger, worktrees | schedule, retry, merge | child processes, git |
| Providers, telemetry, terminal interfaces, web search, evals | - | adapters, rendering, scripts | - |

What is hard in this code. It runs on one thread, so a synchronous function is
atomic; everything else happens at an `await`, in a promise callback, in an abort
listener, or after the process died:

* an abort is dispatched to its listeners one by one, and a listener may release
  a lease and re-enter the scheduler before the next listener runs;
* a check (admission, capacity, "is the turn still mine") precedes an `await`, and
  what it guards comes after it;
* a run and its caller share two message queues, polled at several places;
* tool calls of a batch run in parallel, and one of them may fail the batch;
* a process dies between the dispatch of a tool call and the storing of its result, and
  what it did outside is unknown;
* a team survives its process: turns in flight must be settled on reopening, once;
* a commit may fail while startups and runs are under way;
* a promise chain is the only lock there is, and the key it is kept under is found
  out asynchronously;
* the exit of a process, the end of its log, the death of its descendants and the
  timers that watch it come in any order;
* a process whose heartbeat was late finds its lease with another owner;
* a connection is abandoned while its transport opens, and listeners reconnect in the
  middle of a handler;
* a session loses its last client while another one is being attached to it.

For each component, what makes it correct: the scheduler neither over-commits nor
forgets a waiter; the loop delivers each message once and in order, sends only
well-formed requests, starts nothing after a cancellation, leaves no tool behind and
repeats none that may not be repeated; the team settles each turn once, loses and duplicates no completion, stays
within its limits and can always be reopened; a wait misses nothing; mutations of one
file run one at a time and in order; nothing that runs in the background is
forgotten, and what was stopped is dead; only the holder of a lease writes; a session
has one runtime at a time, which is not disposed of under an operation; the client
counts its leases exactly and leaks no transport. The hazards
behind these statements are listed, each at its line, in `PROJECT.json`.

## 2. Modules

| Module | Models |
|---|---|
| `ResourceScheduler` | `agent/src/resource-scheduler.ts` |
| `AgentLoop` | `agent/src/agent.ts`, `agent-loop.ts`, `run-scope.ts`, `no-progress.ts`; the journal of tool calls of `coding-agent/src/core/task-recovery.ts` and its use by `agent-session.ts` |
| `Collaboration` | `subagent/src/collaboration-controller.ts`, `collaboration-store.ts`, the limits and the transition table of `collaboration-contract.ts` |
| `MailboxActivity` | `subagent/src/collaboration-mailbox.ts` and its two callers |
| `FileLock` | abstract: a lock per file, granted in the order of the calls |
| `FileMutationQueue` | `agent/src/harness/tools/file-mutation-queue.ts`; implements `FileLock` |
| `BackgroundTasks` | `agent/src/harness/env/background-task-manager.ts` and the observer of `node-process-executor.ts`, on POSIX |
| `FencedLog` | abstract: a session with at most one writer, who never comes back |
| `WriterLeases` | `session-backends/sqlite-node/src/sqlite/repo.ts`, `storage/writer-leases.ts`; implements `FencedLog` |
| `LiveSessions` | `server/src/sessions.ts`, the closing of `server.ts`, the runtime of `coding-agent/src/server/harness-service.ts` |
| `ClientConnection` | `client/src/connection.ts` |
| `ClientLeases` | `client/src/client.ts` and the attachments of `state.ts`, composed with `ClientConnection`, which it implements |

`...Proofs` modules hold the theorems of the module they are named after;
`CollaborationProofs` also holds those of `MailboxActivity`, and `ClientLeasesProofs` those
of `ClientConnection`. `MC...` modules are what TLC is run on: they add symmetry sets, and nothing else, except
`MCResourceScheduler` (section 3).

Conventions. Every module has one invariant `Consistent` (in `ClientLeases`, for its own
part, `LeasesConsistent`) that is the conjunction of its type invariant and of the named
facts that make its bookkeeping right; properties that say more stand alone.
Definitions whose comment begins with "Bug:" are faulty variants of the definition
that follows them. No specification uses them; they show that a property would notice
the fault (`PROJECT.json`, "mutants").

### ResourceScheduler

A member of `Calls` is one call of `acquire()`. `activeCount`, `activeKeys` and
`waiters` are the fields of the class, `status` is what became of a call's
promise, `aborted` the set of aborted signals. `Acquire`, `OnAbort` and `Release`
are the methods; the loop of `schedule()` takes one step per iteration
(`ScheduleDrop`, `ScheduleSkip`, `ScheduleStart`, `ScheduleEnd`) with `scan` as its
index, and no other action is enabled while it runs, as in the code. `Abort` only
marks the signal: the listeners of its waiters (`OnAbort`) follow one by one, and
a release by another listener of that signal may come between them.

### AgentLoop

`messages` is the transcript of `Agent.state`, `context` the loop's own copy,
`steering` and `followUps` the two queues, `pc` the `await` the run is at, `batch`
the tool batch with a phase for each call: to be prepared, prepared, waiting for a
lease, leased, dispatched, executing, executed, done. Each action ends at an `await`, so every
action of the caller (`Steer`, `FollowUp`, `Abort`, `Reset`, `ClearAllQueues`), and
`Crash`, may come between two of them. `Throw`, `PrepareThrows` and `CallThrows` are
hooks and listeners that throw; `BatchFails` is the `allSettled` of a parallel batch.

The journal records the calls of one step, the latest response (`step`): which were
dispatched, with a tool that may be replayed (`safe`) or not (`unsafe`), and which have a
stored result (`persisted`). `BeforeDispatch` and `Settle` write it, `RefuseDispatch` is
`dispatch()` throwing: the call is unknown, or its tool is no longer what it was when the
call was first dispatched. After a crash, or a run that failed, the transcript and the
journal are what `ResumeToolCalls` starts from: it is refused while the outcome of a call is
unknown (`Unknown`), supplies the stored results, and executes every other call, also one
that was dispatched before and may be replayed. `Reconcile` is `reconcileTool()`: the user
supplies a result, or has the call executed again. `ReplaySafe` says whether the tools'
contracts allow replay; with both values a tool may change between two dispatches.
`started` is history: the calls that were executed and not released for a retry since.

The lease of a call is a slot here; that slots are handed out fairly and never
lost is what `ResourceScheduler` establishes.

A group of messages queued by one call is one message. Texts, models, usage,
streaming deltas and display state are left out, and so are hooks that replace the
context or the model, nested tool calls (`runToolCall`), tool narrowing, the
setters of queue and execution modes, and tasks that a later prompt archived.

### Collaboration

Persisted state: `agent` (status, turn, completion reservation), `chat` and
`inbox` (pending mails), `turns` (the ledger). In memory: `loading`, `active`,
`lifecycle`, `sessions`, `evicting`, `closing`, `stopping`, `failure`. An operation on the
control queue is synchronous in the code and one action here, its commit
included; `CommitFails` is its failing variant, which poisons the controller as
`persist()` does. The startup of a child is split at its awaits (`LoadBegin`, `Evicted`,
`Created`, `Start`, `Cleanup`), a run at its own (`RunEnds`, `Finish`, `ActiveDone`).
`Crash` may happen anywhere; `Reopen` is the constructor of the store with
validation and recovery. `up = "broken"` would be a team the store refuses to open.

Only the root may spawn, so every child's parent is `Root`. Left out: queries and
their size limits, texts, delegation contracts, tool narrowing, handoffs, the
memory-only store, schema migration, and two live owners of one directory.

One over-approximation: the code lets exactly one control operation run between
`finish()` and `active.delete()`; the model allows any number. The disagreement
`StatusFollowsTable` below needs one.

### MailboxActivity

`waiters` maps an agent to its registered wait; `checks` is the set of queued
microtasks. `ready` is the predicate a wait was given, mail for `wait()` and a
settled turn or new progress for `waitForTurn()`; `Arrive` is a commit that makes it
true, followed by `notify()`, and `Consume` an acknowledgement. A timer runs only when
no microtask is queued, as in Node. Each member of `Waits` is one call of `wait()`. The
specification is `MailboxSpec`, and its actions for `finish()` and `close()` are `FinishWait` and
`CloseWaits`: the names are apart from those of `Collaboration`.

### FileMutationQueue and FileLock

`withFileMutationQueue()` has no lock. A call chains itself to `state.registration`, finds
the canonical path of its file, reads the tail of that file's queue and puts itself
there, awaits the tail it found, runs, and removes the queue if it is still its tail.
`registration`, `previous`, `queues`, `currentQueue`, `released` and `resolved` are those
promises, named by the call that made them; `link` is the file system, in which several
paths may lead to one file. Path resolution and the mutation itself may throw.

`FileLock` says what that is for: a call asks, its file is found, and it enters when
every earlier call is over or has another file. The refinement mapping keeps `count` and
`ticket` (history variables of the order of the calls), shows `key` as `file` and the
program counters as the phases of `FileLock`.

### BackgroundTasks

A member of `Tasks` is one call of `start()` or `adopt()` and the task it makes. `status`,
`stopped`, `timedOut`, `pending` (the parked exit), `settled` are fields of the record;
`leader`, `exit` and `group` the operating system's processes; `log` the stream that
must close before an exit is reported. A launch is split at its two awaits. `Stop`
signals the group and arms the grace timer; the leader's exit during the grace
period is parked; `GraceFires` kills what is left and settles. `Shutdown` seals
admission and stops the tasks it finds, `Cleanup` shares or begins one and opens
admission again if it was complete.

`ObserveExit` is the observer of the child process calling `finalize()`. It settles when the
pipes end, or have been idle for 100 ms after the exit, and every chunk starts that time
anew: a descendant of a task that nobody stops may write, and keep the task running, for
ever. So nothing is assumed of an exit while the process group lives.

Continuations that follow one another in promise callbacks alone, without a timer, an
event or a system call between them, are one step. Left out: the output and its tail,
the log's byte budget, the times of stall notices, Windows.

### WriterLeases and FencedLog

Repositories are processes that share the database; a member of `Storages` is one claim
of the session, with its unique owner id. `row` is the session's row of
`writer_leases`; `fence`, `lost`, `queue` and `due` belong to the storages, `at`, `busy`
and `wait` to the repositories. A transaction is one action, and may fail. The clock
advances at any time, past a heartbeat too: the code does not prevent that a process
is late. `Crash` is a process death, after which only expiry gives the session back.

`FencedLog` is what that is for: a holder, those that have held the session, and a log
only the holder appends to. The mapping shows the owner in the row as the holder, expired
or not: expiry by itself takes nothing away, the next claim does. Fence numbers start again when a session is deleted; that an owner id is
never reused is what keeps an old owner out, and the refinement shows it is enough.

### LiveSessions

One session id. `rt` has a record for each runtime (`connections`, `operationCount`,
`terminal`, `disposing`, `held`...), named by the request that acquired it; `live` and
`opening` are the entries of the two maps; `req` the commands of the connections with the
`await` each is at. `phase` is what `getPhase()` returns, the phase of the last snapshot,
and `running` whether the run really goes on. `Init` has two kinds of states: a server that
has just started, and one whose connections are all attached to an idle session, of an
earlier command (`First`). `Close` and its steps are
`PiServer.close()`, which may fail and be called again. A command that ends with
`maybeDispose()` (a detach, a refused attach) awaits the disposal it began or found, and is
answered with its outcome (`Leave`, `Awaiting`).

Left out: the handshake, `list` and server snapshots, sends that fail, a connection
attached to several ids.

### ClientConnection and ClientLeases

An attempt is a call of `connect()`, named by its sequence number. Its transport opens
late, never, or after the attempt was abandoned. Handlers call listeners
synchronously; what a listener does there (nothing, disconnect, reconnect) is a
parameter of the action. A frame is a hello, a refusal, a message or garbage.

`ClientLeases` extends `ClientConnection`: a step that ends an attempt is one step with
what `#handleConnectionStateChange()` does to the leases (`LeasesFollow`). One number
stands for an acquisition, its lease and its request. A response settles a promise;
what awaits it runs afterwards. Frames of one chunk are handled before any of these
continuations, a later chunk after all of them: `sync` and `FrameMayCome` say so. The
server is seen from outside: it executes a request and answers, with an error too.

The connection may be lost at any moment, also between a response and the continuation that
awaits it: `applyResult()` calls listeners before the promise is resolved, and one chunk may
hold a response and a frame that breaks the protocol. A lease that is granted after such a
loss is an orphan: it captures the generation after the loss and has no reservation. The
history variable `orphaned` is set while such a lease is about to be, or was, granted in
this generation, and ends with the next loss that invalidates a reservation. Two active
leases one of which is exclusive (`ExclusiveAlways`), a count that is wrong and a session
detached under a holder are then possible; the run `client_orphan` shows the first.
`ExclusiveAlone`, `LeasesConsistent` and `DetachSparesOthers` name the exception.

Left out: `createSession()`, the commands of a lease, revisions and subscriptions of
snapshots, and `session_removed`, which no server of this repository sends. (Were it sent
while acquisitions are under way, it would invalidate leases that are then granted,
by the same path as the last disagreement of section 4.)

## 3. Runs

| Run | Question | Instance |
|---|---|---|
| `scheduler` | Do the books balance, is no startable call left waiting, nothing granted after an abort, and does every waiter settle? | 4 calls, 1 key, 1 shared signal, 2 slots |
| `agent` | Are requests well formed, does no tool outlive its batch or start after a cancellation, is none executed again that may not be, and does an aborted run end? | batches of 2 calls over 1 slot in both modes, tools that may, may not or no longer may be replayed, throwing hooks, a checkpoint, 2 crashes, resumption and reconciliation |
| `agent_queues` | Is every queued message delivered once and in order, steering one at a time, and does repetition end? | 2 steering messages, 1 follow-up, 3 tool turns |
| `team` | Are turns settled once, completions kept, limits respected, teams reopenable, and does no turn run on a session being disposed of? | 2 agents with one slot, 3 turns, mailbox of 2, storage faults, 2 processes |
| `team_live` | Do interrupts settle and does shutdown end? | 2 agents, storage faults |
| `mailbox` | Is no wake-up lost, and does a wait report the truth? | 2 agents, 3 waits |
| `file_queue` | Do the promise chains implement a FIFO lock per file, leak nothing, and settle every call? | 3 calls, 2 files |
| `tasks` | Is nothing forgotten, what was stopped dead, every waiter woken, and does what must end? | 2 tasks with a limit of 1, 1 wait, a shutdown and cleanups |
| `leases` | Does only the holder write, is nobody's valid lease taken, and does a closed repository hold none? | 2 repositories, 3 claims, 3 ticks, failing transactions, a log of 2 |
| `sessions` | Is there one runtime at a time, none disposed of under an operation, and does everything settle? | 2 connections, 2 commands to a fresh server or a shared session, 2 attempts to close |
| `client` | Does no transport leak, are leases counted exactly, exclusive ones alone, nobody detached, all but for orphans, and does everything outstanding end? | 2 attempts, 3 acquisitions |
| `client_orphan` | Is an exclusive lease always alone? No: TLC finds the violation (section 4). | 2 attempts, 2 acquisitions |

Why the bounds are enough to be interesting. Four calls on one key and two slots
are the least with which a release meets a dropped, a skipped and a started waiter
in one scan. Two calls per batch let one fail while the other executes, and over one slot
one waits for the other's lease; two crashes give a call that was replayed and is resumed
once more. Two steering
messages are what an overwriting or doubled poll needs. `RepeatLimit` is 2 where the code
has 3, and three tool turns are one more than that. A mailbox of two with two agents is
full when both have a turn in flight, which makes reservations and mails compete; two
processes give a recovery and a second crash-free life. Two agents over one slot evict each
other at every turn; that sessions stay sound with more of both is proved
(`SessionsServeTurns`). Three waits of two
agents give a left-over check, its successor and an unrelated wait. Three mutations are
a tail that is removed between a predecessor and a successor. Two tasks with a limit of
one make launches overtake each other at the second check. Three claims and three ticks
give an expired holder, its successor and a return of the first. Two commands attach two
clients, or attach one and operate, or detach one of two; two attempts to close give a failed one and its
retry. Two attempts and three acquisitions give a cleanup that fails, one that waits for
it, and a lease of the next connection.

Reductions. Safety runs use symmetry sets. Liveness runs use none; there, calls, commands
and acquisitions that are interchangeable are numbers used in their order (`Reqs`,
`Acqs`, and `Canonical` of `MCResourceScheduler`, which also leaves the mode of a request
without a key unset, as nothing reads it). Every behaviour is a renaming of one that
remains, and no property names a particular number.

`CHECK_DEADLOCK FALSE` is set where the bounded caller eventually has no calls left;
`mailbox` needs no such setting.

Fairness. All of it but one conjunct is weak, and most of it asks only that some step of a
group is taken while one is possible; no caller action is fair.

* Continuations of settled promises run, because Node drains its microtask and timer
  queues: `Step` of `AgentLoop` and of `FileMutationQueue`, `Startup`, `RunSettles`,
  `Continuation`, the loop of `schedule()`.
* A provider, a tool and a child session settle once they were told to abort, which is
  their contract (`AbortSignal`); nothing is assumed of a run that nobody aborted. A
  mutation of a file is a read and a write of local files, and ends.
* A holder of a scheduler lease releases it, which the loop does in a `finally` block.
* Grace timers fire, the exit of a process whose group is dead is observed, and ended logs
  close (`BackgroundTasks`); nothing is assumed of a task that nobody stops, nor of the
  observer while a descendant may write. A descendant that has left the process group,
  which no signal of the manager reaches, is assumed to fall silent.
* The runtime and the service behind the server settle, the server answers requests, and
  a transport factory settles (`LiveSessions`, `ClientLeases`). The answers to requests that
  an acquisition awaits are the strong conjunct: no frame comes while continuations of the
  last one are pending, and a holder may repeat a failing `detach()` for ever, so that such
  an answer is held up again and again; it comes nevertheless. The client has no timeout
  of its own: against a server that never answers, an acquisition does wait for ever.

## 4. Disagreements

Eight statements of the documentation, the tests or the tables of the repository that
its code does not satisfy. Each is a formula of the module, marked there. The last has a run
of its own, `client_orphan`, which expects the violation; to see the others, check the
formula alone, in place of the properties of the configuration.

| Formula | Configuration | What happens |
|---|---|---|
| `StatusFollowsTable` | `Collaboration.cfg` | `interruptWithHandoff()` takes `this.active` for "the turn is running" and writes the status without `assertAgentTransition()`. `finish()` has settled the turn one control operation before `active.delete()`, so an interrupt queued right behind it turns a completed agent, and the terminal turn in the ledger, into an interrupted one, while the result mail says completed. The table in `subagent/src/collaboration-contract.ts` (line 975) allows no such transition. |
| `AgentEndIsFinal` | `Agent.cfg` | A listener of `agent_end` that throws makes `runWithLifecycle()` call `handleRunFailure()`, which emits further events and a second `agent_end`. `agent/src/agent.ts` (line 299) and `agent/README.md` call it final. |
| `AttachedIsServed` | `LiveSessions.cfg` | `attach()` does not ask whether the disposal of the session it was given has begun. Of two clients that attach while the runtime is being opened, the first disconnects: its `attach()` starts the disposal, and the second is attached to what is going away. |
| `NoSecondWriter` | `LiveSessions.cfg` | A runtime whose first snapshot fails and that cannot be disposed of is forgotten, although it holds the session; the next attach acquires a second one. `server/README.md` (line 44): failure "is not permission to acquire a second writer". |
| `AbandonedIsReleased` | `LiveSessions.cfg` (`FairSpec`) | At the end of a run `maybeDispose()` is asked before the snapshot that updates the phase, and nothing asks again: a session that resumed by itself and whose clients left stays live, with its lock. |
| `OneStorage` | `WriterLeases.cfg` | `create()` registers a storage beside one of the same id whose session another repository deleted; `open()` then returns the old one, whose writes are refused. |
| `SealedLaunch` | `BackgroundTasks.cfg` | A `start()` that waits for the file system while a `cleanup()` begins and ends is admitted afterwards, into an environment that was just cleaned up. |
| `ExclusiveAlways` | `ClientOrphan.cfg` | A connection lost between an attach response and its continuation advances the generation before the lease is created with it. The lease is not invalidated and was never counted: it stays active beside an exclusive one of the next connection, another's release detaches the session under it, and its own release takes another's reservation. |

The quotations and lines are in `PROJECT.json`, "findings".

One more observation, not a disagreement since nothing promises otherwise: messages
that a run drained and has not injected when `prepareNextTurn` throws are gone. The
model counts them as dropped.

## 5. Proofs

All theorems are about the specification without fairness, for every value of the
constants that satisfies the module's named ASSUME.

`ResourceSchedulerProofs` assumes a positive `maxConcurrency`, finitely many calls, and
null values outside their sets. `IInv` is the conjunction of `TypeOK`,
`QueueMatchesPromises`, the accounts (`SlotsAccounted`, `ModesAccounted`, `KeyExclusion`) and
`NoStartableWaiter`. The parts need each other. That `pop()` may take another lease's entry
is harmless only because all entries of a key are equal, which holds only because leases
exclude each other by mode; that exclusion is kept because the list has one entry per
lease. A waiter behind the index cannot become startable because starting another one
only takes capacity away (`StartIsMonotone`) and splicing shifts the queue consistently
(`SpliceFacts`, `SpliceNoStartable`). `ConsistentBooks`, `NoLostWakeup` and the action property
`NoGrantAfterAbortThm` follow.

`CollaborationProofs`: what is persisted, what is in memory and what the host holds are
written by different operations, and none of the properties is inductive alone. `IInv` has
three parts. `StoreInv`: the row is valid (`PersistedTeamValid`), a reserved turn is unsettled
and unannounced in the ledger, an unreserved one is settled (`BooksAgree`), and the result
mails are exactly the ledger's enqueued ones, one per turn (`MailAgrees`). `FlightInv`: an agent
starts up or runs, never both, for its latest turn (`OneTurn`), and holds its reservation
while it does (`FlightReserved`); only an owner has memory (`MemoryOwned`). `HostInv`: the startup
queue holds each startup once and only its head has begun (`QueueSound`), the place a startup
made for its session stays free, and a session that serves a turn is not being disposed of
(`SessionOf`, `EvictionOwned`). `NoSelfInflictedFailure` is part of the induction: that `finish()`
never meets a full mailbox or a conflicting ledger rests on the reservation that `reserve()`
counted as a mail, and the reservation is released only because `finish()` does not throw.
`BooksConsistent`, `NeverPoisonsItself`, `CompletionsKept`, `LedgerAgrees`, `SessionsServeTurns` and the
action property `RecoveryComplete` follow, for any team, limits and number of crashes.

Its last section is about the waiters of `MailboxActivity`. `MailboxIInv` adds to `MailboxTypeOK`,
`WaiterRegistered` and `NoLostWakeup` that a registered wait is the one its agent asked for
(`WaitsRegistered`) and that a wait has an agent once it was called (`WaitsCalled`): without them
the unconditional `waiters.delete(path)` of `finish()` could not be shown to remove its own
entry. Theorems: `RegistrationSafe`, `WakeupSafe`, `OutcomeSafe`.

`AgentLoopProofs`: `IInv` is built up in layers, each kept by a step given the ones below it.
`Typed` and `Pipelined` say where a run is and how far each call of its batch has come, so that
a slot, a result and a state can be told to belong together. `Numbered` and `StartedOnce` say
that a turn number is used once, so that a call is identified by its turn and its place in
the batch, also by a process that resumes it, and relate what was executed to the journal:
an executed call is recorded as safe or as not, never as both; one recorded as not safe is
never among the calls a batch has yet to execute; a batch belongs to the step the journal
records, and its calls without a result have none stored. That is why a call is executed a
second time only if it may be replayed or the user released it. `Transcript` relates transcript and context, which differ only while a batch
is under way, and says which calls are answered in them: that is why every request has one
result for each call before it. `Skipping` and `Steered` say which of the three polls may still
find something for this turn, with the first one of `continue()` skipped because it drained
the queue itself. `Guarded` says that the row of identical turns the transcript ends with is
the one the guard has counted. `AgentConsistent`, `CancelStopsEffects`, `CallsExecuteOnce`,
`RequestsWellFormed`, `OneSteering` and `RepetitionBounded` follow, for any number of messages,
calls, turns, slots and process deaths.

`FileMutationQueueProofs`: exclusion is not inductive. Needed are the order of the calls
(`TicketsOrder`, `ChainOrder`), that registrations are settled in it (`RegisteredInOrder`), that
what a call awaits is the last live call before it on its file or one behind that
(`AwaitsPredecessor`), and that a resolved promise has nothing live before it
(`NothingBefore`). `ConsistentQueues` and `Refinement` (`Spec => ImplementsFileLock`) follow; the
step mapping of `RegistrationReached` to `Locate` and of `Run` to `Enter` is where the order is
used.

`WriterLeasesProofs`: the holder of the row has its fence and has not released it
(`HolderRegistered`), and storages end with their repository (`EndedTogether`).
`ConsistentLeases`, `NoDispossession` (nobody's unexpired lease is taken) and `Refinement`
(`Spec => ImplementsFencedLog`) follow.

`BackgroundTasksProofs`: a shutdown in flight knows every tracked task (`ShutdownOwns`), a task
being stopped has its grace period ahead or its group is dead (`StopArmed`), and timers and
parked exits belong to tasks with a process (`Parking`, `GroupHasPid`, `Fresh`).
`ConsistentManager`, `StoppedGroups` and `WaitersWoken` follow, for any number of shutdowns.

`LiveSessionsProofs`: `NoReplacement` depends on who is opening a runtime, which depends on where
its command is. `IInv` says that a runtime being opened is the one in `opening`, its command
waits for it and nothing is live (`Opened`); that a command's own runtime is untouched until
the command asks for it, and what it was given has been live (`PlacedAs`); that counts are
exact (`Counted`); and that a runtime that is or could not be disposed of has no operation,
unless the server closes (`Spared`), without which the retry of a failed disposal could take
a runtime away from an operation. `Closes` says what `close()` has made sure of at each of its
awaits: once the connections are gone none comes back, the one runtime that may still become
live is the one it waits for, and a runtime acquired later is rejected. Most actions keep it
for one reason (`QuietStep`: they open no runtime and drop none); the others have a lemma of
their own. `SessionsConsistent` and `CloseLeavesNothing` follow.

`ClientLeasesProofs`: of the connection, `Consistent` is inductive as it stands; the work is in
the handlers, inside which a listener may begin the next attempt (`EndWith`).
`ConnectionConsistent` and the action property `ConnectedWhenResolved` follow. The composed
client implements its connection (`ClientImplementsConnection`), which carries the invariant
over (`ClientConsistent`). `ClientInv` adds the leases: whose request a promise is about, what
is left of a lost connection, that reservations are counted exactly while there is a
connection, and who may still be active while a detachment is under way. `LeaseBooks`,
`ExclusiveLease` and `DetachmentSafe` follow, whenever the connection is lost. The parts about
reservations and activity hold in generations without an orphan, and it is part of the proof
that a generation with one leaves nothing behind: after the loss that ends it every lease of
it is invalid and the count starts from nothing.

`RegistrationSafe` and `ConnectedWhenResolved` are proved and not run: TLC adds nothing to
them.

Every invariant and action property that a passing run checks is a theorem, except `QueueOrderKept` of `AgentLoop`: that
messages are delivered in the order of their queues is said with `SelectSeq`, and what a
filter does to every sequence needs an induction over data that the prover cannot do. Only
model-checked are also all liveness properties (`EveryWaiterSettles`, `AbortSettles`,
`InterruptSettles`, `ShutdownTerminates`, `EveryCallSettles`, `TasksEnd`, `SessionsSettle`,
`ClientSettles`), since liveness under fairness is beyond the prover.

## 6. Not modelled, and the plan

The repository has some 225 000 lines, most of them terminal interfaces, provider
adapters, generated model tables, configuration, packages and text. The modules cover
the parts in which concurrency, failure or persistence make correctness hard to test;
as a share of all lines that is, and will stay, small. The components without a module,
with the reason for each, are in `PROJECT.json`. In order of what they would add:

1. The MCP client (`mcp/src/client.ts`): requests, timeouts and late answers over one
   transport, and `close()` while `connect()` awaits it.
2. The external mutation journal: a crash between authorising, executing and observing;
   of task recovery, archived tasks, nested calls and the file with its lock.
3. Two live owners of one team directory in `Collaboration`; an abstract team in which
   turns are admitted and settled once; composition with `MailboxActivity`.
4. The agent harness and its reducer over session storage; the JSONL backend.
5. The composition of `ClientLeases` with `LiveSessions`, which now see each other as an
   environment that answers.
6. The code mode bridge; credentials refreshed by two processes; the ledger and scheduler
   of the legacy orchestration.

Proofs to come: `QueueOrderKept`, if the order of delivery can be said without a filter; an
abstract team, and `Collaboration` as an implementation of it.

Out of scope: rendering, provider adapters, telemetry, configuration loading,
package installation, prompts and token estimates. They are sequential I/O or
text, and hold no state whose interleavings matter.
