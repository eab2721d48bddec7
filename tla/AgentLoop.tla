------------------------------ MODULE AgentLoop ------------------------------
(***************************************************************************)
(* One agent: its runs, its message queues, the turn loop and the tool       *)
(* batches (packages/agent/src/agent.ts, agent-loop.ts, run-scope.ts), and   *)
(* the journal of tool calls a coding session keeps for it                   *)
(* (packages/coding-agent/src/core/task-recovery.ts, agent-session.ts).      *)
(*                                                                          *)
(* Every await of the loop ends an action, so a caller may queue a message,  *)
(* abort the run, or the process may die, between any two of them.  A hook   *)
(* or a listener that throws ends the run through handleRunFailure().        *)
(*                                                                          *)
(* A queued group of messages is one message.  Texts, models, token usage,   *)
(* streaming deltas, prompts and the state kept for display are left out,    *)
(* and so are hooks that replace the loop's context or model, and nested     *)
(* tool calls.  The journal is that of the task in progress: resuming a task  *)
(* that a new prompt archived is left out.  Its status "needs_reconciliation"  *)
(* is one of the reasons for which a hook may throw or stop a run; the        *)
(* removal of the results of unknown calls from the transcript after a run    *)
(* is part of the resume that follows it.                                     *)
(***************************************************************************)
EXTENDS Naturals, Sequences, FiniteSets

CONSTANTS Prompts, Steers, FollowUps,   \* the messages, by how they are sent
          SteeringMode, FollowUpMode,   \* "all" or "one-at-a-time"
          RepeatLimit,     \* NO_PROGRESS_REPEAT_LIMIT, which is 3
          ToolModes,       \* the execution modes of tools and configuration
          ReplaySafe,      \* bound: whether tools are safe to replay, and stay so
          MaxConcurrent,   \* slots of the execution scheduler
          MaxCalls,        \* bound: tool calls of one assistant message
          MaxTurns,        \* bound: turns after which no tool is called
          Prints,          \* bound: fingerprints of a turn and its results
          Retryable,       \* bound: provider errors that leave a checkpoint
          MayTerminate,    \* bound: whether a tool result may ask to stop
          HooksMayFail,    \* bound: whether hooks and listeners may throw
          MaxCrashes       \* bound on process deaths

ASSUME AgentAssumption ==
    /\ Prompts \cap Steers = {} /\ Prompts \cap FollowUps = {} /\ Steers \cap FollowUps = {}
    /\ {SteeringMode, FollowUpMode} \subseteq {"all", "one-at-a-time"}
    /\ ToolModes \subseteq {"parallel", "sequential"} /\ ToolModes # {}
    /\ ReplaySafe \subseteq BOOLEAN /\ ReplaySafe # {}
    /\ {MaxConcurrent, MaxTurns, RepeatLimit} \subseteq Nat \ {0} /\ {MaxCalls, MaxCrashes} \subseteq Nat
    /\ Retryable \in BOOLEAN /\ MayTerminate \in BOOLEAN /\ HooksMayFail \in BOOLEAN

VARIABLES
    messages,   \* Agent.state.messages
    context,    \* the loop's own copy, the one a request carries
    steering, followUps,   \* the two PendingMessageQueues
    pc,         \* where the run is; "idle" when there is none
    cancelled,  \* RunScope: cancel requested, signal aborted
    base,       \* how much of the transcript precedes the run
    pending,    \* pendingMessages: drained and not injected yet
    skip,       \* skipInitialSteeringPoll
    more,       \* hasMoreToolCalls
    turned,     \* lastCompletedTurn is set
    guard,      \* [key, n]: the no-progress guard
    batch,      \* the tool batch under way
    turn,       \* requests sent so far, which number the assistant messages
    ended,      \* agent_end events of the current run
    sent,       \* history: messages handed to the agent
    dropped,    \* history: messages cleared, or lost with a run or a process
    step,       \* journal: the turn of the response whose calls it records
    started,    \* history: its <<turn, call>> executed, and not left for a retry since
    persisted,  \* journal: <<turn, call>> with a stored result
    safe,       \* journal: <<turn, call>> dispatched, of a tool that may be replayed
    unsafe,     \* journal: <<turn, call>> dispatched, of any other tool
    crashes

queues == <<steering, followUps>>
loop   == <<pending, skip, more, turned, guard>>
journal == <<step, safe, unsafe>>
tools  == <<started, persisted, step, safe, unsafe>>
mail   == <<sent, dropped>>
scope  == <<cancelled, base, ended>>
vars   == <<messages, context, steering, followUps, pc, cancelled, base, pending, skip,
            more, turned, guard, batch, turn, ended, sent, dropped, started, persisted,
            step, safe, unsafe, crashes>>

Messages == Prompts \cup Steers \cup FollowUps

User(m)      == [role |-> "user", msg |-> m]
Result(t, c) == [role |-> "toolResult", turn |-> t, call |-> c]
Assistant(t, n, stop, print, checkpoint) ==
    [role |-> "assistant", turn |-> t, calls |-> n, stop |-> stop, print |-> print,
     checkpoint |-> checkpoint]

\* An assistant message without tool calls.
Note(stop) == Assistant(turn, 0, stop, "none", FALSE)

Users(ms)      == [i \in 1 .. Len(ms) |-> User(ms[i])]
Ids(ms)        == {ms[i] : i \in 1 .. Len(ms)}
LastOf(s)      == s[Len(s)]
NoBatch        == [kind |-> "none", turn |-> 0, mode |-> "none", key |-> <<>>, phase |-> <<>>,
                   terminate |-> {}, launched |-> FALSE]
NoGuard        == [key |-> <<>>, n |-> 0]

\* The k-th of the calls cs, in the order of the assistant message.
Nth(cs, k) == CHOOSE c \in cs : Cardinality({d \in cs : d < c}) = k - 1

\* The results of the calls cs of turn t, in that order.
Results(t, cs) == [k \in 1 .. Cardinality(cs) |-> Result(t, Nth(cs, k))]

Init ==
    /\ messages = <<>> /\ context = <<>>
    /\ steering = <<>> /\ followUps = <<>>
    /\ pc = "idle" /\ cancelled = FALSE /\ base = 0 /\ ended = 0
    /\ pending = <<>> /\ skip = FALSE /\ more = FALSE /\ turned = FALSE /\ guard = NoGuard
    /\ batch = NoBatch
    /\ turn = 0
    /\ sent = {} /\ dropped = {}
    /\ started = {} /\ persisted = {} /\ step = 0 /\ safe = {} /\ unsafe = {}
    /\ crashes = 0

-----------------------------------------------------------------------------
(* The queues.                                                              *)

\* PendingMessageQueue.drain(): what it returns and what it leaves.
Drained(q, mode) == IF mode = "all" \/ q = <<>> THEN q ELSE <<Head(q)>>
Left(q, mode)    == IF mode = "all" \/ q = <<>> THEN <<>> ELSE Tail(q)

\* steer() and followUp() may be called at any time.
Steer(m) ==
    /\ m \in Steers \ sent
    /\ steering' = Append(steering, m)
    /\ sent' = sent \cup {m}
    /\ UNCHANGED <<messages, context, followUps, pc, scope, loop, batch, turn, dropped, tools, crashes>>

FollowUp(m) ==
    /\ m \in FollowUps \ sent
    /\ followUps' = Append(followUps, m)
    /\ sent' = sent \cup {m}
    /\ UNCHANGED <<messages, context, steering, pc, scope, loop, batch, turn, dropped, tools, crashes>>

ClearAllQueues ==
    /\ Ids(steering \o followUps) # {}
    /\ dropped' = dropped \cup Ids(steering \o followUps)
    /\ steering' = <<>> /\ followUps' = <<>>
    /\ UNCHANGED <<messages, context, pc, scope, loop, batch, turn, sent, tools, crashes>>

\* The steering poll of the loop: pendingMessages is replaced.
Poll ==
    /\ pending' = Drained(steering, SteeringMode)
    /\ steering' = Left(steering, SteeringMode)

-----------------------------------------------------------------------------
(* Runs: every entry point refuses while a run is active.                   *)

\* runWithLifecycle(): a new scope; the loop gets a snapshot of the transcript.
Begin(at, prompts, skipPoll, history, from) ==
    /\ pc' = at
    /\ cancelled' = FALSE /\ base' = from /\ ended' = 0
    /\ messages' = history /\ context' = history
    /\ pending' = prompts /\ skip' = skipPoll /\ more' = TRUE
    /\ guard' = NoGuard

\* start() and beginStep() of the journal: no calls yet.
NewJournal(t) == step' = t /\ started' = {} /\ persisted' = {} /\ safe' = {} /\ unsafe' = {}

\* prompt(): refused while a run is active; a new task.
Prompt(m) ==
    /\ pc = "idle" /\ turn < MaxTurns /\ m \in Prompts \ sent
    /\ Begin("prompting", <<m>>, FALSE, messages, Len(messages))
    /\ turned' = FALSE
    /\ sent' = sent \cup {m}
    /\ NewJournal(0)
    /\ UNCHANGED <<queues, batch, turn, dropped, crashes>>

\* A response that failed after completed text may be continued.
Resumable(e) == e.role = "assistant" => e.checkpoint /\ e.stop = "stop"

\* Bug: the new run polls the steering queue again.
SkipPollNot == FALSE

\* continue() has drained the steering queue itself: the run's first poll is skipped.
SkipPoll == TRUE

\* continue() after a finished response runs what is queued, steering first;
ContinueQueued ==
    /\ pc = "idle" /\ turn < MaxTurns /\ messages # <<>> /\ ~Resumable(LastOf(messages))
    /\ \/ /\ steering # <<>>
          /\ Begin("prompting", Drained(steering, SteeringMode), SkipPoll, messages, Len(messages))
          /\ steering' = Left(steering, SteeringMode) /\ UNCHANGED followUps
       \/ /\ steering = <<>> /\ followUps # <<>>
          /\ Begin("prompting", Drained(followUps, FollowUpMode), FALSE, messages, Len(messages))
          /\ followUps' = Left(followUps, FollowUpMode) /\ UNCHANGED steering
    /\ turned' = FALSE
    /\ UNCHANGED <<batch, turn, mail, tools, crashes>>

\* otherwise it runs from the transcript as it is.
Continue ==
    /\ pc = "idle" /\ turn < MaxTurns /\ messages # <<>> /\ Resumable(LastOf(messages))
    /\ Begin("polling", <<>>, FALSE, messages, Len(messages))
    /\ turned' = FALSE
    /\ UNCHANGED <<queues, batch, turn, mail, tools, crashes>>

\* The last assistant message, if only results follow it.
BatchAt(i) ==
    /\ messages[i].role = "assistant"
    /\ \A j \in i + 1 .. Len(messages) : messages[j].role = "toolResult"

\* unknownTools: dispatched, not to be replayed, and without a result.
Unknown == unsafe \ persisted

\* resumeToolCalls() as resumeTask() calls it for the journal's step: refused while
\* a call is unknown; the stored results are supplied, and every other call is
\* executed, also one that was dispatched before and may be replayed.
ResumeToolCalls ==
    /\ pc = "idle" /\ turn <= MaxTurns /\ Unknown = {}
    /\ \E i \in 1 .. Len(messages), mode \in ToolModes :
        LET e == messages[i]
            completed == {c \in 1 .. e.calls : <<e.turn, c>> \in persisted}
            history == SubSeq(messages, 1, i) \o Results(e.turn, completed)
        IN  /\ BatchAt(i)
            /\ e.turn = step /\ e.calls > 0 /\ e.stop = "toolUse"
            /\ Begin("batch", <<>>, FALSE, history, i - 1)
            /\ batch' = [kind |-> "resume", turn |-> e.turn, mode |-> mode, terminate |-> {},
                         key |-> <<e.calls, e.stop, e.print>>, launched |-> completed = 1 .. e.calls,
                         phase |-> [c \in 1 .. e.calls |->
                                        IF c \in completed THEN "completed" ELSE "todo"]]
    /\ turned' = TRUE
    /\ UNCHANGED <<queues, turn, mail, tools, crashes>>

\* reconcileTool(): the user, who has looked at the outside world, supplies the
\* result of an unknown call or has it executed again.
Reconcile ==
    /\ pc = "idle"
    /\ \E x \in Unknown :
          \/ persisted' = persisted \cup {x} /\ UNCHANGED <<started, unsafe>>
          \/ unsafe' = unsafe \ {x} /\ started' = started \ {x} /\ UNCHANGED persisted
    /\ UNCHANGED <<messages, context, queues, pc, scope, loop, batch, turn, mail, step, safe, crashes>>

\* reset()
Reset ==
    /\ pc = "idle" /\ messages # <<>>
    /\ messages' = <<>> /\ context' = <<>>
    /\ steering' = <<>> /\ followUps' = <<>>
    /\ dropped' = sent
    /\ UNCHANGED <<pc, scope, loop, batch, turn, sent, tools, crashes>>

\* abort(): requestCancel() on the scope of the active run.
Abort ==
    /\ pc # "idle" /\ ~cancelled
    /\ cancelled' = TRUE
    /\ UNCHANGED <<messages, context, queues, pc, base, ended, loop, batch, turn, mail, tools, crashes>>

\* The host drops the trailing failure of a run before it retries with continue().
DropFailure ==
    /\ pc = "idle" /\ messages # <<>>
    /\ LET e == LastOf(messages) IN e.role = "assistant" /\ e.stop \in {"error", "aborted"}
    /\ messages' = SubSeq(messages, 1, Len(messages) - 1)
    /\ UNCHANGED <<context, queues, pc, scope, loop, batch, turn, mail, tools, crashes>>

\* What the end of a run leaves in memory.
Idle ==
    /\ pc' = "idle"
    /\ cancelled' = FALSE /\ base' = 0 /\ ended' = 0 /\ context' = <<>>
    /\ pending' = <<>> /\ skip' = FALSE /\ more' = FALSE /\ turned' = FALSE /\ guard' = NoGuard
    /\ batch' = NoBatch

\* The process dies.  A new one restores the transcript, not the queues.
Crash ==
    /\ pc # "idle" /\ crashes < MaxCrashes
    /\ crashes' = crashes + 1
    /\ Idle
    /\ dropped' = dropped \cup Ids(steering \o followUps \o pending)
    /\ steering' = <<>> /\ followUps' = <<>>
    /\ UNCHANGED <<messages, turn, sent, tools>>

-----------------------------------------------------------------------------
(* The turn loop.                                                           *)

\* message_end: the agent appends to its transcript, the loop to its context.
Push(es) ==
    /\ messages' = messages \o es
    /\ context' = context \o es

\* runAgentLoop(): the prompts are emitted,
EmitPrompts ==
    /\ pc = "prompting"
    /\ Push(Users(pending))
    /\ pending' = <<>>
    /\ pc' = "polling"
    /\ UNCHANGED <<queues, scope, skip, more, turned, guard, batch, turn, mail, tools, crashes>>

\* and runLoop() looks for steering that arrived meanwhile.
InitialPoll ==
    /\ pc = "polling"
    /\ IF skip THEN UNCHANGED <<pending, steering>> ELSE Poll
    /\ skip' = FALSE
    /\ pc' = IF turned THEN "preparing" ELSE "injecting"
    /\ UNCHANGED <<messages, context, followUps, scope, more, turned, guard, batch, turn, mail,
                   tools, crashes>>

\* Bug: steering already drained for this turn is replaced.
PollAgainAlways == Poll

\* Steering queued meanwhile is picked up, unless this turn has its messages.
PollAgain == IF pending = <<>> THEN Poll ELSE UNCHANGED <<pending, steering>>

\* Between turns the host may take long (it may compact the session).
PrepareNextTurn ==
    /\ pc = "preparing"
    /\ PollAgain
    /\ pc' = "injecting"
    /\ UNCHANGED <<messages, context, followUps, scope, skip, more, turned, guard, batch, turn,
                   mail, tools, crashes>>

\* The pending messages go into the transcript and the context.
Inject ==
    /\ pc = "injecting"
    /\ Push(Users(pending))
    /\ guard' = IF pending = <<>> THEN guard ELSE NoGuard
    /\ pending' = <<>>
    /\ pc' = "requesting"
    /\ UNCHANGED <<queues, scope, skip, more, turned, batch, turn, mail, tools, crashes>>

\* Bug: the scope looks at its state and not at the cancellation.
CanAdmitActive == TRUE

\* RunScope.canAdmit() of the active run.
CanAdmit == ~cancelled

\* streamAssistantResponse(): preparation may await; the provider is called only if
\* the run can still admit an effect.
Request ==
    /\ pc = "requesting"
    /\ \/ /\ ~CanAdmit
          /\ Push(<<Note("aborted")>>)
          /\ pc' = "ending"
          /\ UNCHANGED turn
       \/ /\ CanAdmit
          /\ turn' = turn + 1
          /\ pc' = "streaming"
          /\ UNCHANGED <<messages, context>>
    /\ UNCHANGED <<queues, scope, loop, batch, mail, tools, crashes>>

NewBatch(kind, mode, n, stop, print) ==
    [kind |-> kind, turn |-> turn, mode |-> mode, key |-> <<n, stop, print>>,
     phase |-> [c \in 1 .. n |-> "todo"], terminate |-> {}, launched |-> FALSE]

\* The response is complete: text, or tool calls, perhaps cut off by the limit.  It
\* began a step, which the journal refuses while a call is unknown.
Respond ==
    /\ pc = "streaming" /\ Unknown = {}
    /\ NewJournal(turn)
    /\ more' = FALSE
    /\ \/ /\ Push(<<Note("stop")>>)
          /\ pc' = "turnEnd"
          /\ UNCHANGED batch
       \/ \E n \in 1 .. MaxCalls, mode \in ToolModes, stop \in {"toolUse", "length"}, print \in Prints :
          /\ turn <= MaxTurns
          /\ Push(<<Assistant(turn, n, stop, print, FALSE)>>)
          /\ batch' = NewBatch("turn", mode, n, stop, print)
          /\ pc' = IF stop = "length" THEN "truncated" ELSE "batch"
    /\ UNCHANGED <<queues, scope, pending, skip, turned, guard, turn, mail, crashes>>

\* The response failed, or the abort reached the provider, and the run ends;
RespondError ==
    /\ pc = "streaming"
    /\ Push(<<Note(IF cancelled THEN "aborted" ELSE "error")>>)
    /\ pc' = "ending"
    /\ UNCHANGED <<queues, scope, loop, batch, turn, mail, tools, crashes>>

\* but what a retryable failure had completed is kept as a checkpoint, and its
\* tool calls are executed
RespondCheckpoint ==
    /\ pc = "streaming" /\ Retryable /\ ~cancelled /\ Unknown = {}
    /\ NewJournal(turn)
    /\ \/ /\ Push(<<Assistant(turn, 0, "stop", "none", TRUE)>>)
          /\ pc' = "recovered"
          /\ UNCHANGED batch
       \/ \E n \in 1 .. MaxCalls, mode \in ToolModes, print \in Prints :
          /\ turn <= MaxTurns
          /\ Push(<<Assistant(turn, n, "toolUse", print, TRUE)>>)
          /\ batch' = NewBatch("checkpoint", mode, n, "toolUse", print)
          /\ pc' = "batch"
    /\ UNCHANGED <<queues, scope, loop, turn, mail, crashes>>

\* before the failure itself ends the run.
Recovered ==
    /\ pc \in {"recovered", "stopped"}
    /\ Push(<<Note(IF cancelled \/ pc = "stopped" THEN "aborted" ELSE "error")>>)
    /\ pc' = "ending"
    /\ UNCHANGED <<queues, scope, loop, batch, turn, mail, tools, crashes>>

\* failToolCallsFromTruncatedMessage(): every call is answered, none is executed.
FailTruncated ==
    /\ pc = "truncated"
    /\ Push(Results(batch.turn, DOMAIN batch.phase))
    /\ persisted' = persisted \cup {<<batch.turn, c>> : c \in DOMAIN batch.phase}
    /\ more' = TRUE
    /\ pc' = "turnEnd"
    /\ UNCHANGED <<queues, scope, pending, skip, turned, guard, batch, turn, mail, started, journal, crashes>>

\* How often this very turn, calls and results, has been taken in a row.
Repeats == IF guard.key = batch.key THEN guard.n + 1 ELSE 1

\* Bug: a repetition is counted from the first repeated turn.
StuckOneLater == more /\ Repeats > RepeatLimit

\* The no-progress guard: a run does not repeat itself for ever.
Stuck == more /\ Repeats >= RepeatLimit

\* turn_end.  The run stops if it is stuck or the host says so; else steering is
\* polled, and without tool calls or steering the run looks for follow-ups.
TurnEnd ==
    /\ pc = "turnEnd"
    /\ turned' = TRUE
    /\ guard' = IF more THEN [key |-> batch.key, n |-> Repeats] ELSE NoGuard
    /\ \/ /\ Stuck
          /\ Push(<<Note("error")>>)
          /\ pc' = "ending"
          /\ UNCHANGED <<steering, pending>>
       \/ /\ ~Stuck
          /\ pc' = "ending"
          /\ UNCHANGED <<messages, context, steering, pending>>
       \/ /\ ~Stuck
          /\ Poll
          /\ pc' = IF more \/ pending' # <<>> THEN "preparing" ELSE "followUps"
          /\ UNCHANGED <<messages, context>>
    /\ batch' = NoBatch
    /\ UNCHANGED <<followUps, scope, skip, more, turn, mail, tools, crashes>>

\* The agent would stop here: follow-ups go around the outer loop once more.
PollFollowUps ==
    /\ pc = "followUps"
    /\ pending' = Drained(followUps, FollowUpMode)
    /\ followUps' = Left(followUps, FollowUpMode)
    /\ more' = TRUE
    /\ pc' = IF pending' # <<>> THEN "preparing" ELSE "ending"
    /\ UNCHANGED <<messages, context, steering, scope, skip, turned, guard, batch, turn, mail,
                   tools, crashes>>

\* agent_end is emitted; its listeners are awaited,
AgentEnd ==
    /\ pc = "ending"
    /\ ended' = ended + 1
    /\ pc' = "ended"
    /\ UNCHANGED <<messages, context, queues, cancelled, base, loop, batch, turn, mail, tools, crashes>>

\* and only then finishRun() lets another run begin.
FinishRun ==
    /\ pc \in {"ended", "failed"}
    /\ Idle
    /\ UNCHANGED <<messages, queues, turn, mail, tools, crashes>>

\* What is being emitted where a listener may throw halfway.
Emitting ==
    CASE pc \in {"prompting", "injecting"} -> Users(pending)
      [] pc = "truncated" -> Results(batch.turn, DOMAIN batch.phase)
      [] OTHER -> <<>>

\* A hook, a listener or the provider call throws into runWithLifecycle().
\* Messages drained from a queue and not emitted yet are gone.
Throw ==
    /\ HooksMayFail
    /\ pc \in {"prompting", "polling", "preparing", "injecting", "requesting", "streaming",
               "truncated", "recovered", "stopped", "turnEnd", "ending", "ended"}
    /\ \E k \in 0 .. Len(Emitting) :
        /\ messages' = messages \o SubSeq(Emitting, 1, k)
        /\ dropped' = IF pc = "truncated" THEN dropped
                      ELSE dropped \cup Ids(SubSeq(pending, k + 1, Len(pending)))
        /\ persisted' = IF pc = "truncated" THEN persisted \cup {<<batch.turn, c>> : c \in 1 .. k}
                        ELSE persisted
    /\ pending' = <<>>
    /\ pc' = "failing"
    /\ UNCHANGED <<context, queues, scope, skip, more, turned, guard, batch, turn, sent, started, journal,
                   crashes>>

\* handleRunFailure(): a failure message and agent_end; listeners may throw again,
\* which rejects the caller's promise.
HandleRunFailure ==
    LET failed == Append(messages, Note(IF cancelled THEN "aborted" ELSE "error")) IN
    /\ pc = "failing"
    /\ \/ messages' = failed /\ ended' = ended + 1
       \/ HooksMayFail /\ messages' \in {messages, failed} /\ UNCHANGED ended
    /\ pc' = "failed"
    /\ UNCHANGED <<context, queues, cancelled, base, loop, batch, turn, mail, tools, crashes>>

-----------------------------------------------------------------------------
(* A tool batch.  A call is "todo", prepared to "immediate" (answered without *)
(* being executed) or "prepared", then admitted ("waiting" for a lease),      *)
(* "leased", "dispatched" once the journal has it, "executing", "executed",   *)
(* and "done" once its result is there; or it is "rejected".  "completed"     *)
(* calls were answered before a resume.                                       *)

In(phases) == {c \in DOMAIN batch.phase : batch.phase[c] \in phases}
Todo       == In({"todo"})
Holding    == In({"leased", "dispatched", "executing"})
Busy       == In({"immediate", "prepared", "waiting", "leased", "dispatched", "executing", "executed"})
To(c, p)   == [batch EXCEPT !.phase[c] = p]

Sequential == batch.mode = "sequential"

\* The pipeline of one call changes nothing but the batch and, where it says so,
\* what is known of the call.
Pipeline == UNCHANGED <<messages, context, queues, pc, scope, loop, turn, mail, persisted, crashes>>

\* prepareToolCall(): calls are looked up, validated and put to beforeToolCall one
\* after the other; in a sequential batch each is executed before the next.
Prepare(c) ==
    /\ pc = "batch" /\ ~batch.launched
    /\ c \in Todo /\ \A d \in Todo : c <= d
    /\ IF Sequential THEN Busy = {} ELSE In({"immediate"}) = {}
    /\ \/ \E stop \in {{}} \cup (IF MayTerminate /\ ~cancelled THEN {{c}} ELSE {}) :
             batch' = [To(c, "immediate") EXCEPT !.terminate = @ \cup stop]
       \/ /\ ~cancelled
          /\ batch' = [To(c, "prepared") EXCEPT !.launched = ~Sequential /\ Todo = {c}]
    /\ Pipeline /\ UNCHANGED <<started, journal>>

\* admitToolCall() allows the call or denies it.
Admit(c) ==
    /\ c \in In({"prepared"})
    /\ Sequential \/ batch.launched
    /\ \E p \in {"waiting", "executed"} : batch' = To(c, p)
    /\ Pipeline /\ UNCHANGED <<started, journal>>

\* Bug: the abort does not wake the waiting call.
AcquireLease(c) ==
    /\ c \in In({"waiting"})
    /\ ~cancelled /\ Cardinality(Holding) < MaxConcurrent /\ batch' = To(c, "leased")
    /\ Pipeline /\ UNCHANGED <<started, journal>>

\* executionScheduler.acquire(): a lease, or nothing once the run is cancelled.
Acquire(c) ==
    /\ c \in In({"waiting"})
    /\ \/ cancelled /\ batch' = To(c, "executed")
       \/ ~cancelled /\ Cardinality(Holding) < MaxConcurrent /\ batch' = To(c, "leased")
    /\ Pipeline /\ UNCHANGED <<started, journal>>

\* Bug: Promise.all: the first rejection ends the batch.
BatchFailsAtOnce == TRUE

\* While calls run in parallel a rejection waits for the others (allSettled).
BatchFails == Sequential \/ ~batch.launched

\* Bug: what the journal knows of an earlier dispatch is overwritten.
JournalAnew(x) ==
    \/ safe' = safe \cup {x} /\ unsafe' = unsafe \ {x}
    \/ safe' = safe \ {x} /\ unsafe' = unsafe \cup {x}

\* dispatch(): the intent is recorded, as safe or not by the tool's contract.  A call
\* that was dispatched before must have been safe then and be so still.
Journal(x) ==
    /\ x \notin unsafe \cup persisted
    /\ \/ TRUE \in ReplaySafe /\ safe' = safe \cup {x} /\ UNCHANGED unsafe
       \/ FALSE \in ReplaySafe /\ x \notin safe /\ unsafe' = unsafe \cup {x} /\ UNCHANGED safe

\* beforeToolDispatch(), unless the run is cancelled by then, awaits the gates and
\* journals the call.
BeforeDispatch(c) ==
    /\ c \in In({"leased"})
    /\ \/ cancelled /\ batch' = To(c, "executed") /\ UNCHANGED journal
       \/ batch' = To(c, "dispatched") /\ Journal(<<batch.turn, c>>) /\ UNCHANGED step
    /\ Pipeline /\ UNCHANGED started

\* It refuses a call that is unknown; and one that was safe when it was dispatched
\* and is not the same any more becomes unknown.
RefuseDispatch(c) ==
    LET x == <<batch.turn, c>> IN
    /\ c \in In({"leased"})
    /\ x \in unsafe \/ (x \in safe /\ FALSE \in ReplaySafe)
    /\ batch' = To(c, "rejected")
    /\ pc' = IF BatchFails THEN "failing" ELSE pc
    /\ safe' = safe \ {x} /\ unsafe' = unsafe \cup {x}
    /\ UNCHANGED <<messages, context, queues, scope, loop, turn, mail, started, persisted, step, crashes>>

\* The run is asked for the last time whether the effect may start.
Dispatch(c) ==
    /\ c \in In({"dispatched"})
    /\ \/ ~CanAdmit /\ batch' = To(c, "executed") /\ UNCHANGED started
       \/ /\ CanAdmit
          /\ batch' = To(c, "executing") /\ started' = started \cup {<<batch.turn, c>>}
    /\ Pipeline /\ UNCHANGED journal

\* tool.execute() settles, with a result or an error, and the lease is released.
ExecuteEnds(c) ==
    /\ c \in In({"executing"})
    /\ batch' = To(c, "executed")
    /\ Pipeline /\ UNCHANGED <<started, journal>>

\* afterToolCall(), persistToolResult() and tool_execution_end.  The journal stores
\* the result, but not that of an unsafe tool that failed with its effect unknown.
\* A sequential batch also emits the result; either loop stops preparing once the
\* run is cancelled.
Settle(c) ==
    /\ c \in In({"immediate", "executed"})
    /\ \E stop \in {{}} \cup (IF MayTerminate /\ c \in In({"executed"}) THEN {{c}} ELSE {}) :
          batch' = [To(c, "done") EXCEPT !.terminate = @ \cup stop,
                                         !.launched = @ \/ cancelled \/ Todo = {}]
    /\ \/ persisted' = persisted \cup {<<batch.turn, c>>}
       \/ <<batch.turn, c>> \in started \cap Unknown /\ UNCHANGED persisted
    /\ messages' = IF Sequential THEN Append(messages, Result(batch.turn, c)) ELSE messages
    /\ UNCHANGED <<context, queues, pc, scope, loop, turn, mail, started, journal, crashes>>

\* A gate, a listener or the store throws for one call.
CallThrows(c) ==
    /\ HooksMayFail
    /\ c \in In({"immediate", "leased", "dispatched", "executing", "executed"})
          \cup (IF Sequential \/ batch.launched THEN In({"prepared"}) ELSE {})
    /\ batch' = To(c, "rejected")
    /\ pc' = IF BatchFails THEN "failing" ELSE pc
    /\ UNCHANGED <<messages, context, queues, scope, loop, turn, mail, tools, crashes>>

\* A listener of tool_execution_start throws.
PrepareThrows ==
    /\ HooksMayFail /\ pc = "batch" /\ ~batch.launched
    /\ Busy \subseteq In({"prepared"}) /\ (Sequential => Busy = {})
    /\ pc' = "failing"
    /\ UNCHANGED <<messages, context, queues, scope, loop, batch, turn, mail, tools, crashes>>

\* Bug: recovered results stay where they are.
OrderedAsFinished(done, completed) == SubSeq(messages, base + 2, Len(messages))

\* runAgentLoopResumeTools(): recovered and new results in the order of the calls.
Ordered(done, completed) == Results(batch.turn, done \cup completed)

\* All calls have settled.  One rejection throws and no result is emitted; else the
\* results go, in call order, into transcript and context.  The batch asks the loop
\* to stop only if each of its results does.
BatchEnds ==
    LET done == In({"done"})
        completed == In({"completed"})
        emitted == IF Sequential THEN messages ELSE messages \o Results(batch.turn, done)
        stop == done # {} /\ done \subseteq batch.terminate
    IN  /\ pc = "batch" /\ batch.launched /\ Busy = {}
        /\ \/ /\ In({"rejected"}) # {}
              /\ pc' = "failing"
              /\ UNCHANGED <<messages, context, more>>
           \/ /\ In({"rejected"}) = {} /\ HooksMayFail /\ ~Sequential
              /\ \E k \in 0 .. Cardinality(done) : messages' = SubSeq(emitted, 1, Len(messages) + k)
              /\ pc' = "failing"
              /\ UNCHANGED <<context, more>>
           \/ /\ In({"rejected"}) = {} /\ batch.kind = "turn"
              /\ messages' = emitted /\ context' = context \o Results(batch.turn, done)
              /\ more' = ~stop /\ pc' = "turnEnd"
           \/ /\ In({"rejected"}) = {} /\ batch.kind = "checkpoint"
              /\ messages' = emitted /\ context' = context \o Results(batch.turn, done)
              /\ pc' = IF stop THEN "stopped" ELSE "recovered"
              /\ UNCHANGED more
           \/ /\ In({"rejected"}) = {} /\ batch.kind = "resume"
              /\ messages' = SubSeq(messages, 1, base + 1) \o Ordered(done, completed)
              /\ context' = SubSeq(context, 1, base + 1) \o Results(batch.turn, done \cup completed)
              /\ pc' \in {"ending"} \cup (IF cancelled \/ stop THEN {} ELSE {"polling"})
              /\ UNCHANGED more
        /\ UNCHANGED <<queues, scope, pending, skip, turned, guard, batch, turn, mail, tools, crashes>>

-----------------------------------------------------------------------------
Caller ==
    \/ \E m \in Messages : Prompt(m) \/ Steer(m) \/ FollowUp(m)
    \/ ClearAllQueues \/ Reset \/ Abort
    \/ ContinueQueued \/ Continue \/ ResumeToolCalls \/ DropFailure \/ Reconcile

Call(c) ==
    \/ Prepare(c) \/ Admit(c) \/ Acquire(c)
    \/ BeforeDispatch(c) \/ RefuseDispatch(c) \/ Dispatch(c) \/ Settle(c)

Step ==
    \/ EmitPrompts \/ InitialPoll \/ PrepareNextTurn \/ Inject \/ Request
    \/ Recovered \/ FailTruncated \/ TurnEnd \/ PollFollowUps
    \/ AgentEnd \/ FinishRun \/ HandleRunFailure \/ BatchEnds
    \/ \E c \in 1 .. MaxCalls : Call(c)

Response == Respond \/ RespondError \/ RespondCheckpoint

Next ==
    \/ Caller \/ Step \/ Response \/ Throw \/ PrepareThrows \/ Crash
    \/ \E c \in 1 .. MaxCalls : ExecuteEnds(c) \/ CallThrows(c)

Spec == Init /\ [][Next]_vars

\* Continuations run and hooks settle; a provider and a tool settle once they see
\* the abort, and need not settle otherwise.
FairSpec ==
    /\ Spec
    /\ WF_vars(Step)
    /\ WF_vars(cancelled /\ Response)
    /\ \A c \in 1 .. MaxCalls : WF_vars(cancelled /\ ExecuteEnds(c))

-----------------------------------------------------------------------------
Entries ==
    [role : {"user"}, msg : Messages]
      \cup [role : {"toolResult"}, turn : Nat, call : 1 .. MaxCalls]
      \cup [role : {"assistant"}, turn : Nat, calls : 0 .. MaxCalls, print : Prints \cup {"none"},
            stop : {"stop", "toolUse", "length", "error", "aborted"}, checkpoint : BOOLEAN]

Phases == {"todo", "immediate", "prepared", "waiting", "leased", "dispatched", "executing",
           "executed", "done", "rejected", "completed"}

\* Types: stop reasons, phases and program points are the ones the loop tests for,
\* and the no-progress counter of runLoop() stays within its limit.
TypeOK ==
    /\ messages \in Seq(Entries) /\ context \in Seq(Entries)
    /\ steering \in Seq(Steers) /\ followUps \in Seq(FollowUps) /\ pending \in Seq(Messages)
    /\ pc \in {"idle", "prompting", "polling", "preparing", "injecting", "requesting", "streaming",
               "truncated", "batch", "recovered", "stopped", "turnEnd", "followUps", "ending",
               "ended", "failing", "failed"}
    /\ cancelled \in BOOLEAN /\ skip \in BOOLEAN /\ more \in BOOLEAN /\ turned \in BOOLEAN
    /\ {base, turn, step, ended, crashes} \subseteq Nat
    /\ guard.n \in 0 .. RepeatLimit
    /\ \A c \in DOMAIN batch.phase : batch.phase[c] \in Phases
    /\ sent \subseteq Messages /\ dropped \subseteq sent
    /\ started \cup persisted \cup safe \cup unsafe \subseteq Nat \X (1 .. MaxCalls)

\* The results of the assistant message at i follow it, all of them, in call order.
Answered(i) ==
    /\ i + messages[i].calls <= Len(messages)
    /\ \A c \in 1 .. messages[i].calls : messages[i + c] = Result(messages[i].turn, c)

\* What the provider is sent is what the user sees: the loop's context and the
\* agent's transcript, two copies kept by different code, agree at every request,
\* and every tool call of the run is answered, in order, whatever was cancelled,
\* rejected, truncated or recovered before.
RequestWellFormed ==
    pc = "streaming" =>
        /\ context = messages
        /\ \A i \in base + 1 .. Len(messages) :
              messages[i].role = "assistant" /\ messages[i].stop \in {"toolUse", "length"} => Answered(i)

\* Steering (follow-up) messages, in the order in which the model gets them.
Log(entries, queue, kind) ==
    SelectSeq([i \in 1 .. Len(entries) |-> IF entries[i].role = "user" THEN entries[i].msg ELSE "none"]
                  \o pending \o queue,
              LAMBDA m : m \in kind)

\* A queued message is delivered once and in order: from queue to pending to
\* transcript it never disappears, repeats or overtakes, unless it is cleared, or
\* drained by a run whose hook then throws, or dies with the process.
QueueOrderKept ==
    [][dropped' = dropped =>
          /\ \E new \in {<<>>} \cup {<<m>> : m \in Steers} :
                Log(messages, steering, Steers)' = Log(messages, steering, Steers) \o new
          /\ \E new \in {<<>>} \cup {<<m>> : m \in FollowUps} :
                Log(messages, followUps, FollowUps)' = Log(messages, followUps, FollowUps) \o new]_vars

\* Messages of kind given to the run since its last assistant message.
Fresh(kind) ==
    {i \in base + 1 .. Len(messages) :
        /\ messages[i].role = "user" /\ messages[i].msg \in kind
        /\ \A j \in i + 1 .. Len(messages) : messages[j].role # "assistant"}

\* One at a time: a turn of the model never gets two steering messages, however
\* many of the loop's three polls and of continue()'s drains precede it.
OneSteeringPerTurn ==
    SteeringMode = "one-at-a-time" /\ pc # "idle" => Cardinality(Fresh(Steers)) <= 1

\* A run does not leave work behind: when the batch is over, by its results, a
\* rejection or a throwing hook, no call of it is executing or will be.
NoOrphanEffects ==
    pc \notin {"batch"} => Busy \subseteq In({"prepared"}) /\ (Sequential \/ batch.launched => Busy = {})

\* The run's bookkeeping agrees at every await: types, and no tool call outlives
\* the batch of executeToolCalls() that started it.
Consistent == TypeOK /\ NoOrphanEffects

\* Once the run is cancelled no provider request and no tool starts, although every
\* check is followed by an await before the next.
NoEffectAfterCancel ==
    [][cancelled => started' \subseteq started /\ (pc' = "streaming" => pc = "streaming")]_vars

\* A tool call is executed a second time, by the run that resumes its batch after
\* a failure or the death of the process, only if its tool was and still is one that
\* may be replayed, or the user asked for a retry; a call with a stored result, or of
\* a step that the journal no longer records, never is.
ExecutedOnce ==
    [][\A c \in 1 .. MaxCalls :
          LET x == <<batch'.turn, c>> IN
          c \in In({"executing"})' /\ c \notin In({"executing"}) =>
              /\ batch'.turn = step /\ x \notin persisted
              /\ x \in started => x \in safe \ unsafe]_vars

\* The message at j asks for the same tool calls as the one at i.
Alike(i, j) ==
    /\ messages[j].role = "assistant" /\ messages[j].calls > 0
    /\ messages[j].calls = messages[i].calls /\ messages[j].stop = messages[i].stop
    /\ messages[j].print = messages[i].print

\* A run makes at most RepeatLimit identical tool turns in a row.
NoEndlessRepetition ==
    pc # "idle" => \A i, k \in base + 2 .. Len(messages) :
        messages[i].role = "assistant" /\ (\A j \in i .. k : messages[j].role = "toolResult" \/ Alike(i, j))
            => Cardinality({j \in i .. k : messages[j].role = "assistant"}) <= RepeatLimit

\* An aborted run ends, if the provider and the tools honour the abort.
AbortSettles == cancelled ~> pc = "idle"

\* "agent_end is the final emitted event for a run": there is one per run.  Does
\* not hold: see "Disagreements" in README.md.
AgentEndIsFinal == ended <= 1
=============================================================================
