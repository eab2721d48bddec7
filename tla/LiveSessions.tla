----------------------------- MODULE LiveSessions -----------------------------
(***************************************************************************)
(* The live session of one session id in packages/server/src/sessions.ts:    *)
(* several connections share one runtime, which is acquired by the first     *)
(* attach and disposed of when nobody needs it any more.  Around it are the  *)
(* parts of server.ts that connect, disconnect and close, and the runtime of *)
(* packages/coding-agent/src/server/harness-service.ts, whose getPhase() is  *)
(* the phase of its last snapshot.                                           *)
(*                                                                          *)
(* Every await is a step of its own: what a continuation does is decided by  *)
(* the state it finds, not by the one it left.  A runtime is named by the    *)
(* request that acquired it, and 0 is an absent map entry.  The server has   *)
(* just started, or its connections share an idle session since long ago.    *)
(***************************************************************************)
EXTENDS Naturals, FiniteSets

CONSTANTS Conns,    \* connections that have completed their handshake
          MaxReqs,  \* bound: the commands they send
          MaxCloses \* bound: the attempts to close the server

ASSUME SessionsAssumption == "none" \notin Conns /\ MaxReqs \in Nat /\ MaxCloses \in Nat

\* The commands, numbered as they arrive.
Reqs == 1 .. MaxReqs

\* The runtimes: one for each command, and one of an earlier command.
First == MaxReqs + 1
Runtimes == Reqs \cup {First}

VARIABLES
    stage,    \* connection -> "ready", "closing" (its transport is closed) or "closed"
    attached, \* the connections whose sessionIds have the session
    live,     \* liveSessions.get(id)
    opening,  \* openingSessions.get(id)
    rt,       \* the runtimes, with the fields of LiveSession
    req,      \* the commands
    server    \* how far close() is; the record of its last attempt

vars == <<stage, attached, live, opening, rt, req, server>>

NoRuntime == [state |-> "none", held |-> FALSE, connections |-> {}, operationCount |-> 0,
              terminal |-> FALSE, ending |-> FALSE, disposing |-> "no", disposeFailed |-> FALSE,
              running |-> FALSE, phase |-> FALSE, refresh |-> FALSE]

Init ==
    /\ stage = [c \in Conns |-> "ready"] /\ opening = 0
    /\ \/ attached = {} /\ live = 0 /\ rt = [i \in Runtimes |-> NoRuntime]
       \/ /\ attached = Conns /\ live = First
          /\ rt = [i \in Runtimes |-> IF i = First
                                      THEN [NoRuntime EXCEPT !.state = "live", !.held = TRUE, !.connections = Conns]
                                      ELSE NoRuntime]
    /\ req = [r \in Reqs |-> [pc |-> "idle", conn |-> "none", rt |-> 0]]
    /\ server = [at |-> "open", awaits |-> 0, listenerFailed |-> FALSE, calls |-> 0]

Closing == server.at # "open"

\* Request r goes on at pc, or is answered (with its result or an error).
Go(r, pc) == [req EXCEPT ![r].pc = pc]
Answered == [pc |-> "answered", conn |-> "none", rt |-> 0]
Answer(r) == [req EXCEPT ![r] = Answered]

\* dispose(): the promise is made, its first step is a microtask.
Dispose(t) == IF t.disposing = "no" THEN [t EXCEPT !.disposing = "queued"] ELSE t

\* maybeDispose(): nobody is attached, nothing is under way, and the runtime is idle.
MaybeDispose(t) ==
    IF ~Closing /\ t.connections = {} /\ t.operationCount = 0 /\ (t.terminal \/ ~t.phase)
    THEN Dispose(t) ELSE t

\* A command that ends with maybeDispose() of runtime i, which made it t, awaits a
\* disposal that is under way, and is answered with its error.
Leave(r, c, i, t) ==
    [req EXCEPT ![r] = IF t.disposing \in {"queued", "called"} THEN [pc |-> "leaving", conn |-> c, rt |-> i]
                       ELSE Answered]

-----------------------------------------------------------------------------
(* acquire() and create() *)

\* Bug: a runtime being disposed of, or that could not be, is replaced at once.
AcquireReplacing(r, c) ==
    /\ opening = 0
    /\ opening' = r
    /\ rt' = [rt EXCEPT ![r].state = "acquiring"]
    /\ req' = [req EXCEPT ![r] = [pc |-> "creating", conn |-> c, rt |-> r]]
    /\ live' = live

\* One iteration of the loop in acquire().
AcquireStep(r, c) ==
    \/ /\ live # 0 /\ (rt[live].disposing # "no" \/ rt[live].disposeFailed)
       /\ rt' = [rt EXCEPT ![live] = Dispose(@)]
       /\ req' = [req EXCEPT ![r] = [pc |-> "retry", conn |-> c, rt |-> live]]
       /\ UNCHANGED <<live, opening>>
    \/ /\ live # 0 /\ rt[live].disposing = "no" /\ ~rt[live].disposeFailed
       /\ req' = [req EXCEPT ![r] = IF rt[live].terminal THEN Answered
                                    ELSE [pc |-> "attach", conn |-> c, rt |-> live]]
       /\ UNCHANGED <<live, opening, rt>>
    \/ /\ live = 0 /\ opening # 0
       /\ req' = [req EXCEPT ![r] = [pc |-> "joining", conn |-> c, rt |-> opening]]
       /\ UNCHANGED <<live, opening, rt>>
    \/ /\ live = 0 /\ opening = 0
       /\ opening' = r
       /\ rt' = [rt EXCEPT ![r].state = "acquiring"]
       /\ req' = [req EXCEPT ![r] = [pc |-> "creating", conn |-> c, rt |-> r]]
       /\ UNCHANGED live

\* An attach command (create is an attach to an id nobody else has).
Attach(r, c) ==
    /\ req[r].pc = "idle" /\ stage[c] = "ready"
    /\ AcquireStep(r, c)
    /\ UNCHANGED <<stage, attached, server>>

\* The disposal a request waited for has succeeded: it looks again.
Reacquire(r) ==
    /\ req[r].pc = "acquire"
    /\ AcquireStep(r, req[r].conn)
    /\ UNCHANGED <<stage, attached, server>>

\* The service answers.  A runtime acquired while the server closes is given back;
\* a resumed operation of the session may be running already.
RuntimeAcquired(i, resumed) ==
    /\ rt[i].state = "acquiring"
    /\ rt' = [rt EXCEPT ![i].state = IF Closing THEN "rejecting" ELSE "snapshotting",
                        ![i].held = TRUE, ![i].running = resumed]
    /\ UNCHANGED <<stage, attached, live, opening, req, server>>

\* createSession() or openSession() rejects.
AcquireFails(i) ==
    /\ rt[i].state = "acquiring"
    /\ rt' = [rt EXCEPT ![i].state = "failed"]
    /\ UNCHANGED <<stage, attached, live, opening, req, server>>

\* The first snapshot: the session is live.
BecomesLive(i) ==
    /\ rt[i].state = "snapshotting"
    /\ rt' = [rt EXCEPT ![i].state = "live", ![i].phase = rt[i].running]
    /\ live' = i
    /\ UNCHANGED <<stage, attached, opening, req, server>>

\* The first snapshot fails, or is of another session.
SnapshotFails(i) ==
    /\ rt[i].state = "snapshotting"
    /\ rt' = [rt EXCEPT ![i].state = "rejecting"]
    /\ UNCHANGED <<stage, attached, live, opening, req, server>>

\* runtime.dispose() of a runtime that never became live; an error is only reported.
RejectedDisposed(i, ok) ==
    /\ rt[i].state = "rejecting"
    /\ rt' = [rt EXCEPT ![i].state = "failed", ![i].held = ~ok]
    /\ UNCHANGED <<stage, attached, live, opening, req, server>>

\* Bug: those that joined do not hear that the runtime could not be acquired.
AcquiredOnly(r) ==
    /\ req[r].pc \in {"creating", "joining"}
    /\ rt[req[r].rt].state \in {"live", "failed"}
    /\ req[r].pc = "joining" => rt[req[r].rt].state = "live"
    /\ req' = IF rt[req[r].rt].state = "live" THEN Go(r, "attach") ELSE Answer(r)
    /\ opening' = IF req[r].pc = "creating" /\ opening = r THEN 0 ELSE opening
    /\ UNCHANGED <<stage, attached, live, rt, server>>

\* acquire() of the request that created the runtime, and of those that joined it.
Acquired(r) ==
    /\ req[r].pc \in {"creating", "joining"}
    /\ rt[req[r].rt].state \in {"live", "failed"}
    /\ req' = IF rt[req[r].rt].state = "live" THEN Go(r, "attach") ELSE Answer(r)
    /\ opening' = IF req[r].pc = "creating" /\ opening = r THEN 0 ELSE opening
    /\ UNCHANGED <<stage, attached, live, rt, server>>

\* attach(), and the snapshot that is broadcast for it.
AttachLive(r) ==
    /\ req[r].pc = "attach"
    /\ LET c == req[r].conn  i == req[r].rt
       IN  \/ /\ stage[c] = "ready"
              /\ attached' = attached \cup {c}
              /\ rt' = [rt EXCEPT ![i].connections = @ \cup {c}]
              /\ req' = Go(r, "snapshot")
           \/ /\ stage[c] # "ready"
              /\ rt' = [rt EXCEPT ![i] = MaybeDispose(@)]
              /\ req' = Leave(r, c, i, MaybeDispose(rt[i]))
              /\ UNCHANGED attached
    /\ UNCHANGED <<stage, live, opening, server>>

\* The snapshot of an attach is taken and answered; it may fail.
AttachEnds(r) ==
    /\ req[r].pc = "snapshot"
    /\ \/ rt' = [rt EXCEPT ![req[r].rt].phase = rt[req[r].rt].running] /\ req' = Answer(r)
       \/ rt' = rt /\ req' = Answer(r)
    /\ UNCHANGED <<stage, attached, live, opening, server>>

-----------------------------------------------------------------------------
(* Detaching and operating *)

\* A detach command.
Detach(r, c) ==
    /\ req[r].pc = "idle" /\ stage[c] = "ready"
    /\ attached' = attached \ {c}
    /\ IF live = 0 THEN rt' = rt /\ req' = Answer(r)
       ELSE LET t == [rt[live] EXCEPT !.connections = @ \ {c}]
                m == IF rt[live].disposing # "no" \/ rt[live].disposeFailed THEN MaybeDispose(rt[live])
                     ELSE rt[live]
            IN  IF c \notin attached
                THEN /\ rt' = [rt EXCEPT ![live] = m]
                     /\ req' = Leave(r, c, live, m)
                ELSE IF t.connections # {} /\ ~t.terminal /\ t.disposing = "no"
                THEN /\ rt' = [rt EXCEPT ![live] = t]
                     /\ req' = [req EXCEPT ![r] = [pc |-> "detaching", conn |-> c, rt |-> live]]
                ELSE /\ rt' = [rt EXCEPT ![live] = MaybeDispose(t)]
                     /\ req' = Leave(r, c, live, MaybeDispose(t))
    /\ UNCHANGED <<stage, live, opening, server>>

\* The others have been told; if telling them failed, the command ends there.
DetachEnds(r) ==
    /\ req[r].pc = "detaching"
    /\ LET i == req[r].rt
           t == MaybeDispose([rt[i] EXCEPT !.phase = rt[i].running])
       IN  \/ rt' = [rt EXCEPT ![i] = t] /\ req' = Leave(r, req[r].conn, i, t)
           \/ rt' = rt /\ req' = Answer(r)
    /\ UNCHANGED <<stage, attached, live, opening, server>>

\* requireAttached()
RequireAttached(c) ==
    /\ c \in attached /\ live # 0
    /\ ~rt[live].terminal /\ rt[live].disposing = "no" /\ ~rt[live].disposeFailed

\* prompt: the run it starts ends before the command does; a second one is refused.
Prompt(r, c) ==
    /\ req[r].pc = "idle" /\ stage[c] = "ready" /\ RequireAttached(c)
    /\ rt' = [rt EXCEPT ![live].operationCount = @ + 1, ![live].running = TRUE]
    /\ req' = [req EXCEPT ![r] = [pc |-> IF rt[live].running THEN "operating" ELSE "prompting",
                                  conn |-> c, rt |-> live]]
    /\ UNCHANGED <<stage, attached, live, opening, server>>

\* steer, abort, set_model, set_thinking
Operate(r, c) ==
    /\ req[r].pc = "idle" /\ stage[c] = "ready" /\ RequireAttached(c)
    /\ rt' = [rt EXCEPT ![live].operationCount = @ + 1]
    /\ req' = [req EXCEPT ![r] = [pc |-> "operating", conn |-> c, rt |-> live]]
    /\ UNCHANGED <<stage, attached, live, opening, server>>

\* The operation and the snapshot behind it end, or one of them fails; finally, the
\* session may have become useless.
OperationEnds(r) ==
    /\ req[r].pc \in {"operating", "ran"}
    /\ LET i == req[r].rt
       IN  \/ /\ rt' = [rt EXCEPT ![i] = MaybeDispose([rt[i] EXCEPT !.operationCount = @ - 1,
                                                                    !.phase = rt[i].running])]
              /\ req' = Answer(r)
           \/ /\ rt' = [rt EXCEPT ![i] = MaybeDispose([rt[i] EXCEPT !.operationCount = @ - 1])]
              /\ req' = Answer(r)
    /\ UNCHANGED <<stage, attached, live, opening, server>>

-----------------------------------------------------------------------------
(* What the runtime does by itself *)

Subscribed(i) ==
    /\ rt[i].state = "live" /\ ~rt[i].terminal /\ ~rt[i].disposeFailed
    /\ rt[i].disposing \in {"no", "queued"}

\* handleRuntimeEvent() of a snapshot event: the broadcast is begun, not awaited.
Notified(i, t) ==
    IF Subscribed(i) THEN MaybeDispose([t EXCEPT !.refresh = TRUE]) ELSE t

\* A run ends, a prompt waiting for it goes on, and listeners are notified.
RunEnds(i) ==
    /\ rt[i].held /\ rt[i].running
    /\ rt' = [rt EXCEPT ![i] = Notified(i, [@ EXCEPT !.running = FALSE])]
    /\ req' = [r \in Reqs |-> IF req[r].pc = "prompting" /\ req[r].rt = i
                              THEN [req[r] EXCEPT !.pc = "ran"] ELSE req[r]]
    /\ UNCHANGED <<stage, attached, live, opening, server>>

\* The snapshot broadcast for an event is taken; nothing follows it.
Refreshed(i) ==
    /\ rt[i].refresh
    /\ rt' = [rt EXCEPT ![i].refresh = FALSE, ![i].phase = rt[i].running]
    /\ UNCHANGED <<stage, attached, live, opening, req, server>>

\* terminate(): the runtime reports an error, and the session's connections are closed.
Terminate(i) ==
    /\ Subscribed(i)
    /\ rt' = [rt EXCEPT ![i].terminal = TRUE, ![i].ending = TRUE]
    /\ stage' = [c \in Conns |-> IF c \in rt[i].connections /\ stage[c] = "ready" THEN "closing" ELSE stage[c]]
    /\ UNCHANGED <<attached, live, opening, req, server>>

\* The connections it closed are gone.
TerminateEnds(i) ==
    /\ rt[i].ending
    /\ \A c \in rt[i].connections : stage[c] # "closing"
    /\ rt' = [rt EXCEPT ![i] = MaybeDispose([@ EXCEPT !.ending = FALSE])]
    /\ UNCHANGED <<stage, attached, live, opening, req, server>>

\* disconnect(): the peer is gone, or the transport the server closed.
Disconnect(c) ==
    /\ stage[c] # "closed"
    /\ stage' = [stage EXCEPT ![c] = "closed"]
    /\ attached' = attached \ {c}
    /\ rt' = IF c \in attached /\ live # 0
             THEN [rt EXCEPT ![live] = MaybeDispose([rt[live] EXCEPT !.connections = @ \ {c}])] ELSE rt
    /\ UNCHANGED <<live, opening, req, server>>

\* failProtocol(): the connection broke the protocol.
FailProtocol(c) ==
    /\ stage[c] = "ready"
    /\ stage' = [stage EXCEPT ![c] = "closing"]
    /\ UNCHANGED <<attached, live, opening, rt, req, server>>

-----------------------------------------------------------------------------
(* dispose() *)

\* The listener is removed and runtime.dispose() called.
DisposeCalled(i) ==
    /\ rt[i].disposing = "queued"
    /\ rt' = [rt EXCEPT ![i].disposing = "called"]
    /\ UNCHANGED <<stage, attached, live, opening, req, server>>

\* Those that await the disposal of i: commands that end with it, commands that will look
\* again or are refused, and close(), which ends with it.
Awaiting(i, ok) ==
    [r \in Reqs |-> IF req[r].pc \in {"retry", "leaving"} /\ req[r].rt = i
                    THEN IF ok /\ req[r].pc = "retry" THEN [req[r] EXCEPT !.pc = "acquire"] ELSE Answered
                    ELSE req[r]]

\* What close() reports: a listener's error, or a runtime's.
Closed(ok) == [server EXCEPT !.at = IF ok /\ ~server.listenerFailed THEN "closed" ELSE "failed",
                             !.awaits = 0]

AfterDisposal(i, ok) == IF server.at = "disposing" /\ server.awaits = i THEN Closed(ok) ELSE server

\* The manager has dropped the session: only what its operations still count remains.
Gone(t) == [NoRuntime EXCEPT !.state = "live", !.disposing = "done", !.operationCount = t.operationCount]

\* runtime.dispose() settles, successfully only if no run is left; a runtime that could
\* not be disposed of is retained.
Disposed(i, ok) ==
    /\ rt[i].disposing = "called" /\ (ok => ~rt[i].running)
    /\ IF ok THEN /\ rt' = [rt EXCEPT ![i] = Gone(@)]
                  /\ live' = IF live = i THEN 0 ELSE live
       ELSE rt' = [rt EXCEPT ![i].disposing = "no", ![i].disposeFailed = TRUE] /\ live' = live
    /\ req' = Awaiting(i, ok)
    /\ server' = AfterDisposal(i, ok)
    /\ UNCHANGED <<stage, attached, opening>>

-----------------------------------------------------------------------------
(* PiServer.close() *)

\* The first call, or a retry; calls in between join.
Close ==
    /\ server.at \in {"open", "failed"} /\ server.calls < MaxCloses
    /\ server' = [at |-> "sealed", awaits |-> 0, listenerFailed |-> FALSE, calls |-> server.calls + 1]
    /\ UNCHANGED <<stage, attached, live, opening, rt, req>>

\* The listeners are closed, or one could not be: every connection is closed either way.
CloseConnections(failed) ==
    /\ server.at = "sealed"
    /\ server' = [server EXCEPT !.at = "disconnecting", !.listenerFailed = failed]
    /\ stage' = [c \in Conns |-> IF stage[c] = "ready" THEN "closing" ELSE stage[c]]
    /\ UNCHANGED <<attached, live, opening, rt, req>>

\* Bug: runtimes being opened are not waited for.
CloseSessionsAtOnce ==
    /\ server.at = "disconnecting" /\ \A c \in Conns : stage[c] = "closed"
    /\ server' = [server EXCEPT !.at = "draining", !.awaits = 0]
    /\ UNCHANGED <<stage, attached, live, opening, rt, req>>

\* LiveSessionManager.close(): sessions being opened are waited for.
CloseSessions ==
    /\ server.at = "disconnecting" /\ \A c \in Conns : stage[c] = "closed"
    /\ server' = [server EXCEPT !.at = "draining", !.awaits = opening]
    /\ UNCHANGED <<stage, attached, live, opening, rt, req>>

\* The live session is disposed of, in use or not.
CloseDisposes ==
    /\ server.at = "draining"
    /\ server.awaits # 0 => rt[server.awaits].state \in {"live", "failed"}
    /\ IF live = 0 THEN server' = Closed(TRUE) /\ rt' = rt
       ELSE /\ server' = [server EXCEPT !.at = "disposing", !.awaits = live]
            /\ rt' = [rt EXCEPT ![live] = Dispose(@)]
    /\ UNCHANGED <<stage, attached, live, opening, req>>

-----------------------------------------------------------------------------
\* What clients may ask for at any time.
Command(r, c) == Attach(r, c) \/ Detach(r, c) \/ Prompt(r, c) \/ Operate(r, c)

\* What follows from it by itself: continuations, and answers of the runtime.
RequestStep(r) ==
    Reacquire(r) \/ Acquired(r) \/ AttachLive(r) \/ AttachEnds(r) \/ DetachEnds(r) \/ OperationEnds(r)

RuntimeStep(i) ==
    \/ \E b \in BOOLEAN : RuntimeAcquired(i, b) \/ RejectedDisposed(i, b) \/ Disposed(i, b)
    \/ AcquireFails(i) \/ BecomesLive(i) \/ SnapshotFails(i)
    \/ RunEnds(i) \/ Refreshed(i) \/ TerminateEnds(i) \/ DisposeCalled(i)

CloseStep == CloseSessions \/ CloseDisposes \/ \E b \in BOOLEAN : CloseConnections(b)

Next ==
    \/ \E i \in Runtimes : RuntimeStep(i) \/ Terminate(i)
    \/ \E r \in Reqs : \/ RequestStep(r)
                       \/ \E c \in Conns : Command(r, c) /\ \A q \in 1 .. r - 1 : req[q].pc # "idle"
    \/ \E c \in Conns : Disconnect(c) \/ FailProtocol(c)
    \/ Close \/ CloseStep

Spec == Init /\ [][Next]_vars

\* Promises settle: the runtime and the service answer, runs end, and a transport that
\* was closed reports it.  Which of them goes first is left open.
Fairness ==
    WF_vars(\/ \E r \in Reqs : RequestStep(r)
            \/ \E i \in Runtimes : RuntimeStep(i)
            \/ \E c \in Conns : stage[c] = "closing" /\ Disconnect(c)
            \/ CloseStep)

FairSpec == Spec /\ Fairness

-----------------------------------------------------------------------------
\* Types: operationCount is the number of operations under way on a runtime.
TypeOK ==
    /\ stage \in [Conns -> {"ready", "closing", "closed"}]
    /\ attached \subseteq Conns
    /\ live \in Runtimes \cup {0} /\ opening \in Reqs \cup {0}
    /\ \A i \in Runtimes :
          /\ rt[i].state \in {"none", "acquiring", "snapshotting", "rejecting", "live", "failed"}
          /\ rt[i].connections \subseteq Conns
          /\ rt[i].disposing \in {"no", "queued", "called", "done"}
          /\ rt[i].operationCount = Cardinality({r \in Reqs : req[r].rt = i
                                                    /\ req[r].pc \in {"operating", "prompting", "ran"}})
    /\ server.at \in {"open", "sealed", "disconnecting", "draining", "disposing", "failed", "closed"}

\* A live runtime is retained until it has been disposed of successfully: as long as it
\* holds its session, no other runtime of that session is asked for, opened or live.
NoReplacement ==
    \A i, j \in Runtimes :
        i # j /\ rt[i].state = "live" /\ rt[i].held
            => live = i /\ rt[j].state \notin {"acquiring", "snapshotting"} /\ ~(rt[j].state = "live" /\ rt[j].held)

\* The runtime is not disposed of under a client's operation, unless the server closes.
NoDisposalUnderOperation ==
    \A i \in Runtimes : rt[i].disposing \in {"queued", "called"} /\ rt[i].operationCount > 0 => Closing

\* What the server remembers is true at every await: the counts of operations, the one
\* runtime that is live, and that nobody is using a runtime being disposed of.
Consistent == TypeOK /\ NoReplacement /\ NoDisposalUnderOperation

\* A close() that succeeds leaves nothing behind: no session is live, no runtime that was
\* live is held, and no connection is attached.
CloseComplete ==
    server.at = "closed" =>
        live = 0 /\ attached = {} /\ \A i \in Runtimes : rt[i].state = "live" => ~rt[i].held

\* Every attached client controls the session's one live runtime: it is one of the
\* connections that runtime's events go to.  Does not hold: see "Disagreements" in
\* README.md.
AttachedIsServed ==
    \A c \in attached : stage[c] = "ready" => live # 0 /\ c \in rt[live].connections

\* A failed cleanup is no permission to acquire a second runtime of the session.  Does not
\* hold: see "Disagreements" in README.md.
NoSecondWriter ==
    Cardinality({i \in Runtimes : rt[i].held}) <= 1

\* Every command is answered, however often it has to look again.
CommandsSettle ==
    \A r \in Reqs : req[r].pc # "idle" ~> req[r].pc = "answered"

\* close() ends, with a success or with an error, whatever is under way.
CloseSettles == server.at = "sealed" ~> server.at \in {"closed", "failed"}

\* What clients wait for settles: every command, and close().
SessionsSettle == CommandsSettle /\ CloseSettles

\* A session nobody is attached to is disposed of once its work is over.  Does not hold:
\* see "Disagreements" in README.md.
AbandonedIsReleased ==
    \A i \in Runtimes : live = i /\ rt[i].connections = {} ~>
                       rt[i].connections # {} \/ rt[i].disposing # "no" \/ rt[i].disposeFailed \/ Closing
=============================================================================
