----------------------------- MODULE ClientLeases -----------------------------
(***************************************************************************)
(* The client of packages/client/src/client.ts, over its connection, and the *)
(* leases of one session, with the part of state.ts that says whether the     *)
(* session is attached: any number of acquireSession() calls share one        *)
(* attachment of one connection, which the last lease gives back with a       *)
(* detach request.                                                            *)
(*                                                                           *)
(* Composition: a step of ClientConnection that ends an attempt is one step   *)
(* with what #handleConnectionStateChange() does to the leases.               *)
(*                                                                           *)
(* A response settles a promise; what awaits it runs later, in one step for   *)
(* everyone who awaits the same promise, as no code of the application gets   *)
(* between those continuations.  Frames of one chunk are handled before any   *)
(* continuation (sync); a frame of a later chunk comes after all of them.     *)
(* The connection may be lost between a response and the continuation of it:  *)
(* by the next frame of the chunk, or by a listener.  A lease that is granted  *)
(* although its connection is gone is an orphan: it captures the generation    *)
(* that came after the loss and has no reservation.  The history variable      *)
(* orphaned records it, and the properties that an orphan breaks say so.       *)
(*                                                                           *)
(* An acquisition, its lease and the request it has sent share one number.    *)
(* No server of this repository sends session_removed, so none comes here.    *)
(***************************************************************************)
EXTENDS ClientConnection, FiniteSets

CONSTANT MaxAcqs       \* bound: calls of acquireSession()

ASSUME LeasesAssumption == MaxAcqs \in Nat

\* The acquisitions, numbered as they are called.
Acqs == 1 .. MaxAcqs

VARIABLES
    disposed,       \* #disposed
    sync,           \* no continuation has run since the last frame
    attached,       \* #attachedSessionIds has the session
    served,         \* the server's side: this connection is attached to the session
    count,          \* #sessionLeaseCounts, 0 if absent
    exclusive,      \* #exclusiveSessionLeases
    generation,     \* #sessionLeaseGenerations
    cleanup,        \* #sessionCleanupRequired
    attachment,     \* #sessionAttachments, #sessionDetachments and #sessionReconciliations:
    detachment,     \* whose request the promise is about
    reconciliation,
    at,             \* acquisition -> what it awaits
    awaits,         \* acquisition -> whose request that is about
    mode,           \* acquisition -> its mode
    lease,          \* acquisition -> the state of its lease
    born,           \* acquisition -> the generation its lease captured
    giveUp,         \* acquisition -> the release() under way is by dispose(), not by detach()
    wire,           \* acquisition -> its request that is under way
    executed,       \* the requests the server has executed and not answered
    outcome,        \* acquisition -> its request is settled and nobody has noticed yet
    orphaned        \* history: a lease of this generation was, or will be, granted after
                    \* the connection it was attached on was lost

conn == <<vars, disposed>>
maps == <<count, exclusive, generation, cleanup>>
promises == <<attachment, detachment, reconciliation>>
calls == <<at, awaits, mode, lease, born, giveUp>>
clientVars == <<conn, sync, attached, served, maps, promises, calls, wire, executed, outcome, orphaned>>

\* get connected()
Up == state = "connected"

ClientInit ==
    /\ Init
    /\ disposed = FALSE /\ sync = FALSE
    /\ attached = FALSE /\ served = FALSE
    /\ count = 0 /\ exclusive = 0 /\ generation = 0 /\ cleanup = FALSE
    /\ attachment = 0 /\ detachment = 0 /\ reconciliation = 0
    /\ at = [a \in Acqs |-> "idle"] /\ awaits = [a \in Acqs |-> 0]
    /\ mode = [a \in Acqs |-> "shared"]
    /\ lease = [a \in Acqs |-> "none"] /\ born = [a \in Acqs |-> 0] /\ giveUp = [a \in Acqs |-> FALSE]
    /\ wire = [a \in Acqs |-> "none"] /\ outcome = [a \in Acqs |-> "none"]
    /\ executed = {} /\ orphaned = FALSE

-----------------------------------------------------------------------------
(* Reservations *)

\* refreshState(): the lease has not been invalidated.
Valid(a) == lease[a] \in {"active", "releasing"} /\ born[a] = generation

\* isActive()
IsActive(a) == lease[a] = "active" /\ born[a] = generation /\ attached

\* Bug: a shared acquisition only asks for itself.
CanReserveShared(m) == m = "exclusive" => count = 0

\* #reserveSessionLease() does not throw.
CanReserve(m) == IF m = "exclusive" THEN count = 0 ELSE exclusive = 0

\* What n calls of #releaseSessionLease() leave of the count, and those of A of the owner.
CountLess(n) == IF count <= n THEN 0 ELSE count - n
OwnerLess(A) == IF exclusive \in A THEN 0 ELSE exclusive

\* #request(): refused without a connection.
Request(a, kind) ==
    IF Up THEN wire' = [wire EXCEPT ![a] = kind] /\ outcome' = outcome
          ELSE wire' = wire /\ outcome' = [outcome EXCEPT ![a] = "error"]

-----------------------------------------------------------------------------
(* acquireSession() *)

\* The acquisitions in A get their leases.
Granted(A) ==
    /\ at' = [b \in Acqs |-> IF b \in A THEN "done" ELSE at[b]]
    /\ awaits' = [b \in Acqs |-> IF b \in A THEN 0 ELSE awaits[b]]
    /\ lease' = [b \in Acqs |-> IF b \in A THEN "active" ELSE lease[b]]
    /\ born' = [b \in Acqs |-> IF b \in A THEN generation ELSE born[b]]

\* Bug: only the acquisition that sent the request gives its reservation back.
RefusedOne(A) ==
    /\ at' = [b \in Acqs |-> IF b \in A THEN "failed" ELSE at[b]]
    /\ awaits' = [b \in Acqs |-> IF b \in A THEN 0 ELSE awaits[b]]
    /\ count' = CountLess(1)
    /\ exclusive' = OwnerLess(A)

\* The acquisitions in A fail: each gives its reservation back.
Refused(A) ==
    /\ at' = [b \in Acqs |-> IF b \in A THEN "failed" ELSE at[b]]
    /\ awaits' = [b \in Acqs |-> IF b \in A THEN 0 ELSE awaits[b]]
    /\ count' = CountLess(Cardinality(A))
    /\ exclusive' = OwnerLess(A)

\* The acquisitions in A await the request of w.
Await(A, kind, w) ==
    /\ at' = [b \in Acqs |-> IF b \in A THEN kind ELSE at[b]]
    /\ awaits' = [b \in Acqs |-> IF b \in A THEN w ELSE awaits[b]]

Waiting(kind, a) == {b \in Acqs : at[b] = kind /\ awaits[b] = a}

\* The acquisitions in A, a first, await the attach request under way, or send one.
AwaitAttach(A, a) ==
    LET w == IF attachment = 0 THEN a ELSE attachment
    IN  /\ Await(A, "attach", w)
        /\ attachment' = w
        /\ IF attachment = 0 THEN Request(a, "attach")
           ELSE wire' = wire /\ outcome' = [outcome EXCEPT ![a] = "none"]

\* #reconcileSessionCleanup() by a: the detach request under way, or a new one.
AwaitReconcile(a) ==
    LET w == IF reconciliation = 0 THEN a ELSE reconciliation
    IN  /\ Await({a}, "reconcile", w)
        /\ reconciliation' = w
        /\ IF reconciliation = 0 THEN Request(a, "reconcile") ELSE UNCHANGED <<wire, outcome>>

\* acquireSession() from where no detachment is awaited (any more)
Proceed(a) ==
    \/ /\ cleanup
       /\ AwaitReconcile(a)
       /\ UNCHANGED <<attachment, lease, born>>
    \/ /\ ~cleanup /\ ~attached
       /\ AwaitAttach({a}, a)
       /\ UNCHANGED <<reconciliation, lease, born>>
    \/ /\ ~cleanup /\ attached
       /\ Granted({a})
       /\ UNCHANGED <<attachment, reconciliation, wire, outcome>>

\* acquireSession(): reserved at once.
Acquire(a, m) ==
    /\ at[a] = "idle" /\ ~disposed /\ CanReserve(m)
    /\ mode' = [mode EXCEPT ![a] = m]
    /\ count' = count + 1
    /\ exclusive' = IF m = "exclusive" THEN a ELSE exclusive
    /\ \/ /\ detachment # 0
          /\ Await({a}, "detach", detachment)
          /\ UNCHANGED <<attachment, reconciliation, lease, born, wire, outcome>>
       \/ /\ detachment = 0
          /\ Proceed(a)
    /\ UNCHANGED <<conn, sync, attached, served, generation, cleanup, detachment, giveUp, executed, orphaned>>

\* The detachment it awaited is settled, well or not.
Resume(a) ==
    /\ at[a] = "resumed"
    /\ Proceed(a)
    /\ sync' = FALSE
    /\ UNCHANGED <<conn, attached, served, maps, detachment, mode, giveUp, executed, orphaned>>

\* a's attach request is settled, and everyone who awaited it goes on.
AttachSettled(a) ==
    /\ outcome[a] # "none" /\ at[a] = "attach" /\ awaits[a] = a
    /\ outcome' = [outcome EXCEPT ![a] = "none"]
    /\ attachment' = IF attachment = a THEN 0 ELSE attachment
    /\ \/ outcome[a] = "ok" /\ Granted(Waiting("attach", a)) /\ UNCHANGED <<count, exclusive>>
       \/ outcome[a] = "error" /\ Refused(Waiting("attach", a)) /\ UNCHANGED <<lease, born>>
    /\ sync' = FALSE
    /\ UNCHANGED <<conn, attached, served, generation, cleanup, detachment, reconciliation, mode, giveUp, wire, executed, orphaned>>

\* a's cleanup of a failed release is settled: everyone who awaited it attaches anew.
ReconcileSettled(a) ==
    /\ outcome[a] # "none" /\ at[a] = "reconcile" /\ awaits[a] = a
    /\ reconciliation' = 0
    /\ \/ /\ outcome[a] = "ok"
          /\ cleanup' = FALSE
          /\ LET w == IF attachment = 0 THEN a ELSE attachment
             IN  /\ Await(Waiting("reconcile", a), "attach", w)
                 /\ attachment' = w
                 /\ wire' = [wire EXCEPT ![a] = IF attachment = 0 /\ Up THEN "attach" ELSE @]
                 /\ outcome' = [outcome EXCEPT ![a] = IF attachment = 0 /\ ~Up THEN "error" ELSE "none"]
          /\ UNCHANGED <<count, exclusive>>
       \/ /\ outcome[a] = "error"
          /\ outcome' = [outcome EXCEPT ![a] = "none"]
          /\ Refused(Waiting("reconcile", a))
          /\ UNCHANGED <<cleanup, attachment, wire>>
    /\ sync' = FALSE
    /\ UNCHANGED <<conn, attached, served, generation, detachment, mode, lease, born, giveUp, executed, orphaned>>

-----------------------------------------------------------------------------
(* release() *)

\* Bug: every lease detaches the session, not only the last.
ReleaseAny(a, g) ==
    /\ IsActive(a) /\ Up /\ ~disposed
    /\ giveUp' = [giveUp EXCEPT ![a] = g]
    /\ lease' = [lease EXCEPT ![a] = "releasing"]
    /\ detachment' = a
    /\ Request(a, "detach")
    /\ UNCHANGED <<conn, sync, attached, served, maps, attachment, reconciliation, at, awaits, mode, born, executed, orphaned>>

\* detach() and dispose() of an active lease: the last one sends the detach request.
Release(a, g) ==
    /\ IsActive(a) /\ Up /\ ~disposed
    /\ \/ /\ count <= 1
          /\ giveUp' = [giveUp EXCEPT ![a] = g]
          /\ lease' = [lease EXCEPT ![a] = "releasing"]
          /\ detachment' = a
          /\ Request(a, "detach")
          /\ UNCHANGED <<count, exclusive>>
       \/ /\ count > 1
          /\ lease' = [lease EXCEPT ![a] = "released"]
          /\ count' = CountLess(1) /\ exclusive' = OwnerLess({a})
          /\ UNCHANGED <<detachment, wire, outcome, giveUp>>
    /\ UNCHANGED <<conn, sync, attached, served, generation, cleanup, attachment, reconciliation,
                   at, awaits, mode, born, executed, orphaned>>

\* a's detach request is settled, and then those who waited for it: a failed detach()
\* may be repeated, a failed dispose() leaves the cleanup to the next acquisition.
DetachSettled(a) ==
    /\ outcome[a] # "none" /\ lease[a] = "releasing"
    /\ outcome' = [outcome EXCEPT ![a] = "none"]
    /\ detachment' = IF detachment = a THEN 0 ELSE detachment
    /\ at' = [b \in Acqs |-> IF b \in Waiting("detach", a) THEN "resumed" ELSE at[b]]
    /\ awaits' = [b \in Acqs |-> IF b \in Waiting("detach", a) THEN 0 ELSE awaits[b]]
    /\ LET gone == outcome[a] = "ok" \/ (Valid(a) /\ giveUp[a])
       IN  /\ lease' = [lease EXCEPT ![a] = IF gone THEN "released" ELSE IF Valid(a) THEN "active" ELSE "invalidated"]
           /\ count' = IF gone THEN CountLess(1) ELSE count
           /\ exclusive' = IF gone THEN OwnerLess({a}) ELSE exclusive
    /\ cleanup' = (cleanup \/ (outcome[a] = "error" /\ Valid(a) /\ giveUp[a]))
    /\ giveUp' = [giveUp EXCEPT ![a] = FALSE]
    /\ sync' = FALSE
    /\ UNCHANGED <<conn, attached, served, generation, attachment, reconciliation, mode, born, wire, executed, orphaned>>

-----------------------------------------------------------------------------
(* The connection and the server *)

\* Continuations that have not run yet.
Pending == \E a \in Acqs : outcome[a] # "none" \/ at[a] = "resumed"

\* A frame may be handled: it is of the chunk being handled, or of the next one.
FrameMayCome == Up /\ (sync \/ ~Pending)

\* The server executes a request: several are under way at a time.
Execute(a) ==
    /\ wire[a] # "none" /\ a \notin executed
    /\ executed' = executed \cup {a}
    /\ served' = (wire[a] = "attach")
    /\ UNCHANGED <<conn, sync, attached, maps, promises, calls, wire, outcome, orphaned>>

\* Its answer, handled by #handleMessage() and applyResult(); the server may report an
\* error of what it has executed.
Answer(a, result) ==
    /\ FrameMayCome
    /\ wire[a] # "none" /\ (result = "ok" => a \in executed)
    /\ wire' = [wire EXCEPT ![a] = "none"] /\ executed' = executed \ {a}
    /\ outcome' = [outcome EXCEPT ![a] = result]
    /\ attached' = IF result = "ok" THEN wire[a] = "attach" ELSE attached
    /\ sync' = TRUE
    /\ UNCHANGED <<conn, served, maps, promises, calls, orphaned>>

\* A session_snapshot event, sent to attached connections
SnapshotEvent ==
    /\ FrameMayCome /\ served
    /\ attached' = TRUE /\ sync' = TRUE
    /\ UNCHANGED <<conn, served, maps, promises, calls, wire, executed, outcome, orphaned>>

\* #invalidateSessionLeases()
Invalidate ==
    /\ count' = 0 /\ exclusive' = 0 /\ cleanup' = FALSE
    /\ generation' = generation + 1

\* Acquisitions whose attach request has succeeded and that have not gone on yet: they are
\* going to be granted their leases whatever happens to the connection.
AboutToBeGranted == {a \in Acqs : outcome[a] = "ok" /\ at[a] = "attach" /\ awaits[a] = a}

\* #handleConnectionStateChange() and dispose(): everything is invalidated, and every
\* request under way rejected.
DropConnection ==
    /\ attached' = FALSE /\ served' = FALSE
    /\ IF count > 0 THEN Invalidate ELSE cleanup' = FALSE /\ UNCHANGED <<count, exclusive, generation>>
    /\ outcome' = [a \in Acqs |-> IF wire[a] # "none" THEN "error" ELSE outcome[a]]
    /\ wire' = [a \in Acqs |-> "none"] /\ executed' = {}
    /\ orphaned' = (AboutToBeGranted # {} \/ (orphaned /\ count = 0))
    /\ UNCHANGED <<promises, calls>>

\* The attempt that was current is over.
Ended == state # "disconnected" /\ id' # id

\* What a step of the connection means here: connect() is refused by a disposed client,
\* the frame that connects comes in a turn of its own, and an attempt that ends takes
\* the leases with it.
LeasesFollow ==
    /\ disposed => sequence' = sequence
    /\ \/ /\ Ended
          /\ DropConnection
          /\ UNCHANGED sync
       \/ /\ ~Ended /\ (~Up /\ Up' => ~Pending)
          /\ sync' = (sync /\ Up)
          /\ UNCHANGED <<attached, served, maps, promises, calls, wire, executed, outcome, orphaned>>
    /\ UNCHANGED disposed

ConnectionStep == Next /\ LeasesFollow

\* PiClient.dispose(); a listener it calls cannot connect any more.
Dispose ==
    /\ ~disposed
    /\ disposed' = TRUE
    /\ Disconnect("nothing") \/ (state = "disconnected" /\ UNCHANGED vars)
    /\ DropConnection
    /\ UNCHANGED sync

-----------------------------------------------------------------------------
Continuation(a) == Resume(a) \/ AttachSettled(a) \/ ReconcileSettled(a) \/ DetachSettled(a)

Server(a) == Execute(a) \/ \E result \in {"ok", "error"} : Answer(a, result)

FactorySettles(i) ==
    (FactoryResolves(i) \/ FactoryRejects(i, "nothing") \/ Opened(i)) /\ LeasesFollow

ClientNext ==
    \/ \E a \in Acqs :
         \/ \E m \in {"shared", "exclusive"} : Acquire(a, m) /\ \A b \in 1 .. a - 1 : at[b] # "idle"
         \/ \E g \in BOOLEAN : Release(a, g)
         \/ Continuation(a) \/ Server(a)
    \/ SnapshotEvent \/ ConnectionStep \/ Dispose

ClientSpec == ClientInit /\ [][ClientNext]_clientVars

\* Some acquisition is waiting for a's request.
Owed(a) == \E b \in Acqs : awaits[b] = a

\* Continuations run.  As long as acquisitions wait for requests, some of these are
\* answered, however often detach() is repeated meanwhile; transport factories settle, and
\* what awaits them runs.
ClientFairness ==
    /\ WF_clientVars(\E a \in Acqs : Continuation(a))
    /\ SF_clientVars(\E a \in Acqs : Owed(a) /\ Server(a))
    /\ WF_clientVars(\E i \in Attempts : FactorySettles(i))

ClientFairSpec == ClientSpec /\ ClientFairness

-----------------------------------------------------------------------------
\* Types: the maps, promises and leases stay in their domains; a request under way is
\* owned by an acquisition that awaits it or a lease being released.
LeaseTypeOK ==
    /\ disposed \in BOOLEAN /\ sync \in BOOLEAN /\ attached \in BOOLEAN
    /\ served \in BOOLEAN /\ cleanup \in BOOLEAN /\ orphaned \in BOOLEAN
    /\ generation \in Nat
    /\ count \in 0..Cardinality(Acqs) /\ exclusive \in 0 .. MaxAcqs
    /\ {attachment, detachment, reconciliation} \subseteq 0 .. MaxAcqs
    /\ at \in [Acqs -> {"idle", "detach", "resumed", "reconcile", "attach", "done", "failed"}]
    /\ awaits \in [Acqs -> 0 .. MaxAcqs]
    /\ mode \in [Acqs -> {"shared", "exclusive"}]
    /\ lease \in [Acqs -> {"none", "active", "releasing", "released", "invalidated"}]
    /\ born \in [Acqs -> Nat] /\ giveUp \in [Acqs -> BOOLEAN]
    /\ wire \in [Acqs -> {"none", "attach", "detach", "reconcile"}]
    /\ outcome \in [Acqs -> {"none", "ok", "error"}]
    /\ \A a \in executed : wire[a] # "none"
    /\ \A a \in Acqs : (wire[a] # "none" \/ outcome[a] # "none") => lease[a] = "releasing" \/ awaits[a] = a

\* "Exclusive acquisition fails with PiSessionOwnershipError while any lease exists, and
\* shared acquisition fails while an exclusive lease exists" (README.md of the client,
\* line 30).  False of the code: an orphan is active beside any other lease.
ExclusiveAlways ==
    \A a, b \in Acqs : a # b /\ IsActive(a) /\ IsActive(b) => mode[a] = "shared" /\ mode[b] = "shared"

\* An exclusive lease is the only active one of its session, unless there has been an
\* orphan in this generation, which acquireSession() cannot see: it has no reservation.
ExclusiveAlone == ~orphaned => ExclusiveAlways

\* The session is detached under nobody's lease, unless there has been an orphan in this
\* generation: the count does not include it, so that #releaseLease() takes another lease
\* for the last, or the orphan for it.
DetachSparesOthers ==
    ~orphaned => \A a, b \in Acqs : wire[a] \in {"detach", "reconcile"} => ~IsActive(b)

\* The count is that of the acquisitions under way and of the leases they were granted,
\* unless there has been an orphan in this generation, which was never counted and takes
\* somebody else's reservation with it when it is released.
Holding == {a \in Acqs : at[a] \in {"detach", "resumed", "reconcile", "attach"} \/ Valid(a)}
CountExact == Up /\ ~orphaned => count = Cardinality(Holding)

\* Nobody is given a lease of an attachment whose release failed and is still to be
\* repeated, unless there has been an orphan, which others' releases do not see.
CleanupFirst == cleanup /\ ~orphaned => \A a \in Acqs : ~IsActive(a)

\* The maps of the client agree with each other at every step: types, counts, and the
\* cleanup that a failed release left behind.
LeasesConsistent == LeaseTypeOK /\ CountExact /\ CleanupFirst

\* What somebody waits for: an acquisition under way, or the closing of the transport of
\* an attempt that was given up.
Outstanding ==
    \/ \E a \in Acqs : at[a] \notin {"idle", "done", "failed"}
    \/ \E i \in Attempts : i <= sequence /\ ~IsCurrent(i) /\ transport[i] # "closed"

\* The client comes to rest: every acquisition ends, with a lease or an error, and every
\* transport that is not used is closed, whatever is lost, reconnected or disposed of.
ClientSettles == Outstanding ~> ~Outstanding
=============================================================================
