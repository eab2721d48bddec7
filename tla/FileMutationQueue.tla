-------------------------- MODULE FileMutationQueue --------------------------
(***************************************************************************)
(* withFileMutationQueue() of packages/agent/src/harness/tools/              *)
(* file-mutation-queue.ts (and its twin in packages/coding-agent), which the *)
(* write and edit tools run their read-modify-write sections in.             *)
(*                                                                          *)
(* There is no lock: the order is kept by promises.  Finding the canonical   *)
(* path of a file takes a while, so that calls register one after the other  *)
(* along state.registration; then a call waits for the promise that was the  *)
(* tail of its file's queue when it registered.  A promise is named by the   *)
(* call that made it, "none" is an absent map entry or Promise.resolve().    *)
(***************************************************************************)
EXTENDS Naturals

CONSTANTS Calls,   \* bound: the calls of withFileMutationQueue()
          Paths,   \* the paths callers use
          Keys     \* canonical paths; several paths may lead to one

ASSUME QueueAssumption == "none" \notin Calls /\ "none" \notin Keys

VARIABLES
    link,          \* the file system: path -> canonical path
    count,         \* history: the number of calls
    ticket,        \* history: call -> its place in the order of the calls
    pc,            \* call -> where it is
    path,          \* call -> its argument
    registration,  \* state.registration: the last call
    previous,      \* call -> the registration it is chained to
    queues,        \* state.queues: canonical path -> chainedQueue
    key,           \* call -> its key
    currentQueue,  \* call -> the chainedQueue it awaits
    released,      \* the calls that called releaseNext()
    resolved       \* the calls whose chainedQueue is resolved

vars == <<link, count, ticket, pc, path, registration, previous, queues, key, currentQueue,
          released, resolved>>

Ended == {"returned", "threw"}

Init ==
    /\ link \in [Paths -> Keys]
    /\ count = 0 /\ ticket = [c \in Calls |-> 0]
    /\ pc = [c \in Calls |-> "idle"]
    /\ path = [c \in Calls |-> "none"]
    /\ registration = "none" /\ previous = [c \in Calls |-> "none"]
    /\ queues = [k \in Keys |-> "none"]
    /\ key = [c \in Calls |-> "none"]
    /\ currentQueue = [c \in Calls |-> "none"]
    /\ released = {} /\ resolved = {}

\* A link or a directory is replaced, by a command or another program.
Relink(p, k) ==
    /\ link[p] # k
    /\ link' = [link EXCEPT ![p] = k]
    /\ UNCHANGED <<count, ticket, pc, path, registration, previous, queues, key, currentQueue,
                   released, resolved>>

\* The call: synchronously, it takes its place behind state.registration.
Call(c, p) ==
    /\ pc[c] = "idle"
    /\ path' = [path EXCEPT ![c] = p]
    /\ pc' = [pc EXCEPT ![c] = "registering"]
    /\ count' = count + 1 /\ ticket' = [ticket EXCEPT ![c] = count + 1]
    /\ previous' = [previous EXCEPT ![c] = registration]
    /\ registration' = c
    /\ UNCHANGED <<link, queues, key, currentQueue, released, resolved>>

\* Bug: calls register as soon as their path is known.
RegistrationFree(c) == TRUE

\* The registration before c has settled, with or without an error.
RegistrationReached(c) ==
    previous[c] # "none" => pc[previous[c]] \in {"queued", "running", "failed"} \cup Ended

\* getMutationQueueKey() answers.
Resolve(c) ==
    /\ pc[c] = "registering" /\ RegistrationReached(c)
    /\ key' = [key EXCEPT ![c] = link[path[c]]]
    /\ pc' = [pc EXCEPT ![c] = "resolved"]
    /\ UNCHANGED <<link, count, ticket, path, registration, previous, queues, currentQueue,
                   released, resolved>>

\* getMutationQueueKey() throws; the caller gets the error, the next call its turn.
ResolveFails(c) ==
    /\ pc[c] = "registering" /\ RegistrationReached(c)
    /\ pc' = [pc EXCEPT ![c] = "failed"]
    /\ UNCHANGED <<link, count, ticket, path, registration, previous, queues, key, currentQueue,
                   released, resolved>>

\* The rest of the registration: c becomes the tail of its file's queue.
Register(c) ==
    /\ pc[c] = "resolved"
    /\ currentQueue' = [currentQueue EXCEPT ![c] = queues[key[c]]]
    /\ queues' = [queues EXCEPT ![key[c]] = c]
    /\ pc' = [pc EXCEPT ![c] = "queued"]
    /\ UNCHANGED <<link, count, ticket, path, registration, previous, key, released, resolved>>

\* The promise c awaits is resolved.
QueueReached(c) == currentQueue[c] = "none" \/ currentQueue[c] \in resolved

\* currentQueue is resolved: fn() is called.
Run(c) ==
    /\ pc[c] = "queued" /\ QueueReached(c)
    /\ pc' = [pc EXCEPT ![c] = "running"]
    /\ UNCHANGED <<link, count, ticket, path, registration, previous, queues, key, currentQueue,
                   released, resolved>>

\* Bug: the entry is removed whoever is the tail.
DequeueAlways(c) == [queues EXCEPT ![key[c]] = "none"]

\* The map without the entry of c, if c is still the tail of its queue.
Dequeue(c) == IF queues[key[c]] = c THEN [queues EXCEPT ![key[c]] = "none"] ELSE queues

\* Bug: an error leaves the queue blocked.
FinishUnlessThrown(c, how) ==
    /\ pc[c] = "running"
    /\ pc' = [pc EXCEPT ![c] = how]
    /\ released' = IF how = "returned" THEN released \cup {c} ELSE released
    /\ queues' = Dequeue(c)
    /\ UNCHANGED <<link, count, ticket, path, registration, previous, key, currentQueue, resolved>>

\* fn() settles: the finally block lets the next call in.
Finish(c, how) ==
    /\ pc[c] = "running"
    /\ pc' = [pc EXCEPT ![c] = how]
    /\ released' = released \cup {c}
    /\ queues' = Dequeue(c)
    /\ UNCHANGED <<link, count, ticket, path, registration, previous, key, currentQueue, resolved>>

\* chainedQueue = currentQueue.then(() => nextQueue) resolves, some microtasks later.
ChainResolves(c) ==
    /\ c \in released \ resolved /\ QueueReached(c)
    /\ resolved' = resolved \cup {c}
    /\ UNCHANGED <<link, count, ticket, pc, path, registration, previous, queues, key, currentQueue,
                   released>>

\* What promises and a settling fn() do to call c.
Step(c) ==
    \/ Resolve(c) \/ ResolveFails(c) \/ Register(c) \/ Run(c) \/ ChainResolves(c)
    \/ \E how \in Ended : Finish(c, how)

Next ==
    \/ \E p \in Paths, k \in Keys : Relink(p, k)
    \/ \E c \in Calls : Step(c) \/ \E p \in Paths : Call(c, p)

Spec == Init /\ [][Next]_vars

\* Microtasks run, path resolution answers, and a mutation that was begun settles.
FairSpec == Spec /\ \A c \in Calls : WF_vars(Step(c))

-----------------------------------------------------------------------------
\* Types: only a call whose fn() has settled has let the next one in.
TypeOK ==
    /\ link \in [Paths -> Keys]
    /\ count \in Nat /\ ticket \in [Calls -> Nat]
    /\ pc \in [Calls -> {"idle", "registering", "resolved", "queued", "running", "failed"} \cup Ended]
    /\ path \in [Calls -> Paths \cup {"none"}]
    /\ registration \in Calls \cup {"none"}
    /\ previous \in [Calls -> Calls \cup {"none"}]
    /\ queues \in [Keys -> Calls \cup {"none"}]
    /\ key \in [Calls -> Keys \cup {"none"}]
    /\ currentQueue \in [Calls -> Calls \cup {"none"}]
    /\ released = {c \in Calls : pc[c] \in Ended}
    /\ resolved \subseteq released

\* Two mutations of one file never run at the same time, whichever paths their
\* callers used: the read-modify-write of an edit is not interleaved with another.
MutualExclusion ==
    \A c, d \in Calls : pc[c] = "running" /\ pc[d] = "running" /\ key[c] = key[d] => c = d

\* state.queues has an entry for exactly the files with a queued or running mutation
\* (nothing is leaked, nothing is forgotten), and the entry is the last of them.
QueuesTight ==
    \A k \in Keys :
        LET live == {c \in Calls : key[c] = k /\ pc[c] \in {"queued", "running"}}
        IN  IF queues[k] = "none" THEN live = {}
            ELSE queues[k] \in live /\ \A c \in live : ticket[c] <= ticket[queues[k]]

\* The map of queues and the promise chains agree: files are not mutated twice at a
\* time, and none stays locked or listed when its mutations are over.
Consistent == TypeOK /\ MutualExclusion /\ QueuesTight

\* Every call settles, an error of another call or of its own path notwithstanding.
EveryCallSettles ==
    \A c \in Calls : pc[c] = "registering" ~> pc[c] \in {"failed"} \cup Ended

\* How far a call is, in the terms of FileLock.
Phase(c) ==
    CASE pc[c] = "registering" -> "pending"
      [] pc[c] \in {"resolved", "queued"} -> "waiting"
      [] pc[c] \in {"failed"} \cup Ended -> "over"
      [] OTHER -> pc[c]

Lock == INSTANCE FileLock WITH file <- key, phase <- [c \in Calls |-> Phase(c)]

\* The chain of promises implements a lock per file that is granted in the order of
\* the calls, however long each takes to find out its canonical path.
ImplementsFileLock == Lock!Spec
=============================================================================
