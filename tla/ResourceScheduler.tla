-------------------------- MODULE ResourceScheduler --------------------------
(***************************************************************************)
(* The bounded scheduler of tool-execution slots and resource keys          *)
(* (packages/agent/src/resource-scheduler.ts).  A call of acquire() is a    *)
(* member of Calls; its request and its AbortSignal are chosen when it is   *)
(* made.  Every method is synchronous, so a step of the model is a method   *)
(* call, except that the loop of schedule() is one step per iteration: scan *)
(* is its index and nothing else runs until it is 0 again.                  *)
(***************************************************************************)
EXTENDS Naturals, Sequences, FiniteSets

CONSTANTS Calls, Keys, NoKey, Signals, NoSignal, MaxConcurrency

ASSUME SchedulerAssumption ==
    /\ MaxConcurrency \in Nat \ {0}
    /\ IsFiniteSet(Calls)
    /\ NoKey \notin Keys
    /\ NoSignal \notin Signals

VARIABLES
    activeCount,  \* slots in use
    activeKeys,   \* key -> the modes of its leases (an absent key is <<>>)
    waiters,      \* queued calls, in arrival order
    scan,         \* index of the schedule() loop, 0 when it is not running
    status,       \* what the promise of each call has become
    request,      \* call -> its ResourceRequest
    signal,       \* call -> its AbortSignal, or NoSignal
    aborted       \* the signals that have been aborted

vars == <<activeCount, activeKeys, waiters, scan, status, request, signal, aborted>>

Modes == {"shared", "exclusive"}
Requests == [key : Keys \cup {NoKey}, mode : Modes \cup {"unset"}]

\* request.mode ?? "exclusive"
ModeOf(r) == IF r.mode = "unset" THEN "exclusive" ELSE r.mode

IsAborted(s) == s \in aborted

Init ==
    /\ activeCount = 0
    /\ activeKeys = [k \in Keys |-> <<>>]
    /\ waiters = <<>>
    /\ scan = 0
    /\ status = [c \in Calls |-> "new"]
    /\ request = [c \in Calls |-> [key |-> NoKey, mode |-> "unset"]]
    /\ signal = [c \in Calls |-> NoSignal]
    /\ aborted = {}

-----------------------------------------------------------------------------

\* canStart(request): a free slot, and a key no active mode conflicts with.
CanStart(r) ==
    /\ activeCount < MaxConcurrency
    /\ r.key # NoKey =>
          \/ activeKeys[r.key] = <<>>
          \/ /\ ModeOf(r) = "shared"
             /\ \A i \in DOMAIN activeKeys[r.key] : activeKeys[r.key][i] = "shared"

\* start(request): take a slot and record the mode under the key.
Start(c, r) ==
    /\ activeCount' = activeCount + 1
    /\ activeKeys' = IF r.key = NoKey THEN activeKeys
                     ELSE [activeKeys EXCEPT ![r.key] = Append(@, ModeOf(r))]
    /\ status' = [status EXCEPT ![c] = "held"]

\* waiters.splice(index, 1)
Splice(i) ==
    waiters' = [j \in 1 .. Len(waiters) - 1 |->
                  IF j < i THEN waiters[j] ELSE waiters[j + 1]]

\* acquire(request, signal): refuse, start at once, or queue.  A request that
\* can start does not look at the queue.
Acquire(c, r, s) ==
    /\ scan = 0
    /\ status[c] = "new"
    /\ request' = [request EXCEPT ![c] = r]
    /\ signal' = [signal EXCEPT ![c] = s]
    /\ \/ /\ IsAborted(s)
          /\ status' = [status EXCEPT ![c] = "undefined"]
          /\ UNCHANGED <<activeCount, activeKeys, waiters>>
       \/ /\ ~IsAborted(s)
          /\ CanStart(r)
          /\ Start(c, r)
          /\ UNCHANGED waiters
       \/ /\ ~IsAborted(s)
          /\ ~CanStart(r)
          /\ waiters' = Append(waiters, c)
          /\ status' = [status EXCEPT ![c] = "waiting"]
          /\ UNCHANGED <<activeCount, activeKeys>>
    /\ UNCHANGED <<scan, aborted>>

\* The holder of a signal aborts it.  Its listeners run one by one (OnAbort);
\* a listener may itself release a lease or acquire another.
Abort(s) ==
    /\ scan = 0
    /\ s \notin aborted
    /\ aborted' = aborted \cup {s}
    /\ UNCHANGED <<activeCount, activeKeys, waiters, scan, status, request, signal>>

\* The abort listener of a queued call: listeners of a signal run in the order
\* of their registration, which is their order in the queue.
OnAbort(i) ==
    /\ scan = 0
    /\ IsAborted(signal[waiters[i]])
    /\ \A j \in 1 .. i - 1 : signal[waiters[j]] # signal[waiters[i]]
    /\ Splice(i)
    /\ status' = [status EXCEPT ![waiters[i]] = "undefined"]
    /\ UNCHANGED <<activeCount, activeKeys, scan, request, signal, aborted>>

\* Bug: the key is deleted with its first released lease.
GiveBackDeletesKey(c) ==
    /\ activeCount' = activeCount - 1
    /\ activeKeys' = IF request[c].key = NoKey THEN activeKeys
                     ELSE [activeKeys EXCEPT ![request[c].key] = <<>>]

\* A lease gives its slot and one mode of its key back.  modes.pop() takes the
\* last mode, whichever lease pushed it.
GiveBack(c) ==
    /\ activeCount' = activeCount - 1
    /\ activeKeys' =
         IF request[c].key = NoKey THEN activeKeys
         ELSE [activeKeys EXCEPT ![request[c].key] = SubSeq(@, 1, Len(@) - 1)]

\* Bug: the queue is not scheduled.
ReleaseWithoutSchedule(c) ==
    /\ scan = 0
    /\ status[c] = "held"
    /\ status' = [status EXCEPT ![c] = "released"]
    /\ GiveBack(c)
    /\ UNCHANGED <<waiters, scan, request, signal, aborted>>

\* lease.release(): the first call gives back and enters schedule(), a later
\* one returns at once.
Release(c) ==
    /\ scan = 0
    /\ \/ /\ status[c] = "held"
          /\ status' = [status EXCEPT ![c] = "released"]
          /\ GiveBack(c)
          /\ scan' = 1
       \/ /\ status[c] = "released"
          /\ UNCHANGED <<activeCount, activeKeys, scan, status>>
    /\ UNCHANGED <<waiters, request, signal, aborted>>

\* The loop of schedule(), one iteration at a time: an aborted waiter is dropped,
ScheduleDrop ==
    /\ scan \in 1 .. Len(waiters)
    /\ IsAborted(signal[waiters[scan]])
    /\ Splice(scan)
    /\ status' = [status EXCEPT ![waiters[scan]] = "undefined"]
    /\ UNCHANGED <<activeCount, activeKeys, scan, request, signal, aborted>>

\* Bug: stop at the first waiter that cannot start.
ScheduleSkipBreaks ==
    /\ scan \in 1 .. Len(waiters)
    /\ ~CanStart(request[waiters[scan]])
    /\ scan' = 0
    /\ UNCHANGED <<activeCount, activeKeys, waiters, status, request, signal, aborted>>

\* one that still cannot start is skipped,
ScheduleSkip ==
    /\ scan \in 1 .. Len(waiters)
    /\ ~IsAborted(signal[waiters[scan]])
    /\ ~CanStart(request[waiters[scan]])
    /\ scan' = scan + 1
    /\ UNCHANGED <<activeCount, activeKeys, waiters, status, request, signal, aborted>>

\* Bug: no look at the signal before the lease is granted.
ScheduleStartAborted ==
    /\ scan \in 1 .. Len(waiters)
    /\ CanStart(request[waiters[scan]])
    /\ Splice(scan)
    /\ Start(waiters[scan], request[waiters[scan]])
    /\ UNCHANGED <<scan, request, signal, aborted>>

\* any other is given its lease,
ScheduleStart ==
    /\ scan \in 1 .. Len(waiters)
    /\ ~IsAborted(signal[waiters[scan]])
    /\ CanStart(request[waiters[scan]])
    /\ Splice(scan)
    /\ Start(waiters[scan], request[waiters[scan]])
    /\ UNCHANGED <<scan, request, signal, aborted>>

\* and the loop ends past the last waiter.
ScheduleEnd ==
    /\ scan > Len(waiters)
    /\ scan' = 0
    /\ UNCHANGED <<activeCount, activeKeys, waiters, status, request, signal, aborted>>

Schedule == ScheduleDrop \/ ScheduleSkip \/ ScheduleStart \/ ScheduleEnd

Next ==
    \/ \E c \in Calls, r \in Requests, s \in Signals \cup {NoSignal} : Acquire(c, r, s)
    \/ \E s \in Signals : Abort(s)
    \/ \E i \in 1 .. Len(waiters) : OnAbort(i)
    \/ \E c \in Calls : Release(c)
    \/ Schedule

Spec == Init /\ [][Next]_vars

\* Abort dispatch and the schedule() loop are synchronous; the tool loop calls
\* release() in a finally block, so a tool that returns gives its lease back.  Which
\* of them goes first is left open.
Fairness ==
    WF_vars(\/ Schedule
            \/ \E i \in 1 .. Len(waiters) : OnAbort(i)
            \/ \E c \in Calls : status[c] = "held" /\ Release(c))

FairSpec == Spec /\ Fairness

-----------------------------------------------------------------------------
Held == {c \in Calls : status[c] = "held"}
HeldOn(k) == {c \in Held : request[c].key = k}

\* Types: counts, mode lists, the queue and the loop index of schedule() stay within
\* their domains, whatever order calls, aborts and releases come in.
TypeOK ==
    /\ activeCount \in Nat
    /\ activeKeys \in [Keys -> Seq(Modes)]
    /\ waiters \in Seq(Calls)
    /\ scan \in Nat
    /\ status \in [Calls -> {"new", "waiting", "held", "released", "undefined"}]
    /\ request \in [Calls -> Requests]
    /\ signal \in [Calls -> Signals \cup {NoSignal}]
    /\ aborted \subseteq Signals

\* The queue holds exactly the calls whose promise is still open, each once: a
\* promise that splice() dropped without resolving would hang its tool call.
QueueMatchesPromises ==
    /\ \A i \in 1 .. Len(waiters) : status[waiters[i]] = "waiting"
    /\ \A i, j \in 1 .. Len(waiters) : waiters[i] = waiters[j] => i = j
    /\ \A c \in Calls : status[c] = "waiting" => \E i \in 1 .. Len(waiters) : waiters[i] = c

\* activeCount is the number of unreleased leases and never exceeds
\* maxConcurrency, through double releases, aborts and re-entrant acquires.
SlotsAccounted ==
    /\ activeCount = Cardinality(Held)
    /\ activeCount <= MaxConcurrency

\* modes.pop() removes some mode of the key, not the releasing lease's own: the
\* list still has one entry per lease on the key, each that lease's mode.
ModesAccounted ==
    \A k \in Keys :
        /\ Len(activeKeys[k]) = Cardinality(HeldOn(k))
        /\ \A c \in HeldOn(k), i \in DOMAIN activeKeys[k] :
              activeKeys[k][i] = ModeOf(request[c])

\* An exclusive lease on a key excludes every other lease on that key.
KeyExclusion ==
    \A c, d \in Held :
        /\ c # d
        /\ request[c].key # NoKey
        /\ request[c].key = request[d].key
        => ModeOf(request[c]) = "shared" /\ ModeOf(request[d]) = "shared"

\* The scheduler's books agree with the leases it has handed out, whatever order
\* acquires, releases (repeated ones too) and aborts came in.
Consistent == TypeOK /\ QueueMatchesPromises /\ SlotsAccounted /\ ModesAccounted /\ KeyExclusion

\* No lost wake-up: outside schedule() no queued call could start, so nothing
\* waits for a slot and key that are free; inside it, none already passed over.
NoStartableWaiter ==
    \A i \in 1 .. Len(waiters) :
        (scan = 0 \/ i < scan) => ~CanStart(request[waiters[i]])

\* A lease is never granted to a call whose signal is aborted, not even by the
\* schedule() of a release made while the abort is being dispatched.
NoGrantAfterAbort ==
    [][\A c \in Calls : status[c] # "held" /\ status'[c] = "held"
          => signal'[c] \notin aborted]_vars

\* Every queued call is eventually given a lease or refused, provided leases
\* are released: a finite batch of calls cannot deadlock in the queue.
EveryWaiterSettles ==
    \A c \in Calls : status[c] = "waiting" ~> status[c] # "waiting"

=============================================================================
