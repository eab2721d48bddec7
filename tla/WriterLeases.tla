----------------------------- MODULE WriterLeases -----------------------------
(***************************************************************************)
(* The writer lease of one session in the SQLite backend                     *)
(* (packages/session-backends/sqlite-node/src/sqlite): repo.ts and           *)
(* storage/writer-leases.ts.  Repositories are processes that share the      *)
(* database file.  A repository that opens the session claims its lease and  *)
(* gets a storage, whose owner id is unique; every write renews the lease in *)
(* the transaction of the write, and an idle storage renews it by a timer.   *)
(* Processes may be late, die, and fail to release.  They share one clock.   *)
(***************************************************************************)
EXTENDS Naturals, Sequences, FiniteSets

CONSTANTS Repos,
          Storages,  \* bound: the claims; a storage is its owner id
          Ttl,       \* writerLease.ttlMs
          Interval,  \* writerLease.heartbeatIntervalMs
          MaxTime,   \* bound on the clock
          MaxLog,    \* bound: entries
          MaxQueue,  \* bound: operations waiting in a storage
          Faults     \* whether transactions fail and processes die

ASSUME LeaseAssumption ==
    /\ Ttl \in Nat /\ Interval \in Nat /\ MaxTime \in Nat /\ MaxLog \in Nat /\ MaxQueue \in Nat
    /\ 0 < Interval /\ Interval < Ttl
    /\ "none" \notin Storages /\ "none" \notin Repos
    /\ Faults \in BOOLEAN

VARIABLES
    now,      \* Date.now()
    exists,   \* the session's row
    log,      \* the session's entries, by writer
    row,      \* its row in writer_leases
    pc,       \* the storages: how far each has got,
    home,     \* its repository,
    fence,    \* lease.fence,
    lost,     \* whether leaseError is set,
    queue,    \* operations, and
    due,      \* when its heartbeat timer is due, or 0
    at,       \* the repositories: how far each has got,
    busy,     \* the operation it is in, and
    wait      \* the storage whose release that one awaits

vars == <<now, exists, log, row, pc, home, fence, lost, queue, due, at, busy, wait>>
session == <<exists, log, row>>
storage == <<pc, home, fence, lost, queue, due>>
repos == <<at, busy, wait>>

NoRow == [owner |-> "none", fence |-> 0, expires |-> 0]

Init ==
    /\ now = 1 /\ exists = FALSE /\ log = <<>> /\ row = NoRow
    /\ pc = [s \in Storages |-> "unused"]
    /\ home = [s \in Storages |-> "none"]
    /\ fence = [s \in Storages |-> 0]
    /\ lost = [s \in Storages |-> FALSE]
    /\ queue = [s \in Storages |-> <<>>]
    /\ due = [s \in Storages |-> 0]
    /\ at = [r \in Repos |-> "open"]
    /\ busy = [r \in Repos |-> "no"]
    /\ wait = [r \in Repos |-> "none"]

-----------------------------------------------------------------------------
(* writer-leases.ts *)

\* Bug: a lease is taken over a tick before it expires.
ClaimableEarly == row.owner = "none" \/ row.expires <= now + 1

\* acquireWriterLease() succeeds: there is no lease, or it has expired.
Claimable == row.owner = "none" \/ row.expires <= now

Claimed(s) == [owner |-> s, fence |-> row.fence + 1, expires |-> now + Ttl]

\* Bug: the fence alone is compared.
RenewableByFence(s) == row.fence = fence[s] /\ row.expires > now

\* renewWriterLease() succeeds: the lease is still this owner's, and has not expired.
Renewable(s) == row.owner = s /\ row.fence = fence[s] /\ row.expires > now

Renewed == [row EXCEPT !.expires = now + Ttl]

\* releaseWriterLease()
Released(s) == IF row.owner = s /\ row.fence = fence[s] THEN NoRow ELSE row

-----------------------------------------------------------------------------
(* Storages *)

\* activeStorages of r.
Active(r) == {s \in Storages : home[s] = r /\ pc[s] \in {"active", "closing"}}

\* new SqliteSessionStorage(): the first heartbeat is scheduled.
NewStorage(r, s) ==
    /\ pc' = [pc EXCEPT ![s] = "active"]
    /\ home' = [home EXCEPT ![s] = r]
    /\ fence' = [fence EXCEPT ![s] = row.fence + 1]
    /\ due' = [due EXCEPT ![s] = now + Interval]
    /\ UNCHANGED <<lost, queue>>

\* enqueueWrite(), refused once the storage is closing.
Write(s) ==
    /\ pc[s] = "active" /\ Len(queue[s]) < MaxQueue
    /\ queue' = [queue EXCEPT ![s] = Append(@, "write")]
    /\ UNCHANGED <<now, session, pc, home, fence, lost, due, repos>>

\* The timer.  It is set again when its operation has run.
Heartbeat(s) ==
    /\ pc[s] = "active" /\ due[s] # 0 /\ due[s] <= now
    /\ due' = [due EXCEPT ![s] = 0]
    /\ queue' = [queue EXCEPT ![s] = Append(@, "heartbeat")]
    /\ UNCHANGED <<now, session, pc, home, fence, lost, repos>>

\* release(): concurrent calls share the operation.
Releasing(s) == \E i \in 1..Len(queue[s]) : queue[s][i] = "release"

\* finishRelease() seals the storages at once; the release waits its turn.
Seal(S) ==
    /\ pc' = [s \in Storages |-> IF s \in S THEN "closing" ELSE pc[s]]
    /\ due' = [s \in Storages |-> IF s \in S THEN 0 ELSE due[s]]
    /\ queue' = [s \in Storages |-> IF s \in S /\ ~Releasing(s) THEN Append(queue[s], "release") ELSE queue[s]]
    /\ UNCHANGED <<now, session, home, fence, lost>>

Release(s) ==
    /\ pc[s] \in {"active", "closing"} /\ ~Releasing(s)
    /\ Seal({s})
    /\ UNCHANGED repos

AtHead(s, op) == queue[s] # <<>> /\ Head(queue[s]) = op
Dequeue(s) == queue' = [queue EXCEPT ![s] = Tail(@)]

\* A write: one transaction renews the lease and writes.  The write itself may fail, and
\* takes the renewal back.
RunWrite(s) ==
    /\ AtHead(s, "write") /\ Dequeue(s)
    /\ IF lost[s] \/ ~Renewable(s)
       THEN /\ lost' = [lost EXCEPT ![s] = TRUE]
            /\ due' = [due EXCEPT ![s] = IF lost[s] THEN @ ELSE 0]
            /\ UNCHANGED <<log, row>>
       ELSE /\ \/ Len(log) < MaxLog /\ log' = Append(log, s) /\ row' = Renewed
               \/ UNCHANGED <<log, row>>
            /\ UNCHANGED <<lost, due>>
    /\ UNCHANGED <<now, exists, pc, home, fence, repos>>

\* A heartbeat renews the lease, finds that it is lost, or fails; scheduleHeartbeat() ends it.
RunHeartbeat(s) ==
    /\ AtHead(s, "heartbeat") /\ Dequeue(s)
    /\ \/ (pc[s] # "active" \/ lost[s] \/ Faults) /\ UNCHANGED <<row, lost>>
       \/ /\ pc[s] = "active" /\ ~lost[s] /\ Renewable(s)
          /\ row' = Renewed /\ lost' = lost
       \/ /\ pc[s] = "active" /\ ~lost[s] /\ ~Renewable(s)
          /\ row' = row /\ lost' = [lost EXCEPT ![s] = TRUE]
    /\ due' = [due EXCEPT ![s] = IF pc[s] = "active" /\ ~lost'[s] THEN now + Interval ELSE @]
    /\ UNCHANGED <<now, exists, log, pc, home, fence, repos>>

\* Bug: a storage whose release failed is forgotten.
RunReleaseForgetting(s) ==
    /\ AtHead(s, "release") /\ Dequeue(s)
    /\ row' = Released(s) \/ (Faults /\ row' = row)
    /\ pc' = [pc EXCEPT ![s] = "released"]
    /\ wait' = [r \in Repos |-> IF wait[r] = s THEN "none" ELSE wait[r]]
    /\ UNCHANGED <<now, exists, log, home, fence, lost, due, at, busy>>

\* The release is committed; or it fails, the storage stays registered, and with it fails
\* the delete or repair that waited for it.
RunRelease(s) ==
    /\ AtHead(s, "release") /\ Dequeue(s)
    /\ wait' = [r \in Repos |-> IF wait[r] = s THEN "none" ELSE wait[r]]
    /\ \/ /\ row' = Released(s)
          /\ pc' = [pc EXCEPT ![s] = "released"]
          /\ UNCHANGED busy
       \/ /\ Faults
          /\ busy' = [r \in Repos |-> IF wait[r] = s THEN "no" ELSE busy[r]]
          /\ UNCHANGED <<row, pc>>
    /\ UNCHANGED <<now, exists, log, home, fence, lost, due, at>>

-----------------------------------------------------------------------------
(* Repositories: one operation at a time *)

Idle(r) == at[r] = "open" /\ busy[r] = "no"

\* create(): the lease is claimed with the first rows; fork() into a new session claims it
\* the same way.
Create(r, s) ==
    /\ Idle(r) /\ pc[s] = "unused" /\ ~exists /\ Claimable
    /\ exists' = TRUE /\ log' = <<>>
    /\ row' = Claimed(s) /\ NewStorage(r, s)
    /\ UNCHANGED <<now, repos>>

\* open(): the repository's storage if it has one, otherwise a claim.
Open(r, s) ==
    /\ Idle(r) /\ pc[s] = "unused" /\ exists
    /\ Active(r) = {} /\ Claimable
    /\ row' = Claimed(s) /\ NewStorage(r, s)
    /\ UNCHANGED <<now, exists, log, repos>>

\* delete() and repairBranchCache() first release the repository's storages, one by one.
Begin(r, what) ==
    /\ Idle(r)
    /\ busy' = [busy EXCEPT ![r] = what]
    /\ UNCHANGED <<now, session, storage, at, wait>>

ReleaseNext(r, s) ==
    /\ busy[r] # "no" /\ wait[r] = "none" /\ s \in Active(r)
    /\ wait' = [wait EXCEPT ![r] = s]
    /\ Seal({s})
    /\ UNCHANGED <<at, busy>>

Ended(r) ==
    /\ Active(r) = {}
    /\ busy' = [busy EXCEPT ![r] = "no"]
    /\ UNCHANGED <<now, storage, at, wait>>

\* The transaction of delete(); it is refused if another repository holds the lease.
Delete(r) ==
    /\ busy[r] = "delete" /\ Ended(r)
    /\ IF exists /\ ~Claimable THEN UNCHANGED session
       ELSE exists' = FALSE /\ row' = NoRow /\ log' = <<>>

\* The transaction of repairBranchCache(), which claims and releases.
Repair(r) ==
    /\ busy[r] = "repair" /\ Ended(r)
    /\ row' = IF exists /\ Claimable THEN NoRow ELSE row
    /\ UNCHANGED <<exists, log>>

\* close(): sealed at once; when the operation under way has ended, the storages are
\* released.  A failed attempt may be repeated.
CloseRepo(r) ==
    /\ at[r] = "open"
    /\ at' = [at EXCEPT ![r] = "closing"]
    /\ UNCHANGED <<now, session, storage, busy, wait>>

CloseReleases(r) ==
    /\ at[r] = "closing" /\ busy[r] = "no"
    /\ \E s \in Active(r) : pc[s] = "active" \/ ~Releasing(s)
    /\ Seal(Active(r))
    /\ UNCHANGED repos

CloseEnds(r) ==
    /\ at[r] = "closing" /\ busy[r] = "no" /\ Active(r) = {}
    /\ at' = [at EXCEPT ![r] = "closed"]
    /\ UNCHANGED <<now, session, storage, busy, wait>>

\* The process dies; what it committed stays.
Crash(r) ==
    /\ Faults /\ at[r] \in {"open", "closing"}
    /\ at' = [at EXCEPT ![r] = "dead"]
    /\ busy' = [busy EXCEPT ![r] = "no"]
    /\ wait' = [wait EXCEPT ![r] = "none"]
    /\ pc' = [s \in Storages |-> IF s \in Active(r) THEN "dead" ELSE pc[s]]
    /\ queue' = [s \in Storages |-> IF s \in Active(r) THEN <<>> ELSE queue[s]]
    /\ due' = [s \in Storages |-> IF s \in Active(r) THEN 0 ELSE due[s]]
    /\ UNCHANGED <<now, session, home, fence, lost>>

\* Time passes: timers and queues may be arbitrarily late.
Tick ==
    /\ now < MaxTime
    /\ now' = now + 1
    /\ UNCHANGED <<session, storage, repos>>

RunNext(s) == RunWrite(s) \/ RunHeartbeat(s) \/ RunRelease(s)

Next ==
    \/ Tick
    \/ \E s \in Storages : \/ Write(s) \/ Heartbeat(s) \/ Release(s) \/ RunNext(s)
                           \/ \E r \in Repos : Create(r, s) \/ Open(r, s) \/ ReleaseNext(r, s)
    \/ \E r \in Repos : \/ Begin(r, "delete") \/ Begin(r, "repair") \/ Delete(r) \/ Repair(r)
                        \/ CloseRepo(r) \/ CloseReleases(r) \/ CloseEnds(r) \/ Crash(r)

Spec == Init /\ [][Next]_vars

-----------------------------------------------------------------------------
\* A lease is of a session that exists.
SessionType ==
    /\ now \in Nat /\ exists \in BOOLEAN
    /\ log \in Seq(Storages)
    /\ row \in [owner : Storages \cup {"none"}, fence : Nat, expires : Nat]
    /\ row.owner = "none" => row = NoRow
    /\ row # NoRow => exists

\* A storage in use is of a repository.
StorageType ==
    /\ pc \in [Storages -> {"unused", "active", "closing", "released", "dead"}]
    /\ home \in [Storages -> Repos \cup {"none"}]
    /\ \A s \in Storages : pc[s] # "unused" => home[s] \in Repos
    /\ fence \in [Storages -> Nat]

QueueType ==
    /\ lost \in [Storages -> BOOLEAN]
    /\ queue \in [Storages -> Seq({"write", "heartbeat", "release"})]
    /\ due \in [Storages -> Nat]

RepoType ==
    /\ at \in [Repos -> {"open", "closing", "closed", "dead"}]
    /\ busy \in [Repos -> {"no", "delete", "repair"}]
    /\ wait \in [Repos -> Storages \cup {"none"}]

\* Types: the domains of the variables; a lease is of a session that exists, and a storage
\* in use of a repository.
TypeOK == SessionType /\ StorageType /\ QueueType /\ RepoType

\* A repository has one storage, and with it one write queue, for the session, however
\* often it is opened.  Does not hold: see "Disagreements" in README.md.
OneStorage == \A r \in Repos : Cardinality(Active(r)) <= 1

\* Nobody can be dispossessed: a lease changes hands, or is removed, only if it has
\* expired or its own storage releases it.
NoForeignRelease ==
    [][row.owner # "none" /\ row'.owner # row.owner =>
          row.expires <= now \/ AtHead(row.owner, "release")]_vars

\* A closed repository holds no lease.
ClosedHoldsNothing ==
    \A s \in Storages : home[s] # "none" /\ at[home[s]] = "closed" => row.owner # s

\* The types, and nothing is left behind by a repository that is closed, whichever
\* releases and transactions of it have failed.
Consistent == TypeOK /\ ClosedHoldsNothing

Fenced == INSTANCE FencedLog
          WITH Writers <- Storages, holder <- row.owner,
               used <- {s \in Storages : pc[s] # "unused"}

\* Leases make the repositories exclusive writers: a storage whose lease was taken over,
\* released or deleted never writes again, even when a fence number comes back.
ImplementsFencedLog == Fenced!Spec
=============================================================================
