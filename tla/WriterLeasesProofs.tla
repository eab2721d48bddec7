-------------------------- MODULE WriterLeasesProofs --------------------------
(***************************************************************************)
(* Proofs about WriterLeases, for any number of repositories and storages,   *)
(* any lease time and any timing.                                            *)
(***************************************************************************)
EXTENDS WriterLeases, TLAPS

\* A storage that was never opened has nothing to run.
UnusedIdle == \A s \in Storages : pc[s] = "unused" => queue[s] = <<>>

\* The holder of the lease has its fence, and has not released it.
HolderRegistered ==
    row.owner # "none" =>
        pc[row.owner] \in {"active", "closing", "dead"} /\ row.fence = fence[row.owner]

\* Storages die with their repository, and a closed repository has none left.
EndedTogether ==
    \A s \in Storages : /\ pc[s] = "dead" => at[home[s]] = "dead"
                        /\ pc[s] \in {"active", "closing"} => at[home[s]] \in {"open", "closing"}

IInv == TypeOK /\ UnusedIdle /\ HolderRegistered /\ EndedTogether

-----------------------------------------------------------------------------
(* The invariant *)

\* The assumptions on the lease's times and names, without the one on faults.
LEMMA TimesAreNumbers ==
    /\ Ttl \in Nat /\ Interval \in Nat /\ 0 < Interval
    /\ "none" \notin Storages /\ "none" \notin Repos
BY LeaseAssumption

\* Both the present entries and none are a sequence of writers.
LEMMA LogType == SessionType => log \in Seq(Storages) /\ <<>> \in Seq(Storages)
<1>1. <<>> \in Seq(Storages)
  OBVIOUS
<1> QED BY <1>1 DEF SessionType

\* The initial state satisfies the invariant.
LEMMA InitIInv == Init => IInv
<1> SUFFICES ASSUME Init PROVE IInv
  OBVIOUS
<1>1. SessionType
  <2>1. now \in Nat /\ log \in Seq(Storages) /\ row \in [owner : Storages \cup {"none"}, fence : Nat, expires : Nat]
    BY DEF Init, NoRow
  <2>2. exists \in BOOLEAN /\ (row.owner = "none" => row = NoRow) /\ (row # NoRow => exists)
    BY DEF Init
  <2> QED BY <2>1, <2>2 DEF SessionType
<1>2. StorageType /\ QueueType
  BY DEF Init, StorageType, QueueType
<1>3. RepoType
  BY DEF Init, RepoType
<1>4. UnusedIdle /\ HolderRegistered /\ EndedTogether
  BY DEF Init, UnusedIdle, HolderRegistered, EndedTogether, NoRow
<1> QED BY <1>1, <1>2, <1>3, <1>4 DEF IInv, TypeOK

\* create() and open() claim the lease for a new storage.
LEMMA ClaimStep ==
    ASSUME IInv, NEW r \in Repos, NEW s \in Storages, Create(r, s) \/ Open(r, s)
    PROVE  IInv'
<1> USE DEF IInv
<1>1. /\ Idle(r) /\ pc[s] = "unused" /\ exists' = TRUE
      /\ row' = Claimed(s) /\ NewStorage(r, s) /\ UNCHANGED <<now, at, busy, wait>>
  BY Zenon DEF Create, Open, repos
<1>2. TypeOK'
  <2>0. log' = log \/ log' = <<>>
    BY Zenon DEF Create, Open
  <2>1. log' \in Seq(Storages)
    BY <2>0, LogType, Zenon DEF TypeOK
  <2>2. SessionType'
    <3>1. /\ now' \in Nat /\ row.fence + 1 \in Nat /\ now + Ttl \in Nat
      BY <1>1, TimesAreNumbers DEF SessionType, TypeOK
    <3>2. /\ row' \in [owner : Storages \cup {"none"}, fence : Nat, expires : Nat]
          /\ row'.owner # "none"
      BY <1>1, <3>1, TimesAreNumbers DEF Claimed
    <3> QED BY <1>1, <2>1, <3>1, <3>2 DEF SessionType
  <2>3. StorageType' /\ QueueType'
    <3>1. row.fence + 1 \in Nat /\ now + Interval \in Nat
      BY TimesAreNumbers DEF SessionType, TypeOK
    <3>2. StorageType'
      BY <1>1, <3>1 DEF NewStorage, StorageType, TypeOK
    <3>3. QueueType'
      BY <1>1, <3>1 DEF NewStorage, QueueType, TypeOK
    <3> QED BY <3>2, <3>3
  <2> QED BY <1>1, <2>2, <2>3 DEF RepoType, TypeOK
<1>3. UnusedIdle'
  BY <1>1 DEF NewStorage, UnusedIdle, SessionType, StorageType, QueueType, RepoType, TypeOK
<1>4. HolderRegistered'
  BY <1>1 DEF NewStorage, Claimed, HolderRegistered, SessionType, StorageType, QueueType, RepoType, TypeOK
<1>5. EndedTogether'
  BY <1>1 DEF NewStorage, Idle, EndedTogether, StorageType, RepoType, TypeOK
<1> QED BY <1>2, <1>3, <1>4, <1>5

\* Sealing registered storages disturbs nothing.
LEMMA SealStep ==
    ASSUME IInv, NEW S \in SUBSET Storages, \A s \in S : pc[s] \in {"active", "closing"},
           Seal(S), wait' \in [Repos -> Storages \cup {"none"}], UNCHANGED <<at, busy>>
    PROVE  IInv'
<1> USE DEF IInv
<1>1. \A s \in Storages : /\ pc'[s] = pc[s] \/ (pc[s] \in {"active", "closing"} /\ pc'[s] = "closing")
                          /\ queue'[s] = queue[s] \/ pc[s] \in {"active", "closing"}
  BY DEF Seal
<1>2. TypeOK'
  <2>1. SessionType' /\ RepoType'
    BY DEF Seal, session, SessionType, RepoType, TypeOK
  <2>2. StorageType'
    BY DEF Seal, StorageType, TypeOK
  <2>3. QueueType'
    BY DEF Seal, QueueType, TypeOK
  <2> QED BY <2>1, <2>2, <2>3 DEF TypeOK
<1>3. UnusedIdle' /\ HolderRegistered'
  BY <1>1 DEF Seal, session, UnusedIdle, HolderRegistered, SessionType, StorageType, QueueType, RepoType, TypeOK
<1>4. EndedTogether'
  BY <1>1 DEF Seal, session, EndedTogether, SessionType, StorageType, QueueType, RepoType, TypeOK
<1> QED BY <1>2, <1>3, <1>4

\* New work for a storage in use.
LEMMA QueueStep ==
    ASSUME IInv, NEW s \in Storages, Write(s) \/ Heartbeat(s)
    PROVE  IInv'
<1> USE DEF IInv
<1>1. TypeOK'
  <2>1. SessionType' /\ RepoType' /\ StorageType'
    BY DEF Write, Heartbeat, session, repos, SessionType, RepoType, StorageType, TypeOK
  <2>2. ASSUME Write(s) PROVE QueueType'
    BY <2>2 DEF Write, QueueType, TypeOK
  <2>3. ASSUME Heartbeat(s) PROVE QueueType'
    BY <2>3 DEF Heartbeat, QueueType, TypeOK
  <2> QED BY <2>1, <2>2, <2>3 DEF TypeOK
<1>2. UnusedIdle'
  BY DEF Write, Heartbeat, UnusedIdle, QueueType, TypeOK
<1>3. HolderRegistered' /\ EndedTogether'
  BY DEF Write, Heartbeat, session, repos, HolderRegistered, EndedTogether
<1> QED BY <1>1, <1>2, <1>3

\* A queued operation runs.
LEMMA RunStep ==
    ASSUME IInv, NEW s \in Storages, RunNext(s)
    PROVE  IInv'
<1> USE DEF IInv
<1>1. ASSUME NEW op, AtHead(s, op), Dequeue(s)
      PROVE  /\ queue' \in [Storages -> Seq({"write", "heartbeat", "release"})]
             /\ \A t \in Storages : pc[t] = "unused" => queue'[t] = queue[t] /\ t # s
  BY <1>1 DEF AtHead, Dequeue, UnusedIdle, QueueType, StorageType, TypeOK
<1>2. CASE RunWrite(s)
  <2>1. SessionType'
    <3>1. CASE UNCHANGED <<log, row>>
      BY <1>2, <3>1 DEF RunWrite, SessionType, TypeOK
    <3>2. CASE Renewable(s) /\ log' = Append(log, s) /\ row' = Renewed
      <4>0. log' \in Seq(Storages)
        BY <3>2 DEF SessionType, TypeOK
      <4>1a. row.owner = s /\ row' = Renewed
        BY <3>2 DEF Renewable
      <4>1. row' \in [owner : Storages, fence : Nat, expires : Nat] /\ log' \in Seq(Storages)
        BY <4>0, <4>1a, TimesAreNumbers DEF Renewed, SessionType, TypeOK
      <4>2. row # NoRow
        BY <3>2, TimesAreNumbers DEF Renewable, NoRow
      <4>3. exists' = exists /\ now' = now /\ exists
        BY <1>2, <4>2 DEF RunWrite, SessionType, TypeOK
      <4> QED BY <4>1, <4>3, TimesAreNumbers DEF SessionType, TypeOK
    <3> QED BY <1>2, <3>1, <3>2, Zenon DEF RunWrite
  <2>2. StorageType' /\ RepoType'
    BY <1>2 DEF RunWrite, repos, StorageType, RepoType, TypeOK
  <2>3. QueueType'
    <3>1. lost' = lost \/ lost' = [lost EXCEPT ![s] = TRUE]
      BY <1>2, Zenon DEF RunWrite
    <3>2. due' = due \/ due' = [due EXCEPT ![s] = due[s]] \/ due' = [due EXCEPT ![s] = 0]
      BY <1>2, Zenon DEF RunWrite
    <3>3. lost' \in [Storages -> BOOLEAN]
      BY <3>1 DEF QueueType, TypeOK
    <3>4. due' \in [Storages -> Nat]
      BY <3>2 DEF QueueType, TypeOK
    <3> QED BY <1>1, <1>2, <3>3, <3>4 DEF RunWrite, QueueType
  <2>4. row'.owner = row.owner /\ row'.fence = row.fence
    BY <1>2 DEF RunWrite, Renewed, SessionType, TypeOK
  <2>5. UnusedIdle' /\ HolderRegistered' /\ EndedTogether'
    BY <1>1, <1>2, <2>4 DEF RunWrite, repos, UnusedIdle, HolderRegistered, EndedTogether
  <2> QED BY <2>1, <2>2, <2>3, <2>5 DEF TypeOK
<1>3. CASE RunHeartbeat(s)
  <2>1. SessionType'
    BY <1>3, TimesAreNumbers DEF RunHeartbeat, Renewable, Renewed, NoRow, SessionType, TypeOK
  <2>2. StorageType' /\ RepoType'
    BY <1>3 DEF RunHeartbeat, repos, StorageType, RepoType, TypeOK
  <2>3. QueueType'
    <3>1. lost' = lost \/ lost' = [lost EXCEPT ![s] = TRUE]
      BY <1>3, Zenon DEF RunHeartbeat
    <3>2. due' = [due EXCEPT ![s] = now + Interval] \/ due' = [due EXCEPT ![s] = due[s]]
      BY <1>3, Zenon DEF RunHeartbeat
    <3>3. due' \in [Storages -> Nat]
      <4>1. now + Interval \in Nat
        BY TimesAreNumbers DEF SessionType, TypeOK
      <4> QED BY <3>2, <4>1 DEF QueueType, TypeOK
    <3>4. lost' \in [Storages -> BOOLEAN]
      BY <3>1 DEF QueueType, TypeOK
    <3> QED BY <1>1, <1>3, <3>3, <3>4 DEF RunHeartbeat, QueueType
  <2>4. row'.owner = row.owner /\ row'.fence = row.fence
    BY <1>3 DEF RunHeartbeat, Renewed, SessionType, TypeOK
  <2>5. UnusedIdle' /\ HolderRegistered' /\ EndedTogether'
    BY <1>1, <1>3, <2>4 DEF RunHeartbeat, repos, UnusedIdle, HolderRegistered, EndedTogether
  <2> QED BY <2>1, <2>2, <2>3, <2>5 DEF TypeOK
<1>4. CASE RunRelease(s)
  <2>1. SessionType'
    BY <1>4, TimesAreNumbers DEF RunRelease, Released, NoRow, SessionType, TypeOK
  <2>2. StorageType' /\ RepoType'
    <3>1. pc[s] # "unused"
      BY <1>1, <1>4 DEF RunRelease
    <3> QED BY <1>4, <3>1 DEF RunRelease, StorageType, RepoType, TypeOK
  <2>3. QueueType'
    BY <1>1, <1>4 DEF RunRelease, QueueType, TypeOK
  <2>4. UnusedIdle'
    BY <1>1, <1>4 DEF RunRelease, UnusedIdle, StorageType, TypeOK
  <2>5. HolderRegistered'
    BY <1>4 DEF RunRelease, Released, NoRow, HolderRegistered, SessionType, StorageType, TypeOK
  <2>6. EndedTogether'
    BY <1>4 DEF RunRelease, EndedTogether, StorageType, TypeOK
  <2> QED BY <2>1, <2>2, <2>3, <2>4, <2>5, <2>6 DEF TypeOK
<1> QED BY <1>2, <1>3, <1>4 DEF RunNext

\* A repository begins and ends an operation, closes, or dies.
LEMMA RepoStep ==
    ASSUME IInv, NEW r \in Repos,
           \/ Begin(r, "delete") \/ Begin(r, "repair") \/ Delete(r) \/ Repair(r)
           \/ CloseRepo(r) \/ CloseEnds(r) \/ Crash(r)
    PROVE  IInv'
<1> USE DEF IInv
<1>1. CASE Begin(r, "delete") \/ Begin(r, "repair") \/ CloseRepo(r)
  <2>1. TypeOK'
    <3>1. SessionType' /\ StorageType' /\ QueueType'
      BY <1>1 DEF Begin, CloseRepo, session, storage, SessionType, StorageType, QueueType, TypeOK
    <3>2. RepoType'
      BY <1>1 DEF Begin, CloseRepo, RepoType, TypeOK
    <3> QED BY <3>1, <3>2 DEF TypeOK
  <2>2. UnusedIdle' /\ HolderRegistered'
    BY <1>1 DEF Begin, CloseRepo, session, storage, UnusedIdle, HolderRegistered
  <2>3. EndedTogether'
    BY <1>1 DEF Begin, CloseRepo, storage, EndedTogether, StorageType, RepoType, TypeOK
  <2> QED BY <2>1, <2>2, <2>3
<1>2. CASE Delete(r) \/ Repair(r)
  <2>1. (row' = row \/ row' = NoRow) /\ Ended(r)
    BY <1>2 DEF Delete, Repair, session
  <2>2. SessionType'
    <3>1. \/ UNCHANGED <<exists, log, row>>
          \/ row' = NoRow /\ (log' = <<>> \/ log' = log) /\ (exists' = FALSE \/ exists' = exists)
      BY <1>2, Zenon DEF Delete, Repair, session
    <3>2. now' \in Nat /\ exists' \in BOOLEAN /\ log' \in Seq(Storages)
      BY <2>1, <3>1, LogType, Zenon DEF Ended, SessionType, TypeOK
    <3>3. CASE row' = NoRow
      <4>1. NoRow \in [owner : Storages \cup {"none"}, fence : Nat, expires : Nat]
        BY DEF NoRow
      <4> QED BY <3>2, <3>3, <4>1 DEF SessionType
    <3>4. CASE UNCHANGED <<exists, log, row>>
      BY <3>2, <3>4 DEF SessionType, TypeOK
    <3> QED BY <3>1, <3>3, <3>4
  <2>3. StorageType' /\ QueueType' /\ RepoType'
    BY <2>1 DEF Ended, storage, StorageType, QueueType, RepoType, TypeOK
  <2>4. UnusedIdle' /\ HolderRegistered' /\ EndedTogether'
    BY <2>1 DEF Ended, NoRow, storage, UnusedIdle, HolderRegistered, EndedTogether
  <2> QED BY <2>2, <2>3, <2>4 DEF TypeOK
<1>3. CASE CloseEnds(r)
  <2>1. TypeOK'
    BY <1>3 DEF CloseEnds, session, storage, SessionType, StorageType, QueueType, RepoType, TypeOK
  <2>2. UnusedIdle' /\ HolderRegistered'
    BY <1>3 DEF CloseEnds, session, storage, UnusedIdle, HolderRegistered, SessionType, StorageType, QueueType, RepoType, TypeOK
  <2>3. EndedTogether'
    BY <1>3 DEF CloseEnds, Active, session, storage, EndedTogether, SessionType, StorageType, QueueType, RepoType, TypeOK
  <2> QED BY <2>1, <2>2, <2>3
<1>4. CASE Crash(r)
  <2>1. TypeOK'
    BY <1>4, TimesAreNumbers DEF Crash, Active, session, SessionType, StorageType, QueueType, RepoType, TypeOK
  <2>2. UnusedIdle' /\ HolderRegistered'
    BY <1>4 DEF Crash, Active, session, UnusedIdle, HolderRegistered, SessionType, StorageType, QueueType, RepoType, TypeOK
  <2>3. EndedTogether'
    BY <1>4 DEF Crash, Active, session, EndedTogether, SessionType, StorageType, QueueType, RepoType, TypeOK
  <2> QED BY <2>1, <2>2, <2>3
<1> QED BY <1>1, <1>2, <1>3, <1>4

\* Every step keeps the invariant.
LEMMA StepIInv == IInv /\ [Next]_vars => IInv'
<1> SUFFICES ASSUME IInv, [Next]_vars PROVE IInv'
  OBVIOUS
<1>1. CASE UNCHANGED vars
  BY <1>1 DEF vars, IInv, SessionType, StorageType, QueueType, RepoType, TypeOK, UnusedIdle, HolderRegistered, EndedTogether
<1>2. CASE Tick
  BY <1>2 DEF Tick, session, storage, repos, IInv, SessionType, StorageType, QueueType, RepoType, TypeOK, UnusedIdle, HolderRegistered, EndedTogether
<1>3. ASSUME NEW s \in Storages, Release(s) PROVE IInv'
  <2>1. Seal({s}) /\ pc[s] \in {"active", "closing"} /\ UNCHANGED <<at, busy, wait>>
    BY <1>3 DEF Release, repos
  <2> QED BY <2>1, SealStep DEF IInv, SessionType, StorageType, QueueType, RepoType, TypeOK
<1>4. ASSUME NEW r \in Repos, NEW s \in Storages, ReleaseNext(r, s) PROVE IInv'
  <2>1. Seal({s}) /\ pc[s] \in {"active", "closing"} /\ wait' \in [Repos -> Storages \cup {"none"}] /\ UNCHANGED <<at, busy>>
    BY <1>4 DEF ReleaseNext, Active, IInv, SessionType, StorageType, QueueType, RepoType, TypeOK
  <2> QED BY <2>1, SealStep
<1>5. ASSUME NEW r \in Repos, CloseReleases(r) PROVE IInv'
  <2>1. Seal(Active(r)) /\ UNCHANGED <<at, busy, wait>> /\ Active(r) \in SUBSET Storages
    BY <1>5 DEF CloseReleases, Active, repos
  <2>2. \A s \in Active(r) : pc[s] \in {"active", "closing"}
    BY DEF Active
  <2> QED BY <2>1, <2>2, SealStep DEF IInv, SessionType, StorageType, QueueType, RepoType, TypeOK
<1> QED BY <1>1, <1>2, <1>3, <1>4, <1>5, ClaimStep, QueueStep, RunStep, RepoStep DEF Next

\* The invariant holds throughout.
LEMMA Invariance == Spec => []IInv
BY InitIInv, StepIInv, PTL DEF Spec

-----------------------------------------------------------------------------
(* What the leases promise *)

\* The state of repositories, storages and the lease stays in its domains, and there is a
\* lease only of a session that exists.
THEOREM TypeCorrect == Spec => []TypeOK
<1>1. IInv => TypeOK
  BY DEF IInv
<1> QED BY <1>1, Invariance, PTL

\* A repository whose close() has ended has left no lease behind, whatever failed before.
THEOREM CleanClose == Spec => []ClosedHoldsNothing
<1>1. ASSUME IInv PROVE ClosedHoldsNothing
  <2> SUFFICES ASSUME NEW s \in Storages, home[s] # "none", at[home[s]] = "closed", row.owner = s
               PROVE  FALSE
    BY DEF ClosedHoldsNothing
  <2>1. s # "none" /\ pc[s] \in {"active", "closing", "dead"}
    BY <1>1, TimesAreNumbers DEF IInv, HolderRegistered
  <2> QED BY <1>1, <2>1 DEF IInv, EndedTogether
<1> QED BY <1>1, Invariance, PTL

\* A step that takes the lease from its holder finds it expired or is its own release.
LEMMA Dispossessed ==
    ASSUME IInv, [Next]_vars, row.owner # "none", row'.owner # row.owner
    PROVE  row.expires <= now \/ AtHead(row.owner, "release")
<1> USE DEF IInv
<1>1. ASSUME NEW s \in Storages, RunWrite(s) \/ RunHeartbeat(s) PROVE FALSE
  BY <1>1 DEF RunWrite, RunHeartbeat, Renewed, SessionType, TypeOK
<1>2. ASSUME NEW s \in Storages, RunRelease(s) PROVE AtHead(row.owner, "release")
  BY <1>2 DEF RunRelease, Released
<1>3. ASSUME NEW r \in Repos, NEW s \in Storages, Create(r, s) \/ Open(r, s) PROVE row.expires <= now
  <2>1. Claimable
    BY <1>3, Zenon DEF Create, Open
  <2> QED BY <2>1 DEF Claimable
<1>4. ASSUME NEW r \in Repos, Delete(r) \/ Repair(r) PROVE row.expires <= now
  <2>1. row # NoRow
    BY TimesAreNumbers DEF NoRow
  <2>2. exists
    BY <2>1 DEF SessionType, TypeOK
  <2>3. Claimable
    BY <1>4, <2>2, Zenon DEF Delete, Repair, session
  <2> QED BY <2>3 DEF Claimable
<1>5. ASSUME \/ UNCHANGED vars \/ Tick
             \/ \E s \in Storages : \/ Write(s) \/ Heartbeat(s) \/ Release(s) \/ \E r \in Repos : ReleaseNext(r, s)
             \/ \E r \in Repos : \/ Begin(r, "delete") \/ Begin(r, "repair") \/ CloseRepo(r) \/ CloseReleases(r)
                                 \/ CloseEnds(r) \/ Crash(r)
      PROVE  row' = row
  BY <1>5, Zenon DEF vars, Tick, Write, Heartbeat, Release, ReleaseNext, Seal, Begin, CloseRepo, CloseReleases, CloseEnds,
               Crash, session
<1> QED BY <1>1, <1>2, <1>3, <1>4, <1>5 DEF Next, RunNext

\* Types, and clean closes, for any number of repositories and storages.
THEOREM ConsistentLeases == Spec => []Consistent
BY TypeCorrect, CleanClose, PTL DEF Consistent

\* Nobody is dispossessed of an unexpired lease, by any claim, delete, repair or close.
THEOREM NoDispossession == Spec => NoForeignRelease
<1>1. IInv /\ [Next]_vars =>
        [row.owner # "none" /\ row'.owner # row.owner => row.expires <= now \/ AtHead(row.owner, "release")]_vars
  BY Dispossessed
<1> QED BY <1>1, Invariance, PTL DEF Spec, NoForeignRelease

-----------------------------------------------------------------------------
(* Refinement *)

\* Those that have held the session are the storages that were opened.
Opened == {s \in Storages : pc[s] # "unused"}

\* Every step is one of FencedLog, or changes neither the holder, nor the entries, nor who
\* has held the session.
LEMMA StepSimulation == IInv /\ [Next]_vars => [Fenced!Next]_(Fenced!vars)
<1> SUFFICES ASSUME IInv, [Next]_vars
             PROVE  Fenced!Next \/ (row'.owner = row.owner /\ Opened' = Opened /\ log' = log)
  BY DEF Fenced!vars, Opened
<1> USE DEF IInv
<1>1. ASSUME NEW s \in Storages, RunWrite(s)
      PROVE  Fenced!Next \/ (row'.owner = row.owner /\ Opened' = Opened /\ log' = log)
  <2>1. Opened' = Opened
    BY <1>1 DEF RunWrite, Opened
  <2>2. CASE UNCHANGED <<log, row>>
    BY <2>1, <2>2
  <2>3. CASE Renewable(s) /\ log' = Append(log, s) /\ row' = Renewed
    <3>1. row.owner = s /\ row'.owner = s /\ s # "none"
      BY <2>3, TimesAreNumbers DEF Renewable, Renewed, SessionType, TypeOK
    <3> QED BY <2>1, <2>3, <3>1 DEF Fenced!Next, Fenced!Write, Opened
  <2> QED BY <1>1, <2>2, <2>3, Zenon DEF RunWrite
<1>2. ASSUME NEW s \in Storages, RunHeartbeat(s)
      PROVE  row'.owner = row.owner /\ Opened' = Opened /\ log' = log
  BY <1>2 DEF RunHeartbeat, Renewed, Opened, SessionType, TypeOK
<1>3. ASSUME NEW s \in Storages, RunRelease(s)
      PROVE  Fenced!Next \/ (row'.owner = row.owner /\ Opened' = Opened /\ log' = log)
  <2>1. pc[s] # "unused"
    BY <1>3 DEF RunRelease, AtHead, UnusedIdle
  <2>2. Opened' = Opened /\ log' = log
    BY <1>3, <2>1 DEF RunRelease, Opened, StorageType, TypeOK
  <2>3. row' = row \/ row'.owner = "none"
    BY <1>3 DEF RunRelease, Released, NoRow
  <2> QED BY <2>2, <2>3 DEF Fenced!Next, Fenced!Vacate, Opened
<1>4. ASSUME NEW r \in Repos, NEW s \in Storages, Create(r, s) \/ Open(r, s) PROVE Fenced!Next
  <2>1. pc[s] = "unused" /\ row' = Claimed(s) /\ NewStorage(r, s) /\ (log' = log \/ log' = <<>>)
    BY <1>4, Zenon DEF Create, Open
  <2>2. s \notin Opened /\ row'.owner = s
    BY <2>1 DEF Opened, Claimed
  <2>3. Opened' = Opened \cup {s}
    BY <2>1 DEF NewStorage, Opened, StorageType, TypeOK
  <2>4. Fenced!Claim(s)
    BY <2>1, <2>2, <2>3 DEF Fenced!Claim, Opened
  <2> QED BY <2>4 DEF Fenced!Next
<1>5. ASSUME NEW r \in Repos, Delete(r) \/ Repair(r)
      PROVE  Fenced!Next \/ (row'.owner = row.owner /\ Opened' = Opened /\ log' = log)
  <2>1. Opened' = Opened
    BY <1>5 DEF Delete, Repair, Ended, storage, Opened
  <2>2. (row' = row /\ log' = log) \/ (row' = NoRow /\ (log' = log \/ log' = <<>>))
    BY <1>5, Zenon DEF Delete, Repair, session
  <2> QED BY <2>1, <2>2 DEF NoRow, Fenced!Next, Fenced!Vacate, Opened
<1>6. ASSUME \/ UNCHANGED vars \/ Tick
             \/ \E s \in Storages : Write(s) \/ Heartbeat(s)
             \/ \E r \in Repos : Begin(r, "delete") \/ Begin(r, "repair") \/ CloseRepo(r) \/ CloseEnds(r)
      PROVE  row' = row /\ Opened' = Opened /\ log' = log
  BY <1>6 DEF vars, Tick, Write, Heartbeat, Begin, CloseRepo, CloseEnds, session, storage, Opened
<1>7. ASSUME NEW S \in SUBSET Storages, \A s \in S : pc[s] # "unused", Seal(S)
      PROVE  row' = row /\ Opened' = Opened /\ log' = log
  BY <1>7 DEF Seal, session, Opened
<1>8. ASSUME NEW r \in Repos, Crash(r) PROVE row' = row /\ Opened' = Opened /\ log' = log
  BY <1>8 DEF Crash, Active, session, Opened
<1>9. ASSUME \/ \E s \in Storages : Release(s) \/ \E r \in Repos : ReleaseNext(r, s)
             \/ \E r \in Repos : CloseReleases(r)
      PROVE  row' = row /\ Opened' = Opened /\ log' = log
  <2>1. PICK S \in SUBSET Storages : (\A s \in S : pc[s] # "unused") /\ Seal(S)
    <3>1. ASSUME NEW s \in Storages, Release(s) PROVE \E S \in SUBSET Storages : (\A t \in S : pc[t] # "unused") /\ Seal(S)
      <4>1. {s} \in SUBSET Storages /\ (\A t \in {s} : pc[t] # "unused") /\ Seal({s})
        BY <3>1 DEF Release
      <4> QED BY <4>1
    <3>2. ASSUME NEW s \in Storages, NEW r \in Repos, ReleaseNext(r, s)
          PROVE  \E S \in SUBSET Storages : (\A t \in S : pc[t] # "unused") /\ Seal(S)
      <4>1. {s} \in SUBSET Storages /\ (\A t \in {s} : pc[t] # "unused") /\ Seal({s})
        BY <3>2 DEF ReleaseNext, Active
      <4> QED BY <4>1
    <3>3. ASSUME NEW r \in Repos, CloseReleases(r)
          PROVE  \E S \in SUBSET Storages : (\A t \in S : pc[t] # "unused") /\ Seal(S)
      <4>1. Active(r) \in SUBSET Storages /\ (\A t \in Active(r) : pc[t] # "unused")
        BY DEF Active
      <4> QED BY <3>3, <4>1 DEF CloseReleases
    <3> QED BY <1>9, <3>1, <3>2, <3>3
  <2> QED BY <2>1, <1>7
<1> QED BY <1>1, <1>2, <1>3, <1>4, <1>5, <1>6, <1>8, <1>9 DEF Next, RunNext

\* The leases implement FencedLog: only the present holder writes, and a storage that has
\* lost the session never writes again, although its fence number may come back.
THEOREM Refinement == Spec => ImplementsFencedLog
<1>1. Init => Fenced!Init
  BY DEF Init, NoRow, Fenced!Init
<1> QED BY <1>1, StepSimulation, Invariance, PTL DEF Spec, ImplementsFencedLog, Fenced!Spec
=============================================================================
