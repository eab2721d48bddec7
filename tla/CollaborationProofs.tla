------------------------- MODULE CollaborationProofs -------------------------
(***************************************************************************)
(* Proofs about Collaboration, for any team, any limits and any number of    *)
(* crashes and restarts: the reservations of the turns, the persisted row,    *)
(* the turn ledger and the live sessions stay consistent with each other, the *)
(* controller never poisons itself, and a team can always be reopened.        *)
(* The last section is about the team's waiters, the mailbox activity that    *)
(* the controller notifies.                                                   *)
(***************************************************************************)
EXTENDS Collaboration, MailboxActivity, FiniteSetTheorems, SequenceTheorems, TLAPS

\* Only the owner of the store has startups and runs.
MemoryOwned == up # "up" => \A a \in Agents : ~IsLoading(a) /\ ~IsActive(a)

\* An agent starts up or runs, never both, and does so for its latest turn.
OneTurn(a) ==
    /\ IsLoading(a) => ~IsActive(a) /\ loading[a].turn = agent[a].turn
    /\ IsActive(a) => active[a].turn = agent[a].turn
    /\ active[a].phase = "finish" => active[a].result \in Settled

\* What is in flight holds its reservation, and what holds one is in flight, unless
\* a refused commit kept it from being settled.
FlightReserved(a) ==
    /\ InFlight(a) => agent[a].reserved
    /\ up = "up" /\ failure = "none" /\ agent[a].reserved => InFlight(a)
    /\ IsActive(a) => agent[a].status \notin {"none", "closed"}

\* The record of an agent and its ledger: a reserved turn is unsettled and not
\* announced, an unreserved one is settled, and a settled one that ran is announced.
BooksAgree(a) ==
    LET r == agent[a]
        ledger == turns[a]
    IN  /\ Len(ledger) = r.turn
        /\ r.status = "none" <=> r.turn = 0
        /\ \A t \in 1 .. r.turn :
              /\ t < r.turn \/ ~r.reserved => ledger[t].status \in Settled
              /\ ledger[t].started /\ ledger[t].status \in Settled =>
                    ledger[t].delivery # "not_enqueued"
        /\ r.reserved => /\ r.status \in {"pending", "running", "interrupted"}
                         /\ ledger[r.turn].status \in {"pending", "running"}
                         /\ ledger[r.turn].delivery = "not_enqueued"
        /\ r.turn > 0 /\ ~r.reserved => r.status \in {ledger[r.turn].status, "closed"}
        /\ IsLoading(a) => ~ledger[r.turn].started

\* A result mail is one of the ledger's turns, one per turn, and pending exactly
\* as long as the ledger says so.
IsResult(m, a, t) == m.kind = "result" /\ m.from = a /\ m.turn = t

MailAgrees ==
    /\ IsFiniteSet(inbox)
    /\ \A m \in inbox : m.kind = "result" => m.turn \in 1 .. Len(turns[m.from])
    /\ \A a \in Agents : \A t \in 1 .. Len(turns[a]) :
          turns[a][t].delivery = "enqueued" <=> \E m \in inbox : IsResult(m, a, t)
    /\ \A m, n \in inbox : IsResult(m, n.from, n.turn) /\ n.kind = "result" => m = n

\* The startup queue holds every startup once, and only its head has begun.
QueueSound ==
    /\ \A a \in Agents : IsLoading(a) <=> \E i \in 1 .. Len(lifecycle) : lifecycle[i] = a
    /\ \A i, j \in 1 .. Len(lifecycle) : lifecycle[i] = lifecycle[j] => i = j
    /\ \A i \in 2 .. Len(lifecycle) : loading[lifecycle[i]].phase = "queued"

\* The place a startup found or made for its session stays free until it is taken,
\* and a session that serves a turn is neither evicted nor closed.
SessionOf(a) ==
    /\ loading[a].phase = "evicting" => Cardinality(sessions \ evicting) < MaxActiveSessions - 1
    /\ loading[a].phase = "creating" => Cardinality(sessions) < MaxActiveSessions - 1
    /\ loading[a].phase = "ready" \/ active[a].phase \in {"run", "finish"} =>
          a \in sessions /\ a \notin evicting
    /\ a \in closing => agent[a].status = "closed"

EvictionOwned == evicting # {} => \E a \in Agents : loading[a].phase = "evicting"

StoreInv  == PersistedTeamValid /\ MailAgrees /\ \A a \in Agents : BooksAgree(a)
FlightInv == MemoryOwned /\ \A a \in Agents : OneTurn(a) /\ FlightReserved(a)
HostInv   == QueueSound /\ SlotsBounded /\ EvictionOwned /\ \A a \in Agents : SessionOf(a)

IInv == TypeOK /\ NoSelfInflictedFailure /\ StoreInv /\ FlightInv /\ HostInv

-----------------------------------------------------------------------------
(* Snapshots, their limits and the history of a commit *)

AgentRecords == [status : Statuses, turn : Nat, reserved : BOOLEAN]

\* The counts of open and of reserved agents are numbers.
LEMMA TeamFinite ==
    ASSUME NEW s
    PROVE  /\ IsFiniteSet(Open(s)) /\ Cardinality(Open(s)) \in Nat
           /\ IsFiniteSet(Reserved(s)) /\ Cardinality(Reserved(s)) \in Nat
<1>1. Open(s) \in SUBSET Agents /\ Reserved(s) \in SUBSET Agents
  BY DEF Open, Reserved
<1>2. IsFiniteSet(Open(s)) /\ IsFiniteSet(Reserved(s))
  BY <1>1, FS_Subset, CollaborationAssumption
<1> QED BY <1>2, FS_CardinalityType

\* A snapshot within its limits passes validateCollaborationSnapshot(), and only
\* such a snapshot does.
LEMMA ValidMeans ==
    ASSUME NEW s, s.chat \in [Paths -> Nat], IsFiniteSet(s.inbox)
    PROVE  Valid(s) <=>
              /\ Cardinality(Open(s)) <= MaxAgents - 1
              /\ \A a \in Agents : s.chat[a] <= MaxPendingMessages
              /\ s.chat[Root] + Cardinality(s.inbox) + Cardinality(Reserved(s)) <= MaxPendingMessages
<1>1. Cardinality(s.inbox) \in Nat /\ Cardinality(Reserved(s)) \in Nat
  BY TeamFinite, FS_CardinalityType
<1>2. Root \notin Agents /\ Paths = Agents \cup {Root} /\ MaxPendingMessages \in Nat
  BY CollaborationAssumption DEF Paths
<1>3. \A a \in Agents : Load(s, a) = s.chat[a]
  BY <1>2 DEF Load
<1>4. Load(s, Root) = s.chat[Root] + Cardinality(s.inbox) + Cardinality(Reserved(s))
  BY <1>1, <1>2 DEF Load
<1> QED BY <1>2, <1>3, <1>4 DEF Valid

\* How one changed record changes the sets that are counted.
LEMMA RecordChange ==
    ASSUME TypeOK, NEW a \in Agents, NEW r \in AgentRecords,
           NEW s, s.agent = [agent EXCEPT ![a] = r]
    PROVE  /\ Open(s) = IF r.status \in {"none", "closed"} THEN Open(Current) \ {a}
                        ELSE Open(Current) \cup {a}
           /\ Reserved(s) = IF r.reserved THEN Reserved(Current) \cup {a}
                            ELSE Reserved(Current) \ {a}
           /\ a \in Open(Current) <=> agent[a].status \notin {"none", "closed"}
           /\ a \in Reserved(Current) <=> agent[a].reserved
<1>1. \A b \in Agents : s.agent[b] = IF b = a THEN r ELSE agent[b]
  BY DEF TypeOK
<1>2. Current.agent = agent
  BY DEF Current
<1> QED BY <1>1, <1>2 DEF Open, Reserved

\* What syncHistory() makes of the delivery of turn t.
Delivery(pushed, acked, a, t, old) ==
    IF \E m \in pushed : m.from = a /\ m.turn = t THEN "enqueued"
    ELSE IF \E m \in acked : m.kind = "result" /\ m.from = a /\ m.turn = t THEN "acknowledged"
    ELSE old

\* The deliveries are rewritten, nothing else.
LEMMA Annotated ==
    ASSUME NEW s, NEW pushed, NEW acked, NEW a \in Agents,
           SyncStatus(s, a) \in Seq(TurnRecords), turns' = SyncHistory(s, pushed, acked)
    PROVE  LET ledger == SyncStatus(s, a) IN
           /\ turns'[a] \in Seq(TurnRecords)
           /\ Len(turns'[a]) = Len(ledger)
           /\ \A t \in 1 .. Len(ledger) :
                 /\ turns'[a][t].status = ledger[t].status
                 /\ turns'[a][t].started = ledger[t].started
                 /\ turns'[a][t].delivery = Delivery(pushed, acked, a, t, ledger[t].delivery)
<1> DEFINE ledger == SyncStatus(s, a)
           new == [t \in 1 .. Len(ledger) |->
                     [ledger[t] EXCEPT !.delivery = Delivery(pushed, acked, a, t, ledger[t].delivery)]]
<1>1. turns'[a] = new
  BY Zenon DEF SyncHistory, Delivery
<1> HIDE DEF ledger
<1>2. ledger \in Seq(TurnRecords)
  BY DEF ledger
<1>3. ASSUME NEW t \in 1 .. Len(ledger)
      PROVE  /\ new[t] \in TurnRecords
             /\ new[t].status = ledger[t].status
             /\ new[t].started = ledger[t].started
             /\ new[t].delivery = Delivery(pushed, acked, a, t, ledger[t].delivery)
  <2>1. ledger[t] \in TurnRecords
    BY <1>2
  <2>2. Delivery(pushed, acked, a, t, ledger[t].delivery) \in {"not_enqueued", "enqueued", "acknowledged"}
    BY <2>1 DEF Delivery, TurnRecords
  <2> QED BY <2>1, <2>2 DEF TurnRecords
<1>4. new \in Seq(TurnRecords) /\ Len(new) = Len(ledger)
  <2>1. Len(ledger) \in Nat
    BY <1>2
  <2>2. new \in [1 .. Len(ledger) -> TurnRecords]
    BY <1>3
  <2> QED BY <2>1, <2>2
<1> QED BY <1>1, <1>3, <1>4 DEF ledger

\* The same turns, up to their deliveries.
SameTurns(after, before) ==
    /\ Len(after) = Len(before)
    /\ \A t \in 1 .. Len(before) : after[t].status = before[t].status /\ after[t].started = before[t].started

Redelivered(after, before, pushed, acked, a) ==
    \A t \in 1 .. Len(before) : after[t].delivery = Delivery(pushed, acked, a, t, before[t].delivery)

\* A record that did not change, was closed, or only has its interrupt requested.
LEMMA LedgerKept ==
    ASSUME TypeOK, NEW s, NEW pushed, NEW acked, NEW a \in Agents,
           \/ s.agent[a] = agent[a] \/ s.agent[a].status = "closed"
           \/ s.agent[a].status = "interrupted" /\ s.agent[a].reserved
              /\ ~(s.agent[a].turn > Len(turns[a])),
           turns' = SyncHistory(s, pushed, acked)
    PROVE  /\ turns'[a] \in Seq(TurnRecords)
           /\ SameTurns(turns'[a], turns[a])
           /\ Redelivered(turns'[a], turns[a], pushed, acked, a)
<1>1. SyncStatus(s, a) = turns[a]
  BY Zenon DEF SyncStatus
<1>2. turns[a] \in Seq(TurnRecords)
  BY DEF TypeOK
<1> QED BY <1>1, <1>2, Annotated DEF SameTurns, Redelivered

\* A new turn of an agent.
LEMMA LedgerOpened ==
    ASSUME TypeOK, NEW s, NEW pushed, NEW acked, NEW a \in Agents,
           s.agent[a].status = "pending", s.agent[a].turn = Len(turns[a]) + 1, s.agent[a] # agent[a],
           \A m \in pushed \cup acked : m.from = a => m.turn # Len(turns[a]) + 1,
           turns' = SyncHistory(s, pushed, acked)
    PROVE  LET n == Len(turns[a]) + 1 IN
           /\ turns'[a] \in Seq(TurnRecords)
           /\ Len(turns'[a]) = n
           /\ \A t \in 1 .. Len(turns[a]) : /\ turns'[a][t].status = turns[a][t].status
                                            /\ turns'[a][t].started = turns[a][t].started
           /\ Redelivered(turns'[a], turns[a], pushed, acked, a)
           /\ turns'[a][n].status = "pending" /\ ~turns'[a][n].started
           /\ turns'[a][n].delivery = "not_enqueued"
<1> DEFINE n == Len(turns[a]) + 1
           fresh == [status |-> "pending", started |-> FALSE, delivery |-> "not_enqueued"]
<1>1. turns[a] \in Seq(TurnRecords) /\ Len(turns[a]) \in Nat
  BY DEF TypeOK
<1>2. SyncStatus(s, a) = Append(turns[a], fresh)
  BY <1>1 DEF SyncStatus
<1>3. fresh \in TurnRecords
  BY DEF TurnRecords
<1>4. /\ SyncStatus(s, a) \in Seq(TurnRecords)
      /\ Len(SyncStatus(s, a)) = n
      /\ SyncStatus(s, a)[n] = fresh
      /\ \A t \in 1 .. Len(turns[a]) : SyncStatus(s, a)[t] = turns[a][t]
  BY <1>1, <1>2, <1>3
<1>5. Delivery(pushed, acked, a, n, "not_enqueued") = "not_enqueued"
  BY DEF Delivery
<1>6. Len(turns[a]) \in Nat /\ n \in 1 .. n /\ \A t \in 1 .. Len(turns[a]) : t \in 1 .. n
  BY <1>1
<1> HIDE DEF n
<1>7. /\ turns'[a] \in Seq(TurnRecords)
      /\ Len(turns'[a]) = n
      /\ \A t \in 1 .. n : /\ turns'[a][t].status = SyncStatus(s, a)[t].status
                           /\ turns'[a][t].started = SyncStatus(s, a)[t].started
                           /\ turns'[a][t].delivery =
                                Delivery(pushed, acked, a, t, SyncStatus(s, a)[t].delivery)
  BY <1>4, Annotated
<1>8. turns'[a][n].status = "pending" /\ ~turns'[a][n].started
      /\ turns'[a][n].delivery = "not_enqueued"
  BY <1>4, <1>5, <1>6, <1>7
<1>9. \A t \in 1 .. Len(turns[a]) : /\ turns'[a][t].status = turns[a][t].status
                                    /\ turns'[a][t].started = turns[a][t].started
                                    /\ turns'[a][t].delivery =
                                         Delivery(pushed, acked, a, t, turns[a][t].delivery)
  BY <1>4, <1>6, <1>7
<1> QED BY <1>7, <1>8, <1>9 DEF Redelivered, n

\* The latest turn of an agent changes its status.
LEMMA LedgerMoved ==
    ASSUME TypeOK, NEW s, NEW pushed, NEW acked, NEW a \in Agents,
           s.agent[a].status \in Settled \cup {"pending", "running"},
           s.agent[a].turn = Len(turns[a]), Len(turns[a]) > 0, s.agent[a] # agent[a],
           ~(s.agent[a].status = "interrupted" /\ s.agent[a].reserved),
           turns' = SyncHistory(s, pushed, acked)
    PROVE  LET n == Len(turns[a]) IN
           /\ turns'[a] \in Seq(TurnRecords)
           /\ Len(turns'[a]) = n
           /\ \A t \in 1 .. n - 1 : /\ turns'[a][t].status = turns[a][t].status
                                    /\ turns'[a][t].started = turns[a][t].started
           /\ Redelivered(turns'[a], turns[a], pushed, acked, a)
           /\ turns'[a][n].status = s.agent[a].status
           /\ turns'[a][n].started = (turns[a][n].started \/ s.agent[a].status = "running")
<1> DEFINE n == Len(turns[a])
           r == s.agent[a]
           moved == [turns[a][n] EXCEPT !.status = r.status,
                                        !.started = @ \/ r.status = "running"]
<1>1. turns[a] \in Seq(TurnRecords) /\ n \in Nat \ {0} /\ n \in 1 .. n
  BY DEF TypeOK
<1>2. SyncStatus(s, a) = [turns[a] EXCEPT ![n].status = r.status,
                                          ![n].started = @ \/ r.status = "running"]
  BY <1>1 DEF SyncStatus, Settled
<1>3. turns[a][n] \in TurnRecords
  BY <1>1
<1>4. moved \in TurnRecords /\ moved.status = r.status /\ moved.delivery = turns[a][n].delivery
      /\ moved.started = (turns[a][n].started \/ r.status = "running")
  BY <1>3 DEF TurnRecords
<1>5. SyncStatus(s, a) = [turns[a] EXCEPT ![n] = moved]
  BY <1>1, <1>2, <1>3 DEF TurnRecords
<1> HIDE DEF moved, r
<1>6. /\ SyncStatus(s, a) \in Seq(TurnRecords)
      /\ Len(SyncStatus(s, a)) = n
      /\ SyncStatus(s, a)[n] = moved
      /\ \A t \in 1 .. n - 1 : SyncStatus(s, a)[t] = turns[a][t]
  BY <1>1, <1>4, <1>5
<1> HIDE DEF n
<1>7. /\ turns'[a] \in Seq(TurnRecords)
      /\ Len(turns'[a]) = n
      /\ \A t \in 1 .. n : /\ turns'[a][t].status = SyncStatus(s, a)[t].status
                           /\ turns'[a][t].started = SyncStatus(s, a)[t].started
                           /\ turns'[a][t].delivery =
                                Delivery(pushed, acked, a, t, SyncStatus(s, a)[t].delivery)
  BY <1>6, Annotated
<1>8. \A t \in 1 .. n : SyncStatus(s, a)[t].delivery = turns[a][t].delivery
  BY <1>1, <1>4, <1>6
<1>9. \A t \in 1 .. n - 1 : /\ turns'[a][t].status = turns[a][t].status
                            /\ turns'[a][t].started = turns[a][t].started
  BY <1>1, <1>6, <1>7
<1>10. /\ turns'[a][n].status = r.status
       /\ turns'[a][n].started = (turns[a][n].started \/ r.status = "running")
  BY <1>1, <1>4, <1>6, <1>7
<1> QED BY <1>7, <1>8, <1>9, <1>10 DEF Redelivered, n, r

-----------------------------------------------------------------------------
(* Steps that leave the persisted team alone *)

LoadPhases == {"none", "queued", "evicting", "creating", "ready", "failing"}
Loads == [phase : LoadPhases, turn : Nat, aborted : BOOLEAN]
Runs  == [phase : {"none", "run", "finish", "settled"}, turn : Nat,
          result : Settled \cup {"none"}, aborting : BOOLEAN]

\* loading and active end as given, but for the abort flags.
SameLoads(loads) ==
    \A a \in Agents : loading'[a].phase = loads[a].phase /\ loading'[a].turn = loads[a].turn

SameRuns(runs) ==
    \A a \in Agents : /\ active'[a].phase = runs[a].phase /\ active'[a].turn = runs[a].turn
                      /\ active'[a].result = runs[a].result

\* The parts of TypeOK that a step of the memory alone may disturb.
MemoryTyped ==
    /\ loading \in [Agents -> Loads] /\ active \in [Agents -> Runs] /\ lifecycle \in Seq(Agents)
    /\ sessions \subseteq Agents /\ evicting \subseteq Agents /\ closing \subseteq Agents
    /\ stopping \in {"no", "yes", "stuck"} /\ failure \in {"none", "storage", "logic"}

StoreTyped ==
    /\ agent \in [Agents -> AgentRecords]
    /\ chat \in [Paths -> Nat]
    /\ inbox \subseteq [kind : {"progress", "result"}, from : Agents, turn : Nat,
                        status : Settled \cup {"none"}]
    /\ turns \in [Agents -> Seq(TurnRecords)]

OwnerTyped == up \in {"up", "crashed", "closed", "broken"} /\ opens \in Nat

\* Types, by where the state lives.
LEMMA TypeParts ==
    /\ TypeOK <=> MemoryTyped /\ StoreTyped /\ OwnerTyped
    /\ TypeOK' <=> MemoryTyped' /\ StoreTyped' /\ OwnerTyped'
BY Zenon DEF TypeOK, MemoryTyped, StoreTyped, OwnerTyped, Loads, LoadPhases, Runs, AgentRecords

\* A commit of a valid snapshot that SQLite refuses aborts everything and changes
\* nothing else.
LEMMA Poisoned ==
    ASSUME NEW s, NEW pushed, NEW loads \in [Agents -> Loads], NEW runs \in [Agents -> Runs],
           Valid(s), ~Conflict(s, pushed), CommitFails(s, pushed, loads, runs)
    PROVE  /\ UNCHANGED store /\ failure' = "storage"
           /\ loading' \in [Agents -> Loads] /\ active' \in [Agents -> Runs]
           /\ SameLoads(loads) /\ SameRuns(runs)
<1>1. UNCHANGED store /\ failure' = "storage"
  BY Zenon DEF CommitFails
<1>2. loading' = [a \in Agents |-> [loads[a] EXCEPT !.aborted = @ \/ loads[a].phase # "none"]]
  BY Zenon DEF CommitFails
<1>3. active' = [a \in Agents |-> [runs[a] EXCEPT !.aborting = @ \/ runs[a].phase # "none"]]
  BY Zenon DEF CommitFails
<1>4. loading' \in [Agents -> Loads] /\ SameLoads(loads)
  BY <1>2 DEF Loads, SameLoads
<1>5. active' \in [Agents -> Runs] /\ SameRuns(runs)
  BY <1>3 DEF Runs, SameRuns
<1> QED BY <1>1, <1>4, <1>5

\* The store's part of the invariant only asks which agents start up.
LEMMA StoreKept ==
    ASSUME StoreInv, UNCHANGED store, \A a \in Agents : IsLoading(a)' => IsLoading(a)
    PROVE  StoreInv'
<1> USE DEF store
<1>1. PersistedTeamValid' /\ MailAgrees'
  BY DEF StoreInv, PersistedTeamValid, MailAgrees, Open, Reserved, Current
<1>2. ASSUME NEW a \in Agents PROVE BooksAgree(a)'
  BY DEF StoreInv, BooksAgree
<1> QED BY <1>1, <1>2 DEF StoreInv

\* Setting abort flags, with or without poisoning the team, disturbs nothing.
LEMMA FlagStep ==
    ASSUME IInv, UNCHANGED <<store, owner, lifecycle, sessions, evicting, closing>>,
           stopping' \in {"no", "yes", "stuck"}, failure' \in {failure, "storage"},
           loading' \in [Agents -> Loads], active' \in [Agents -> Runs],
           SameLoads(loading), SameRuns(active)
    PROVE  IInv'
<1> USE DEF IInv, store, owner, IsLoading, IsActive, InFlight
<1>1. \A a \in Agents : /\ loading'[a].phase = loading[a].phase /\ loading'[a].turn = loading[a].turn
                        /\ active'[a].phase = active[a].phase /\ active'[a].turn = active[a].turn
                        /\ active'[a].result = active[a].result
  BY DEF SameLoads, SameRuns
<1>2. TypeOK'
  BY TypeParts DEF MemoryTyped, StoreTyped, OwnerTyped
<1>3. NoSelfInflictedFailure'
  BY DEF NoSelfInflictedFailure
<1>4. StoreInv'
  BY <1>1, StoreKept
<1>5. FlightInv'
  BY <1>1 DEF FlightInv, MemoryOwned, OneTurn, FlightReserved
<1>6. HostInv'
  <2>1. QueueSound'
    <3>1. \A i \in 1 .. Len(lifecycle) : lifecycle[i] \in Agents
      BY TypeParts DEF MemoryTyped
    <3>2. \A i \in 2 .. Len(lifecycle) : i \in 1 .. Len(lifecycle)
      BY TypeParts DEF MemoryTyped
    <3> QED BY <1>1, <3>1, <3>2 DEF HostInv, QueueSound
  <2>2. SlotsBounded'
    <3>1. {a \in Agents : IsLoading(a) \/ IsActive(a)}' = {a \in Agents : IsLoading(a) \/ IsActive(a)}
      BY <1>1
    <3> QED BY <3>1 DEF HostInv, SlotsBounded
  <2>3. EvictionOwned' /\ \A a \in Agents : SessionOf(a)'
    BY <1>1 DEF HostInv, EvictionOwned, SessionOf
  <2> QED BY <2>1, <2>2, <2>3 DEF HostInv
<1> QED BY <1>2, <1>3, <1>4, <1>5, <1>6

\* Behind the head of the queue nothing has begun.
LEMMA HeadAlone ==
    ASSUME IInv, NEW a \in Agents, NEW phase, AtHead(a, phase)
    PROVE  /\ up = "up" /\ loading[a].phase = phase /\ phase # "none"
           /\ Len(lifecycle) \in Nat \ {0} /\ lifecycle[1] = a
           /\ \A b \in Agents \ {a} : loading[b].phase \in {"none", "queued"}
<1>1. lifecycle \in Seq(Agents) /\ lifecycle # <<>>
  BY DEF IInv, TypeOK, AtHead
<1>2. Len(lifecycle) \in Nat \ {0} /\ lifecycle[1] = a
  BY <1>1 DEF AtHead
<1>3. IsLoading(a)
  BY <1>2 DEF IInv, HostInv, QueueSound
<1>4. ASSUME NEW b \in Agents, b # a, IsLoading(b) PROVE loading[b].phase = "queued"
  <2>1. PICK i \in 1 .. Len(lifecycle) : lifecycle[i] = b
    BY <1>4 DEF IInv, HostInv, QueueSound
  <2>2. i \in 2 .. Len(lifecycle)
    BY <1>2, <1>4, <2>1
  <2> QED BY <2>1, <2>2 DEF IInv, HostInv, QueueSound
<1> QED BY <1>2, <1>3, <1>4 DEF AtHead, IsLoading

\* A step of the startup at the head of the queue, on which the sessions agree.
LEMMA HeadStep ==
    ASSUME IInv, NEW a \in Agents, NEW from, AtHead(a, from),
           NEW to \in LoadPhases \ {"none"},
           UNCHANGED <<store, owner, lifecycle, closing, stopping>>,
           failure' \in {failure, "storage"},
           loading' \in [Agents -> Loads], active' \in [Agents -> Runs],
           SameLoads(To(a, to)), SameRuns(active),
           sessions' \subseteq Agents, evicting' \subseteq Agents,
           Cardinality(sessions') <= MaxActiveSessions - 1,
           EvictionOwned', \A b \in Agents : SessionOf(b)'
    PROVE  IInv'
<1> USE DEF IInv, store, owner, IsLoading, IsActive, InFlight
<1>1. loading \in [Agents -> Loads] /\ lifecycle \in Seq(Agents)
  BY TypeParts DEF MemoryTyped
<1>2. \A b \in Agents : /\ To(a, to)[b].phase = IF b = a THEN to ELSE loading[b].phase
                        /\ To(a, to)[b].turn = loading[b].turn
  BY <1>1 DEF To, Loads
<1>3. \A b \in Agents : /\ loading'[b].phase = IF b = a THEN to ELSE loading[b].phase
                        /\ loading'[b].turn = loading[b].turn
                        /\ active'[b].phase = active[b].phase /\ active'[b].turn = active[b].turn
                        /\ active'[b].result = active[b].result
  BY <1>2 DEF SameLoads, SameRuns
<1>4. /\ loading[a].phase # "none" /\ to # "none"
      /\ Len(lifecycle) \in Nat \ {0} /\ lifecycle[1] = a
  BY HeadAlone
<1>5. TypeOK'
  BY TypeParts DEF MemoryTyped, StoreTyped, OwnerTyped
<1>6. NoSelfInflictedFailure'
  BY DEF NoSelfInflictedFailure
<1>7. StoreInv'
  BY <1>3, <1>4, StoreKept
<1>8. FlightInv'
  BY <1>3, <1>4 DEF FlightInv, MemoryOwned, OneTurn, FlightReserved
<1>9. QueueSound'
  <2>1. ASSUME NEW i \in 2 .. Len(lifecycle) PROVE lifecycle[i] \in Agents \ {a}
    BY <1>1, <1>4 DEF HostInv, QueueSound
  <2>2. QueueSound /\ lifecycle' = lifecycle
    BY DEF HostInv
  <2>3. \A b \in Agents : IsLoading(b)' <=> IsLoading(b)
    BY <1>3, <1>4
  <2>4. \A i \in 2 .. Len(lifecycle) : loading'[lifecycle[i]].phase = "queued"
    BY <1>3, <2>1, <2>2 DEF QueueSound
  <2> HIDE DEF IInv, IsLoading
  <2>5. \A b \in Agents : IsLoading(b)' <=> \E i \in 1 .. Len(lifecycle') : lifecycle'[i] = b
    BY <2>2, <2>3 DEF QueueSound
  <2> QED BY <2>2, <2>4, <2>5 DEF QueueSound
<1>10. SlotsBounded'
  <2>1. {b \in Agents : IsLoading(b) \/ IsActive(b)}' = {b \in Agents : IsLoading(b) \/ IsActive(b)}
    BY <1>3, <1>4
  <2> QED BY <2>1 DEF HostInv, SlotsBounded
<1> QED BY <1>5, <1>6, <1>7, <1>8, <1>9, <1>10 DEF HostInv

\* The sessions in memory can be counted.
LEMMA SessionsFinite ==
    ASSUME NEW S, S \subseteq Agents
    PROVE  IsFiniteSet(S) /\ Cardinality(S) \in Nat
BY FS_Subset, FS_CardinalityType, CollaborationAssumption

\* Where the head of the queue goes, the flags kept.
LEMMA ToShape ==
    ASSUME IInv, NEW a \in Agents, NEW phase \in LoadPhases
    PROVE  /\ To(a, phase) \in [Agents -> Loads]
           /\ \A b \in Agents : /\ To(a, phase)[b].phase = IF b = a THEN phase ELSE loading[b].phase
                                /\ To(a, phase)[b].turn = loading[b].turn
<1>1. loading \in [Agents -> Loads]
  BY TypeParts DEF IInv, MemoryTyped
<1> QED BY <1>1 DEF To, Loads

\* load() begins: it reuses a session, makes room, or gives up.
LEMMA LoadBeginStep ==
    ASSUME IInv, NEW a \in Agents, LoadBegin(a)
    PROVE  IInv'
<1> USE DEF LoadPhases
<1>1. AtHead(a, "queued") /\ UNCHANGED <<store, owner, active, lifecycle, sessions, closing, stopping, failure>>
  BY Zenon DEF LoadBegin
<1>2. \A b \in Agents : b # a => loading[b].phase \in {"none", "queued"}
  BY <1>1, HeadAlone
<1>3. loading[a].phase = "queued" /\ evicting = {}
  BY <1>1, <1>2, HeadAlone DEF IInv, HostInv, EvictionOwned
<1>4. active \in [Agents -> Runs] /\ sessions \subseteq Agents
      /\ Cardinality(sessions) \in Nat /\ MaxActiveSessions \in Nat
      /\ Cardinality(sessions) <= MaxActiveSessions - 1
      /\ IsFiniteSet(sessions)
  BY TypeParts, SessionsFinite, CollaborationAssumption DEF IInv, MemoryTyped, HostInv, SlotsBounded
<1>5. ASSUME NEW to \in {"evicting", "creating", "ready", "failing"}, loading' = To(a, to),
             to = "ready" => a \in sessions,
             to = "creating" => Cardinality(sessions) < MaxActiveSessions - 1,
             IF to = "evicting"
               THEN /\ a \notin sessions /\ Cardinality(sessions) >= MaxActiveSessions - 1
                    /\ \E v \in Agents : Evictable(v) /\ evicting' = {v}
               ELSE evicting' = evicting
      PROVE  IInv'
  <2>1. /\ loading' \in [Agents -> Loads]
        /\ \A b \in Agents : loading'[b].phase = IF b = a THEN to ELSE loading[b].phase
        /\ SameLoads(To(a, to)) /\ SameRuns(active) /\ active' = active
    BY <1>1, <1>5, ToShape DEF SameLoads, SameRuns
  <2>2. /\ evicting' \subseteq Agents
        /\ \A v \in evicting' : v \in sessions /\ ~IsActive(v) /\ ~IsLoading(v)
        /\ to # "evicting" => evicting' = {}
        /\ to = "evicting" => Cardinality(sessions \ evicting') < MaxActiveSessions - 1
    <3>1. CASE to # "evicting"
      BY <1>3, <1>5, <3>1
    <3>2. CASE to = "evicting"
      <4>1. PICK v \in Agents : v \in sessions /\ ~IsActive(v) /\ ~IsLoading(v) /\ evicting' = {v}
        BY <1>5, <3>2 DEF Evictable
      <4>2. Cardinality(sessions \ {v}) = Cardinality(sessions) - 1
        BY <1>4, <4>1, FS_RemoveElement
      <4> QED BY <1>4, <1>5, <3>2, <4>1, <4>2
    <3> QED BY <3>1, <3>2
  <2>3. EvictionOwned'
    BY <2>1, <2>2 DEF EvictionOwned
  <2>4. ASSUME NEW b \in Agents PROVE SessionOf(b)'
    <3>1. SessionOf(b) /\ sessions' = sessions /\ closing' = closing /\ agent' = agent
      BY <1>1 DEF IInv, HostInv, store
    <3>2. loading'[b].phase = "evicting" => Cardinality(sessions' \ evicting') < MaxActiveSessions - 1
      BY <1>2, <2>1, <2>2, <3>1
    <3>3. loading'[b].phase = "creating" => Cardinality(sessions') < MaxActiveSessions - 1
      BY <1>2, <1>5, <2>1, <3>1
    <3>4. loading'[b].phase = "ready" => a = b /\ to = "ready"
      BY <1>2, <2>1
    <3>5. active'[b].phase \in {"run", "finish"} => b \in sessions' /\ b \notin evicting'
      BY <2>1, <2>2, <3>1 DEF SessionOf, IsActive
    <3> QED BY <1>5, <2>2, <3>1, <3>2, <3>3, <3>4, <3>5 DEF SessionOf
  <2> QED BY <1>1, <1>4, <2>1, <2>2, <2>3, <2>4, HeadStep
<1> QED BY <1>4, <1>5 DEF LoadBegin

\* The eviction settles: its place is free, or the startup fails.
LEMMA EvictedStep ==
    ASSUME IInv, NEW a \in Agents, Evicted(a)
    PROVE  IInv'
<1> USE DEF LoadPhases
<1>1. AtHead(a, "evicting") /\ evicting' = {}
      /\ UNCHANGED <<store, owner, active, lifecycle, closing, stopping, failure>>
  BY Zenon DEF Evicted
<1>2. \A b \in Agents : b # a => loading[b].phase \in {"none", "queued"}
  BY <1>1, HeadAlone
<1>3. active \in [Agents -> Runs] /\ sessions \subseteq Agents
      /\ Cardinality(sessions) <= MaxActiveSessions - 1
  BY TypeParts DEF IInv, MemoryTyped, HostInv, SlotsBounded
<1>4. Cardinality(sessions \ evicting) < MaxActiveSessions - 1 /\ MaxActiveSessions \in Nat
      /\ Cardinality(sessions \ evicting) \in Nat
  BY <1>1, <1>3, HeadAlone, SessionsFinite, CollaborationAssumption DEF IInv, HostInv, SessionOf
<1>5. PICK to \in {"creating", "failing"} :
         /\ loading' = To(a, to)
         /\ \/ sessions' = sessions \ evicting
            \/ sessions' = sessions /\ to = "failing"
  BY DEF Evicted
<1>6. /\ loading' \in [Agents -> Loads]
      /\ \A b \in Agents : loading'[b].phase = IF b = a THEN to ELSE loading[b].phase
      /\ SameLoads(To(a, to)) /\ SameRuns(active) /\ active' = active
  BY <1>1, <1>5, ToShape DEF SameLoads, SameRuns
<1>7. Cardinality(sessions') <= MaxActiveSessions - 1 /\ sessions' \subseteq Agents
      /\ (to = "creating" => Cardinality(sessions') < MaxActiveSessions - 1)
  <2>1. CASE sessions' = sessions \ evicting
    <3>1. Cardinality(sessions') < MaxActiveSessions - 1
      BY <1>4, <2>1
    <3>2. Cardinality(sessions') <= MaxActiveSessions - 1
      BY <1>4, <2>1
    <3> QED BY <1>3, <2>1, <3>1, <3>2
  <2>2. CASE sessions' = sessions /\ to = "failing"
    BY <1>3, <2>2
  <2> QED BY <1>5, <2>1, <2>2
<1>8. EvictionOwned'
  BY <1>1 DEF EvictionOwned
<1>9. ASSUME NEW b \in Agents PROVE SessionOf(b)'
  <2>1. SessionOf(b) /\ closing' = closing /\ agent' = agent /\ active' = active
    BY <1>1 DEF IInv, HostInv, store
  <2>2. loading'[b].phase # "evicting" /\ loading'[b].phase # "ready"
    BY <1>2, <1>6
  <2>3. loading'[b].phase = "creating" => Cardinality(sessions') < MaxActiveSessions - 1
    BY <1>2, <1>6, <1>7
  <2>4. active[b].phase \in {"run", "finish"} => b \in sessions'
    BY <1>5, <2>1 DEF SessionOf
  <2> QED BY <1>1, <2>1, <2>2, <2>3, <2>4 DEF SessionOf
<1> QED BY <1>1, <1>3, <1>6, <1>7, <1>8, <1>9, HeadStep

\* What the store holds is a valid snapshot.
LEMMA CurrentValid ==
    ASSUME IInv
    PROVE  Valid(Current) /\ Current.agent = agent /\ Current.chat = chat /\ Current.inbox = inbox
<1>1. Current.agent = agent /\ Current.chat = chat /\ Current.inbox = inbox
  BY DEF Current
<1>2. chat \in [Paths -> Nat] /\ IsFiniteSet(inbox)
  BY DEF IInv, TypeOK, StoreInv, MailAgrees
<1>3. Valid(Current)
  BY <1>1, <1>2, ValidMeans DEF IInv, StoreInv, PersistedTeamValid
<1> QED BY <1>1, <1>3

\* The new session is mapped, disposed of, or could not be recorded.
LEMMA CreatedStep ==
    ASSUME IInv, NEW a \in Agents, Created(a)
    PROVE  IInv'
<1> USE DEF LoadPhases
<1>1. AtHead(a, "creating") /\ UNCHANGED <<store, owner, lifecycle, evicting, closing, stopping>>
  BY Zenon DEF Created
<1>2. \A b \in Agents : b # a => loading[b].phase \in {"none", "queued"}
  BY <1>1, HeadAlone
<1>3. loading[a].phase = "creating" /\ evicting = {}
  BY <1>1, <1>2, HeadAlone DEF IInv, HostInv, EvictionOwned
<1>4. active \in [Agents -> Runs] /\ sessions \subseteq Agents
      /\ Cardinality(sessions) < MaxActiveSessions - 1
      /\ IsFiniteSet(sessions) /\ Cardinality(sessions) \in Nat /\ MaxActiveSessions \in Nat
  BY <1>3, TypeParts, SessionsFinite, CollaborationAssumption DEF IInv, MemoryTyped, HostInv, SessionOf
<1>5. PICK to \in {"ready", "failing"} :
         /\ loading' \in [Agents -> Loads] /\ active' \in [Agents -> Runs]
         /\ SameLoads(To(a, to)) /\ SameRuns(active)
         /\ failure' \in {failure, "storage"}
         /\ sessions' = IF to = "ready" THEN sessions \cup {a} ELSE sessions
  <2>1. \A to \in {"ready", "failing"} : To(a, to) \in [Agents -> Loads]
    BY ToShape
  <2>2. CASE /\ sessions' = sessions \cup {a} /\ loading' = To(a, "ready")
             /\ UNCHANGED <<active, failure>>
    BY <1>4, <2>1, <2>2 DEF SameLoads, SameRuns
  <2>3. CASE loading' = To(a, "failing") /\ UNCHANGED <<sessions, active, failure>>
    BY <1>4, <2>1, <2>3 DEF SameLoads, SameRuns
  <2>4. CASE CommitFails(Current, {}, To(a, "failing"), active) /\ UNCHANGED sessions
    <3>1. ~Conflict(Current, {}) /\ Valid(Current)
      BY CurrentValid DEF Conflict
    <3> QED BY <1>4, <2>1, <2>4, <3>1, Poisoned
  <2> QED BY <2>2, <2>3, <2>4 DEF Created
<1>6. \A b \in Agents : /\ loading'[b].phase = IF b = a THEN to ELSE loading[b].phase
                        /\ active'[b].phase = active[b].phase
  <2>1. \A b \in Agents : To(a, to)[b].phase = IF b = a THEN to ELSE loading[b].phase
    BY ToShape
  <2> QED BY <1>5, <2>1 DEF SameLoads, SameRuns
<1>7. sessions' \subseteq Agents /\ Cardinality(sessions') <= MaxActiveSessions - 1
  <2>1. Cardinality(sessions \cup {a}) \in {Cardinality(sessions), Cardinality(sessions) + 1}
    BY <1>4, FS_AddElement, Zenon
  <2>2. CASE to = "ready"
    <3>1. sessions' = sessions \cup {a}
      BY <1>5, <2>2
    <3> QED BY <1>4, <2>1, <3>1
  <2>3. CASE to = "failing"
    <3>1. sessions' = sessions
      BY <1>5, <2>3
    <3> QED BY <1>4, <3>1
  <2> QED BY <2>2, <2>3
<1>8. EvictionOwned'
  BY <1>1, <1>3 DEF EvictionOwned
<1>9. ASSUME NEW b \in Agents PROVE SessionOf(b)'
  <2>1. SessionOf(b) /\ closing' = closing /\ agent' = agent
    BY <1>1 DEF IInv, HostInv, store
  <2>2. loading'[b].phase \notin {"evicting", "creating"}
    BY <1>2, <1>6
  <2>3. loading'[b].phase = "ready" => b \in sessions'
    BY <1>2, <1>5, <1>6
  <2>4. active'[b].phase \in {"run", "finish"} => b \in sessions'
    BY <1>5, <1>6, <2>1 DEF SessionOf
  <2> QED BY <1>1, <1>3, <2>1, <2>2, <2>3, <2>4 DEF SessionOf
<1> QED BY <1>1, <1>3, <1>4, <1>5, <1>7, <1>8, <1>9, HeadStep

\* Slots that nobody takes stay within their bound.
LEMMA SlotsShrink ==
    ASSUME IInv, \A a \in Agents : (IsLoading(a) \/ IsActive(a))' => IsLoading(a) \/ IsActive(a),
           Cardinality(sessions') <= MaxActiveSessions - 1
    PROVE  SlotsBounded'
<1> DEFINE Busy == {a \in Agents : IsLoading(a) \/ IsActive(a)}
<1>1. IsFiniteSet(Busy) /\ Cardinality(Busy) \in Nat
  BY SessionsFinite
<1>2. Busy' \in SUBSET Busy
  OBVIOUS
<1>3. Cardinality(Busy') <= Cardinality(Busy) /\ Cardinality(Busy') \in Nat
  BY <1>1, <1>2, FS_Subset, FS_CardinalityType
<1>4. Cardinality(Busy) <= MaxActiveSessions - 1
  BY DEF IInv, HostInv, SlotsBounded
<1>5. MaxActiveSessions \in Nat
  BY CollaborationAssumption
<1> HIDE DEF Busy
<1>6. Cardinality(Busy') <= MaxActiveSessions - 1
  BY <1>1, <1>3, <1>4, <1>5
<1> QED BY <1>6 DEF SlotsBounded, Busy

\* A cancelled startup and a shutdown only set flags.
LEMMA CancelStep ==
    ASSUME IInv, (\E a \in Agents : CancelStartup(a)) \/ Shutdown
    PROVE  IInv'
<1>1. loading \in [Agents -> Loads] /\ active \in [Agents -> Runs]
      /\ stopping \in {"no", "yes", "stuck"}
  BY TypeParts DEF IInv, MemoryTyped
<1>2. ASSUME NEW a \in Agents, CancelStartup(a) PROVE IInv'
  <2>1. loading' = [loading EXCEPT ![a].aborted = TRUE]
        /\ UNCHANGED <<store, owner, active, lifecycle, sessions, evicting, closing, stopping, failure>>
    BY <1>2, Zenon DEF CancelStartup
  <2>2. loading' \in [Agents -> Loads] /\ SameLoads(loading) /\ SameRuns(active)
    BY <1>1, <2>1 DEF Loads, SameLoads, SameRuns
  <2> QED BY <1>1, <2>1, <2>2, FlagStep
<1>3. ASSUME Shutdown PROVE IInv'
  <2>1. /\ stopping' = "yes"
        /\ loading' = [a \in Agents |-> [loading[a] EXCEPT !.aborted = IsLoading(a)]]
        /\ active' = [a \in Agents |-> [active[a] EXCEPT !.aborting = IsActive(a)]]
        /\ UNCHANGED <<store, owner, lifecycle, sessions, evicting, closing, failure>>
    BY <1>3, Zenon DEF Shutdown
  <2>2. loading' \in [Agents -> Loads] /\ SameLoads(loading)
    BY <1>1, <2>1 DEF Loads, SameLoads, IsLoading
  <2>3. active' \in [Agents -> Runs] /\ SameRuns(active)
    BY <1>1, <2>1 DEF Runs, SameRuns, IsActive
  <2> QED BY <2>1, <2>2, <2>3, FlagStep
<1> QED BY <1>2, <1>3

\* A run settles at its host, and later leaves the map.
LEMMA RunStep ==
    ASSUME IInv, NEW a \in Agents, ActiveDone(a) \/ \E r \in RunOutcomes : RunEnds(a, r)
    PROVE  IInv'
<1> USE DEF IInv
<1>1. active \in [Agents -> Runs] /\ RunOutcomes \subseteq Settled
  BY TypeParts, CollaborationAssumption DEF MemoryTyped, Settled
<1>2. UNCHANGED <<store, owner, loading, lifecycle, sessions, evicting, closing, stopping, failure>>
  BY Zenon DEF ActiveDone, RunEnds
<1>3. PICK r \in Runs : active' = [active EXCEPT ![a] = r]
                        /\ \/ active[a].phase = "settled" /\ r = NoRun
                           \/ /\ active[a].phase = "run" /\ r.phase = "finish" /\ r.result \in Settled
                              /\ r.turn = active[a].turn
  <2>1. CASE ActiveDone(a)
    BY <2>1, NoRun \in Runs DEF ActiveDone, NoRun, Runs
  <2>2. ASSUME NEW x \in RunOutcomes, RunEnds(a, x)
        PROVE  \E r \in Runs : /\ active' = [active EXCEPT ![a] = r]
                               /\ active[a].phase = "run" /\ r.phase = "finish" /\ r.result \in Settled
                               /\ r.turn = active[a].turn
    <3> DEFINE y == [active[a] EXCEPT !.phase = "finish", !.result = x]
    <3>1. y \in Runs /\ y.phase = "finish" /\ y.result \in Settled /\ y.turn = active[a].turn
      BY <1>1 DEF Runs
    <3>2. active' = [active EXCEPT ![a] = y] /\ active[a].phase = "run"
      BY <1>1, <2>2 DEF RunEnds, Runs
    <3> HIDE DEF y
    <3> QED BY <3>1, <3>2
  <2> QED BY <2>1, <2>2
<1>4. \A b \in Agents : active'[b] = IF b = a THEN r ELSE active[b]
  BY <1>1, <1>3
<1>5. active' \in [Agents -> Runs]
  BY <1>1, <1>3
<1>6. TypeOK' /\ NoSelfInflictedFailure'
  BY <1>2, <1>5, TypeParts DEF MemoryTyped, StoreTyped, OwnerTyped, store, owner, NoSelfInflictedFailure
<1>7. StoreInv'
  BY <1>2, StoreKept DEF IsLoading
<1>8. FlightInv'
  BY <1>2, <1>3, <1>4 DEF FlightInv, MemoryOwned, OneTurn, FlightReserved, InFlight, IsLoading,
        IsActive, NoRun, store, owner
<1>9. QueueSound' /\ EvictionOwned'
  BY <1>2 DEF HostInv, QueueSound, EvictionOwned, IsLoading
<1>10. SlotsBounded'
  BY <1>2, <1>3, <1>4, SlotsShrink DEF HostInv, SlotsBounded, IsLoading, IsActive, NoRun
<1>11. ASSUME NEW b \in Agents PROVE SessionOf(b)'
  <2>1. SessionOf(b)
    BY DEF HostInv
  <2>2. active'[b].phase \in {"run", "finish"} => active[b].phase \in {"run", "finish"}
    BY <1>3, <1>4 DEF NoRun
  <2> QED BY <1>2, <2>1, <2>2 DEF SessionOf, store
<1> QED BY <1>6, <1>7, <1>8, <1>9, <1>10, <1>11 DEF HostInv

\* The disposal of a closed agent's session settles.
LEMMA CloseDisposedStep ==
    ASSUME IInv, NEW a \in Agents, CloseDisposed(a)
    PROVE  IInv'
<1> USE DEF IInv
<1>1. UNCHANGED <<store, owner, loading, active, lifecycle, evicting, stopping, failure>>
      /\ closing' = closing \ {a} /\ sessions' \in {sessions, sessions \ {a}} /\ a \in closing
  BY Zenon DEF CloseDisposed
<1>2. sessions \subseteq Agents /\ closing \subseteq Agents
  BY TypeParts DEF MemoryTyped
<1>3. TypeOK' /\ NoSelfInflictedFailure'
  BY <1>1, <1>2, TypeParts DEF MemoryTyped, StoreTyped, OwnerTyped, store, owner, NoSelfInflictedFailure
<1>4. StoreInv'
  BY <1>1, StoreKept DEF IsLoading
<1>5. FlightInv'
  BY <1>1 DEF FlightInv, MemoryOwned, OneTurn, FlightReserved, InFlight, IsLoading, IsActive, store, owner
<1>6. QueueSound' /\ EvictionOwned'
  BY <1>1 DEF HostInv, QueueSound, EvictionOwned, IsLoading
<1>7. /\ Cardinality(sessions') <= Cardinality(sessions)
      /\ Cardinality(sessions' \ evicting) <= Cardinality(sessions \ evicting)
      /\ Cardinality(sessions') \in Nat /\ Cardinality(sessions) \in Nat
      /\ Cardinality(sessions' \ evicting) \in Nat /\ Cardinality(sessions \ evicting) \in Nat
      /\ MaxActiveSessions \in Nat
  <2>1. sessions' \in SUBSET sessions /\ sessions' \ evicting \in SUBSET (sessions \ evicting)
    BY <1>1
  <2>2. sessions' \subseteq Agents /\ sessions' \ evicting \subseteq Agents /\ sessions \ evicting \subseteq Agents
    BY <1>1, <1>2
  <2> QED BY <1>2, <2>1, <2>2, SessionsFinite, FS_Subset, CollaborationAssumption
<1>8. SlotsBounded'
  <2>1. Cardinality(sessions) <= MaxActiveSessions - 1
    BY DEF HostInv, SlotsBounded
  <2>2. Cardinality(sessions') <= MaxActiveSessions - 1
    BY <1>7, <2>1
  <2> QED BY <1>1, <2>2, SlotsShrink DEF IsLoading, IsActive
<1>9. ASSUME NEW b \in Agents PROVE SessionOf(b)'
  <2>1. SessionOf(b) /\ SessionOf(a)
    BY DEF HostInv
  <2>2. loading[b].phase = "evicting" => Cardinality(sessions' \ evicting) < MaxActiveSessions - 1
    BY <1>7, <2>1 DEF SessionOf
  <2>3. loading[b].phase = "creating" => Cardinality(sessions') < MaxActiveSessions - 1
    BY <1>7, <2>1 DEF SessionOf
  <2>4. loading[b].phase = "ready" \/ active[b].phase \in {"run", "finish"} => b # a
    <3>1. agent[a].status = "closed"
      BY <1>1, <2>1 DEF SessionOf
    <3>2. ~InFlight(a)
      BY <3>1 DEF FlightInv, FlightReserved, StoreInv, BooksAgree
    <3> QED BY <3>2 DEF InFlight, IsLoading
  <2> QED BY <1>1, <2>1, <2>2, <2>3, <2>4 DEF SessionOf, store
<1> QED BY <1>3, <1>4, <1>5, <1>6, <1>8, <1>9 DEF HostInv

\* A process without startups, runs and sessions.
LEMMA ClearHost == ClearMemory => HostInv' /\ MemoryTyped' /\ \A a \in Agents : ~IsLoading(a)' /\ ~IsActive(a)'
<1> SUFFICES ASSUME ClearMemory PROVE HostInv' /\ MemoryTyped' /\ \A a \in Agents : ~IsLoading(a)' /\ ~IsActive(a)'
  OBVIOUS
<1>1. /\ \A a \in Agents : loading'[a] = NoLoad /\ active'[a] = NoRun
      /\ lifecycle' = <<>> /\ sessions' = {} /\ evicting' = {} /\ closing' = {}
      /\ stopping' = "no" /\ failure' = "none"
  BY DEF ClearMemory
<1>2. \A a \in Agents : ~IsLoading(a)' /\ ~IsActive(a)'
  BY <1>1 DEF IsLoading, IsActive, NoLoad, NoRun
<1>3. MemoryTyped'
  <2>1. NoLoad \in Loads /\ NoRun \in Runs
    BY DEF Loads, LoadPhases, Runs, NoLoad, NoRun
  <2>2. loading' \in [Agents -> Loads] /\ active' \in [Agents -> Runs]
    BY <2>1 DEF ClearMemory
  <2> QED BY <1>1, <2>2 DEF MemoryTyped
<1>4. QueueSound'
  <2>1. Len(lifecycle') = 0
    BY <1>1
  <2> QED BY <1>2, <2>1 DEF QueueSound
<1>5. SlotsBounded'
  <2>1. {a \in Agents : IsLoading(a) \/ IsActive(a)}' = {}
    BY <1>2
  <2>2. Cardinality({}) = 0 /\ MaxActiveSessions \in Nat \ {0}
    BY FS_EmptySet, CollaborationAssumption
  <2>3. Cardinality({}) <= MaxActiveSessions - 1
    BY <2>2
  <2> QED BY <1>1, <2>1, <2>3 DEF SlotsBounded
<1>6. EvictionOwned' /\ \A a \in Agents : SessionOf(a)'
  BY <1>1 DEF EvictionOwned, SessionOf, NoLoad, NoRun
<1> QED BY <1>2, <1>3, <1>4, <1>5, <1>6 DEF HostInv

\* The owner goes, by itself or not, and takes nothing persisted with it.
LEMMA OwnerGoesStep ==
    ASSUME IInv, Crash \/ ShutdownEnds
    PROVE  IInv'
<1> USE DEF IInv
<1>1. ASSUME Crash PROVE IInv'
  <2>1. UNCHANGED <<store, opens>> /\ up' = "crashed" /\ ClearMemory
    BY <1>1 DEF Crash
  <2>2. HostInv' /\ MemoryTyped' /\ \A a \in Agents : ~IsLoading(a)' /\ ~IsActive(a)'
    BY <2>1, ClearHost
  <2>3. TypeOK'
    BY <2>1, <2>2, TypeParts DEF StoreTyped, OwnerTyped, store
  <2>4. NoSelfInflictedFailure'
    BY <2>1 DEF ClearMemory, NoSelfInflictedFailure
  <2>5. StoreInv'
    BY <2>1, <2>2, StoreKept
  <2>6. FlightInv'
    BY <2>1, <2>2 DEF FlightInv, MemoryOwned, OneTurn, FlightReserved, InFlight, IsActive
  <2> QED BY <2>2, <2>3, <2>4, <2>5, <2>6
<1>2. ASSUME ShutdownEnds PROVE IInv'
  <2>1. /\ UNCHANGED <<store, opens, loading, active, lifecycle, evicting, closing, failure>>
        /\ lifecycle = <<>> /\ \A a \in Agents : ~IsActive(a)
        /\ up' \in {up, "closed"} /\ sessions' \in {sessions, {}} /\ stopping' \in {stopping, "stuck"}
    BY <1>2, Zenon DEF ShutdownEnds
  <2>2. \A a \in Agents : ~IsLoading(a) /\ ~IsActive(a)
    <3>1. Len(lifecycle) = 0
      BY <2>1
    <3> QED BY <2>1, <3>1 DEF HostInv, QueueSound
  <2>3. TypeOK' /\ NoSelfInflictedFailure'
    BY <2>1, TypeParts DEF MemoryTyped, StoreTyped, OwnerTyped, store, NoSelfInflictedFailure
  <2>4. StoreInv'
    BY <2>1, StoreKept DEF IsLoading
  <2>5. FlightInv'
    <3>1. \A a \in Agents : ~agent[a].reserved \/ up # "up" \/ failure # "none"
      BY <2>2 DEF FlightInv, FlightReserved, InFlight, IsActive
    <3> QED BY <2>1, <2>2, <3>1 DEF FlightInv, MemoryOwned, OneTurn, FlightReserved, InFlight,
          IsLoading, IsActive, store
  <2>6. HostInv'
    <3>1. Cardinality(sessions') <= MaxActiveSessions - 1
      <4>1. Cardinality({}) = 0 /\ MaxActiveSessions \in Nat \ {0}
        BY FS_EmptySet, CollaborationAssumption
      <4>2. Cardinality({}) <= MaxActiveSessions - 1
        BY <4>1
      <4>3. Cardinality(sessions) <= MaxActiveSessions - 1
        BY DEF HostInv, SlotsBounded
      <4> QED BY <2>1, <4>2, <4>3
    <3>2. SlotsBounded'
      BY <2>1, <3>1, SlotsShrink DEF IsLoading, IsActive
    <3>3. QueueSound' /\ EvictionOwned' /\ \A a \in Agents : SessionOf(a)'
      BY <2>1, <2>2 DEF HostInv, QueueSound, EvictionOwned, SessionOf, IsLoading, IsActive, store
    <3> QED BY <3>2, <3>3 DEF HostInv
  <2> QED BY <2>3, <2>4, <2>5, <2>6
<1> QED BY <1>1, <1>2

-----------------------------------------------------------------------------
(* Commits *)

MailRecords == [kind : {"progress", "result"}, from : Agents, turn : Nat,
                status : Settled \cup {"none"}]

\* Results of turns of the ledger that have none pending, one per turn.
FreshResults(P) ==
    /\ P \subseteq MailRecords /\ IsFiniteSet(P)
    /\ \A m \in P : /\ m.kind = "result" /\ m.turn \in 1 .. Len(turns[m.from])
                    /\ \A n \in inbox : ~IsResult(n, m.from, m.turn)
    /\ \A m, n \in P : m.from = n.from /\ m.turn = n.turn => m = n

\* The ledger of b keeps its turns; the commit delivers and acknowledges, and what
\* it adds is not delivered.
Rewritten(b, P, A) ==
    /\ turns'[b] \in Seq(TurnRecords)
    /\ Len(turns'[b]) >= Len(turns[b])
    /\ Redelivered(turns'[b], turns[b], P, A, b)
    /\ \A t \in 1 .. Len(turns'[b]) : t > Len(turns[b]) => turns'[b][t].delivery = "not_enqueued"

\* The books of an agent that a commit does not touch, but for acknowledgements.
LEMMA OtherBooks ==
    ASSUME IInv, NEW s, NEW P, NEW A, NEW b \in Agents, turns' = SyncHistory(s, P, A),
           s.agent[b] = agent[b], agent'[b] = agent[b], IsLoading(b)' => IsLoading(b),
           \A m \in P : m.from # b, A \subseteq inbox
    PROVE  BooksAgree(b)' /\ Rewritten(b, P, A)
<1>1. /\ turns'[b] \in Seq(TurnRecords)
      /\ SameTurns(turns'[b], turns[b])
      /\ Redelivered(turns'[b], turns[b], P, A, b)
  BY LedgerKept DEF IInv
<1>2. Len(turns[b]) \in Nat /\ turns[b] \in Seq(TurnRecords) /\ agent[b] \in AgentRecords
  BY TypeParts DEF IInv, StoreTyped
<1>3. Rewritten(b, P, A)
  BY <1>1, <1>2 DEF Rewritten, SameTurns
<1>4. ASSUME NEW t \in 1 .. Len(turns[b])
      PROVE  /\ turns'[b][t].delivery \in {turns[b][t].delivery, "acknowledged"}
             /\ turns[b][t].delivery = "not_enqueued" => turns'[b][t].delivery = "not_enqueued"
  <2>1. turns'[b][t].delivery = Delivery(P, A, b, t, turns[b][t].delivery)
    BY <1>1 DEF Redelivered
  <2>2. turns[b][t].delivery = "not_enqueued" => ~\E m \in A : m.kind = "result" /\ m.from = b /\ m.turn = t
    BY DEF IInv, StoreInv, MailAgrees, IsResult
  <2> QED BY <2>1, <2>2 DEF Delivery
<1>5. BooksAgree(b)
  BY DEF IInv, StoreInv
<1>6. agent[b].reserved => agent[b].turn \in 1 .. Len(turns[b])
  BY <1>2, <1>5 DEF BooksAgree, AgentRecords
<1>7. \A t \in 1 .. Len(turns[b]) : /\ turns'[b][t].status = turns[b][t].status
                                    /\ turns'[b][t].started = turns[b][t].started
  BY <1>1 DEF SameTurns
<1>8. Len(turns'[b]) = Len(turns[b]) /\ Len(turns[b]) = agent[b].turn /\ agent[b].turn \in Nat
  BY <1>1, <1>2, <1>5 DEF SameTurns, BooksAgree
<1>9. \A t \in 1 .. agent[b].turn :
         /\ t < agent[b].turn \/ ~agent[b].reserved => turns'[b][t].status \in Settled
         /\ turns'[b][t].started /\ turns'[b][t].status \in Settled =>
               turns'[b][t].delivery # "not_enqueued"
  BY <1>4, <1>5, <1>7, <1>8 DEF BooksAgree
<1>10. agent[b].reserved =>
         /\ agent[b].status \in {"pending", "running", "interrupted"}
         /\ turns'[b][agent[b].turn].status \in {"pending", "running"}
         /\ turns'[b][agent[b].turn].delivery = "not_enqueued"
  BY <1>4, <1>5, <1>6, <1>7 DEF BooksAgree
<1>11. agent[b].turn > 0 => agent[b].turn \in 1 .. Len(turns[b])
  BY <1>8
<1>12. IsLoading(b) => agent[b].turn > 0
  BY <1>6, <1>8 DEF IInv, FlightInv, FlightReserved, InFlight
<1>13. /\ agent[b].turn > 0 /\ ~agent[b].reserved => agent[b].status \in {turns'[b][agent[b].turn].status, "closed"}
       /\ IsLoading(b) => ~turns'[b][agent[b].turn].started
       /\ agent[b].status = "none" <=> agent[b].turn = 0
  BY <1>5, <1>7, <1>11, <1>12 DEF BooksAgree
<1> QED BY <1>3, <1>8, <1>9, <1>10, <1>13 DEF BooksAgree

\* Mailbox and ledger are written together.
LEMMA MailStep ==
    ASSUME IInv, NEW P, NEW A, NEW Q, FreshResults(P), A \subseteq inbox,
           IsFiniteSet(Q), \A m \in Q : m.kind = "progress",
           inbox' = (inbox \ A) \cup P \cup Q,
           \A b \in Agents : Rewritten(b, P, A)
    PROVE  MailAgrees'
<1>1. IsFiniteSet(inbox')
  <2>1. IsFiniteSet(inbox) /\ IsFiniteSet(P)
    BY DEF IInv, StoreInv, MailAgrees, FreshResults
  <2>2. IsFiniteSet(inbox \ A)
    BY <2>1, FS_Subset
  <2>3. IsFiniteSet((inbox \ A) \cup P)
    BY <2>1, <2>2, FS_Union
  <2> QED BY <2>3, FS_Union
<1>2. inbox \subseteq MailRecords /\ turns \in [Agents -> Seq(TurnRecords)]
  BY TypeParts DEF IInv, StoreTyped, MailRecords
<1>3. MailAgrees
  BY DEF IInv, StoreInv
<1>4. \A b \in Agents : Len(turns[b]) \in Nat /\ Len(turns'[b]) \in Nat /\ Len(turns'[b]) >= Len(turns[b])
  BY <1>2 DEF Rewritten
<1>5. ASSUME NEW m \in inbox', m.kind = "result" PROVE m.turn \in 1 .. Len(turns'[m.from])
  <2>1. m \in inbox \/ m \in P
    BY <1>5
  <2>2. m.from \in Agents /\ m.turn \in 1 .. Len(turns[m.from])
    BY <1>2, <1>3, <1>5, <2>1 DEF MailRecords, MailAgrees, FreshResults
  <2> QED BY <1>4, <2>2
<1>6. ASSUME NEW b \in Agents, NEW t \in 1 .. Len(turns'[b])
      PROVE  turns'[b][t].delivery = "enqueued" <=> \E m \in inbox' : IsResult(m, b, t)
  <2>1. CASE t > Len(turns[b])
    <3>1. ASSUME NEW m \in inbox', IsResult(m, b, t) PROVE FALSE
      <4>1. m \in inbox \/ m \in P
        BY <3>1 DEF IsResult
      <4>2. m.turn \in 1 .. Len(turns[b])
        BY <1>3, <3>1, <4>1 DEF IsResult, MailAgrees, FreshResults
      <4> QED BY <1>4, <2>1, <3>1, <4>2 DEF IsResult
    <3>2. turns'[b][t].delivery = "not_enqueued"
      BY <2>1 DEF Rewritten
    <3> QED BY <3>1, <3>2
  <2>2. CASE ~(t > Len(turns[b]))
    <3>1. t \in 1 .. Len(turns[b])
      BY <1>4, <2>2
    <3>2. turns'[b][t].delivery = Delivery(P, A, b, t, turns[b][t].delivery)
      BY <3>1 DEF Rewritten, Redelivered
    <3>3. turns[b][t].delivery = "enqueued" <=> \E m \in inbox : IsResult(m, b, t)
      BY <1>3, <3>1 DEF MailAgrees
    <3>4. CASE \E m \in P : m.from = b /\ m.turn = t
      BY <3>2, <3>4 DEF Delivery, FreshResults, IsResult
    <3>5. CASE /\ ~\E m \in P : m.from = b /\ m.turn = t
               /\ \E m \in A : IsResult(m, b, t)
      <4>1. PICK n \in A : IsResult(n, b, t)
        BY <3>5
      <4>2. turns'[b][t].delivery = "acknowledged"
        BY <3>2, <3>5 DEF Delivery, IsResult
      <4>3. \A m \in inbox : IsResult(m, b, t) => m = n
        BY <1>3, <4>1 DEF MailAgrees, IsResult
      <4>4. \A m \in inbox' : ~IsResult(m, b, t)
        BY <3>5, <4>1, <4>3 DEF IsResult
      <4> QED BY <4>2, <4>4
    <3>6. CASE /\ ~\E m \in P : m.from = b /\ m.turn = t
               /\ ~\E m \in A : IsResult(m, b, t)
      <4>1. turns'[b][t].delivery = turns[b][t].delivery
        BY <3>2, <3>6 DEF Delivery, IsResult
      <4>2. \A m : IsResult(m, b, t) => (m \in inbox' <=> m \in inbox)
        BY <3>6 DEF IsResult
      <4> QED BY <3>3, <4>1, <4>2
    <3> QED BY <3>4, <3>5, <3>6
  <2> QED BY <2>1, <2>2
<1>7. ASSUME NEW m \in inbox', NEW n \in inbox', IsResult(m, n.from, n.turn), n.kind = "result"
      PROVE  m = n
  <2>1. (m \in inbox \/ m \in P) /\ (n \in inbox \/ n \in P)
    BY <1>7 DEF IsResult
  <2>2. CASE m \in inbox /\ n \in inbox
    BY <1>3, <1>7, <2>2 DEF MailAgrees
  <2>3. CASE m \in P /\ n \in P
    BY <1>7, <2>3 DEF FreshResults, IsResult
  <2>4. CASE m \in inbox /\ n \in P
    BY <1>7, <2>4 DEF FreshResults, IsResult
  <2>5. CASE m \in P /\ n \in inbox
    BY <1>7, <2>5 DEF FreshResults, IsResult
  <2> QED BY <2>1, <2>2, <2>3, <2>4, <2>5
<1> QED BY <1>1, <1>5, <1>6, <1>7 DEF MailAgrees

\* A valid snapshot whose changed agents have their books in order is a consistent
\* team.
LEMMA CommitKeepsStore ==
    ASSUME IInv, NEW s, NEW P, NEW A, NEW Q,
           agent' = s.agent, chat' = s.chat, inbox' = s.inbox, turns' = SyncHistory(s, P, A),
           Valid(s), s.agent \in [Agents -> AgentRecords], s.chat \in [Paths -> Nat],
           s.inbox = (inbox \ A) \cup P \cup Q, A \subseteq inbox, FreshResults(P),
           Q \subseteq MailRecords, IsFiniteSet(Q), \A m \in Q : m.kind = "progress",
           \A b \in Agents :
              \/ s.agent[b] = agent[b] /\ (IsLoading(b)' => IsLoading(b)) /\ \A m \in P : m.from # b
              \/ BooksAgree(b)' /\ Rewritten(b, P, A)
    PROVE  StoreInv' /\ StoreTyped'
<1>1. \A b \in Agents : BooksAgree(b)' /\ Rewritten(b, P, A)
  BY OtherBooks
<1>2. MailAgrees'
  BY <1>1, MailStep
<1>3. PersistedTeamValid'
  <2>1. IsFiniteSet(s.inbox)
    BY <1>2 DEF MailAgrees
  <2>2. Open(Current)' = Open(s) /\ Reserved(Current)' = Reserved(s)
    BY DEF Open, Reserved, Current
  <2> QED BY <2>1, <2>2, ValidMeans DEF PersistedTeamValid
<1>4. turns' \in [Agents -> Seq(TurnRecords)]
  <2>1. \A b \in Agents : turns'[b] \in Seq(TurnRecords)
    BY <1>1 DEF Rewritten
  <2>2. turns' = [b \in Agents |-> turns'[b]]
    BY DEF SyncHistory
  <2> QED BY <2>1, <2>2, Zenon
<1>5. inbox' \subseteq MailRecords
  BY TypeParts DEF IInv, StoreTyped, MailRecords, FreshResults
<1> QED BY <1>1, <1>2, <1>3, <1>4, <1>5 DEF StoreInv, StoreTyped, MailRecords

\* A commit that neither delivers nor acknowledges conflicts with nothing and is
\* refused only by SQLite, in which case the flags of the memory change at most.
LEMMA RefusedStep ==
    ASSUME IInv, NEW s, Valid(s), CommitFails(s, {}, loading, active),
           UNCHANGED <<owner, lifecycle, sessions, evicting, closing, stopping>>
    PROVE  IInv'
<1>1. loading \in [Agents -> Loads] /\ active \in [Agents -> Runs] /\ stopping \in {"no", "yes", "stuck"}
  BY TypeParts DEF IInv, MemoryTyped
<1>2. ~Conflict(s, {})
  BY DEF Conflict
<1>3. /\ UNCHANGED store /\ failure' = "storage"
      /\ loading' \in [Agents -> Loads] /\ active' \in [Agents -> Runs]
      /\ SameLoads(loading) /\ SameRuns(active)
  BY <1>1, <1>2, Poisoned
<1> QED BY <1>1, <1>3, FlagStep

\* Without deliveries and acknowledgements a delivery stays as it is.
LEMMA NoDelivery == ASSUME NEW a, NEW t, NEW old PROVE Delivery({}, {}, a, t, old) = old
BY DEF Delivery

\* The numbers of the persisted team, and its limits.
LEMMA Limits ==
    ASSUME IInv
    PROVE  /\ Cardinality(Open(Current)) \in Nat /\ Cardinality(Reserved(Current)) \in Nat
           /\ IsFiniteSet(Open(Current)) /\ IsFiniteSet(Reserved(Current))
           /\ IsFiniteSet(inbox) /\ Cardinality(inbox) \in Nat
           /\ chat \in [Paths -> Nat] /\ Root \in Paths /\ Agents \subseteq Paths /\ Root \notin Agents
           /\ MaxAgents \in Nat \ {0} /\ MaxPendingMessages \in Nat /\ MaxActiveSessions \in Nat \ {0}
           /\ Cardinality(Open(Current)) <= MaxAgents - 1
           /\ \A a \in Agents : chat[a] <= MaxPendingMessages
           /\ chat[Root] + Cardinality(inbox) + Cardinality(Reserved(Current)) <= MaxPendingMessages
           /\ Load(Current, Root) = chat[Root] + Cardinality(inbox) + Cardinality(Reserved(Current))
           /\ \A a \in Agents : Load(Current, a) = chat[a]
<1>1. IsFiniteSet(inbox) /\ PersistedTeamValid
  BY DEF IInv, StoreInv, MailAgrees
<1>2. chat \in [Paths -> Nat] /\ Root \in Paths /\ Agents \subseteq Paths /\ Root \notin Agents
      /\ MaxAgents \in Nat \ {0} /\ MaxPendingMessages \in Nat /\ MaxActiveSessions \in Nat \ {0}
  BY CollaborationAssumption DEF IInv, TypeOK, Paths
<1>3. Cardinality(inbox) \in Nat
  BY <1>1, FS_CardinalityType
<1>4. Current.chat = chat /\ Current.inbox = inbox
  BY DEF Current
<1>5. Cardinality(Reserved(Current)) \in Nat
  BY TeamFinite
<1>6. Load(Current, Root) = chat[Root] + Cardinality(inbox) + Cardinality(Reserved(Current))
      /\ \A a \in Agents : Load(Current, a) = chat[a]
  BY <1>2, <1>3, <1>4, <1>5 DEF Load
<1> QED BY <1>1, <1>2, <1>3, <1>6, TeamFinite DEF PersistedTeamValid

\* A snapshot that differs from the store in one record, and in that only.
LEMMA OneRecord ==
    ASSUME IInv, NEW a \in Agents, NEW r \in AgentRecords
    PROVE  LET s == [Current EXCEPT !.agent[a] = r] IN
           /\ s.agent = [agent EXCEPT ![a] = r] /\ s.chat = chat /\ s.inbox = inbox
           /\ s.agent \in [Agents -> AgentRecords]
           /\ \A b \in Agents : s.agent[b] = IF b = a THEN r ELSE agent[b]
<1>1. agent \in [Agents -> AgentRecords]
  BY TypeParts DEF IInv, StoreTyped
<1> QED BY <1>1 DEF Current

\* Changing one record without raising the counts leaves the team valid.
LEMMA OneRecordValid ==
    ASSUME IInv, NEW a \in Agents, NEW r \in AgentRecords,
           r.status \notin {"none", "closed"} =>
              \/ agent[a].status \notin {"none", "closed"}
              \/ Cardinality(Open(Current)) < MaxAgents - 1,
           r.reserved => agent[a].reserved \/ MailboxFree(Root)
    PROVE  Valid([Current EXCEPT !.agent[a] = r])
<1> DEFINE s == [Current EXCEPT !.agent[a] = r]
<1>1. s.agent = [agent EXCEPT ![a] = r] /\ s.chat = chat /\ s.inbox = inbox
  BY OneRecord
<1> HIDE DEF s
<1>2. /\ Open(s) = IF r.status \in {"none", "closed"} THEN Open(Current) \ {a} ELSE Open(Current) \cup {a}
      /\ Reserved(s) = IF r.reserved THEN Reserved(Current) \cup {a} ELSE Reserved(Current) \ {a}
      /\ a \in Open(Current) <=> agent[a].status \notin {"none", "closed"}
      /\ a \in Reserved(Current) <=> agent[a].reserved
  BY <1>1, RecordChange DEF IInv
<1>3. /\ Cardinality(Open(Current) \cup {a}) =
            IF a \in Open(Current) THEN Cardinality(Open(Current)) ELSE Cardinality(Open(Current)) + 1
      /\ Cardinality(Open(Current) \ {a}) =
            IF a \in Open(Current) THEN Cardinality(Open(Current)) - 1 ELSE Cardinality(Open(Current))
  BY Limits, FS_AddElement, FS_RemoveElement
<1>4. /\ Cardinality(Reserved(Current) \cup {a}) =
            IF a \in Reserved(Current) THEN Cardinality(Reserved(Current)) ELSE Cardinality(Reserved(Current)) + 1
      /\ Cardinality(Reserved(Current) \ {a}) =
            IF a \in Reserved(Current) THEN Cardinality(Reserved(Current)) - 1 ELSE Cardinality(Reserved(Current))
  BY Limits, FS_AddElement, FS_RemoveElement
<1>5. Cardinality(Open(s)) <= MaxAgents - 1
  BY <1>2, <1>3, Limits
<1>6. r.reserved => agent[a].reserved \/ chat[Root] + Cardinality(inbox) + Cardinality(Reserved(Current)) < MaxPendingMessages
  BY Limits DEF MailboxFree
<1>7. chat[Root] + Cardinality(inbox) + Cardinality(Reserved(s)) <= MaxPendingMessages
  <2>1. chat[Root] \in Nat
    BY Limits
  <2>2. CASE r.reserved
    BY <1>2, <1>4, <1>6, <2>1, <2>2, Limits
  <2>3. CASE ~r.reserved
    BY <1>2, <1>4, <2>1, <2>3, Limits
  <2> QED BY <2>2, <2>3
<1>8. Valid(s)
  BY <1>1, <1>5, <1>7, Limits, ValidMeans
<1> QED BY <1>8 DEF s

\* A commit of one record whose books are in order.
LEMMA RecordCommit ==
    ASSUME IInv, NEW a \in Agents, NEW r \in AgentRecords,
           Committed([Current EXCEPT !.agent[a] = r], {}, {}),
           BooksAgree(a)', Rewritten(a, {}, {}),
           \A b \in Agents : b # a => (IsLoading(b)' => IsLoading(b))
    PROVE  StoreInv' /\ StoreTyped'
<1> DEFINE s == [Current EXCEPT !.agent[a] = r]
<1>1. /\ s.chat = chat /\ s.inbox = inbox /\ s.agent \in [Agents -> AgentRecords]
      /\ \A b \in Agents : s.agent[b] = IF b = a THEN r ELSE agent[b]
  BY OneRecord
<1>2. /\ agent' = s.agent /\ chat' = s.chat /\ inbox' = s.inbox /\ turns' = SyncHistory(s, {}, {})
      /\ Valid(s)
  BY Zenon DEF Committed
<1> HIDE DEF s
<1>3. FreshResults({}) /\ IsFiniteSet({})
  BY FS_EmptySet DEF FreshResults
<1>4. s.chat \in [Paths -> Nat] /\ s.inbox = (inbox \ {}) \cup {} \cup {}
  BY <1>1, Limits
<1>5. /\ {} \subseteq inbox /\ {} \subseteq MailRecords
      /\ \A m \in {} : m.kind = "progress" /\ \A b \in Agents : m.from # b
  OBVIOUS
<1>6. \A b \in Agents :
         \/ s.agent[b] = agent[b] /\ (IsLoading(b)' => IsLoading(b)) /\ \A m \in {} : m.from # b
         \/ BooksAgree(b)' /\ Rewritten(b, {}, {})
  BY <1>1, <1>5
<1> QED BY <1>1, <1>2, <1>3, <1>4, <1>5, <1>6, CommitKeepsStore

\* reserve() and schedule() for an agent at rest.
LEMMA AdmitStep ==
    ASSUME IInv, NEW a \in Agents, Ready, Admit(a), SlotFree, MailboxFree(Root),
           ~IsLoading(a), ~IsActive(a), ~agent[a].reserved, agent[a].status # "closed",
           agent[a].status = "none" => Cardinality(Open(Current)) < MaxAgents - 1,
           UNCHANGED <<owner, sessions, evicting, closing, stopping>>
    PROVE  IInv'
<1> DEFINE n == agent[a].turn + 1
           r == [status |-> "pending", turn |-> n, reserved |-> TRUE]
           s == [Current EXCEPT !.agent[a] = r]
           q == [phase |-> "queued", turn |-> n, aborted |-> FALSE]
<1>1. agent[a] \in AgentRecords /\ n \in Nat /\ r \in AgentRecords /\ agent[a].turn \in Nat
  <2>1. agent[a] \in AgentRecords
    BY TypeParts DEF IInv, StoreTyped
  <2> QED BY <2>1 DEF AgentRecords, Statuses
<1>2. Valid(s)
  BY <1>1, OneRecordValid
<1>3. /\ s.agent = [agent EXCEPT ![a] = r] /\ s.chat = chat /\ s.inbox = inbox
      /\ s.agent \in [Agents -> AgentRecords]
      /\ \A b \in Agents : s.agent[b] = IF b = a THEN r ELSE agent[b]
  BY <1>1, OneRecord
<1>4. \/ /\ Committed(s, {}, {}) /\ loading' = [loading EXCEPT ![a] = q]
         /\ lifecycle' = Append(lifecycle, a) /\ UNCHANGED <<active, failure>>
      \/ CommitFails(s, {}, loading, active) /\ UNCHANGED lifecycle
  BY Zenon DEF Admit
<1> HIDE DEF s
<1>5. CASE CommitFails(s, {}, loading, active) /\ UNCHANGED lifecycle
  BY <1>2, <1>5, RefusedStep
<1>6. CASE /\ Committed(s, {}, {}) /\ loading' = [loading EXCEPT ![a] = q]
           /\ lifecycle' = Append(lifecycle, a) /\ UNCHANGED <<active, failure>>
  <2>1. agent' = s.agent /\ chat' = s.chat /\ inbox' = s.inbox /\ turns' = SyncHistory(s, {}, {})
    BY <1>6 DEF Committed
  <2>2. /\ loading \in [Agents -> Loads] /\ lifecycle \in Seq(Agents) /\ active \in [Agents -> Runs]
        /\ q \in Loads /\ q.phase = "queued" /\ q.turn = n
    BY <1>1, TypeParts DEF IInv, MemoryTyped, Loads, LoadPhases
  <2> HIDE DEF q
  <2>3. /\ loading' \in [Agents -> Loads]
        /\ \A b \in Agents : loading'[b] = IF b = a THEN q ELSE loading[b]
        /\ \A b \in Agents : agent'[b] = IF b = a THEN r ELSE agent[b]
    BY <1>3, <1>6, <2>1, <2>2
  <2>4. BooksAgree(a) /\ agent[a].turn = Len(turns[a]) /\ n = Len(turns[a]) + 1
    BY DEF IInv, StoreInv, BooksAgree
  <2>5. /\ Rewritten(a, {}, {}) /\ Len(turns'[a]) = n
        /\ \A t \in 1 .. Len(turns[a]) : /\ turns'[a][t].status = turns[a][t].status
                                         /\ turns'[a][t].started = turns[a][t].started
                                         /\ turns'[a][t].delivery = turns[a][t].delivery
        /\ turns'[a][n].status = "pending" /\ ~turns'[a][n].started
        /\ turns'[a][n].delivery = "not_enqueued"
    <3>1. s.agent[a].status = "pending" /\ s.agent[a].turn = Len(turns[a]) + 1 /\ s.agent[a] # agent[a]
      BY <1>1, <1>3, <2>4
    <3>2. /\ turns'[a] \in Seq(TurnRecords)
          /\ Len(turns'[a]) = n
          /\ \A t \in 1 .. Len(turns[a]) : /\ turns'[a][t].status = turns[a][t].status
                                           /\ turns'[a][t].started = turns[a][t].started
          /\ Redelivered(turns'[a], turns[a], {}, {}, a)
          /\ turns'[a][n].status = "pending" /\ ~turns'[a][n].started
          /\ turns'[a][n].delivery = "not_enqueued"
      <4>1. \A m \in {} \cup {} : m.from = a => m.turn # Len(turns[a]) + 1
        OBVIOUS
      <4>2. TypeOK
        BY DEF IInv
      <4> HIDE DEF n
      <4> QED BY <2>1, <2>4, <3>1, <4>1, <4>2, LedgerOpened
    <3>3. \A t \in 1 .. Len(turns[a]) : turns'[a][t].delivery = turns[a][t].delivery
      BY <3>2, NoDelivery DEF Redelivered
    <3>4. \A t \in 1 .. n : t > Len(turns[a]) => t = n
      BY <1>1, <2>4
    <3>5. n >= Len(turns[a])
      BY <1>1, <2>4
    <3> HIDE DEF n
    <3>6. Rewritten(a, {}, {})
      BY <3>2, <3>4, <3>5 DEF Rewritten
    <3> QED BY <3>2, <3>3, <3>6
  <2>6. BooksAgree(a)'
    <3>1. agent'[a].turn = n /\ agent'[a].status = "pending" /\ agent'[a].reserved
      BY <2>3
    <3>2. ASSUME NEW t \in 1 .. n
          PROVE  /\ t < n => turns'[a][t].status \in Settled
                 /\ turns'[a][t].started /\ turns'[a][t].status \in Settled => turns'[a][t].delivery # "not_enqueued"
      <4>1. CASE t = n
        BY <2>5, <4>1
      <4>2. CASE t # n
        <5>1. t \in 1 .. Len(turns[a]) /\ t \in 1 .. agent[a].turn
          BY <1>1, <2>4, <4>2
        <5> QED BY <2>4, <2>5, <5>1 DEF BooksAgree
      <4> QED BY <4>1, <4>2
    <3>3. n # 0
      BY <1>1
    <3> HIDE DEF n
    <3> QED BY <2>5, <3>1, <3>2, <3>3 DEF BooksAgree
  <2>8. StoreInv' /\ StoreTyped'
    <3>1. \A b \in Agents : b # a => (IsLoading(b)' => IsLoading(b))
      BY <2>3 DEF IsLoading
    <3>2. r \in AgentRecords /\ Committed([Current EXCEPT !.agent[a] = r], {}, {})
      BY <1>1, <1>6 DEF s
    <3> QED BY <2>5, <2>6, <3>1, <3>2, RecordCommit
  <2>9. /\ lifecycle' \in Seq(Agents) /\ Len(lifecycle') = Len(lifecycle) + 1 /\ Len(lifecycle) \in Nat
        /\ \A i \in 1 .. Len(lifecycle) : lifecycle'[i] = lifecycle[i]
        /\ lifecycle'[Len(lifecycle) + 1] = a
    BY <1>6, <2>2
  <2>10. TypeOK' /\ NoSelfInflictedFailure'
    BY <1>6, <2>3, <2>8, <2>9, TypeParts DEF IInv, MemoryTyped, OwnerTyped, owner, NoSelfInflictedFailure
  <2>11. FlightInv'
    <3>1. ASSUME NEW b \in Agents PROVE OneTurn(b)' /\ FlightReserved(b)'
      <4>1. CASE b = a
        BY <1>6, <2>2, <2>3, <4>1 DEF OneTurn, FlightReserved, InFlight, IsLoading, IsActive
      <4>2. CASE b # a
        BY <1>6, <2>3, <4>2 DEF IInv, FlightInv, OneTurn, FlightReserved, InFlight, IsLoading, IsActive, owner
      <4> QED BY <4>1, <4>2
    <3> QED BY <3>1 DEF FlightInv, MemoryOwned, Ready, owner
  <2>12. QueueSound'
    <3>1. QueueSound
      BY DEF IInv, HostInv
    <3>2. \A i \in 1 .. Len(lifecycle) : lifecycle[i] \in Agents /\ lifecycle[i] # a
      BY <2>2, <3>1 DEF QueueSound
    <3>3. \A i \in 1 .. Len(lifecycle') : i \in 1 .. Len(lifecycle) \/ i = Len(lifecycle) + 1
      BY <2>9
    <3>4. ASSUME NEW b \in Agents
          PROVE  IsLoading(b)' <=> \E i \in 1 .. Len(lifecycle') : lifecycle'[i] = b
      <4>1. CASE b = a
        <5>1. IsLoading(b)'
          BY <2>2, <2>3, <4>1 DEF IsLoading
        <5>2. Len(lifecycle) + 1 \in 1 .. Len(lifecycle')
          BY <2>9
        <5> QED BY <2>9, <4>1, <5>1, <5>2
      <4>2. CASE b # a
        <5>1. IsLoading(b)' <=> \E i \in 1 .. Len(lifecycle) : lifecycle[i] = b
          BY <2>3, <3>1, <4>2 DEF IsLoading, QueueSound
        <5>2. \A i \in 1 .. Len(lifecycle) : i \in 1 .. Len(lifecycle') /\ lifecycle'[i] = lifecycle[i]
          BY <2>9
        <5> QED BY <2>9, <3>3, <4>2, <5>1, <5>2
      <4> QED BY <4>1, <4>2
    <3>5. \A i, j \in 1 .. Len(lifecycle') : lifecycle'[i] = lifecycle'[j] => i = j
      BY <2>9, <3>1, <3>2, <3>3 DEF QueueSound
    <3>6. \A i \in 2 .. Len(lifecycle') : loading'[lifecycle'[i]].phase = "queued"
      <4>1. ASSUME NEW i \in 2 .. Len(lifecycle') PROVE loading'[lifecycle'[i]].phase = "queued"
        <5>1. CASE i = Len(lifecycle) + 1
          BY <2>2, <2>3, <2>9, <5>1
        <5>2. CASE i # Len(lifecycle) + 1
          <6>1. i \in 2 .. Len(lifecycle) /\ i \in 1 .. Len(lifecycle)
            BY <2>9, <5>2
          <6> QED BY <2>3, <2>9, <3>1, <3>2, <6>1 DEF QueueSound
        <5> QED BY <5>1, <5>2
      <4> QED BY <4>1
    <3> QED BY <3>4, <3>5, <3>6 DEF QueueSound
  <2>13. SlotsBounded'
    <3> DEFINE Busy == {b \in Agents : IsLoading(b) \/ IsActive(b)}
    <3>1. IsFiniteSet(Busy) /\ Cardinality(Busy) \in Nat /\ Cardinality(Busy) < MaxActiveSessions - 1
      BY SessionsFinite DEF SlotFree
    <3>2. Busy' = Busy \cup {a}
      BY <1>6, <2>2, <2>3 DEF IsLoading, IsActive
    <3>3. Cardinality(Busy \cup {a}) \in {Cardinality(Busy), Cardinality(Busy) + 1}
      BY <3>1, FS_AddElement, Zenon
    <3>4. Cardinality(Busy') <= MaxActiveSessions - 1
      <4> HIDE DEF Busy
      <4> QED BY <3>1, <3>2, <3>3, Limits
    <3> QED BY <3>4 DEF IInv, HostInv, SlotsBounded
  <2>14. EvictionOwned'
    BY <2>3 DEF IInv, HostInv, EvictionOwned, IsLoading
  <2>15. ASSUME NEW b \in Agents PROVE SessionOf(b)'
    <3>1. SessionOf(b)
      BY DEF IInv, HostInv
    <3> QED BY <1>6, <2>2, <2>3, <3>1 DEF SessionOf
  <2> QED BY <2>8, <2>10, <2>11, <2>12, <2>13, <2>14, <2>15 DEF IInv, HostInv
<1> QED BY <1>4, <1>5, <1>6

\* An agent that is neither starting nor running has no reservation.
LEMMA AtRest ==
    ASSUME IInv, NEW a \in Agents, Ready, ~IsLoading(a), ~IsActive(a)
    PROVE  ~agent[a].reserved
BY DEF IInv, FlightInv, FlightReserved, InFlight, Ready, IsActive

\* A name that was never used has no turn.
LEMMA Unused ==
    ASSUME IInv, NEW a \in Agents, agent[a].status \in {"none", "closed"}
    PROVE  ~IsLoading(a) /\ ~IsActive(a) /\ ~agent[a].reserved
BY DEF IInv, FlightInv, FlightReserved, InFlight, StoreInv, BooksAgree

\* Both ways into a turn.
LEMMA TurnStep ==
    ASSUME IInv, NEW a \in Agents, Spawn(a) \/ Followup(a)
    PROVE  IInv'
<1>1. CASE Spawn(a)
  BY <1>1, Unused, AdmitStep DEF Spawn
<1>2. CASE Followup(a)
  BY <1>2, AtRest, AdmitStep DEF Followup, Reusable, Settled
<1> QED BY <1>1, <1>2

\* A commit that changes what is persisted, with the memory as it was: no turn
\* begins or ends, and only closed agents are disposed of.
LEMMA SameMemory ==
    ASSUME IInv, StoreInv', StoreTyped',
           UNCHANGED <<owner, lifecycle, sessions, evicting, stopping, failure>>,
           loading' \in [Agents -> Loads], active' \in [Agents -> Runs],
           SameLoads(loading), SameRuns(active), closing' \subseteq Agents,
           \A b \in Agents : /\ agent'[b].turn = agent[b].turn
                             /\ agent'[b].reserved = agent[b].reserved
                             /\ IsActive(b) => agent'[b].status \notin {"none", "closed"}
                             /\ b \in closing' => agent'[b].status = "closed"
    PROVE  IInv'
<1> USE DEF IInv, owner
<1>1. \A b \in Agents : /\ loading'[b].phase = loading[b].phase /\ loading'[b].turn = loading[b].turn
                        /\ active'[b].phase = active[b].phase /\ active'[b].turn = active[b].turn
                        /\ active'[b].result = active[b].result
  BY DEF SameLoads, SameRuns
<1>2. TypeOK' /\ NoSelfInflictedFailure'
  BY TypeParts DEF MemoryTyped, OwnerTyped, NoSelfInflictedFailure
<1>3. FlightInv'
  BY <1>1 DEF FlightInv, MemoryOwned, OneTurn, FlightReserved, InFlight, IsLoading, IsActive
<1>4. QueueSound'
  <2>1. \A i \in 1 .. Len(lifecycle) : lifecycle[i] \in Agents
    BY TypeParts DEF MemoryTyped
  <2>2. \A i \in 2 .. Len(lifecycle) : i \in 1 .. Len(lifecycle)
    BY TypeParts DEF MemoryTyped
  <2> QED BY <1>1, <2>1, <2>2 DEF HostInv, QueueSound, IsLoading
<1>5. SlotsBounded'
  BY <1>1, SlotsShrink DEF HostInv, SlotsBounded, IsLoading, IsActive
<1>6. EvictionOwned'
  BY <1>1 DEF HostInv, EvictionOwned
<1>7. ASSUME NEW b \in Agents PROVE SessionOf(b)'
  <2>1. SessionOf(b) /\ loading'[b].phase = loading[b].phase /\ active'[b].phase = active[b].phase
    BY <1>1 DEF HostInv
  <2>2. b \in closing' => agent'[b].status = "closed"
    OBVIOUS
  <2>3. sessions' = sessions /\ evicting' = evicting
    OBVIOUS
  <2> QED BY ONLY <2>1, <2>2, <2>3 DEF SessionOf
<1> QED BY <1>2, <1>3, <1>4, <1>5, <1>6, <1>7 DEF HostInv

\* Commits that touch only mail.
LEMMA MailCommitStep ==
    ASSUME IInv, NEW s, NEW A, NEW Q, CommitMail(s, A), s.agent = agent, s.chat \in [Paths -> Nat],
           s.inbox = (inbox \ A) \cup Q, A \subseteq inbox,
           Q \subseteq MailRecords, IsFiniteSet(Q), \A m \in Q : m.kind = "progress",
           \A a \in Agents : s.chat[a] <= MaxPendingMessages,
           s.chat[Root] + Cardinality(s.inbox) + Cardinality(Reserved(Current)) <= MaxPendingMessages
    PROVE  IInv'
<1>1. /\ \/ Committed(s, {}, A) /\ UNCHANGED <<loading, active, failure>>
         \/ CommitFails(s, {}, loading, active)
      /\ UNCHANGED <<owner, lifecycle, sessions, evicting, closing, stopping>>
  BY Zenon DEF CommitMail
<1>2. Valid(s)
  <2>1. Open(s) = Open(Current) /\ Reserved(s) = Reserved(Current)
    BY DEF Open, Reserved, Current
  <2>2. IsFiniteSet(s.inbox)
    <3>1. IsFiniteSet(inbox \ A)
      BY Limits, FS_Subset
    <3> QED BY <3>1, FS_Union
  <2> QED BY <2>1, <2>2, Limits, ValidMeans
<1>3. CASE CommitFails(s, {}, loading, active)
  BY <1>1, <1>2, <1>3, RefusedStep
<1>4. CASE Committed(s, {}, A) /\ UNCHANGED <<loading, active, failure>>
  <2>1. agent' = s.agent /\ chat' = s.chat /\ inbox' = s.inbox /\ turns' = SyncHistory(s, {}, A)
    BY <1>4 DEF Committed
  <2>2. /\ agent \in [Agents -> AgentRecords] /\ loading \in [Agents -> Loads] /\ active \in [Agents -> Runs]
        /\ closing \subseteq Agents
    BY TypeParts DEF IInv, StoreTyped, MemoryTyped
  <2>3. FreshResults({}) /\ s.inbox = (inbox \ A) \cup {} \cup Q /\ \A b : \A m \in {} : m.from # b
    BY FS_EmptySet DEF FreshResults
  <2>4. \A b \in Agents : s.agent[b] = agent[b] /\ (IsLoading(b)' => IsLoading(b))
    BY <1>4 DEF IsLoading
  <2>5. StoreInv' /\ StoreTyped'
    BY <1>2, <2>1, <2>2, <2>3, <2>4, CommitKeepsStore
  <2>6. SameLoads(loading) /\ SameRuns(active)
    BY <1>4 DEF SameLoads, SameRuns
  <2>7. \A b \in Agents : /\ IsActive(b) => agent[b].status \notin {"none", "closed"}
                          /\ b \in closing => agent[b].status = "closed"
    BY DEF IInv, FlightInv, FlightReserved, HostInv, SessionOf
  <2> QED BY <1>1, <1>4, <2>1, <2>2, <2>5, <2>6, <2>7, SameMemory
<1> QED BY <1>1, <1>3, <1>4

\* send()
LEMMA SendStep ==
    ASSUME IInv, NEW p \in Paths, Send(p)
    PROVE  IInv'
<1> DEFINE s == [Current EXCEPT !.chat[p] = @ + 1]
<1>1. s.agent = agent /\ s.inbox = inbox /\ s.chat = [chat EXCEPT ![p] = @ + 1]
  BY DEF Current
<1>2. CommitMail(s, {}) /\ MailboxFree(p)
  BY DEF Send
<1> HIDE DEF s
<1>3. s.chat \in [Paths -> Nat] /\ \A q \in Paths : s.chat[q] = IF q = p THEN chat[q] + 1 ELSE chat[q]
  BY <1>1, Limits
<1>4. Load(Current, p) < MaxPendingMessages
  BY <1>2 DEF MailboxFree
<1>5. \A a \in Agents : s.chat[a] <= MaxPendingMessages
  BY <1>3, <1>4, Limits
<1>6. s.chat[Root] + Cardinality(s.inbox) + Cardinality(Reserved(Current)) <= MaxPendingMessages
  <2>1. chat[Root] \in Nat
    BY Limits
  <2> QED BY <1>1, <1>3, <1>4, <2>1, Limits
<1>7. s.inbox = (inbox \ {}) \cup {} /\ IsFiniteSet({}) /\ {} \subseteq inbox /\ {} \subseteq MailRecords
      /\ \A m \in {} : m.kind = "progress"
  BY <1>1, FS_EmptySet
<1>8. CommitMail(s, {}) /\ s.agent = agent /\ s.chat \in [Paths -> Nat]
  BY <1>1, <1>2, <1>3
<1> QED BY <1>5, <1>6, <1>7, <1>8, MailCommitStep

\* reportProgress()
LEMMA ReportProgressStep ==
    ASSUME IInv, NEW a \in Agents, ReportProgress(a)
    PROVE  IInv'
<1> DEFINE m == Mail("progress", a, agent[a].turn, "none")
           s == [Current EXCEPT !.inbox = @ \cup {m}]
<1>1. s.agent = agent /\ s.inbox = inbox \cup {m} /\ s.chat = chat
  BY DEF Current
<1>2. CommitMail(s, {}) /\ (m \in inbox \/ MailboxFree(Root))
  BY DEF ReportProgress
<1>3. m \in MailRecords /\ m.kind = "progress"
  <2>1. agent[a].turn \in Nat
    BY TypeParts DEF IInv, StoreTyped, AgentRecords
  <2> QED BY <2>1 DEF Mail, MailRecords
<1> HIDE DEF s, m
<1>4. Cardinality(inbox \cup {m}) = IF m \in inbox THEN Cardinality(inbox) ELSE Cardinality(inbox) + 1
  BY Limits, FS_AddElement
<1>5. chat[Root] + Cardinality(s.inbox) + Cardinality(Reserved(Current)) <= MaxPendingMessages
  <2>1. chat[Root] \in Nat
    BY Limits
  <2>2. CASE m \in inbox
    BY <1>1, <1>4, <2>1, <2>2, Limits
  <2>3. CASE m \notin inbox
    <3>1. chat[Root] + Cardinality(inbox) + Cardinality(Reserved(Current)) < MaxPendingMessages
      BY <1>2, <2>3, Limits DEF MailboxFree
    <3>2. Cardinality(s.inbox) = Cardinality(inbox) + 1
      BY <1>1, <1>4, <2>3
    <3>3. /\ Cardinality(inbox) \in Nat /\ Cardinality(Reserved(Current)) \in Nat
          /\ MaxPendingMessages \in Nat
      BY Limits
    <3> QED BY ONLY <2>1, <3>1, <3>2, <3>3
  <2> QED BY <2>2, <2>3
<1>6. s.inbox = (inbox \ {}) \cup {m} /\ IsFiniteSet({m}) /\ {m} \subseteq MailRecords /\ {} \subseteq inbox
      /\ \A x \in {m} : x.kind = "progress"
  BY <1>1, <1>3, FS_Singleton
<1> QED BY <1>1, <1>2, <1>5, <1>6, Limits, MailCommitStep

\* acknowledge()
LEMMA AcknowledgeStep ==
    ASSUME IInv, NEW p \in Paths, NEW n \in 0 .. chat[p], NEW selected \in SUBSET inbox,
           Acknowledge(p, n, selected)
    PROVE  IInv'
<1> DEFINE s == [Current EXCEPT !.chat[p] = @ - n, !.inbox = @ \ selected]
<1>1. s.agent = agent /\ s.inbox = inbox \ selected /\ s.chat = [chat EXCEPT ![p] = @ - n]
  BY DEF Current
<1>2. CommitMail(s, selected)
  BY DEF Acknowledge
<1> HIDE DEF s
<1>3. \A q \in Paths : chat[q] \in Nat
  BY Limits
<1>4. chat[p] - n \in Nat
  BY <1>3
<1>5. s.chat \in [Paths -> Nat] /\ \A q \in Paths : s.chat[q] = IF q = p THEN chat[q] - n ELSE chat[q]
  BY <1>1, <1>4, Limits
<1>6. \A q \in Paths : s.chat[q] <= chat[q] /\ s.chat[q] \in Nat
  BY <1>3, <1>5
<1>7. Cardinality(inbox \ selected) <= Cardinality(inbox) /\ Cardinality(inbox \ selected) \in Nat
  BY Limits, FS_Subset, FS_CardinalityType
<1>8. \A a \in Agents : s.chat[a] <= MaxPendingMessages
  BY <1>3, <1>6, Limits
<1>9. s.chat[Root] + Cardinality(s.inbox) + Cardinality(Reserved(Current)) <= MaxPendingMessages
  <2>1. s.chat[Root] <= chat[Root] /\ s.chat[Root] \in Nat /\ chat[Root] \in Nat
    BY <1>3, <1>6, Limits
  <2> QED BY <1>1, <1>7, <2>1, Limits
<1>10. s.inbox = (inbox \ selected) \cup {} /\ IsFiniteSet({}) /\ {} \subseteq MailRecords
      /\ \A m \in {} : m.kind = "progress"
  BY <1>1, FS_EmptySet
<1> QED BY <1>1, <1>2, <1>5, <1>8, <1>9, <1>10, MailCommitStep

\* What is known of an agent with a turn, and of its ledger.
LEMMA AgentFacts ==
    ASSUME IInv, NEW a \in Agents
    PROVE  /\ agent[a] \in AgentRecords /\ agent[a].turn \in Nat /\ agent[a].reserved \in BOOLEAN
           /\ turns[a] \in Seq(TurnRecords) /\ Len(turns[a]) = agent[a].turn
           /\ BooksAgree(a) /\ OneTurn(a) /\ FlightReserved(a) /\ SessionOf(a)
           /\ agent[a].status # "none" => agent[a].turn > 0 /\ agent[a].turn \in 1 .. Len(turns[a])
           /\ agent[a].reserved => agent[a].status # "none"
           /\ IsLoading(a) => agent[a].reserved
<1>1. agent[a] \in AgentRecords /\ turns[a] \in Seq(TurnRecords)
  BY TypeParts DEF IInv, StoreTyped
<1>2. agent[a].turn \in Nat /\ agent[a].reserved \in BOOLEAN
  BY <1>1 DEF AgentRecords
<1>3. BooksAgree(a) /\ OneTurn(a) /\ FlightReserved(a) /\ SessionOf(a)
  BY DEF IInv, StoreInv, FlightInv, HostInv
<1>4. Len(turns[a]) = agent[a].turn
  BY <1>3 DEF BooksAgree
<1>5. agent[a].status # "none" => agent[a].turn > 0 /\ agent[a].turn \in 1 .. Len(turns[a])
  BY <1>2, <1>3, <1>4 DEF BooksAgree
<1>6. (agent[a].reserved => agent[a].status # "none") /\ (IsLoading(a) => agent[a].reserved)
  BY <1>3 DEF BooksAgree, FlightReserved, InFlight
<1> QED BY <1>1, <1>2, <1>3, <1>4, <1>5, <1>6

\* A commit that leaves the ledger's turns alone and delivers nothing.
LEMMA KeptLedger ==
    ASSUME IInv, NEW a \in Agents, NEW s, turns' = SyncHistory(s, {}, {}),
           \/ s.agent[a] = agent[a] \/ s.agent[a].status = "closed"
           \/ s.agent[a].status = "interrupted" /\ s.agent[a].reserved /\ s.agent[a].turn = agent[a].turn
    PROVE  /\ Rewritten(a, {}, {}) /\ Len(turns'[a]) = agent[a].turn
           /\ \A t \in 1 .. agent[a].turn : /\ turns'[a][t].status = turns[a][t].status
                                            /\ turns'[a][t].started = turns[a][t].started
                                            /\ turns'[a][t].delivery = turns[a][t].delivery
<1>1. Len(turns[a]) = agent[a].turn /\ agent[a].turn \in Nat
  BY AgentFacts
<1>2. /\ turns'[a] \in Seq(TurnRecords) /\ SameTurns(turns'[a], turns[a])
      /\ Redelivered(turns'[a], turns[a], {}, {}, a)
  <2>1. ~(agent[a].turn > Len(turns[a]))
    BY <1>1
  <2>2. TypeOK
    BY DEF IInv
  <2> QED BY <2>1, <2>2, LedgerKept
<1>3. Len(turns'[a]) = Len(turns[a])
  BY <1>2 DEF SameTurns
<1>4. Rewritten(a, {}, {})
  BY <1>1, <1>2, <1>3 DEF Rewritten
<1> QED BY <1>1, <1>2, <1>3, <1>4, NoDelivery DEF SameTurns, Redelivered

\* A commit that moves the latest turn of an agent.
LEMMA MovedLedger ==
    ASSUME IInv, NEW a \in Agents, NEW s, NEW P, turns' = SyncHistory(s, P, {}),
           s.agent[a].status \in Settled \cup {"pending", "running"},
           s.agent[a].turn = agent[a].turn, agent[a].turn > 0, s.agent[a] # agent[a],
           ~(s.agent[a].status = "interrupted" /\ s.agent[a].reserved)
    PROVE  LET n == agent[a].turn IN
           /\ Rewritten(a, P, {}) /\ Len(turns'[a]) = n
           /\ \A t \in 1 .. n : t < n => /\ turns'[a][t].status = turns[a][t].status
                                         /\ turns'[a][t].started = turns[a][t].started
           /\ turns'[a][n].status = s.agent[a].status
           /\ turns'[a][n].started = (turns[a][n].started \/ s.agent[a].status = "running")
           /\ \A t \in 1 .. n : turns'[a][t].delivery =
                 IF \E m \in P : m.from = a /\ m.turn = t THEN "enqueued" ELSE turns[a][t].delivery
<1> DEFINE n == agent[a].turn
<1>1. Len(turns[a]) = n /\ n \in Nat /\ n > 0 /\ TypeOK
  BY AgentFacts DEF IInv
<1>2. /\ turns'[a] \in Seq(TurnRecords)
      /\ Len(turns'[a]) = n
      /\ \A t \in 1 .. n - 1 : /\ turns'[a][t].status = turns[a][t].status
                               /\ turns'[a][t].started = turns[a][t].started
      /\ Redelivered(turns'[a], turns[a], P, {}, a)
      /\ turns'[a][n].status = s.agent[a].status
      /\ turns'[a][n].started = (turns[a][n].started \/ s.agent[a].status = "running")
  <2>1. s.agent[a].turn = Len(turns[a]) /\ Len(turns[a]) > 0
    BY <1>1
  <2> HIDE DEF n
  <2> QED BY <1>1, <2>1, LedgerMoved
<1>3. \A t \in 1 .. n : t < n => t \in 1 .. n - 1
  BY <1>1
<1>4. \A t \in 1 .. n : turns'[a][t].delivery =
         IF \E m \in P : m.from = a /\ m.turn = t THEN "enqueued" ELSE turns[a][t].delivery
  BY <1>1, <1>2 DEF Redelivered, Delivery
<1>5. Rewritten(a, P, {})
  BY <1>1, <1>2 DEF Rewritten
<1> QED BY <1>2, <1>3, <1>4, <1>5

\* interruptWithHandoff(): a request on a turn in flight, or a rewritten status of
\* one that has just been finished.
LEMMA InterruptStep ==
    ASSUME IInv, NEW a \in Agents, Interrupt(a)
    PROVE  IInv'
<1> DEFINE r == [agent[a] EXCEPT !.status = "interrupted"]
           s == [Current EXCEPT !.agent[a] = r]
           n == agent[a].turn
<1>1. /\ r \in AgentRecords /\ r.status = "interrupted" /\ r.turn = n /\ r.reserved = agent[a].reserved
      /\ n \in Nat /\ Len(turns[a]) = n
  BY AgentFacts DEF AgentRecords, Statuses, Settled
<1>2. agent[a].status \notin {"none", "closed"} /\ n > 0
  BY AgentFacts, Unused DEF Interrupt
<1>3. /\ \/ Committed(s, {}, {}) /\ AbortTurn(a) /\ UNCHANGED failure
         \/ CommitFails(s, {}, loading, active)
      /\ UNCHANGED <<owner, lifecycle, sessions, evicting, closing, stopping>>
  <2>1. [Current EXCEPT !.agent[a].status = "interrupted"] = s
    BY DEF Current
  <2> QED BY <2>1 DEF Interrupt
<1>4. Valid(s)
  BY <1>1, <1>2, OneRecordValid
<1>5. CASE CommitFails(s, {}, loading, active)
  BY <1>3, <1>4, <1>5, RefusedStep
<1>6. CASE Committed(s, {}, {}) /\ AbortTurn(a) /\ UNCHANGED failure
  <2>1. agent' = s.agent /\ turns' = SyncHistory(s, {}, {})
    BY <1>6 DEF Committed
  <2>2. \A b \in Agents : s.agent[b] = IF b = a THEN r ELSE agent[b]
    BY <1>1, OneRecord
  <2> HIDE DEF s, r
  <2>3. agent'[a] = r /\ s.agent[a] = r
    BY <2>1, <2>2
  <2>4. /\ loading' \in [Agents -> Loads] /\ SameLoads(loading)
        /\ active' \in [Agents -> Runs] /\ SameRuns(active)
    <3>1. loading \in [Agents -> Loads] /\ active \in [Agents -> Runs]
      BY TypeParts DEF IInv, MemoryTyped
    <3>2. loading' = [loading EXCEPT ![a].aborted = IsLoading(a)]
          /\ active' = [active EXCEPT ![a].aborting = @ \/ (IsActive(a) /\ ~IsLoading(a))]
      BY <1>6 DEF AbortTurn
    <3>3. loading' \in [Agents -> Loads] /\ SameLoads(loading)
      BY <3>1, <3>2 DEF Loads, SameLoads, IsLoading
    <3>4. active' \in [Agents -> Runs] /\ SameRuns(active)
      <4> DEFINE f == active[a].aborting \/ (IsActive(a) /\ ~IsLoading(a))
      <4>1. active' = [active EXCEPT ![a].aborting = f]
        BY <3>2
      <4>2. f \in BOOLEAN
        OBVIOUS
      <4> HIDE DEF f
      <4>3. active' \in [Agents -> Runs]
        BY <3>1, <4>1, <4>2 DEF Runs
      <4>4. SameRuns(active)
        BY <3>1, <4>1 DEF Runs, SameRuns
      <4> QED BY <4>3, <4>4
    <3> QED BY <3>3, <3>4
  <2>5. \A b \in Agents : IsLoading(b)' = IsLoading(b)
    BY <2>4 DEF SameLoads, IsLoading
  <2>6. BooksAgree(a)' /\ Rewritten(a, {}, {})
    <3>1. BooksAgree(a) /\ n \in 1 .. n
      BY <1>1, <1>2, AgentFacts
    <3>2. CASE agent[a].reserved \/ r = agent[a]
      <4>1. /\ Rewritten(a, {}, {}) /\ Len(turns'[a]) = n
            /\ \A t \in 1 .. n : /\ turns'[a][t].status = turns[a][t].status
                                 /\ turns'[a][t].started = turns[a][t].started
                                 /\ turns'[a][t].delivery = turns[a][t].delivery
        BY <1>1, <2>1, <2>3, <3>2, KeptLedger
      <4>2. /\ agent'[a].turn = n /\ agent'[a].reserved = agent[a].reserved
            /\ agent'[a].status # "none"
            /\ agent'[a].reserved => agent'[a].status = "interrupted"
            /\ ~agent'[a].reserved => agent'[a].status = agent[a].status
        BY <1>1, <1>2, <2>3, <3>2, AgentFacts DEF r
      <4>3. IsLoading(a)' = IsLoading(a) /\ n \in Nat /\ n > 0
        BY <1>1, <1>2, <2>5
      <4>4. BooksAgree(a)'
        BY ONLY <3>1, <4>1, <4>2, <4>3 DEF BooksAgree
      <4> QED BY <4>1, <4>4
    <3>3. CASE ~agent[a].reserved /\ r # agent[a]
      <4>1. /\ Rewritten(a, {}, {}) /\ Len(turns'[a]) = n
            /\ \A t \in 1 .. n : t < n => /\ turns'[a][t].status = turns[a][t].status
                                          /\ turns'[a][t].started = turns[a][t].started
            /\ turns'[a][n].status = "interrupted"
            /\ turns'[a][n].started = turns[a][n].started
            /\ \A t \in 1 .. n : turns'[a][t].delivery = turns[a][t].delivery
        <5>1. s.agent[a].status = "interrupted" /\ s.agent[a].status \in Settled \cup {"pending", "running"}
              /\ s.agent[a].turn = agent[a].turn /\ s.agent[a] # agent[a] /\ ~s.agent[a].reserved
          BY <1>1, <2>3, <3>3 DEF Settled
        <5>2. turns[a][n].started \in BOOLEAN
          <6>1. turns[a][n] \in TurnRecords
            BY <3>1, <1>1, AgentFacts
          <6> QED BY <6>1 DEF TurnRecords
        <5>3. turns[a][n].started = (turns[a][n].started \/ s.agent[a].status = "running")
          BY <5>1, <5>2
        <5> QED BY <1>2, <2>1, <5>1, <5>3, MovedLedger
      <4>2. "interrupted" \in Settled /\ turns[a][n].status \in Settled /\ ~IsLoading(a)
        BY <3>1, <3>3, AgentFacts DEF BooksAgree, Settled
      <4>3. agent'[a].turn = n /\ agent'[a].status = "interrupted" /\ ~agent'[a].reserved
        BY <1>1, <2>3, <3>3
      <4>4. ASSUME NEW t \in 1 .. n
            PROVE  /\ turns'[a][t].status \in Settled
                   /\ turns'[a][t].started => turns'[a][t].delivery # "not_enqueued"
        BY <3>1, <3>3, <4>1, <4>2 DEF BooksAgree
      <4> HIDE DEF n
      <4>5. BooksAgree(a)'
        BY <1>2, <2>5, <3>1, <4>1, <4>2, <4>3, <4>4 DEF BooksAgree
      <4> QED BY <4>1, <4>5
    <3> QED BY <3>2, <3>3
  <2>7. StoreInv' /\ StoreTyped'
    <3>1. Committed([Current EXCEPT !.agent[a] = r], {}, {})
      BY <1>6 DEF s
    <3> QED BY <1>1, <2>5, <2>6, <3>1, RecordCommit
  <2>8. \A b \in Agents : /\ agent'[b].turn = agent[b].turn
                          /\ agent'[b].reserved = agent[b].reserved
                          /\ IsActive(b) => agent'[b].status \notin {"none", "closed"}
                          /\ b \in closing => agent'[b].status = "closed"
    <3>1. ASSUME NEW b \in Agents, b # a
          PROVE  /\ agent'[b] = agent[b]
                 /\ IsActive(b) => agent[b].status \notin {"none", "closed"}
                 /\ b \in closing => agent[b].status = "closed"
      BY <2>1, <2>2, <3>1, AgentFacts DEF FlightReserved, SessionOf
    <3>2. a \notin closing
      BY <1>2, AgentFacts DEF SessionOf
    <3> QED BY <1>1, <2>3, <3>1, <3>2
  <2>9. closing' = closing /\ closing \subseteq Agents
    BY <1>3, TypeParts DEF IInv, MemoryTyped
  <2> QED BY <1>3, <1>6, <2>4, <2>7, <2>8, <2>9, SameMemory
<1> QED BY <1>3, <1>5, <1>6

\* close(): a settled agent is retired, or the disposal of a retired one retried.
LEMMA CloseStep ==
    ASSUME IInv, NEW a \in Agents, Close(a)
    PROVE  IInv'
<1> DEFINE r == [agent[a] EXCEPT !.status = "closed", !.reserved = FALSE]
           s == [Current EXCEPT !.agent[a] = r]
           n == agent[a].turn
<1>1. /\ r \in AgentRecords /\ r.status = "closed" /\ r.turn = n /\ ~r.reserved
      /\ n \in Nat /\ Len(turns[a]) = n
  BY AgentFacts DEF AgentRecords, Statuses
<1>2. /\ Ready /\ UNCHANGED <<owner, lifecycle, sessions, evicting, stopping>>
      /\ \/ /\ agent[a].status \in Settled /\ ~IsActive(a) /\ ~IsLoading(a)
            /\ \/ /\ Committed(s, {}, {})
                  /\ closing' = closing \cup ({a} \cap sessions)
                  /\ UNCHANGED <<loading, active, failure>>
               \/ CommitFails(s, {}, loading, active) /\ UNCHANGED closing
         \/ /\ agent[a].status = "closed"
            /\ closing' = closing \cup {a}
            /\ UNCHANGED <<store, loading, active, failure>>
  <2>1. [agent EXCEPT ![a].status = "closed", ![a].reserved = FALSE] = [agent EXCEPT ![a] = r]
    <3>1. agent \in [Agents -> AgentRecords]
      BY TypeParts DEF IInv, StoreTyped
    <3> QED BY <3>1 DEF AgentRecords
  <2>2. [Current EXCEPT !.agent[a].status = "closed", !.agent[a].reserved = FALSE]
        = [Current EXCEPT !.agent = [agent EXCEPT ![a].status = "closed", ![a].reserved = FALSE]]
    BY DEF Current
  <2>3. [Current EXCEPT !.agent = [agent EXCEPT ![a] = r]] = s
    BY DEF Current
  <2>4. [Current EXCEPT !.agent[a].status = "closed", !.agent[a].reserved = FALSE] = s
    BY <2>1, <2>2, <2>3
  <2> QED BY <2>4 DEF Close
<1>3. Valid(s)
  BY <1>1, OneRecordValid
<1>4. loading \in [Agents -> Loads] /\ active \in [Agents -> Runs] /\ closing \subseteq Agents
  BY TypeParts DEF IInv, MemoryTyped
<1>5. CASE CommitFails(s, {}, loading, active) /\ UNCHANGED closing
  BY <1>2, <1>3, <1>5, RefusedStep
<1>6. CASE /\ agent[a].status = "closed" /\ closing' = closing \cup {a}
           /\ UNCHANGED <<store, loading, active, failure>>
  <2>1. StoreInv' /\ StoreTyped'
    <3>1. StoreInv'
      BY <1>6, StoreKept DEF IInv, IsLoading
    <3> QED BY <1>6, <3>1, TypeParts DEF IInv, StoreTyped, store
  <2>2. SameLoads(loading) /\ SameRuns(active)
    BY <1>6 DEF SameLoads, SameRuns
  <2>3. \A b \in Agents : /\ IsActive(b) => agent[b].status \notin {"none", "closed"}
                          /\ b \in closing => agent[b].status = "closed"
    BY AgentFacts DEF FlightReserved, SessionOf
  <2> QED BY <1>2, <1>4, <1>6, <2>1, <2>2, <2>3, SameMemory DEF store
<1>7. CASE /\ agent[a].status \in Settled /\ ~IsActive(a) /\ ~IsLoading(a)
           /\ Committed(s, {}, {}) /\ closing' = closing \cup ({a} \cap sessions)
           /\ UNCHANGED <<loading, active, failure>>
  <2>1. agent' = s.agent /\ turns' = SyncHistory(s, {}, {})
    BY <1>7 DEF Committed
  <2>2. \A b \in Agents : s.agent[b] = IF b = a THEN r ELSE agent[b]
    BY <1>1, OneRecord
  <2> HIDE DEF s, r
  <2>3. agent'[a] = r /\ s.agent[a] = r
    BY <2>1, <2>2
  <2>4. ~agent[a].reserved /\ n > 0 /\ BooksAgree(a)
    BY <1>2, <1>7, AtRest, AgentFacts DEF Settled
  <2>5. BooksAgree(a)' /\ Rewritten(a, {}, {})
    <3>1. /\ Rewritten(a, {}, {}) /\ Len(turns'[a]) = n
          /\ \A t \in 1 .. n : /\ turns'[a][t].status = turns[a][t].status
                               /\ turns'[a][t].started = turns[a][t].started
                               /\ turns'[a][t].delivery = turns[a][t].delivery
      BY <1>1, <2>1, <2>3, KeptLedger
    <3>2. IsLoading(a)' = IsLoading(a)
      BY <1>7 DEF IsLoading
    <3> HIDE DEF n
    <3>3. BooksAgree(a)'
      BY <1>1, <1>7, <2>3, <2>4, <3>1, <3>2 DEF BooksAgree, n
    <3> QED BY <3>1, <3>3
  <2>6. StoreInv' /\ StoreTyped'
    <3>1. Committed([Current EXCEPT !.agent[a] = r], {}, {})
      BY <1>7 DEF s
    <3>2. \A b \in Agents : IsLoading(b)' => IsLoading(b)
      BY <1>7 DEF IsLoading
    <3> QED BY <1>1, <2>5, <3>1, <3>2, RecordCommit
  <2>7. \A b \in Agents : /\ agent'[b].turn = agent[b].turn
                          /\ agent'[b].reserved = agent[b].reserved
                          /\ IsActive(b) => agent'[b].status \notin {"none", "closed"}
                          /\ b \in closing' => agent'[b].status = "closed"
    <3>1. ASSUME NEW b \in Agents, b # a
          PROVE  /\ agent'[b] = agent[b] /\ (b \in closing' => b \in closing)
                 /\ IsActive(b) => agent[b].status \notin {"none", "closed"}
                 /\ b \in closing => agent[b].status = "closed"
      BY <1>7, <2>1, <2>2, <3>1, AgentFacts DEF FlightReserved, SessionOf
    <3>2. agent[a].reserved \in BOOLEAN /\ r.reserved \in BOOLEAN
      BY <1>1, AgentFacts DEF AgentRecords
    <3>3. /\ agent'[a].turn = agent[a].turn /\ agent'[a].reserved = agent[a].reserved
          /\ agent'[a].status = "closed"
      BY <1>1, <2>3, <2>4, <3>2
    <3> QED BY <1>7, <3>1, <3>3
  <2>8. SameLoads(loading) /\ SameRuns(active) /\ closing' \subseteq Agents
        /\ loading' \in [Agents -> Loads] /\ active' \in [Agents -> Runs]
    BY <1>4, <1>7 DEF SameLoads, SameRuns
  <2> QED BY <1>2, <1>7, <2>6, <2>7, <2>8, SameMemory
<1> QED BY <1>2, <1>5, <1>6, <1>7

\* The head of the queue leaves it.
LEMMA QueueTail ==
    ASSUME IInv, NEW a \in Agents, NEW phase, AtHead(a, phase), lifecycle' = Tail(lifecycle),
           \A b \in Agents : loading'[b].phase = IF b = a THEN "none" ELSE loading[b].phase
    PROVE  QueueSound' /\ lifecycle' \in Seq(Agents)
<1>1. lifecycle \in Seq(Agents) /\ Len(lifecycle) \in Nat \ {0} /\ lifecycle[1] = a
  BY HeadAlone, TypeParts DEF IInv, MemoryTyped
<1>2. /\ lifecycle' \in Seq(Agents) /\ Len(lifecycle') = Len(lifecycle) - 1
      /\ \A i \in 1 .. Len(lifecycle') : lifecycle'[i] = lifecycle[i + 1]
  BY <1>1
<1>3. QueueSound
  BY DEF IInv, HostInv
<1>4. \A i \in 1 .. Len(lifecycle') : i + 1 \in 2 .. Len(lifecycle) /\ i + 1 \in 1 .. Len(lifecycle)
  BY <1>1, <1>2
<1>5. \A i \in 2 .. Len(lifecycle) : /\ lifecycle[i] \in Agents \ {a}
                                     /\ i - 1 \in 1 .. Len(lifecycle') /\ lifecycle'[i - 1] = lifecycle[i]
  <2>1. \A i \in 2 .. Len(lifecycle) : lifecycle[i] \in Agents /\ lifecycle[i] # a
    BY <1>1, <1>3 DEF QueueSound
  <2>2. \A i \in 2 .. Len(lifecycle) : i - 1 \in 1 .. Len(lifecycle') /\ (i - 1) + 1 = i
    BY <1>1, <1>2
  <2> QED BY <1>2, <2>1, <2>2
<1>6. ASSUME NEW b \in Agents
      PROVE  IsLoading(b)' <=> \E i \in 1 .. Len(lifecycle') : lifecycle'[i] = b
  <2>1. ASSUME IsLoading(b)' PROVE \E i \in 1 .. Len(lifecycle') : lifecycle'[i] = b
    <3>1. b # a /\ IsLoading(b)
      BY <2>1 DEF IsLoading
    <3>2. PICK i \in 1 .. Len(lifecycle) : lifecycle[i] = b
      BY <1>3, <3>1 DEF QueueSound
    <3>3. i \in 2 .. Len(lifecycle)
      BY <1>1, <3>1, <3>2
    <3> QED BY <1>5, <3>2, <3>3
  <2>2. ASSUME NEW i \in 1 .. Len(lifecycle'), lifecycle'[i] = b PROVE IsLoading(b)'
    <3>1. lifecycle[i + 1] = b /\ b # a
      BY <1>2, <1>4, <1>5, <2>2
    <3>2. IsLoading(b)
      BY <1>3, <1>4, <3>1 DEF QueueSound
    <3> QED BY <3>1, <3>2 DEF IsLoading
  <2> QED BY <2>1, <2>2
<1>7. \A i, j \in 1 .. Len(lifecycle') : lifecycle'[i] = lifecycle'[j] => i = j
  <2>1. ASSUME NEW i \in 1 .. Len(lifecycle'), NEW j \in 1 .. Len(lifecycle'), lifecycle'[i] = lifecycle'[j]
        PROVE  i = j
    <3>1. i + 1 = j + 1
      BY <1>2, <1>3, <1>4, <2>1 DEF QueueSound
    <3> QED BY <3>1
  <2> QED BY <2>1
<1>8. ASSUME NEW i \in 2 .. Len(lifecycle') PROVE loading'[lifecycle'[i]].phase = "queued"
  <2>1. i \in 1 .. Len(lifecycle') /\ i + 1 \in 2 .. Len(lifecycle)
    BY <1>1, <1>2
  <2>2. lifecycle'[i] = lifecycle[i + 1] /\ lifecycle[i + 1] \in Agents \ {a}
    BY <1>2, <1>5, <2>1
  <2> QED BY <1>3, <2>1, <2>2 DEF QueueSound
<1> QED BY <1>2, <1>6, <1>7, <1>8 DEF QueueSound

\* Leaving the queue, for a run or for good, releases nothing that others hold.
LEMMA LeaveQueue ==
    ASSUME IInv, NEW a \in Agents, NEW phase, AtHead(a, phase), phase # "evicting",
           lifecycle' = Tail(lifecycle), UNCHANGED <<owner, sessions, evicting, closing, stopping>>,
           loading' \in [Agents -> Loads], active' \in [Agents -> Runs],
           failure' \in {failure, "storage"}, StoreInv', StoreTyped',
           \A b \in Agents : /\ loading'[b].phase = IF b = a THEN "none" ELSE loading[b].phase
                             /\ loading'[b].turn = IF b = a THEN 0 ELSE loading[b].turn
                             /\ b # a => /\ agent'[b] = agent[b]
                                         /\ active'[b].phase = active[b].phase /\ active'[b].turn = active[b].turn
                                         /\ active'[b].result = active[b].result,
           agent'[a].status # "closed", OneTurn(a)', FlightReserved(a)',
           active'[a].phase \in {"run", "finish"} => a \in sessions /\ a \notin evicting
    PROVE  IInv'
<1> USE DEF IInv, owner
<1>1. QueueSound' /\ lifecycle' \in Seq(Agents)
  BY QueueTail
<1>2. up = "up" /\ loading[a].phase = phase /\ phase # "none"
  BY HeadAlone
<1>3. TypeOK' /\ NoSelfInflictedFailure'
  BY <1>1, TypeParts DEF MemoryTyped, OwnerTyped, NoSelfInflictedFailure
<1>4. FlightInv'
  <2>1. ASSUME NEW b \in Agents PROVE OneTurn(b)' /\ FlightReserved(b)'
    <3>1. CASE b # a
      BY <3>1, AgentFacts DEF OneTurn, FlightReserved, InFlight, IsLoading, IsActive
    <3> QED BY <3>1
  <2> QED BY <1>2, <2>1 DEF FlightInv, MemoryOwned
<1>5. SlotsBounded'
  <2>1. \A b \in Agents : (IsLoading(b) \/ IsActive(b))' => IsLoading(b) \/ IsActive(b)
    BY <1>2 DEF IsLoading, IsActive
  <2>2. Cardinality(sessions') <= MaxActiveSessions - 1
    BY DEF HostInv, SlotsBounded
  <2> QED BY <2>1, <2>2, SlotsShrink
<1>6. EvictionOwned'
  BY <1>2 DEF HostInv, EvictionOwned
<1>7. ASSUME NEW b \in Agents PROVE SessionOf(b)'
  <2>1. SessionOf(b)
    BY AgentFacts
  <2>2. CASE b # a
    BY <2>1, <2>2 DEF SessionOf
  <2>3. CASE b = a
    <3>1. a \notin closing
      BY <1>2, AgentFacts DEF SessionOf, BooksAgree, IsLoading
    <3> QED BY <2>3, <3>1 DEF SessionOf
  <2> QED BY <2>2, <2>3
<1> QED BY <1>1, <1>3, <1>4, <1>5, <1>6, <1>7 DEF HostInv

\* The startup becomes a run, or fails after all.
LEMMA StartStep ==
    ASSUME IInv, NEW a \in Agents, Start(a)
    PROVE  IInv'
<1> DEFINE r == [agent[a] EXCEPT !.status = "running"]
           s == [Current EXCEPT !.agent[a] = r]
           n == agent[a].turn
           run == [phase |-> "run", turn |-> n, result |-> "none", aborting |-> FALSE]
<1>1. AtHead(a, "ready") /\ UNCHANGED <<owner, sessions, evicting, closing, stopping>>
  BY Zenon DEF Start
<1>2. /\ \A b \in Agents : b # a => loading[b].phase \in {"none", "queued"}
      /\ loading[a].phase = "ready" /\ IsLoading(a) /\ up = "up"
  BY <1>1, HeadAlone DEF IsLoading
<1>3. /\ agent[a].reserved /\ n > 0 /\ n \in Nat /\ Len(turns[a]) = n /\ n \in 1 .. n
      /\ BooksAgree(a) /\ a \in sessions /\ a \notin evicting /\ ~IsActive(a)
  BY <1>2, AgentFacts DEF SessionOf, OneTurn
<1>4. r \in AgentRecords /\ r.status = "running" /\ r.turn = n /\ r.reserved
  BY <1>3, AgentFacts DEF AgentRecords, Statuses
<1>5. \/ /\ Startable(a) /\ Committed(s, {}, {})
         /\ loading' = [loading EXCEPT ![a] = NoLoad] /\ lifecycle' = Tail(lifecycle)
         /\ active' = [active EXCEPT ![a] = run] /\ UNCHANGED failure
      \/ /\ Startable(a) /\ CommitFails(s, {}, To(a, "failing"), active) /\ UNCHANGED lifecycle
      \/ loading' = To(a, "failing") /\ UNCHANGED <<store, active, lifecycle, failure>>
  <2>1. [Current EXCEPT !.agent[a].status = "running"] = s
    BY DEF Current
  <2> QED BY <2>1 DEF Start
<1>6. loading \in [Agents -> Loads] /\ active \in [Agents -> Runs] /\ sessions \subseteq Agents
      /\ evicting \subseteq Agents /\ Cardinality(sessions) <= MaxActiveSessions - 1
  BY TypeParts DEF IInv, MemoryTyped, HostInv, SlotsBounded
<1>7. Valid(s)
  BY <1>3, <1>4, AgentFacts, OneRecordValid DEF BooksAgree
<1>8. ASSUME loading' \in [Agents -> Loads], active' \in [Agents -> Runs],
             SameLoads(To(a, "failing")), SameRuns(active), UNCHANGED <<store, lifecycle>>,
             failure' \in {failure, "storage"}
      PROVE  IInv'
  <2>1. \A b \in Agents : /\ loading'[b].phase = IF b = a THEN "failing" ELSE loading[b].phase
                          /\ active'[b].phase = active[b].phase
    <3>1. \A b \in Agents : To(a, "failing")[b].phase = IF b = a THEN "failing" ELSE loading[b].phase
      BY ToShape DEF LoadPhases
    <3> QED BY <1>8, <3>1 DEF SameLoads, SameRuns
  <2>2. EvictionOwned'
    BY <1>1, <1>2, <2>1 DEF IInv, HostInv, EvictionOwned
  <2>3. ASSUME NEW b \in Agents PROVE SessionOf(b)'
    <3>1. SessionOf(b)
      BY AgentFacts
    <3> QED BY <1>1, <1>8, <2>1, <3>1 DEF SessionOf, store
  <2> QED BY <1>1, <1>6, <1>8, <2>2, <2>3, HeadStep DEF LoadPhases
<1>9. CASE loading' = To(a, "failing") /\ UNCHANGED <<store, active, lifecycle, failure>>
  <2>1. loading' \in [Agents -> Loads] /\ SameLoads(To(a, "failing")) /\ SameRuns(active)
    BY <1>9, ToShape DEF LoadPhases, SameLoads, SameRuns
  <2> QED BY <1>6, <1>8, <1>9, <2>1
<1>10. CASE CommitFails(s, {}, To(a, "failing"), active) /\ UNCHANGED lifecycle
  <2>1. To(a, "failing") \in [Agents -> Loads] /\ ~Conflict(s, {})
    BY ToShape DEF LoadPhases, Conflict
  <2> QED BY <1>6, <1>7, <1>8, <1>10, <2>1, Poisoned
<1>11. CASE /\ Startable(a) /\ Committed(s, {}, {})
            /\ loading' = [loading EXCEPT ![a] = NoLoad] /\ lifecycle' = Tail(lifecycle)
            /\ active' = [active EXCEPT ![a] = run] /\ UNCHANGED failure
  <2>1. agent' = s.agent /\ turns' = SyncHistory(s, {}, {}) /\ agent[a].status = "pending"
    BY <1>11 DEF Committed, Startable
  <2>2. \A b \in Agents : s.agent[b] = IF b = a THEN r ELSE agent[b]
    BY <1>4, OneRecord
  <2>3. NoLoad \in Loads /\ NoLoad.phase = "none" /\ NoLoad.turn = 0 /\ run \in Runs /\ run.phase = "run"
        /\ run.turn = n
    BY <1>3 DEF NoLoad, Loads, LoadPhases, Runs
  <2> HIDE DEF s, r, run
  <2>4. agent'[a] = r /\ s.agent[a] = r /\ r # agent[a] /\ \A b \in Agents : b # a => agent'[b] = agent[b]
    BY <1>4, <2>1, <2>2
  <2>5. /\ loading' \in [Agents -> Loads] /\ active' \in [Agents -> Runs]
        /\ \A b \in Agents : /\ loading'[b] = IF b = a THEN NoLoad ELSE loading[b]
                             /\ active'[b] = IF b = a THEN run ELSE active[b]
    BY <1>6, <1>11, <2>3
  <2>6. BooksAgree(a)' /\ Rewritten(a, {}, {})
    <3>1. /\ Rewritten(a, {}, {}) /\ Len(turns'[a]) = n
          /\ \A t \in 1 .. n : t < n => /\ turns'[a][t].status = turns[a][t].status
                                        /\ turns'[a][t].started = turns[a][t].started
          /\ turns'[a][n].status = "running"
          /\ \A t \in 1 .. n : turns'[a][t].delivery = turns[a][t].delivery
      <4>1. s.agent[a].status = "running" /\ s.agent[a].turn = agent[a].turn /\ s.agent[a] # agent[a]
        BY <1>4, <2>4
      <4> QED BY <1>3, <2>1, <4>1, MovedLedger
    <3>2. ~IsLoading(a)' /\ agent'[a].turn = n /\ agent'[a].status = "running" /\ agent'[a].reserved
      BY <1>4, <2>3, <2>4, <2>5 DEF IsLoading
    <3>3. ASSUME NEW t \in 1 .. n
          PROVE  /\ t < n => turns'[a][t].status \in Settled
                 /\ turns'[a][t].started /\ turns'[a][t].status \in Settled =>
                       turns'[a][t].delivery # "not_enqueued"
      <4>1. CASE t = n
        BY <3>1, <4>1 DEF Settled
      <4>2. CASE t # n
        <5>1. t < n
          BY <1>3, <4>2
        <5> QED BY <1>3, <3>1, <5>1 DEF BooksAgree
      <4> QED BY <4>1, <4>2
    <3> HIDE DEF n
    <3>4. BooksAgree(a)'
      BY <1>3, <3>1, <3>2, <3>3 DEF BooksAgree, n
    <3> QED BY <3>1, <3>4
  <2>7. StoreInv' /\ StoreTyped'
    <3>1. Committed([Current EXCEPT !.agent[a] = r], {}, {})
      BY <1>11 DEF s
    <3>2. \A b \in Agents : b # a => (IsLoading(b)' => IsLoading(b))
      BY <2>5 DEF IsLoading
    <3> QED BY <1>4, <2>6, <3>1, <3>2, RecordCommit
  <2>8. OneTurn(a)' /\ FlightReserved(a)' /\ agent'[a].status # "closed"
    BY <1>4, <2>3, <2>4, <2>5 DEF OneTurn, FlightReserved, InFlight, IsLoading, IsActive
  <2> QED BY <1>1, <1>3, <1>11, <2>3, <2>4, <2>5, <2>7, <2>8, LeaveQueue
<1> QED BY <1>5, <1>9, <1>10, <1>11

\* A failed startup settles its turn and leaves the queue.
LEMMA CleanupStep ==
    ASSUME IInv, NEW a \in Agents, Cleanup(a)
    PROVE  IInv'
<1> DEFINE x == IF loading[a].aborted THEN "interrupted" ELSE "failed"
           r == [agent[a] EXCEPT !.status = x, !.reserved = FALSE]
           s == [Current EXCEPT !.agent[a] = r]
           n == agent[a].turn
           rest == [loading EXCEPT ![a] = NoLoad]
<1>1. AtHead(a, "failing") /\ lifecycle' = Tail(lifecycle)
      /\ UNCHANGED <<owner, sessions, evicting, closing, stopping>>
  BY Zenon DEF Cleanup
<1>2. loading[a].phase = "failing" /\ IsLoading(a)
  BY <1>1, HeadAlone DEF IsLoading
<1>3. /\ agent[a].reserved /\ n > 0 /\ n \in Nat /\ Len(turns[a]) = n /\ n \in 1 .. n
      /\ BooksAgree(a) /\ ~IsActive(a) /\ agent[a].status \notin {"none", "closed"}
  BY <1>2, AgentFacts DEF OneTurn, BooksAgree
<1>4. r \in AgentRecords /\ r.status = x /\ r.turn = n /\ ~r.reserved /\ x \in {"interrupted", "failed"}
  BY <1>3, AgentFacts DEF AgentRecords, Statuses, Settled
<1>5. loading \in [Agents -> Loads] /\ active \in [Agents -> Runs]
  BY TypeParts DEF IInv, MemoryTyped
<1>6. /\ rest \in [Agents -> Loads]
      /\ \A b \in Agents : /\ rest[b].phase = IF b = a THEN "none" ELSE loading[b].phase
                           /\ rest[b].turn = IF b = a THEN 0 ELSE loading[b].turn
  <2>1. NoLoad \in Loads /\ NoLoad.phase = "none" /\ NoLoad.turn = 0
    BY DEF NoLoad, Loads, LoadPhases
  <2> QED BY <1>5, <2>1
<1>7. \/ failure # "none" /\ loading' = rest /\ UNCHANGED <<store, active, failure>>
      \/ failure = "none" /\ Committed(s, {}, {}) /\ loading' = rest /\ UNCHANGED <<active, failure>>
      \/ failure = "none" /\ CommitFails(s, {}, rest, active)
  <2>1. Unstarted(a) = s
    BY DEF Unstarted, Current
  <2> QED BY <2>1 DEF Cleanup
<1> HIDE DEF rest
<1>8. Valid(s)
  BY <1>3, <1>4, OneRecordValid
<1>9. ASSUME UNCHANGED store, failure' \in {failure, "storage"}, failure' # "none",
             loading' \in [Agents -> Loads], active' \in [Agents -> Runs],
             SameLoads(rest), SameRuns(active)
      PROVE  IInv'
  <2>1. \A b \in Agents : /\ loading'[b].phase = IF b = a THEN "none" ELSE loading[b].phase
                          /\ loading'[b].turn = IF b = a THEN 0 ELSE loading[b].turn
                          /\ active'[b].phase = active[b].phase /\ active'[b].turn = active[b].turn
                          /\ active'[b].result = active[b].result
    BY <1>6, <1>9 DEF SameLoads, SameRuns
  <2>2. StoreInv' /\ StoreTyped'
    <3>1. \A b \in Agents : IsLoading(b)' => IsLoading(b)
      BY <2>1 DEF IsLoading
    <3>2. StoreInv'
      BY <1>9, <3>1, StoreKept DEF IInv
    <3> QED BY <1>9, <3>2, TypeParts DEF IInv, StoreTyped, store
  <2>3. OneTurn(a)' /\ FlightReserved(a)'
    BY <1>3, <1>9, <2>1 DEF OneTurn, FlightReserved, InFlight, IsLoading, IsActive, store
  <2>4. active'[a].phase = "none" /\ agent' = agent
    BY <1>3, <1>9, <2>1 DEF IsActive, store
  <2> QED BY <1>1, <1>3, <1>9, <2>1, <2>2, <2>3, <2>4, LeaveQueue
<1>10. CASE failure # "none" /\ loading' = rest /\ UNCHANGED <<store, active, failure>>
  BY <1>5, <1>6, <1>9, <1>10 DEF SameLoads, SameRuns
<1>11. CASE failure = "none" /\ CommitFails(s, {}, rest, active)
  <2>1. ~Conflict(s, {})
    BY DEF Conflict
  <2>2. /\ UNCHANGED store /\ failure' = "storage"
        /\ loading' \in [Agents -> Loads] /\ active' \in [Agents -> Runs]
        /\ SameLoads(rest) /\ SameRuns(active)
    BY <1>5, <1>6, <1>8, <1>11, <2>1, Poisoned
  <2> QED BY <1>9, <2>2
<1>12. CASE failure = "none" /\ Committed(s, {}, {}) /\ loading' = rest /\ UNCHANGED <<active, failure>>
  <2>1. agent' = s.agent /\ turns' = SyncHistory(s, {}, {})
    BY <1>12 DEF Committed
  <2>2. \A b \in Agents : s.agent[b] = IF b = a THEN r ELSE agent[b]
    BY <1>4, OneRecord
  <2> HIDE DEF s, r, x
  <2>3. agent'[a] = r /\ s.agent[a] = r /\ r # agent[a] /\ \A b \in Agents : b # a => agent'[b] = agent[b]
    BY <1>3, <1>4, <2>1, <2>2
  <2>4. BooksAgree(a)' /\ Rewritten(a, {}, {})
    <3>1. /\ Rewritten(a, {}, {}) /\ Len(turns'[a]) = n
          /\ \A t \in 1 .. n : t < n => /\ turns'[a][t].status = turns[a][t].status
                                        /\ turns'[a][t].started = turns[a][t].started
          /\ turns'[a][n].status = x /\ ~turns'[a][n].started
          /\ \A t \in 1 .. n : turns'[a][t].delivery = turns[a][t].delivery
      <4>1. /\ s.agent[a].status = x /\ s.agent[a].turn = agent[a].turn /\ s.agent[a] # agent[a]
            /\ ~s.agent[a].reserved /\ x \in Settled \cup {"pending", "running"} /\ x # "running"
        BY <1>4, <2>3 DEF Settled
      <4>2. ~turns[a][n].started
        BY <1>2, <1>3 DEF BooksAgree
      <4>3. /\ Rewritten(a, {}, {}) /\ Len(turns'[a]) = n
            /\ \A t \in 1 .. n : t < n => /\ turns'[a][t].status = turns[a][t].status
                                          /\ turns'[a][t].started = turns[a][t].started
            /\ turns'[a][n].status = s.agent[a].status
            /\ turns'[a][n].started = (turns[a][n].started \/ s.agent[a].status = "running")
            /\ \A t \in 1 .. n : turns'[a][t].delivery = turns[a][t].delivery
        BY <1>3, <2>1, <4>1, MovedLedger
      <4> HIDE DEF n
      <4>4. turns'[a][n].status = x /\ ~turns'[a][n].started
        BY ONLY <4>1, <4>2, <4>3
      <4> QED BY ONLY <4>3, <4>4
    <3>2. ~IsLoading(a)' /\ agent'[a].turn = n /\ agent'[a].status = x /\ ~agent'[a].reserved
          /\ x \in Settled /\ x # "none"
      BY <1>4, <1>6, <1>12, <2>3 DEF IsLoading, Settled
    <3>3. ASSUME NEW t \in 1 .. n
          PROVE  /\ turns'[a][t].status \in Settled
                 /\ turns'[a][t].started => turns'[a][t].delivery # "not_enqueued"
      <4>1. CASE t = n
        BY <3>1, <3>2, <4>1
      <4>2. CASE t # n
        <5>1. t < n
          BY <1>3, <4>2
        <5> QED BY <1>3, <3>1, <5>1 DEF BooksAgree
      <4> QED BY <4>1, <4>2
    <3> HIDE DEF n
    <3>4. BooksAgree(a)'
      BY <1>3, <3>1, <3>2, <3>3 DEF BooksAgree, n
    <3> QED BY <3>1, <3>4
  <2>5. StoreInv' /\ StoreTyped'
    <3>1. Committed([Current EXCEPT !.agent[a] = r], {}, {})
      BY <1>12 DEF s
    <3>2. \A b \in Agents : b # a => (IsLoading(b)' => IsLoading(b))
      BY <1>6, <1>12 DEF IsLoading
    <3> QED BY <1>4, <2>4, <3>1, <3>2, RecordCommit
  <2>6. OneTurn(a)' /\ FlightReserved(a)' /\ agent'[a].status # "closed" /\ active'[a].phase = "none"
    BY <1>3, <1>4, <1>6, <1>12, <2>3 DEF OneTurn, FlightReserved, InFlight, IsLoading, IsActive
  <2> QED BY <1>1, <1>5, <1>6, <1>12, <2>3, <2>5, <2>6, LeaveQueue
<1> QED BY <1>7, <1>10, <1>11, <1>12

\* The result of a turn trades the turn's reservation for a place in the mailbox.
LEMMA FinishValid ==
    ASSUME IInv, NEW a \in Agents, agent[a].reserved, NEW r \in AgentRecords, NEW m, NEW s,
           ~r.reserved, agent[a].status \notin {"none", "closed"},
           s.agent = [agent EXCEPT ![a] = r], s.chat = chat, s.inbox = inbox \cup {m}
    PROVE  Valid(s)
<1>1. /\ Open(s) = IF r.status \in {"none", "closed"} THEN Open(Current) \ {a} ELSE Open(Current) \cup {a}
      /\ Reserved(s) = Reserved(Current) \ {a}
      /\ a \in Open(Current) /\ a \in Reserved(Current)
  BY RecordChange DEF IInv
<1>2. Cardinality(Open(s)) <= MaxAgents - 1
  <2>1. Open(s) \in SUBSET Open(Current)
    BY <1>1
  <2>2. Cardinality(Open(s)) <= Cardinality(Open(Current)) /\ Cardinality(Open(s)) \in Nat
    BY <2>1, Limits, TeamFinite, FS_Subset
  <2> QED BY <2>2, Limits
<1>3. Cardinality(Reserved(s)) = Cardinality(Reserved(Current)) - 1
  BY <1>1, Limits, FS_RemoveElement
<1>4. IsFiniteSet(s.inbox) /\ Cardinality(s.inbox) \in Nat /\ Cardinality(s.inbox) <= Cardinality(inbox) + 1
  <2>1. IsFiniteSet(inbox \cup {m})
        /\ Cardinality(inbox \cup {m}) = IF m \in inbox THEN Cardinality(inbox) ELSE Cardinality(inbox) + 1
    BY Limits, FS_AddElement
  <2> QED BY <2>1, Limits
<1>5. chat[Root] + Cardinality(s.inbox) + Cardinality(Reserved(s)) <= MaxPendingMessages
  <2>1. chat[Root] \in Nat
    BY Limits
  <2> QED BY <1>3, <1>4, <2>1, Limits
<1> QED BY <1>2, <1>4, <1>5, Limits, ValidMeans

\* finish(): the turn is settled and announced in one commit.
LEMMA FinishStep ==
    ASSUME IInv, NEW a \in Agents, Finish(a)
    PROVE  IInv'
<1> DEFINE x == FinalStatus(a)
           n == agent[a].turn
           m == Mail("result", a, n, x)
           r == [agent[a] EXCEPT !.status = x, !.reserved = FALSE]
           s == [Current EXCEPT !.agent[a].status = x, !.agent[a].reserved = FALSE,
                                !.inbox = @ \cup {m}]
           done == [active EXCEPT ![a].phase = "settled"]
<1>1. active[a].phase = "finish" /\ up = "up"
      /\ UNCHANGED <<owner, lifecycle, sessions, evicting, closing, stopping>>
  BY Zenon DEF Finish
<1>2. /\ agent[a].reserved /\ n > 0 /\ n \in Nat /\ Len(turns[a]) = n /\ n \in 1 .. n
      /\ BooksAgree(a) /\ agent[a].status \notin {"none", "closed"} /\ active[a].turn = n
      /\ active[a].result \in Settled /\ IsActive(a) /\ ~IsLoading(a)
  BY <1>1, AgentFacts DEF OneTurn, FlightReserved, InFlight, IsActive, BooksAgree
<1>3. x \in Settled
  BY <1>2 DEF FinalStatus, Settled
<1>4. r \in AgentRecords /\ r.status = x /\ r.turn = n /\ ~r.reserved /\ r # agent[a]
  BY <1>2, <1>3, AgentFacts DEF AgentRecords, Statuses
<1>5. m \in MailRecords /\ m.kind = "result" /\ m.from = a /\ m.turn = n /\ m.status = x
  BY <1>2, <1>3 DEF Mail, MailRecords
<1>6. /\ s.agent = [agent EXCEPT ![a] = r] /\ s.chat = chat /\ s.inbox = inbox \cup {m}
      /\ s.agent \in [Agents -> AgentRecords]
      /\ \A b \in Agents : s.agent[b] = IF b = a THEN r ELSE agent[b]
  <2>1. agent \in [Agents -> AgentRecords]
    BY TypeParts DEF IInv, StoreTyped
  <2>2. s.agent = [agent EXCEPT ![a] = r] /\ s.chat = chat /\ s.inbox = inbox \cup {m}
    BY <2>1 DEF Current, AgentRecords
  <2> HIDE DEF s, r
  <2> QED BY <1>4, <2>1, <2>2
<1>7. \/ Committed(s, {m}, {}) /\ active' = done /\ UNCHANGED <<loading, failure>>
      \/ CommitFails(s, {m}, loading, done)
  BY <1>2 DEF Finish, Notification
<1> HIDE DEF s, r, m, x
<1>8. Valid(s)
  BY <1>2, <1>4, <1>6, FinishValid
<1>9. ~Conflict(s, {m})
  <2>1. s.agent[a] = r
    BY <1>6
  <2>2. x # "closed"
    BY <1>3 DEF Settled
  <2>3. SyncStatus(s, a) = [turns[a] EXCEPT ![n].status = x, ![n].started = @ \/ x = "running"]
    <3>1. /\ r # agent[a] /\ r.status # "closed" /\ ~(r.turn > Len(turns[a]))
          /\ ~(r.status = "interrupted" /\ r.reserved) /\ r.turn = n /\ r.status = x
      BY <1>2, <1>4, <2>2
    <3>2. SyncStatus(s, a) = [turns[a] EXCEPT ![r.turn].status = r.status,
                                              ![r.turn].started = @ \/ r.status = "running"]
      BY <2>1, <3>1, Zenon DEF SyncStatus
    <3> QED BY <3>1, <3>2, Zenon
  <2>4. turns[a][n] \in TurnRecords /\ turns[a] \in Seq(TurnRecords)
    BY <1>2, AgentFacts
  <2>5. SyncStatus(s, a)[n].delivery = turns[a][n].delivery /\ SyncStatus(s, a)[n].status = x
    BY <1>2, <2>3, <2>4 DEF TurnRecords
  <2>6. turns[a][n].delivery = "not_enqueued"
    BY <1>2 DEF BooksAgree
  <2> QED BY <1>5, <2>5, <2>6 DEF Conflict
<1>10. loading \in [Agents -> Loads] /\ active \in [Agents -> Runs]
       /\ lifecycle \in Seq(Agents)
  BY TypeParts DEF IInv, MemoryTyped
<1>11. /\ done \in [Agents -> Runs]
       /\ \A b \in Agents : /\ done[b].phase = IF b = a THEN "settled" ELSE active[b].phase
                            /\ done[b].turn = active[b].turn /\ done[b].result = active[b].result
  BY <1>10 DEF Runs
<1> HIDE DEF done
<1>12. /\ loading' \in [Agents -> Loads] /\ active' \in [Agents -> Runs]
       /\ SameLoads(loading) /\ SameRuns(done)
       /\ \/ failure' = "storage" /\ UNCHANGED store
          \/ failure' = failure /\ Committed(s, {m}, {})
  <2>1. CASE Committed(s, {m}, {}) /\ active' = done /\ UNCHANGED <<loading, failure>>
    BY <1>10, <1>11, <2>1 DEF SameLoads, SameRuns
  <2>2. CASE CommitFails(s, {m}, loading, done)
    BY <1>8, <1>9, <1>10, <1>11, <2>2, Poisoned
  <2> QED BY <1>7, <2>1, <2>2
<1>13. \A b \in Agents : /\ loading'[b].phase = loading[b].phase /\ loading'[b].turn = loading[b].turn
                         /\ active'[b].phase = IF b = a THEN "settled" ELSE active[b].phase
                         /\ active'[b].turn = active[b].turn /\ active'[b].result = active[b].result
  BY <1>11, <1>12 DEF SameLoads, SameRuns
<1>14. /\ StoreInv' /\ StoreTyped'
       /\ \A b \in Agents : agent'[b].turn = agent[b].turn
       /\ \A b \in Agents : b # a => agent'[b] = agent[b]
       /\ agent'[a].status \in Settled \cup {"pending", "running"}
       /\ failure' = "storage" \/ ~agent'[a].reserved
  <2>1. \A b \in Agents : IsLoading(b)' = IsLoading(b)
    BY <1>13 DEF IsLoading
  <2>2. CASE failure' = "storage" /\ UNCHANGED store
    <3>1. StoreInv'
      BY <2>1, <2>2, StoreKept DEF IInv
    <3>2. agent[a].status \in Settled \cup {"pending", "running"}
      BY <1>2 DEF BooksAgree, Settled
    <3>3. StoreTyped' /\ agent' = agent
      BY <2>2, TypeParts DEF IInv, StoreTyped, store
    <3> QED BY <2>2, <3>1, <3>2, <3>3
  <2>3. CASE failure' = failure /\ Committed(s, {m}, {})
    <3>1. agent' = s.agent /\ chat' = s.chat /\ inbox' = s.inbox /\ turns' = SyncHistory(s, {m}, {})
      BY <2>3 DEF Committed
    <3>2. agent'[a] = r /\ s.agent[a] = r /\ \A b \in Agents : b # a => agent'[b] = agent[b] /\ s.agent[b] = agent[b]
      BY <1>6, <3>1
    <3>3. /\ Rewritten(a, {m}, {}) /\ Len(turns'[a]) = n
          /\ \A t \in 1 .. n : t < n => /\ turns'[a][t].status = turns[a][t].status
                                        /\ turns'[a][t].started = turns[a][t].started
          /\ turns'[a][n].status = x
          /\ \A t \in 1 .. n : turns'[a][t].delivery = IF t = n THEN "enqueued" ELSE turns[a][t].delivery
      <4>1. /\ s.agent[a].status = x /\ s.agent[a].turn = agent[a].turn /\ s.agent[a] # agent[a]
            /\ ~s.agent[a].reserved /\ x \in Settled \cup {"pending", "running"}
        BY <1>3, <1>4, <3>2
      <4>2. /\ Rewritten(a, {m}, {}) /\ Len(turns'[a]) = n
            /\ \A t \in 1 .. n : t < n => /\ turns'[a][t].status = turns[a][t].status
                                          /\ turns'[a][t].started = turns[a][t].started
            /\ turns'[a][n].status = s.agent[a].status
            /\ \A t \in 1 .. n : turns'[a][t].delivery =
                  IF \E y \in {m} : y.from = a /\ y.turn = t THEN "enqueued" ELSE turns[a][t].delivery
        <5> DEFINE P == {m}
        <5>1. turns' = SyncHistory(s, P, {})
          BY <3>1
        <5> HIDE DEF P
        <5>2. /\ Rewritten(a, P, {}) /\ Len(turns'[a]) = n
              /\ \A t \in 1 .. n : t < n => /\ turns'[a][t].status = turns[a][t].status
                                            /\ turns'[a][t].started = turns[a][t].started
              /\ turns'[a][n].status = s.agent[a].status
              /\ \A t \in 1 .. n : turns'[a][t].delivery =
                    IF \E y \in P : y.from = a /\ y.turn = t THEN "enqueued" ELSE turns[a][t].delivery
          BY <1>2, <4>1, <5>1, MovedLedger
        <5> HIDE DEF n
        <5> QED BY <5>2 DEF P
      <4>3. \A t : (\E y \in {m} : y.from = a /\ y.turn = t) <=> t = n
        BY <1>5
      <4> HIDE DEF n
      <4> QED BY <4>1, <4>2, <4>3
    <3>4. BooksAgree(a)'
      <4>1. ~IsLoading(a)' /\ agent'[a].turn = n /\ agent'[a].status = x /\ ~agent'[a].reserved /\ x # "none"
        BY <1>2, <1>3, <1>4, <2>1, <3>2 DEF Settled
      <4>2. ASSUME NEW t \in 1 .. n
            PROVE  /\ turns'[a][t].status \in Settled
                   /\ turns'[a][t].started => turns'[a][t].delivery # "not_enqueued"
        <5>1. CASE t = n
          BY <1>3, <3>3, <5>1
        <5>2. CASE t # n
          <6>1. t < n
            BY <1>2, <5>2
          <6> QED BY <1>2, <3>3, <6>1 DEF BooksAgree
        <5> QED BY <5>1, <5>2
      <4> HIDE DEF n
      <4> QED BY <1>2, <3>3, <4>1, <4>2 DEF BooksAgree, n
    <3>5. FreshResults({m})
      <4>1. n \in 1 .. Len(turns[a]) /\ turns[a][n].delivery = "not_enqueued"
        BY <1>2 DEF BooksAgree
      <4>2. \A y \in inbox : ~IsResult(y, a, n)
        BY <4>1 DEF IInv, StoreInv, MailAgrees
      <4> QED BY <1>5, <4>1, <4>2, FS_Singleton DEF FreshResults
    <3>6. s.chat \in [Paths -> Nat] /\ s.inbox = (inbox \ {}) \cup {m} \cup {} /\ IsFiniteSet({})
          /\ {} \subseteq inbox /\ {} \subseteq MailRecords /\ \A y \in {} : y.kind = "progress"
      BY <1>6, Limits, FS_EmptySet
    <3>7. \A b \in Agents :
             \/ s.agent[b] = agent[b] /\ (IsLoading(b)' => IsLoading(b)) /\ \A y \in {m} : y.from # b
             \/ BooksAgree(b)' /\ Rewritten(b, {m}, {})
      BY <1>5, <2>1, <3>2, <3>3, <3>4
    <3>8. StoreInv' /\ StoreTyped'
      BY <1>6, <1>8, <3>1, <3>5, <3>6, <3>7, CommitKeepsStore
    <3>9. agent'[a].turn = agent[a].turn /\ agent'[a].status \in Settled /\ ~agent'[a].reserved
      BY <1>3, <1>4, <3>2
    <3> QED BY <3>2, <3>8, <3>9
  <2> QED BY <1>12, <2>2, <2>3
<1> USE DEF IInv, owner
<1>15. TypeOK' /\ NoSelfInflictedFailure'
  BY <1>1, <1>12, <1>14, TypeParts DEF MemoryTyped, OwnerTyped, NoSelfInflictedFailure
<1>16. FlightInv'
  <2>1. ASSUME NEW b \in Agents PROVE OneTurn(b)' /\ FlightReserved(b)'
    <3>1. OneTurn(b) /\ FlightReserved(b)
      BY AgentFacts
    <3>2. CASE b = a
      BY <1>2, <1>13, <1>14, <3>1, <3>2 DEF OneTurn, FlightReserved, InFlight, IsLoading, IsActive, Settled
    <3>3. CASE b # a
      BY <1>1, <1>12, <1>13, <1>14, <3>1, <3>3 DEF OneTurn, FlightReserved, InFlight, IsLoading, IsActive
    <3> QED BY <3>2, <3>3
  <2> QED BY <1>1, <2>1 DEF FlightInv, MemoryOwned
<1>17. HostInv'
  <2>1. QueueSound'
    <3>1. \A i \in 1 .. Len(lifecycle) : lifecycle[i] \in Agents
      BY <1>10
    <3>2. \A i \in 2 .. Len(lifecycle) : i \in 1 .. Len(lifecycle)
      BY <1>10
    <3> QED BY <1>1, <1>13, <3>1, <3>2 DEF HostInv, QueueSound, IsLoading
  <2>2. SlotsBounded'
    <3>1. \A b \in Agents : (IsLoading(b) \/ IsActive(b))' => IsLoading(b) \/ IsActive(b)
      BY <1>2, <1>13 DEF IsLoading, IsActive
    <3> QED BY <1>1, <3>1, SlotsShrink DEF HostInv, SlotsBounded
  <2>3. EvictionOwned'
    BY <1>1, <1>13 DEF HostInv, EvictionOwned
  <2>4. ASSUME NEW b \in Agents PROVE SessionOf(b)'
    <3>1. SessionOf(b)
      BY AgentFacts
    <3>2. a \notin closing
      BY <1>2, AgentFacts DEF SessionOf
    <3>3. b \in closing => agent'[b].status = "closed"
      BY <1>14, <3>1, <3>2 DEF SessionOf
    <3> QED BY <1>1, <1>13, <3>1, <3>3 DEF SessionOf
  <2> QED BY <2>1, <2>2, <2>3, <2>4 DEF HostInv
<1> QED BY <1>14, <1>15, <1>16, <1>17

\* What recovery does to a record: a reserved turn is interrupted and released,
\* every other record stays as it is.
LEMMA RecoveredRecord ==
    ASSUME IInv
    PROVE  LET s == Recovered(Current) IN
           /\ s.agent \in [Agents -> AgentRecords] /\ s.chat = chat
           /\ s.inbox = inbox \cup RecoveryMails(Current)
           /\ \A a \in Agents :
                 IF agent[a].reserved
                   THEN s.agent[a] = [status |-> "interrupted", turn |-> agent[a].turn, reserved |-> FALSE]
                   ELSE s.agent[a] = agent[a]
<1> DEFINE s == Recovered(Current)
<1>1. /\ s.agent = [a \in Agents |-> [agent[a] EXCEPT
                                       !.status = IF @ \in {"pending", "running"} THEN "interrupted" ELSE @,
                                       !.reserved = FALSE]]
      /\ s.chat = chat /\ s.inbox = inbox \cup RecoveryMails(Current)
  BY DEF Recovered, Current
<1>2. ASSUME NEW a \in Agents
      PROVE  /\ s.agent[a] \in AgentRecords
             /\ agent[a].reserved =>
                   s.agent[a] = [status |-> "interrupted", turn |-> agent[a].turn, reserved |-> FALSE]
             /\ ~agent[a].reserved => s.agent[a] = agent[a]
  <2> DEFINE x == IF agent[a].status \in {"pending", "running"} THEN "interrupted" ELSE agent[a].status
  <2>1. s.agent[a] = [agent[a] EXCEPT !.status = x, !.reserved = FALSE]
    BY <1>1
  <2>2. agent[a] \in AgentRecords /\ BooksAgree(a) /\ agent[a].reserved \in BOOLEAN
    BY AgentFacts
  <2>3. x \in Statuses /\ (agent[a].reserved => x = "interrupted")
    BY <2>2 DEF BooksAgree, AgentRecords, Statuses, Settled
  <2>4. ~agent[a].reserved => x = agent[a].status
    <3>1. CASE agent[a].status = "none"
      BY <3>1
    <3>2. CASE agent[a].status # "none"
      BY <2>2, <3>2, AgentFacts DEF BooksAgree, Settled
    <3> QED BY <3>1, <3>2
  <2> HIDE DEF x
  <2>5. s.agent[a] \in AgentRecords
    BY <2>1, <2>2, <2>3 DEF AgentRecords
  <2>6. ASSUME agent[a].reserved
        PROVE  s.agent[a] = [status |-> "interrupted", turn |-> agent[a].turn, reserved |-> FALSE]
    BY <2>1, <2>2, <2>3, <2>6 DEF AgentRecords
  <2>7. ASSUME ~agent[a].reserved PROVE s.agent[a] = agent[a]
    BY <2>1, <2>2, <2>4, <2>7 DEF AgentRecords
  <2> QED BY <2>5, <2>6, <2>7
<1>3. s.agent = [a \in Agents |-> s.agent[a]]
  BY <1>1
<1> HIDE DEF s
<1>4. s.agent \in [Agents -> AgentRecords]
  BY <1>2, <1>3, Zenon
<1>5. \A a \in Agents : IF agent[a].reserved
                          THEN s.agent[a] = [status |-> "interrupted", turn |-> agent[a].turn, reserved |-> FALSE]
                          ELSE s.agent[a] = agent[a]
  BY <1>2
<1> QED BY <1>1, <1>4, <1>5 DEF s

\* The mails of the recovery: at most one per reservation.
LEMMA RecoveryMailsFresh ==
    ASSUME IInv
    PROVE  /\ FreshResults(RecoveryMails(Current))
           /\ Cardinality(RecoveryMails(Current)) <= Cardinality(Reserved(Current))
           /\ \A m \in RecoveryMails(Current) :
                 m.from \in Reserved(Current) /\ m.turn = agent[m.from].turn /\ m.status = "interrupted"
           /\ \A a \in Reserved(Current) : \E m \in RecoveryMails(Current) :
                 m.from = a /\ m.turn = agent[a].turn
<1> DEFINE R == Reserved(Current)
           P == RecoveryMails(Current)
           M(a) == [kind |-> "result", from |-> a, turn |-> agent[a].turn, status |-> "interrupted"]
           f == [a \in R |-> M(a)]
<1>1. P = {M(a) : a \in R}
  BY DEF RecoveryMails, Mail, Current
<1>2. \A a \in R : a \in Agents /\ agent[a].reserved
  BY DEF Reserved, Current
<1>3. \A a \in R : M(a) \in MailRecords
  BY <1>2, AgentFacts DEF MailRecords, Settled
<1> HIDE DEF R, P
<1>4. IsFiniteSet(P) /\ Cardinality(P) <= Cardinality(R)
  <2>1. f \in Surjection(R, P)
    BY <1>1 DEF Surjection
  <2>2. IsFiniteSet(R)
    BY Limits DEF R
  <2> HIDE DEF f
  <2> QED BY <2>1, <2>2, FS_Surjection
<1>5. ASSUME NEW m \in P
      PROVE  /\ m \in MailRecords /\ m.kind = "result" /\ m.from \in R /\ m.turn = agent[m.from].turn
             /\ m.status = "interrupted" /\ m = M(m.from)
  BY <1>1, <1>3
<1>6. ASSUME NEW a \in R
      PROVE  /\ agent[a].turn \in 1 .. Len(turns[a])
             /\ \A y \in inbox : ~IsResult(y, a, agent[a].turn)
  <2>1. agent[a].turn \in 1 .. Len(turns[a]) /\ turns[a][agent[a].turn].delivery = "not_enqueued"
    BY <1>2, AgentFacts DEF BooksAgree
  <2> QED BY <1>2, <2>1 DEF IInv, StoreInv, MailAgrees
<1>7. \A m, y \in P : m.from = y.from /\ m.turn = y.turn => m = y
  BY <1>5
<1>8. FreshResults(P)
  BY <1>4, <1>5, <1>6, <1>7 DEF FreshResults
<1>9. ASSUME NEW a \in R PROVE \E m \in P : m.from = a /\ m.turn = agent[a].turn
  <2>1. M(a) \in P
    BY <1>1
  <2>2. M(a).from = a /\ M(a).turn = agent[a].turn
    OBVIOUS
  <2> HIDE DEF M
  <2> QED BY <2>1, <2>2
<1> QED BY <1>4, <1>5, <1>8, <1>9 DEF R, P

\* A new owner can always open the team, and finds nothing in flight.
LEMMA RecoveryStep ==
    ASSUME IInv, Reopen
    PROVE  /\ IInv' /\ up' = "up"
           /\ \A a \in Agents :
                 /\ ~agent'[a].reserved /\ agent'[a].status \notin {"pending", "running"}
                 /\ agent[a].reserved => turns'[a][agent[a].turn].delivery = "enqueued"
<1> DEFINE s == Recovered(Current)
           P == RecoveryMails(Current)
           R == Reserved(Current)
<1>1. \A a \in Agents : a \in R <=> agent[a].reserved
  BY DEF Reserved, Current
<1>2. /\ s.agent \in [Agents -> AgentRecords] /\ s.chat = chat /\ s.inbox = inbox \cup P
      /\ \A a \in Agents :
            IF agent[a].reserved
              THEN s.agent[a] = [status |-> "interrupted", turn |-> agent[a].turn, reserved |-> FALSE]
              ELSE s.agent[a] = agent[a]
  BY RecoveredRecord
<1>3. /\ FreshResults(P) /\ Cardinality(P) <= Cardinality(R) /\ IsFiniteSet(P)
      /\ \A m \in P : m.from \in R /\ m.turn = agent[m.from].turn /\ m.status = "interrupted"
      /\ \A a \in R : \E m \in P : m.from = a /\ m.turn = agent[a].turn
  BY RecoveryMailsFresh DEF FreshResults
<1>4. Reopen
  OBVIOUS
<1> HIDE DEF s, P, R
<1>5. ASSUME NEW a \in Agents, agent[a].reserved
      PROVE  /\ s.agent[a].status = "interrupted" /\ s.agent[a].turn = agent[a].turn
             /\ ~s.agent[a].reserved /\ s.agent[a] # agent[a]
             /\ agent[a].turn > 0 /\ agent[a].turn \in 1 .. Len(turns[a]) /\ Len(turns[a]) = agent[a].turn
             /\ turns[a][agent[a].turn].delivery = "not_enqueued"
             /\ turns[a][agent[a].turn] \in TurnRecords /\ turns[a] \in Seq(TurnRecords)
  <2>1. s.agent[a] = [status |-> "interrupted", turn |-> agent[a].turn, reserved |-> FALSE]
    BY <1>2, <1>5
  <2>2. /\ agent[a].turn > 0 /\ agent[a].turn \in 1 .. Len(turns[a]) /\ Len(turns[a]) = agent[a].turn
        /\ turns[a] \in Seq(TurnRecords)
    BY <1>5, AgentFacts
  <2>3. turns[a][agent[a].turn].delivery = "not_enqueued"
    BY <1>5, AgentFacts DEF BooksAgree
  <2> QED BY <1>5, <2>1, <2>2, <2>3
<1>6. ~Conflict(s, P)
  <2>1. ASSUME NEW m \in P
        PROVE  /\ SyncStatus(s, m.from)[m.turn].delivery = "not_enqueued"
               /\ SyncStatus(s, m.from)[m.turn].status = m.status
    <3> DEFINE a == m.from
               n == agent[a].turn
    <3>1. a \in Agents /\ agent[a].reserved /\ m.turn = n /\ m.status = "interrupted"
      BY <1>1, <1>3 DEF FreshResults, MailRecords
    <3> HIDE DEF a
    <3>2. SyncStatus(s, a) = [turns[a] EXCEPT ![n].status = "interrupted",
                                              ![n].started = @ \/ s.agent[a].status = "running"]
      <4>1. /\ s.agent[a] # agent[a] /\ s.agent[a].status = "interrupted" /\ s.agent[a].turn = n
            /\ ~s.agent[a].reserved
            /\ Len(turns[a]) = n /\ n > 0 /\ n \in 1 .. Len(turns[a])
        BY <1>5, <3>1
      <4>2. n \in Nat /\ ~(n > Len(turns[a]))
        BY <4>1
      <4> HIDE DEF n
      <4> QED BY <4>1, <4>2 DEF SyncStatus
    <3>3. SyncStatus(s, a)[n].delivery = turns[a][n].delivery /\ SyncStatus(s, a)[n].status = "interrupted"
      BY <1>5, <3>1, <3>2 DEF TurnRecords
    <3> QED BY <1>5, <3>1, <3>3 DEF a
  <2> QED BY <2>1 DEF Conflict
<1>7. /\ up' = "up" /\ opens' = opens + 1 /\ ClearMemory
      /\ agent' = s.agent /\ inbox' = s.inbox /\ chat' = s.chat /\ turns' = SyncHistory(s, P, {})
  <2>1. Valid(Current)
    BY CurrentValid
  <2> QED BY <1>2, <1>4, <1>6, <2>1 DEF Reopen, s, P
<1>8. Valid(s)
  <2>1. Reserved(s) = {} /\ Open(s) = Open(Current)
    <3>1. ASSUME NEW a \in Agents
          PROVE  /\ ~s.agent[a].reserved
                 /\ s.agent[a].status \in {"none", "closed"} <=> agent[a].status \in {"none", "closed"}
      <4>1. CASE agent[a].reserved
        <5>1. agent[a].status \notin {"none", "closed"}
          BY <4>1, AgentFacts DEF BooksAgree
        <5> QED BY <1>5, <4>1, <5>1
      <4>2. CASE ~agent[a].reserved
        BY <1>2, <4>2
      <4> QED BY <4>1, <4>2
    <3> QED BY <3>1 DEF Reserved, Open, Current
  <2>2. IsFiniteSet(inbox \cup P) /\ Cardinality(inbox \cup P) <= Cardinality(inbox) + Cardinality(R)
        /\ Cardinality(inbox \cup P) \in Nat
    <3>1. /\ IsFiniteSet(inbox \cup P) /\ IsFiniteSet(inbox \cap P)
          /\ Cardinality(inbox \cup P) = Cardinality(inbox) + Cardinality(P) - Cardinality(inbox \cap P)
      BY <1>3, Limits, FS_Union, FS_Intersection
    <3>2. Cardinality(inbox \cap P) \in Nat /\ Cardinality(P) \in Nat /\ Cardinality(inbox \cup P) \in Nat
      BY <1>3, <3>1, FS_CardinalityType
    <3>3. Cardinality(R) \in Nat /\ Cardinality(inbox) \in Nat
      BY Limits DEF R
    <3> QED BY <1>3, <3>1, <3>2, <3>3
  <2>3. chat[Root] + Cardinality(s.inbox) + Cardinality(Reserved(s)) <= MaxPendingMessages
    <3>1. chat[Root] \in Nat /\ Cardinality({}) = 0
      BY Limits, FS_EmptySet
    <3>2. chat[Root] + Cardinality(inbox) + Cardinality(R) <= MaxPendingMessages
          /\ Cardinality(R) \in Nat /\ Cardinality(inbox) \in Nat /\ MaxPendingMessages \in Nat
      BY Limits DEF R
    <3> QED BY <1>2, <2>1, <2>2, <3>1, <3>2
  <2> QED BY <1>2, <2>1, <2>2, <2>3, Limits, ValidMeans
<1>9. HostInv' /\ MemoryTyped' /\ \A a \in Agents : ~IsLoading(a)' /\ ~IsActive(a)'
  BY <1>7, ClearHost
<1>10. ASSUME NEW a \in Agents, agent[a].reserved
       PROVE  BooksAgree(a)' /\ Rewritten(a, P, {}) /\ turns'[a][agent[a].turn].delivery = "enqueued"
  <2> DEFINE n == agent[a].turn
  <2>1. /\ Rewritten(a, P, {}) /\ Len(turns'[a]) = n
        /\ \A t \in 1 .. n : t < n => /\ turns'[a][t].status = turns[a][t].status
                                      /\ turns'[a][t].started = turns[a][t].started
        /\ turns'[a][n].status = "interrupted"
        /\ \A t \in 1 .. n : turns'[a][t].delivery =
              IF \E y \in P : y.from = a /\ y.turn = t THEN "enqueued" ELSE turns[a][t].delivery
    <3>1. s.agent[a].status = "interrupted" /\ s.agent[a].status \in Settled \cup {"pending", "running"}
      BY <1>5, <1>10 DEF Settled
    <3> QED BY <1>5, <1>7, <1>10, <3>1, MovedLedger
  <2>2. \A t : (\E y \in P : y.from = a /\ y.turn = t) <=> t = n
    BY <1>1, <1>3, <1>10
  <2>3. n \in Nat /\ n > 0 /\ BooksAgree(a) /\ n \in 1 .. n
    BY <1>5, <1>10, AgentFacts
  <2>4. turns'[a][n].delivery = "enqueued"
    BY <2>1, <2>2, <2>3
  <2>5. agent'[a].turn = n /\ agent'[a].status = "interrupted" /\ ~agent'[a].reserved
    BY <1>5, <1>7, <1>10
  <2>6. ASSUME NEW t \in 1 .. n
        PROVE  /\ turns'[a][t].status \in Settled
               /\ turns'[a][t].started => turns'[a][t].delivery # "not_enqueued"
    <3>1. CASE t = n
      BY <2>1, <2>4, <3>1 DEF Settled
    <3>2. CASE t # n
      <4>1. t < n
        BY <2>3, <3>2
      <4> QED BY <2>1, <2>2, <2>3, <3>2, <4>1 DEF BooksAgree
    <3> QED BY <3>1, <3>2
  <2>7. ~IsLoading(a)'
    BY <1>9
  <2> HIDE DEF n
  <2>8. BooksAgree(a)'
    BY <2>1, <2>3, <2>5, <2>6, <2>7 DEF BooksAgree
  <2> QED BY <2>1, <2>4, <2>8 DEF n
<1>11. StoreInv' /\ StoreTyped'
  <2>1. s.chat \in [Paths -> Nat] /\ s.inbox = (inbox \ {}) \cup P \cup {} /\ IsFiniteSet({})
        /\ {} \subseteq inbox /\ {} \subseteq MailRecords /\ \A y \in {} : y.kind = "progress"
    BY <1>2, Limits, FS_EmptySet
  <2>2. \A b \in Agents :
           \/ s.agent[b] = agent[b] /\ (IsLoading(b)' => IsLoading(b)) /\ \A y \in P : y.from # b
           \/ BooksAgree(b)' /\ Rewritten(b, P, {})
    <3>1. ASSUME NEW b \in Agents, ~agent[b].reserved
          PROVE  s.agent[b] = agent[b] /\ ~IsLoading(b)' /\ \A y \in P : y.from # b
      <4>1. s.agent[b] = agent[b]
        BY <1>2, <3>1
      <4>2. ASSUME NEW y \in P PROVE y.from # b
        BY <1>1, <1>3, <3>1
      <4>3. ~IsLoading(b)'
        BY <1>9
      <4> QED BY <4>1, <4>2, <4>3
    <3> QED BY <1>10, <3>1
  <2> QED BY <1>2, <1>3, <1>7, <1>8, <2>1, <2>2, CommitKeepsStore
<1>12. ASSUME NEW a \in Agents
       PROVE  ~agent'[a].reserved /\ agent'[a].status \notin {"pending", "running"}
  <2>1. CASE agent[a].reserved
    BY <1>5, <1>7, <2>1
  <2>2. CASE ~agent[a].reserved
    <3>1. agent'[a] = agent[a]
      BY <1>2, <1>7, <2>2
    <3>2. agent[a].status = "none" \/ agent[a].status \in Settled \cup {"closed"}
      BY <2>2, AgentFacts DEF BooksAgree
    <3> QED BY <2>2, <3>1, <3>2 DEF Settled
  <2> QED BY <2>1, <2>2
<1>13. TypeOK' /\ NoSelfInflictedFailure'
  <2>1. OwnerTyped' /\ failure' = "none"
    BY <1>7, TypeParts DEF IInv, OwnerTyped, ClearMemory
  <2> QED BY <1>7, <1>9, <1>11, <2>1, TypeParts DEF NoSelfInflictedFailure
<1>14. FlightInv'
  BY <1>7, <1>9, <1>12 DEF FlightInv, MemoryOwned, OneTurn, FlightReserved, InFlight, IsActive
<1> QED BY <1>7, <1>9, <1>10, <1>11, <1>12, <1>13, <1>14 DEF IInv

\* A new team satisfies the invariant.
LEMMA InitIInv == Init => IInv
<1> SUFFICES ASSUME Init PROVE IInv
  OBVIOUS
<1>1. /\ \A a \in Agents : /\ agent[a] = [status |-> "none", turn |-> 0, reserved |-> FALSE]
                           /\ turns[a] = <<>> /\ loading[a] = NoLoad /\ active[a] = NoRun
      /\ chat = [p \in Paths |-> 0] /\ inbox = {} /\ up = "up" /\ opens = 1
      /\ lifecycle = <<>> /\ sessions = {} /\ evicting = {} /\ closing = {}
      /\ stopping = "no" /\ failure = "none"
  BY DEF Init, EmptyMemory
<1>2. \A a \in Agents : ~IsLoading(a) /\ ~IsActive(a)
  BY <1>1 DEF IsLoading, IsActive, NoLoad, NoRun
<1>3. Len(lifecycle) = 0 /\ \A a \in Agents : Len(turns[a]) = 0
  BY <1>1
<1>4. TypeOK
  <2>1. MemoryTyped
    <3>1. NoLoad \in Loads /\ NoRun \in Runs
      BY DEF Loads, LoadPhases, Runs, NoLoad, NoRun
    <3>2. loading \in [Agents -> Loads] /\ active \in [Agents -> Runs]
      BY <3>1 DEF Init, EmptyMemory
    <3> QED BY <1>1, <3>2 DEF MemoryTyped
  <2>2. StoreTyped
    <3>1. [status |-> "none", turn |-> 0, reserved |-> FALSE] \in AgentRecords
      BY DEF AgentRecords, Statuses
    <3>2. agent \in [Agents -> AgentRecords]
      BY <3>1 DEF Init
    <3>3. turns \in [Agents -> Seq(TurnRecords)]
      <4>1. <<>> \in Seq(TurnRecords)
        OBVIOUS
      <4> QED BY <4>1 DEF Init
    <3> QED BY <1>1, <3>2, <3>3 DEF StoreTyped
  <2>3. OwnerTyped
    BY <1>1 DEF OwnerTyped
  <2> QED BY <2>1, <2>2, <2>3, TypeParts
<1>5. PersistedTeamValid
  <2>1. Open(Current) = {} /\ Reserved(Current) = {}
    BY <1>1 DEF Open, Reserved, Current
  <2>2. Cardinality({}) = 0 /\ MaxAgents \in Nat \ {0} /\ MaxPendingMessages \in Nat
    BY FS_EmptySet, CollaborationAssumption
  <2>3. Cardinality({}) <= MaxAgents - 1 /\ 0 <= MaxPendingMessages
        /\ 0 + Cardinality({}) + Cardinality({}) <= MaxPendingMessages
    BY <2>2
  <2>4. \A p \in Paths : chat[p] = 0
    BY <1>1
  <2>5. Root \in Paths /\ Agents \subseteq Paths
    BY DEF Paths
  <2> QED BY <1>1, <2>1, <2>3, <2>4, <2>5 DEF PersistedTeamValid
<1>6. MailAgrees
  BY <1>1, <1>3, FS_EmptySet DEF MailAgrees
<1>7. ASSUME NEW a \in Agents PROVE BooksAgree(a) /\ OneTurn(a) /\ FlightReserved(a) /\ SessionOf(a)
  BY <1>1, <1>2, <1>3 DEF BooksAgree, OneTurn, FlightReserved, SessionOf, InFlight, IsActive, NoRun, NoLoad
<1>8. QueueSound /\ EvictionOwned /\ MemoryOwned
  BY <1>1, <1>2, <1>3 DEF QueueSound, EvictionOwned, MemoryOwned
<1>9. SlotsBounded
  <2>1. {a \in Agents : IsLoading(a) \/ IsActive(a)} = {}
    BY <1>2
  <2>2. Cardinality({}) = 0 /\ MaxActiveSessions \in Nat \ {0}
    BY FS_EmptySet, CollaborationAssumption
  <2>3. Cardinality({}) <= MaxActiveSessions - 1
    BY <2>2
  <2> QED BY <1>1, <2>1, <2>3 DEF SlotsBounded
<1> QED BY <1>1, <1>4, <1>5, <1>6, <1>7, <1>8, <1>9 DEF IInv, NoSelfInflictedFailure, StoreInv, FlightInv, HostInv

\* Every step of the controller, its host and its process keeps the invariant.
LEMMA NextIInv == IInv /\ [Next]_vars => IInv'
<1> SUFFICES ASSUME IInv, [Next]_vars PROVE IInv'
  OBVIOUS
<1>1. ASSUME NEW a \in Agents, Spawn(a) \/ Followup(a) PROVE IInv'
  BY <1>1, TurnStep
<1>2. ASSUME NEW a \in Agents, Interrupt(a) PROVE IInv'
  BY <1>2, InterruptStep
<1>3. ASSUME NEW a \in Agents, Close(a) PROVE IInv'
  BY <1>3, CloseStep
<1>4. ASSUME NEW a \in Reporters, ReportProgress(a) PROVE IInv'
  BY <1>4, ReportProgressStep, CollaborationAssumption
<1>5. ASSUME NEW p \in Correspondents, Send(p) PROVE IInv'
  BY <1>5, SendStep, CollaborationAssumption DEF Paths
<1>6. ASSUME NEW p \in Paths, NEW n \in 0 .. chat[p], NEW selected \in SUBSET inbox,
             Acknowledge(p, n, selected)
      PROVE  IInv'
  BY <1>6, AcknowledgeStep
<1>7. ASSUME NEW a \in Agents, Startup(a) PROVE IInv'
  BY <1>7, LoadBeginStep, EvictedStep, CreatedStep, StartStep, CleanupStep DEF Startup
<1>8. ASSUME NEW a \in Agents, CloseDisposed(a) PROVE IInv'
  BY <1>8, CloseDisposedStep
<1>9. ASSUME NEW a \in Agents, RunSettles(a) \/ \E r \in RunOutcomes : RunEnds(a, r) PROVE IInv'
  BY <1>9, FinishStep, RunStep DEF RunSettles
<1>10. ASSUME (\E a \in Agents : CancelStartup(a)) \/ Shutdown PROVE IInv'
  BY <1>10, CancelStep
<1>11. ASSUME ShutdownEnds \/ Crash PROVE IInv'
  BY <1>11, OwnerGoesStep
<1>12. ASSUME Reopen PROVE IInv'
  BY <1>12, RecoveryStep
<1>13. ASSUME UNCHANGED vars PROVE IInv'
  <2>1. /\ UNCHANGED <<store, owner, lifecycle, sessions, evicting, closing, loading, active>>
        /\ stopping' = stopping /\ failure' = failure
    BY <1>13 DEF vars, store, owner
  <2>2. loading \in [Agents -> Loads] /\ active \in [Agents -> Runs] /\ stopping \in {"no", "yes", "stuck"}
    BY TypeParts DEF IInv, MemoryTyped
  <2> QED BY <2>1, <2>2, FlagStep DEF SameLoads, SameRuns
<1> QED BY <1>1, <1>2, <1>3, <1>4, <1>5, <1>6, <1>7, <1>8, <1>9, <1>10, <1>11, <1>12, <1>13
        DEF Next, Control

-----------------------------------------------------------------------------
(* Theorems *)

\* The inductive invariant holds of every team, through every crash and restart.
THEOREM TeamInvariant == Spec => []IInv
<1>1. Init => IInv
  BY InitIInv
<1>2. IInv /\ [Next]_vars => IInv'
  BY NextIInv
<1> QED BY <1>1, <1>2, PTL DEF Spec

\* A turn holds its completion reservation exactly while it is in flight, and the
\* persisted row respects every limit: the records, reservations and mailboxes that
\* reserve(), finish(), the startup cleanup and the recovery keep agree.
THEOREM BooksConsistent == Spec => []Consistent
<1>1. IInv => Consistent
  <2> SUFFICES ASSUME IInv PROVE Consistent
    OBVIOUS
  <2>1. ReservationMatchesFlight
    <3>1. ASSUME NEW a \in Agents, up = "up", failure = "none" PROVE agent[a].reserved = InFlight(a)
      <4>1. agent[a].reserved \in BOOLEAN /\ FlightReserved(a)
        BY AgentFacts
      <4>2. InFlight(a) \in BOOLEAN
        BY DEF InFlight, IsLoading
      <4> QED BY <3>1, <4>1, <4>2 DEF FlightReserved
    <3> QED BY <3>1 DEF ReservationMatchesFlight
  <2> QED BY <2>1 DEF Consistent, IInv, StoreInv
<1> QED BY <1>1, TeamInvariant, PTL

\* The controller's own checks never throw at it, and a team can always be
\* reopened: only SQLite can poison a controller.
THEOREM NeverPoisonsItself == Spec => []NoSelfInflictedFailure
<1>1. IInv => NoSelfInflictedFailure
  BY DEF IInv
<1> QED BY <1>1, TeamInvariant, PTL

\* Each turn that ran and is settled has its one result: pending in the mailbox, or
\* acknowledged.
THEOREM CompletionsKept == Spec => []CompletionNotLost
<1>1. IInv => CompletionNotLost
  <2> SUFFICES ASSUME IInv, NEW a \in Agents, NEW t \in 1 .. Len(turns[a])
               PROVE  LET r == turns[a][t]
                          mails == {m \in inbox : m.kind = "result" /\ m.from = a /\ m.turn = t}
                      IN  /\ r.started /\ r.status \in Settled => r.delivery # "not_enqueued"
                          /\ Cardinality(mails) = IF r.delivery = "enqueued" THEN 1 ELSE 0
    BY DEF CompletionNotLost
  <2> DEFINE mails == {m \in inbox : m.kind = "result" /\ m.from = a /\ m.turn = t}
  <2>1. turns[a][t].started /\ turns[a][t].status \in Settled => turns[a][t].delivery # "not_enqueued"
    BY AgentFacts DEF BooksAgree
  <2>2. turns[a][t].delivery = "enqueued" <=> \E m \in inbox : IsResult(m, a, t)
    BY DEF IInv, StoreInv, MailAgrees
  <2>3. CASE turns[a][t].delivery = "enqueued"
    <3>1. PICK m \in inbox : IsResult(m, a, t)
      BY <2>2, <2>3
    <3>2. \A n \in inbox : IsResult(n, a, t) => n = m
      BY <3>1 DEF IInv, StoreInv, MailAgrees, IsResult
    <3>3. mails = {m}
      BY <3>1, <3>2 DEF IsResult
    <3>4. Cardinality(mails) = 1
      BY <3>3, FS_Singleton
    <3> QED BY <2>1, <2>3, <3>4
  <2>4. CASE turns[a][t].delivery # "enqueued"
    <3>1. mails = {}
      BY <2>2, <2>4 DEF IsResult
    <3>2. Cardinality(mails) = 0
      BY <3>1, FS_EmptySet
    <3> QED BY <2>1, <2>4, <3>2
  <2> QED BY <2>3, <2>4
<1> QED BY <1>1, TeamInvariant, PTL

\* The turn ledger that syncHistory() derives from each commit agrees with the agent
\* records it was derived from, whatever the order of the commits.
THEOREM LedgerAgrees == Spec => []LedgerFollowsAgent
<1>1. IInv => LedgerFollowsAgent
  <2> SUFFICES ASSUME IInv, NEW a \in Agents
               PROVE  /\ Len(turns[a]) = agent[a].turn
                      /\ \A t \in 1 .. Len(turns[a]) - 1 : turns[a][t].status \in Settled
                      /\ agent[a].turn > 0 /\ ~agent[a].reserved =>
                            LET last == turns[a][agent[a].turn].status IN
                            last \in Settled /\ agent[a].status \in {last, "closed"}
    BY DEF LedgerFollowsAgent
  <2>1. Len(turns[a]) = agent[a].turn /\ agent[a].turn \in Nat /\ BooksAgree(a)
    BY AgentFacts
  <2>2. \A t \in 1 .. Len(turns[a]) - 1 : t \in 1 .. agent[a].turn /\ t < agent[a].turn
    BY <2>1
  <2>3. agent[a].turn > 0 => agent[a].turn \in 1 .. agent[a].turn
    BY <2>1
  <2> QED BY <2>1, <2>2, <2>3 DEF BooksAgree
<1> QED BY <1>1, TeamInvariant, PTL

\* Slots and sessions stay within maxActiveSessions, and no turn runs on a session
\* that load() or close() is disposing of.
THEOREM SessionsServeTurns == Spec => []SessionsSound
<1>1. IInv => SessionsSound
  <2> SUFFICES ASSUME IInv PROVE SessionsSound
    OBVIOUS
  <2>1. ASSUME NEW a \in Agents, active[a].phase \in {"run", "finish"}
        PROVE  a \in sessions /\ a \notin evicting \cup closing
    <3>1. agent[a].status # "closed"
      BY <2>1, AgentFacts DEF FlightReserved, IsActive
    <3> QED BY <2>1, <3>1, AgentFacts DEF SessionOf
  <2> QED BY <2>1 DEF SessionsSound, RunsOnLiveSession, IInv, HostInv
<1> QED BY <1>1, TeamInvariant, PTL

\* A new owner finds no turn in flight and owes no result: the acquiring transaction
\* interrupts, releases and announces what the previous owner left.
THEOREM RecoveryComplete == Spec => RecoverySettles
<1> DEFINE A == up # "up" /\ up' = "up" =>
                  \A a \in Agents :
                      /\ ~agent'[a].reserved /\ agent'[a].status \notin {"pending", "running"}
                      /\ agent[a].reserved => turns'[a][agent[a].turn].delivery = "enqueued"
<1>1. IInv /\ [Next]_vars => [A]_vars
  <2> SUFFICES ASSUME IInv, Next, up # "up", up' = "up" PROVE A
    BY Zenon
  <2>1. Reopen
    BY Zenon DEF Next, Control, Startup, RunSettles, Spawn, Followup, Interrupt, Close, ReportProgress,
       Send, Acknowledge, CancelStartup, LoadBegin, Evicted, Created, Start, Cleanup, CloseDisposed,
       Finish, ActiveDone, RunEnds, Shutdown, ShutdownEnds, Crash, AtHead, Ready
  <2> QED BY <2>1, RecoveryStep
<1> QED BY <1>1, TeamInvariant, PTL DEF RecoverySettles, Spec

-----------------------------------------------------------------------------
(* The waiters of a team: MailboxActivity, for any number of agents and waits. *)

USE MailboxAssumption

\* A registered wait is the one its agent asked for: what makes IsCurrent() the
\* right test, and the unconditional waiters.delete(path) of finish() harmless.
WaitsRegistered == \A p \in Callers : waiters[p] # "none" => asked[waiters[p]] = p

\* A wait has an agent from the call on.
WaitsCalled == \A w \in Waits : outcome[w] # "none" => asked[w] \in Callers

MailboxIInv ==
    /\ MailboxTypeOK /\ WaitsRegistered /\ WaitsCalled
    /\ WaiterRegistered /\ NoLostWakeup

\* Nobody waits before the first call.
LEMMA WaitersInit == MailboxInit => MailboxIInv
BY DEF MailboxInit, MailboxIInv, MailboxTypeOK, WaitsRegistered, WaitsCalled,
   WaiterRegistered, NoLostWakeup, Ends

\* Settling a registered wait, with one of the reasons a wait ends for, keeps the
\* invariant whether or not a check of it remains queued.
LEMMA WaitFinishes ==
    ASSUME MailboxIInv, NEW w \in Waits, NEW how \in Ends, outcome[w] = "waiting",
           FinishWait(w, how),
           checks' = checks \/ checks' = checks \ {w},
           UNCHANGED <<ready, userInput, asked, closed>>
    PROVE  MailboxIInv'
<1>1. asked[w] \in Callers /\ waiters[asked[w]] = w /\ how \notin {"waiting", "none"}
  BY DEF MailboxIInv, WaitsCalled, WaiterRegistered, Ends
<1>2. MailboxTypeOK'
  BY <1>1 DEF MailboxIInv, MailboxTypeOK, FinishWait
<1>3. WaitsRegistered'
  BY <1>1 DEF MailboxIInv, MailboxTypeOK, WaitsRegistered, FinishWait
<1>4. WaitsCalled'
  BY <1>1 DEF MailboxIInv, MailboxTypeOK, WaitsCalled, FinishWait
<1>5. WaiterRegistered'
  BY <1>1 DEF MailboxIInv, MailboxTypeOK, WaitsRegistered, WaiterRegistered, FinishWait
<1>6. NoLostWakeup'
  BY <1>1 DEF MailboxIInv, MailboxTypeOK, WaitsRegistered, WaiterRegistered, NoLostWakeup, FinishWait
<1> QED
  BY <1>2, <1>3, <1>4, <1>5, <1>6 DEF MailboxIInv

\* A wait is registered with its first check queued.
LEMMA WaitBegins ==
    ASSUME MailboxIInv, NEW w \in Waits, NEW p \in Callers, Wait(w, p)
    PROVE  MailboxIInv'
<1>1. MailboxTypeOK'
  BY DEF MailboxIInv, MailboxTypeOK, Wait
<1>2. WaitsRegistered'
  BY DEF MailboxIInv, MailboxTypeOK, WaitsRegistered, WaiterRegistered, Wait
<1>3. WaitsCalled'
  BY DEF MailboxIInv, MailboxTypeOK, WaitsCalled, Wait
<1>4. WaiterRegistered'
  BY DEF MailboxIInv, MailboxTypeOK, WaitsRegistered, WaiterRegistered, Wait
<1>5. NoLostWakeup'
  BY DEF MailboxIInv, MailboxTypeOK, NoLostWakeup, Wait
<1> QED
  BY <1>1, <1>2, <1>3, <1>4, <1>5 DEF MailboxIInv

\* The microtask of a check either ends its own wait or finds that it has nothing
\* to do; a left-over one does not touch the wait that took its place.
LEMMA WaitChecks ==
    ASSUME MailboxIInv, NEW w \in Waits, Check(w)
    PROVE  MailboxIInv'
<1>1. asked[w] \in Callers
  BY DEF MailboxIInv, MailboxTypeOK, WaitsCalled, Check
<1>2. IsCurrent(w) => outcome[w] = "waiting"
  BY <1>1 DEF MailboxIInv, WaiterRegistered, IsCurrent
<1>3. CASE \E how \in Ends : IsCurrent(w) /\ FinishWait(w, how)
  BY <1>2, <1>3, WaitFinishes DEF Check
<1>4. CASE /\ IsCurrent(w) => asked[w] \notin userInput \cup ready
           /\ UNCHANGED <<waiters, outcome>>
  <2>1. MailboxTypeOK' /\ WaitsRegistered' /\ WaitsCalled' /\ WaiterRegistered'
    BY <1>4 DEF MailboxIInv, MailboxTypeOK, WaitsRegistered, WaitsCalled, WaiterRegistered, Check
  <2>2. NoLostWakeup'
    BY <1>1, <1>4 DEF MailboxIInv, MailboxTypeOK, WaitsRegistered, NoLostWakeup, IsCurrent, Check
  <2> QED
    BY <2>1, <2>2 DEF MailboxIInv
<1> QED
  BY <1>3, <1>4 DEF Check, Ends

\* Mail, user input and their consumption: what a wait is for never appears
\* without a check of the registered wait.
LEMMA MailArrives ==
    ASSUME MailboxIInv, NEW p \in Callers,
           Arrive(p) \/ Consume(p) \/ NotifyUserInput(p) \/ ConsumeUserInput(p)
    PROVE  MailboxIInv'
<1>1. UNCHANGED <<waiters, asked, outcome, closed>>
  BY DEF Arrive, Consume, NotifyUserInput, ConsumeUserInput
<1>2. checks' = checks \/ checks' = Notified(p)
  BY DEF Arrive, Consume, NotifyUserInput, ConsumeUserInput
<1>3. MailboxTypeOK'
  <2>1. ready' \subseteq Callers /\ userInput' \subseteq Callers
    BY DEF MailboxIInv, MailboxTypeOK, Arrive, Consume, NotifyUserInput, ConsumeUserInput
  <2>2. checks' \subseteq {w \in Waits : outcome[w] # "none"}
    BY <1>2 DEF MailboxIInv, MailboxTypeOK, WaiterRegistered, Notified
  <2> QED
    BY <1>1, <2>1, <2>2 DEF MailboxIInv, MailboxTypeOK
<1>4. WaitsRegistered' /\ WaitsCalled' /\ WaiterRegistered'
  BY <1>1 DEF MailboxIInv, WaitsRegistered, WaitsCalled, WaiterRegistered
<1>5. NoLostWakeup'
  BY <1>1 DEF MailboxIInv, MailboxTypeOK, NoLostWakeup, Notified, Arrive,
     Consume, NotifyUserInput, ConsumeUserInput
<1> QED
  BY <1>3, <1>4, <1>5 DEF MailboxIInv

\* close() leaves no wait behind.
LEMMA MailboxCloses ==
    ASSUME MailboxIInv, CloseWaits
    PROVE  MailboxIInv'
<1>1. MailboxTypeOK'
  BY DEF MailboxIInv, MailboxTypeOK, CloseWaits, Ends
<1>2. WaitsRegistered' /\ WaitsCalled' /\ NoLostWakeup'
  BY DEF MailboxIInv, MailboxTypeOK, WaitsRegistered, WaitsCalled, WaiterRegistered,
     NoLostWakeup, CloseWaits
<1>3. WaiterRegistered'
  BY DEF MailboxIInv, MailboxTypeOK, WaiterRegistered, CloseWaits
<1> QED
  BY <1>1, <1>2, <1>3 DEF MailboxIInv

\* Every step keeps the invariant.
LEMMA WaitersNext == MailboxIInv /\ [MailboxNext]_mailboxVars => MailboxIInv'
<1> SUFFICES ASSUME MailboxIInv, [MailboxNext]_mailboxVars PROVE MailboxIInv'
  OBVIOUS
<1>1. ASSUME NEW w \in Waits, Timeout(w) \/ Cancel(w) PROVE MailboxIInv'
  BY <1>1, WaitFinishes DEF Timeout, Cancel, Ends
<1>2. CASE UNCHANGED mailboxVars
  BY <1>2 DEF mailboxVars, MailboxIInv, MailboxTypeOK, WaitsRegistered, WaitsCalled,
     WaiterRegistered, NoLostWakeup
<1> QED
  BY <1>1, <1>2, WaitBegins, WaitChecks, MailArrives, MailboxCloses DEF MailboxNext

-----------------------------------------------------------------------------
\* The inductive invariant holds in every reachable state.
THEOREM MailboxInvariant == MailboxSpec => []MailboxIInv
BY WaitersInit, WaitersNext, PTL DEF MailboxSpec

\* Type correctness of the waiters.
THEOREM WaitersTyped == MailboxSpec => []MailboxTypeOK
BY MailboxInvariant, PTL DEF MailboxIInv

\* A wait is registered exactly while it is unsettled: a left-over microtask of
\* check() never unregisters the wait that took its place.
THEOREM RegistrationSafe == MailboxSpec => []WaiterRegistered
BY MailboxInvariant, PTL DEF MailboxIInv

\* No agent sleeps on mail, a settled turn or user input that is already there.
THEOREM WakeupSafe == MailboxSpec => []NoLostWakeup
BY MailboxInvariant, PTL DEF MailboxIInv

\* A wait times out only if there is nothing for its agent, and reports mail only if
\* no user input outranks it.
THEOREM OutcomeSafe == MailboxSpec => OutcomeJustified
<1> DEFINE A == \A w \in Waits : outcome[w] = "waiting" /\ outcome'[w] # "waiting" =>
                   /\ outcome'[w] = "timeout" => asked[w] \notin ready \cup userInput
                   /\ outcome'[w] = "mailbox" => asked[w] \in ready \ userInput
                   /\ outcome'[w] = "user_input" => asked[w] \in userInput
<1>1. ASSUME MailboxIInv, [MailboxNext]_mailboxVars PROVE [A]_mailboxVars
  <2> SUFFICES ASSUME MailboxNext, NEW v \in Waits, outcome[v] = "waiting", outcome'[v] # "waiting"
               PROVE  /\ outcome'[v] = "timeout" => asked[v] \notin ready \cup userInput
                      /\ outcome'[v] = "mailbox" => asked[v] \in ready \ userInput
                      /\ outcome'[v] = "user_input" => asked[v] \in userInput
    BY <1>1
  <2>1. ASSUME NEW w \in Waits, NEW p \in Callers, Wait(w, p) PROVE FALSE
    BY <1>1, <2>1 DEF MailboxIInv, MailboxTypeOK, Wait
  <2>2. CASE Check(v)
    BY <1>1, <2>2 DEF MailboxIInv, MailboxTypeOK, Check, FinishWait
  <2>3. ASSUME NEW w \in Waits, w # v, Check(w) \/ Timeout(w) \/ Cancel(w) PROVE FALSE
    BY <1>1, <2>3 DEF MailboxIInv, MailboxTypeOK, Check, Timeout, Cancel, FinishWait
  <2>4. CASE Timeout(v)
    <3>1. waiters[asked[v]] = v /\ asked[v] \in Callers /\ v # "none" /\ checks = {}
      BY <1>1, <2>4 DEF MailboxIInv, WaitsCalled, WaiterRegistered, Timeout
    <3>2. outcome'[v] = "timeout"
      BY <1>1, <2>4 DEF MailboxIInv, MailboxTypeOK, Timeout, FinishWait
    <3> QED
      BY <1>1, <3>1, <3>2 DEF MailboxIInv, NoLostWakeup
  <2>5. CASE Cancel(v)
    BY <1>1, <2>5 DEF MailboxIInv, MailboxTypeOK, Cancel, FinishWait
  <2>6. ASSUME NEW p \in Callers,
               Arrive(p) \/ Consume(p) \/ NotifyUserInput(p) \/ ConsumeUserInput(p)
        PROVE  FALSE
    BY <2>6 DEF Arrive, Consume, NotifyUserInput, ConsumeUserInput
  <2>7. CASE CloseWaits
    BY <1>1, <2>7 DEF MailboxIInv, MailboxTypeOK, CloseWaits
  <2> QED
    BY <2>1, <2>2, <2>3, <2>4, <2>5, <2>6, <2>7 DEF MailboxNext
<1> QED
  BY <1>1, MailboxInvariant, PTL DEF MailboxSpec, OutcomeJustified
=============================================================================
