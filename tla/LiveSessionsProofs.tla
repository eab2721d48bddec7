-------------------------- MODULE LiveSessionsProofs --------------------------
(***************************************************************************)
(* Proofs about LiveSessions, for any number of connections, commands and    *)
(* attempts to close the server: at every await the counts of operations are *)
(* right, one runtime at a time is opened or live, no runtime is disposed of *)
(* under an operation, and a close() that succeeds leaves nothing behind.    *)
(***************************************************************************)
EXTENDS LiveSessions, FiniteSetTheorems, TLAPS

\* What the variables hold.
Stages == {"ready", "closing", "closed"}

\* A runtime that was asked for and is not live yet, and every state of a runtime.
Opening == {"acquiring", "snapshotting", "rejecting"}
States  == Opening \cup {"none", "live", "failed"}

RuntimeRecords ==
    [state : States, held : BOOLEAN, connections : SUBSET Conns, operationCount : Nat,
     terminal : BOOLEAN, ending : BOOLEAN, disposing : {"no", "queued", "called", "done"},
     disposeFailed : BOOLEAN, running : BOOLEAN, phase : BOOLEAN, refresh : BOOLEAN]

\* A command that an operation counts, and one that was given a live session.
Operating == {"operating", "prompting", "ran"}
Serving   == Operating \cup {"attach", "snapshot", "detaching", "retry", "leaving"}

Commands ==
    [pc : Serving \cup {"idle", "acquire", "creating", "joining", "answered"},
     conn : Conns \cup {"none"}, rt : Runtimes \cup {0}]

Servers ==
    [at : {"open", "sealed", "disconnecting", "draining", "disposing", "failed", "closed"},
     awaits : Runtimes \cup {0}, listenerFailed : BOOLEAN, calls : Nat]

Typed ==
    /\ stage \in [Conns -> Stages] /\ attached \subseteq Conns
    /\ live \in Runtimes \cup {0} /\ opening \in Reqs \cup {0}
    /\ rt \in [Runtimes -> RuntimeRecords] /\ req \in [Reqs -> Commands]
    /\ server \in Servers

\* The operations under way on runtime i are the ones it counts.
OperationsOn(i) == {r \in Reqs : req[r].rt = i /\ req[r].pc \in Operating}
Counted == \A i \in Runtimes : rt[i].operationCount = Cardinality(OperationsOn(i))

\* Where command r is when it is as q says: its own runtime is untouched until it asks
\* for it, and what it was given has been live.
PlacedAs(r, q) ==
    /\ q.pc \in {"idle", "retry", "acquire"} => rt[r].state = "none"
    /\ q.pc \in Serving => q.rt # 0 /\ rt[q.rt].state = "live"
    /\ q.pc \in {"creating", "joining"} => q.rt # 0
    /\ q.pc \in Serving \cup {"creating", "joining", "acquire"} => q.conn \in Conns
    /\ q.pc = "creating" => q.rt = r /\ rt[r].state # "none"

\* One runtime at a time is opened, by the command it is named after and while none is
\* live; one that was live is held until it has been disposed of.
Opened(i) ==
    /\ rt[i].state \in Opening => opening = i /\ live = 0 /\ req[i].pc = "creating"
    /\ rt[i].state = "snapshotting" => rt[i].held
    /\ rt[i].state # "live" => rt[i].disposing = "no" /\ ~rt[i].ending
    /\ rt[i].state = "none" => rt[i] = NoRuntime
    /\ rt[i].state = "live" => (rt[i].held <=> rt[i].disposing # "done")
    /\ rt[i].state = "live" /\ rt[i].held => live = i
    /\ live = i => rt[i].state = "live" /\ rt[i].held

\* A runtime that is, was or could not be disposed of has no operation, unless the
\* server closes.
Spared(t, closing) == (t.disposing # "no" \/ t.disposeFailed) /\ t.operationCount > 0 => closing

\* How far close() is: what it waited for has happened and cannot be undone.
Closes ==
    /\ \A c \in attached : stage[c] # "closed"
    /\ server.at \in {"draining", "disposing", "closed"} => \A c \in Conns : stage[c] = "closed"
    /\ server.at = "draining" => \A i \in Runtimes : rt[i].state = "snapshotting" => server.awaits = i
    /\ server.at \in {"disposing", "closed"} => \A i \in Runtimes : rt[i].state # "snapshotting"
    /\ server.at = "disposing" => server.awaits = live
    /\ server.at = "closed" => live = 0

IInv ==
    /\ Typed /\ Counted
    /\ \A r \in Reqs : PlacedAs(r, req[r])
    /\ \A i \in Runtimes : Opened(i) /\ Spared(rt[i], Closing)
    /\ Closes

-----------------------------------------------------------------------------
(* Steps that open no runtime and dispose of none *)

\* Runtimes are numbered from 1, and First is not a command's.
LEMMA Numbers == /\ 0 \notin Runtimes /\ 0 \notin Reqs /\ Reqs \subseteq Runtimes /\ First \in Runtimes
                 /\ IsFiniteSet(Reqs)
<1>1. IsFiniteSet(Reqs)
  BY FS_Interval, SessionsAssumption DEF Reqs
<1> QED BY <1>1, SessionsAssumption DEF Runtimes, Reqs, First

\* What such a step may make of runtime i: it opens or drops no session, and begins no
\* disposal under an operation.
KeepsAs(i, t, closing) ==
    /\ t.state = rt[i].state /\ t.held = rt[i].held
    /\ rt[i].state = "none" => t = rt[i]
    /\ rt[i].state # "live" => t.disposing = "no" /\ ~t.ending
    /\ t.disposing = "done" <=> rt[i].disposing = "done"
    /\ Spared(t, closing)

\* And of command r: one that creates a runtime goes on doing so until it is opened.
MovesTo(r, q) ==
    /\ PlacedAs(r, q)
    /\ req[r].pc = "creating" => q.pc = "creating"

\* Such steps keep the invariant, if they keep the count and what close() relies on.
LEMMA QuietStep ==
    ASSUME IInv, Typed', Counted', Closes', live' = live, opening' = opening,
           \A i \in Runtimes : KeepsAs(i, rt'[i], Closing'),
           \A r \in Reqs : MovesTo(r, req'[r])
    PROVE  IInv'
<1> USE Numbers
<1>1. ASSUME NEW r \in Reqs PROVE PlacedAs(r, req[r])'
  <2>1. MovesTo(r, req'[r]) /\ req'[r] \in Commands
    BY DEF Typed
  <2>2. KeepsAs(r, rt'[r], Closing') /\ rt'[r].state = rt[r].state
    BY DEF KeepsAs
  <2>3. req'[r].pc \in Serving => rt'[req'[r].rt].state = rt[req'[r].rt].state
    <3>1. req'[r].pc \in Serving => req'[r].rt \in Runtimes
      BY <2>1 DEF MovesTo, PlacedAs, Commands
    <3> QED BY <3>1 DEF KeepsAs
  <2> QED BY <2>1, <2>2, <2>3 DEF MovesTo, PlacedAs
<1>2. ASSUME NEW i \in Runtimes PROVE Opened(i)'
  <2>1. KeepsAs(i, rt'[i], Closing') /\ Opened(i)
    BY DEF IInv
  <2>2. ASSUME rt'[i].state \in Opening PROVE req'[i].pc = "creating"
    <3>1. opening = i /\ req[i].pc = "creating" /\ i \in Reqs
      BY <2>1, <2>2 DEF KeepsAs, Opened, IInv, Typed
    <3> QED BY <3>1 DEF MovesTo
  <2>3. rt'[i].state \in Opening => opening' = i /\ live' = 0 /\ req'[i].pc = "creating"
    BY <2>1, <2>2 DEF KeepsAs, Opened
  <2>4. /\ rt'[i].state = "snapshotting" => rt'[i].held
        /\ rt'[i].state # "live" => rt'[i].disposing = "no" /\ ~rt'[i].ending
        /\ rt'[i].state = "none" => rt'[i] = NoRuntime
    BY <2>1 DEF KeepsAs, Opened
  <2>5. /\ rt'[i].state = "live" => (rt'[i].held <=> rt'[i].disposing # "done")
        /\ rt'[i].state = "live" /\ rt'[i].held => live' = i
        /\ live' = i => rt'[i].state = "live" /\ rt'[i].held
    BY <2>1 DEF KeepsAs, Opened
  <2> QED BY <2>3, <2>4, <2>5 DEF Opened
<1>3. \A i \in Runtimes : Spared(rt[i], Closing)'
  BY DEF KeepsAs, Spared
<1> QED BY <1>1, <1>2, <1>3 DEF IInv

\* A record or a command that stays as it is.
LEMMA Same ==
    ASSUME IInv
    PROVE  /\ \A i \in Runtimes : \A closing \in BOOLEAN : (Closing => closing) => KeepsAs(i, rt[i], closing)
           /\ \A r \in Reqs : MovesTo(r, req[r])
BY DEF IInv, KeepsAs, Opened, Spared, MovesTo

\* One runtime changes.
LEMMA OneRuntime ==
    ASSUME IInv, NEW i \in Runtimes, NEW t \in RuntimeRecords, rt' = [rt EXCEPT ![i] = t],
           Closing => Closing', KeepsAs(i, t, Closing')
    PROVE  /\ rt' \in [Runtimes -> RuntimeRecords]
           /\ \A j \in Runtimes : KeepsAs(j, rt'[j], Closing')
           /\ \A j \in Runtimes : rt'[j].state = rt[j].state
           /\ \A j \in Runtimes : j # i => rt'[j] = rt[j]
           /\ rt'[i] = t
<1>1. Closing' \in BOOLEAN
  BY DEF Closing
<1>2. rt \in [Runtimes -> RuntimeRecords]
  BY DEF IInv, Typed
<1>3. rt' \in [Runtimes -> RuntimeRecords] /\ rt'[i] = t /\ \A j \in Runtimes : j # i => rt'[j] = rt[j]
  BY <1>2
<1>4. \A j \in Runtimes : KeepsAs(j, rt'[j], Closing')
  BY <1>1, <1>3, Same
<1>5. \A j \in Runtimes : rt'[j].state = rt[j].state
  BY <1>4 DEF KeepsAs
<1> QED BY <1>3, <1>4, <1>5

\* No runtime changes.
LEMMA NoRuntimeChanges ==
    ASSUME IInv, rt' = rt, Closing => Closing'
    PROVE  /\ rt' \in [Runtimes -> RuntimeRecords]
           /\ \A j \in Runtimes : KeepsAs(j, rt'[j], Closing')
           /\ \A j \in Runtimes : rt'[j].state = rt[j].state
<1>1. Closing' \in BOOLEAN
  BY DEF Closing
<1> QED BY <1>1, Same DEF IInv, Typed

\* One command goes on.
LEMMA OneRequest ==
    ASSUME IInv, NEW r \in Reqs, NEW q \in Commands, req' = [req EXCEPT ![r] = q], MovesTo(r, q)
    PROVE  /\ req' \in [Reqs -> Commands]
           /\ \A s \in Reqs : MovesTo(s, req'[s])
           /\ \A s \in Reqs : s # r => req'[s] = req[s]
           /\ req'[r] = q
<1>1. req \in [Reqs -> Commands]
  BY DEF IInv, Typed
<1>2. req' \in [Reqs -> Commands] /\ req'[r] = q /\ \A s \in Reqs : s # r => req'[s] = req[s]
  BY <1>1
<1>3. \A s \in Reqs : MovesTo(s, req'[s])
  BY <1>2, Same
<1> QED BY <1>2, <1>3

\* Answering a command that creates no runtime.
LEMMA AnswerMoves ==
    ASSUME IInv, NEW r \in Reqs, req[r].pc # "creating"
    PROVE  Answered \in Commands /\ MovesTo(r, Answered) /\ Answered.pc \notin Operating
BY DEF Answered, Commands, MovesTo, PlacedAs, Operating, Serving

\* A command that ends with maybeDispose() is answered or awaits the disposal.
LEMMA LeaveMoves ==
    ASSUME IInv, NEW r \in Reqs, req[r].pc # "creating", NEW c \in Conns,
           NEW i \in Runtimes, rt[i].state = "live", NEW t
    PROVE  \E q \in Commands : Leave(r, c, i, t) = [req EXCEPT ![r] = q] /\ MovesTo(r, q) /\ q.pc \notin Operating
<1> DEFINE q == [pc |-> "leaving", conn |-> c, rt |-> i]
<1>1. CASE t.disposing \in {"queued", "called"}
  <2>1. q \in Commands /\ q.pc = "leaving" /\ q.conn = c /\ q.rt = i
    BY DEF Commands, Serving
  <2>2. Leave(r, c, i, t) = [req EXCEPT ![r] = q]
    BY <1>1 DEF Leave
  <2> HIDE DEF q
  <2>3. MovesTo(r, q) /\ q.pc \notin Operating
    BY <2>1, Numbers DEF MovesTo, PlacedAs, Operating, Serving
  <2> QED BY <2>1, <2>2, <2>3
<1>2. CASE t.disposing \notin {"queued", "called"}
  <2>1. Leave(r, c, i, t) = [req EXCEPT ![r] = Answered]
    BY <1>2 DEF Leave
  <2> QED BY <2>1, AnswerMoves
<1> QED BY <1>1, <1>2

\* What close() relies on stays true when connections only close.
LEMMA ClosesKept ==
    ASSUME IInv, server' = server, live' = live, stage' \in [Conns -> Stages],
           \A j \in Runtimes : rt'[j].state = rt[j].state,
           \A c \in Conns : stage[c] = "closed" => stage'[c] = "closed",
           \A c \in attached' : c \in Conns /\ stage'[c] # "closed"
    PROVE  Closes' /\ attached' \subseteq Conns
BY DEF IInv, Closes

-----------------------------------------------------------------------------
(* Counting *)

\* Nobody begins or ends an operation.
LEMMA CountKept ==
    ASSUME IInv, req' \in [Reqs -> Commands],
           \A i \in Runtimes : rt'[i].operationCount = rt[i].operationCount,
           \A r \in Reqs : /\ req'[r].pc \in Operating <=> req[r].pc \in Operating
                           /\ req[r].pc \in Operating => req'[r].rt = req[r].rt
    PROVE  Counted'
<1>1. \A i \in Runtimes : OperationsOn(i)' = OperationsOn(i)
  BY DEF OperationsOn
<1> QED BY <1>1 DEF IInv, Counted

\* The operations on a runtime are finitely many.
LEMMA OperationsFinite == \A i : IsFiniteSet(OperationsOn(i))
<1> TAKE i
<1>1. OperationsOn(i) \subseteq Reqs
  BY DEF OperationsOn
<1> QED BY <1>1, Numbers, FS_Subset

\* An operation begins on runtime i.
LEMMA CountBegins ==
    ASSUME IInv, NEW r \in Reqs, NEW i \in Runtimes,
           req[r].pc \notin Operating, req'[r].pc \in Operating, req'[r].rt = i,
           \A s \in Reqs : s # r => req'[s] = req[s],
           \A j \in Runtimes : rt'[j].operationCount = IF j = i THEN rt[i].operationCount + 1
                                                       ELSE rt[j].operationCount
    PROVE  Counted'
<1>1. OperationsOn(i)' = OperationsOn(i) \cup {r} /\ r \notin OperationsOn(i)
  BY DEF OperationsOn
<1>2. Cardinality(OperationsOn(i) \cup {r}) = Cardinality(OperationsOn(i)) + 1
  BY <1>1, OperationsFinite, FS_AddElement
<1>3. \A j \in Runtimes : j # i => OperationsOn(j)' = OperationsOn(j)
  BY DEF OperationsOn
<1> QED BY <1>1, <1>2, <1>3 DEF IInv, Counted

\* An operation ends on runtime i, which counted it.
LEMMA CountEnds ==
    ASSUME IInv, NEW r \in Reqs, NEW i \in Runtimes,
           req[r].pc \in Operating, req[r].rt = i, req'[r].pc \notin Operating,
           \A s \in Reqs : s # r => req'[s] = req[s],
           \A j \in Runtimes : rt'[j].operationCount = IF j = i THEN rt[i].operationCount - 1
                                                       ELSE rt[j].operationCount
    PROVE  Counted'
<1>1. OperationsOn(i)' = OperationsOn(i) \ {r} /\ r \in OperationsOn(i)
  BY DEF OperationsOn
<1>2. Cardinality(OperationsOn(i) \ {r}) = Cardinality(OperationsOn(i)) - 1
  BY <1>1, OperationsFinite, FS_RemoveElement
<1>3. \A j \in Runtimes : j # i => OperationsOn(j)' = OperationsOn(j)
  BY DEF OperationsOn
<1> QED BY <1>1, <1>2, <1>3 DEF IInv, Counted

\* A runtime that an operation is under way on counts it.
LEMMA CountPositive ==
    ASSUME IInv, NEW r \in Reqs, req[r].pc \in Operating, req[r].rt \in Runtimes
    PROVE  rt[req[r].rt].operationCount > 0
<1> DEFINE S == OperationsOn(req[r].rt)
<1>1. r \in S /\ IsFiniteSet(S)
  BY OperationsFinite DEF OperationsOn
<1>2. Cardinality(S) \in Nat /\ Cardinality(S) # 0
  BY <1>1, FS_CardinalityType, FS_EmptySet
<1> QED BY <1>2 DEF IInv, Counted

-----------------------------------------------------------------------------
(* Steps of one runtime, of one command, or of both *)

\* Connections only close, and a closed one is not attached.
ConnsKept ==
    /\ stage' \in [Conns -> Stages]
    /\ \A c \in Conns : stage[c] = "closed" => stage'[c] = "closed"
    /\ \A c \in attached' : c \in Conns /\ stage'[c] # "closed"

\* So it is when connections and attachments stay as they are.
LEMMA ConnsSame == ASSUME IInv, UNCHANGED <<stage, attached>> PROVE ConnsKept
BY DEF IInv, Typed, Closes, ConnsKept

\* A runtime goes on.
LEMMA RuntimeQuiet ==
    ASSUME IInv, NEW i \in Runtimes, NEW t \in RuntimeRecords, rt' = [rt EXCEPT ![i] = t],
           KeepsAs(i, t, Closing), t.operationCount = rt[i].operationCount,
           UNCHANGED <<live, opening, server, req>>, ConnsKept
    PROVE  IInv'
<1>1. Closing' = Closing
  BY DEF Closing
<1>2. /\ rt' \in [Runtimes -> RuntimeRecords] /\ rt'[i] = t
      /\ \A j \in Runtimes : KeepsAs(j, rt'[j], Closing') /\ rt'[j].state = rt[j].state
      /\ \A j \in Runtimes : j # i => rt'[j] = rt[j]
  BY <1>1, OneRuntime
<1>3. Closes' /\ attached' \subseteq Conns
  BY <1>2, ClosesKept DEF ConnsKept
<1>4. Counted'
  BY <1>2, CountKept DEF IInv, Typed
<1>5. Typed'
  BY <1>2, <1>3 DEF IInv, Typed, ConnsKept
<1>6. \A r \in Reqs : MovesTo(r, req'[r])
  BY Same
<1> QED BY <1>2, <1>3, <1>4, <1>5, <1>6, QuietStep

\* A command goes on, and the runtime it is about with it.
LEMMA RequestQuiet ==
    ASSUME IInv, NEW i \in Runtimes, NEW t \in RuntimeRecords, rt' = [rt EXCEPT ![i] = t],
           KeepsAs(i, t, Closing), t.operationCount = rt[i].operationCount,
           NEW r \in Reqs, NEW q \in Commands, req' = [req EXCEPT ![r] = q], MovesTo(r, q),
           req[r].pc \notin Operating, q.pc \notin Operating,
           UNCHANGED <<live, opening, server>>, ConnsKept
    PROVE  IInv'
<1>1. Closing' = Closing
  BY DEF Closing
<1>2. /\ rt' \in [Runtimes -> RuntimeRecords] /\ rt'[i] = t
      /\ \A j \in Runtimes : KeepsAs(j, rt'[j], Closing') /\ rt'[j].state = rt[j].state
      /\ \A j \in Runtimes : j # i => rt'[j] = rt[j]
  BY <1>1, OneRuntime
<1>3. Closes' /\ attached' \subseteq Conns
  BY <1>2, ClosesKept DEF ConnsKept
<1>4. /\ req' \in [Reqs -> Commands] /\ req'[r] = q
      /\ \A s \in Reqs : MovesTo(s, req'[s])
      /\ \A s \in Reqs : s # r => req'[s] = req[s]
  BY OneRequest
<1>5. Counted'
  <2>1. \A j \in Runtimes : rt'[j].operationCount = rt[j].operationCount
    BY <1>2
  <2>2. \A s \in Reqs : /\ req'[s].pc \in Operating <=> req[s].pc \in Operating
                        /\ req[s].pc \in Operating => req'[s].rt = req[s].rt
    BY <1>4
  <2> QED BY <1>4, <2>1, <2>2, CountKept
<1>6. Typed'
  BY <1>2, <1>3, <1>4 DEF IInv, Typed, ConnsKept
<1> QED BY <1>2, <1>3, <1>4, <1>5, <1>6, QuietStep

\* A command goes on alone.
LEMMA RequestAlone ==
    ASSUME IInv, rt' = rt,
           NEW r \in Reqs, NEW q \in Commands, req' = [req EXCEPT ![r] = q], MovesTo(r, q),
           req[r].pc \notin Operating, q.pc \notin Operating,
           UNCHANGED <<live, opening, server>>, ConnsKept
    PROVE  IInv'
<1>1. First \in Runtimes /\ rt[First] \in RuntimeRecords /\ rt' = [rt EXCEPT ![First] = rt[First]]
  BY Numbers DEF IInv, Typed
<1>2. KeepsAs(First, rt[First], Closing)
  BY <1>1, Same DEF Closing
<1> QED BY <1>1, <1>2, RequestQuiet

\* maybeDispose() begins a disposal, under no operation, or does nothing.
LEMMA MaybeDisposeFacts ==
    ASSUME NEW t \in RuntimeRecords
    PROVE  /\ MaybeDispose(t) \in RuntimeRecords
           /\ \/ MaybeDispose(t) = t
              \/ /\ MaybeDispose(t) = [t EXCEPT !.disposing = "queued"]
                 /\ t.disposing = "no" /\ t.operationCount = 0
BY DEF MaybeDispose, Dispose, RuntimeRecords

LEMMA MaybeDisposeKeeps ==
    ASSUME IInv, NEW i \in Runtimes, NEW t \in RuntimeRecords, rt[i].state = "live",
           t.state = "live", t.held = rt[i].held, t.disposing = rt[i].disposing, Spared(t, Closing)
    PROVE  /\ MaybeDispose(t) \in RuntimeRecords /\ KeepsAs(i, MaybeDispose(t), Closing)
           /\ MaybeDispose(t).operationCount = t.operationCount
<1>1. CASE MaybeDispose(t) = t
  BY <1>1 DEF KeepsAs
<1>2. CASE /\ MaybeDispose(t) = [t EXCEPT !.disposing = "queued"]
           /\ t.disposing = "no" /\ t.operationCount = 0
  <2> DEFINE u == [t EXCEPT !.disposing = "queued"]
  <2>1. /\ u \in RuntimeRecords /\ u.state = "live" /\ u.held = t.held
        /\ u.disposing = "queued" /\ u.operationCount = 0
    BY <1>2 DEF RuntimeRecords
  <2> HIDE DEF u
  <2>2. KeepsAs(i, u, Closing)
    BY <1>2, <2>1 DEF KeepsAs, Spared
  <2>3. MaybeDispose(t) = u
    BY <1>2 DEF u
  <2> QED BY <1>2, <2>1, <2>2, <2>3
<1> QED BY <1>1, <1>2, MaybeDisposeFacts

\* The facts about a runtime and a command that the steps below keep using.
LEMMA RuntimeFacts ==
    ASSUME IInv, NEW i \in Runtimes
    PROVE  rt[i] \in RuntimeRecords /\ Opened(i) /\ Spared(rt[i], Closing)
BY DEF IInv, Typed

LEMMA RequestFacts ==
    ASSUME IInv, NEW r \in Reqs
    PROVE  /\ req[r] \in Commands /\ PlacedAs(r, req[r])
           /\ req[r].pc \in Serving => req[r].rt \in Runtimes /\ rt[req[r].rt].state = "live" /\ req[r].conn \in Conns
BY DEF IInv, Typed, PlacedAs, Commands, Serving

-----------------------------------------------------------------------------
(* acquire() and attach() *)

\* A disposal that a command makes or joins: a runtime that could not be disposed of is
\* tried again, under an operation only if the server closes.
LEMMA DisposeKeeps ==
    ASSUME IInv, NEW i \in Runtimes, rt[i].state = "live", NEW closing \in BOOLEAN, Closing => closing,
           closing \/ rt[i].disposing # "no" \/ rt[i].disposeFailed
    PROVE  /\ Dispose(rt[i]) \in RuntimeRecords /\ KeepsAs(i, Dispose(rt[i]), closing)
           /\ Dispose(rt[i]).operationCount = rt[i].operationCount
<1>1. rt[i] \in RuntimeRecords /\ Spared(rt[i], Closing)
  BY RuntimeFacts
<1>2. CASE rt[i].disposing # "no"
  <2>1. Dispose(rt[i]) = rt[i]
    BY <1>2 DEF Dispose
  <2> QED BY <1>1, <2>1, Same
<1>3. CASE rt[i].disposing = "no"
  <2> DEFINE u == [rt[i] EXCEPT !.disposing = "queued"]
  <2>1. Dispose(rt[i]) = u
    BY <1>3 DEF Dispose
  <2>2. /\ u \in RuntimeRecords /\ u.state = rt[i].state /\ u.held = rt[i].held
        /\ u.disposing = "queued" /\ u.operationCount = rt[i].operationCount
    BY <1>1 DEF RuntimeRecords
  <2> HIDE DEF u
  <2>3. KeepsAs(i, u, closing)
    BY <1>1, <1>3, <2>2 DEF KeepsAs, Spared
  <2> QED BY <2>1, <2>2, <2>3
<1> QED BY <1>2, <1>3

\* A command asks for the runtime it is named after: none is live or being opened.
LEMMA CreateStep ==
    ASSUME IInv, NEW r \in Reqs, NEW c \in Conns, req[r].pc \in {"idle", "acquire"},
           live = 0, opening = 0, opening' = r, live' = live,
           rt' = [rt EXCEPT ![r].state = "acquiring"],
           req' = [req EXCEPT ![r] = [pc |-> "creating", conn |-> c, rt |-> r]],
           UNCHANGED <<stage, attached, server>>
    PROVE  IInv'
<1> USE Numbers
<1> DEFINE q == [pc |-> "creating", conn |-> c, rt |-> r]
           t == [rt[r] EXCEPT !.state = "acquiring"]
<1>1. /\ req' \in [Reqs -> Commands] /\ req'[r] = q /\ \A s \in Reqs : s # r => req'[s] = req[s]
      /\ req'[r].pc = "creating" /\ req'[r].rt = r /\ req'[r].conn = c
  BY DEF IInv, Typed, Commands
<1>2. rt[r] \in RuntimeRecords /\ rt[r].state = "none" /\ rt[r] = NoRuntime
  BY DEF IInv, Typed, PlacedAs, Opened
<1>3. /\ rt' = [rt EXCEPT ![r] = t] /\ t \in RuntimeRecords /\ t.state = "acquiring"
      /\ t.operationCount = rt[r].operationCount /\ t.disposing = "no" /\ ~t.ending /\ ~t.disposeFailed
  <2>1. rt' = [rt EXCEPT ![r] = t] /\ t \in RuntimeRecords
    BY <1>2 DEF RuntimeRecords, States, Opening
  <2>2. /\ t.state = "acquiring" /\ t.operationCount = rt[r].operationCount
        /\ t.disposing = rt[r].disposing /\ t.ending = rt[r].ending /\ t.disposeFailed = rt[r].disposeFailed
    BY <1>2 DEF RuntimeRecords
  <2>3. rt[r].disposing = "no" /\ ~rt[r].ending /\ ~rt[r].disposeFailed
    BY <1>2 DEF NoRuntime
  <2> QED BY <2>1, <2>2, <2>3
<1>4. /\ rt' \in [Runtimes -> RuntimeRecords] /\ rt'[r] = t /\ \A j \in Runtimes : j # r => rt'[j] = rt[j]
  BY <1>3 DEF IInv, Typed
<1> HIDE DEF t, q
<1>5. Typed'
  BY <1>1, <1>4 DEF IInv, Typed
<1>6. Counted'
  <2>1. \A j \in Runtimes : rt'[j].operationCount = rt[j].operationCount
    BY <1>3, <1>4
  <2>2. \A s \in Reqs : /\ req'[s].pc \in Operating <=> req[s].pc \in Operating
                        /\ req[s].pc \in Operating => req'[s].rt = req[s].rt
    BY <1>1 DEF Operating
  <2> QED BY <1>1, <2>1, <2>2, CountKept
<1>7. ASSUME NEW s \in Reqs PROVE PlacedAs(s, req[s])'
  <2>1. CASE s = r
    BY <1>1, <1>3, <1>4, <2>1 DEF PlacedAs, Serving, Operating
  <2>2. CASE s # r
    <3>1. PlacedAs(s, req[s]) /\ req'[s] = req[s] /\ rt'[s] = rt[s] /\ req[s] \in Commands
      BY <1>1, <1>4, <2>2 DEF IInv, Typed
    <3>2. req[s].pc \in Serving => rt'[req[s].rt] = rt[req[s].rt]
      BY <1>2, <1>4, <3>1 DEF PlacedAs, Commands
    <3> QED BY <3>1, <3>2 DEF PlacedAs
  <2> QED BY <2>1, <2>2
<1>8. ASSUME NEW i \in Runtimes PROVE Opened(i)'
  <2>1. CASE i = r
    BY <1>1, <1>3, <1>4, <2>1 DEF Opened, Opening
  <2>2. CASE i # r
    <3>1. Opened(i) /\ rt'[i] = rt[i] /\ rt[i].state \notin Opening
      BY <1>4, <2>2 DEF IInv, Opened
    <3> QED BY <3>1 DEF Opened
  <2> QED BY <2>1, <2>2
<1>9. ASSUME NEW i \in Runtimes PROVE Spared(rt[i], Closing)'
  BY <1>3, <1>4 DEF IInv, Spared, Closing
<1>10. Closes'
  BY <1>3, <1>4 DEF IInv, Closes
<1> QED BY <1>5, <1>6, <1>7, <1>8, <1>9, <1>10 DEF IInv

\* One iteration of acquire().
LEMMA AcquireStepIInv ==
    ASSUME IInv, NEW r \in Reqs, NEW c \in Conns, req[r].pc \in {"idle", "acquire"},
           AcquireStep(r, c), UNCHANGED <<stage, attached, server>>
    PROVE  IInv'
<1> USE Numbers
<1>1. ConnsKept
  BY ConnsSame
<1>2. rt[r].state = "none" /\ req[r].pc \notin Operating /\ req[r].pc # "creating"
  BY RequestFacts DEF PlacedAs, Operating
<1>3. live # 0 => live \in Runtimes /\ rt[live].state = "live" /\ Closing \in BOOLEAN
  BY DEF IInv, Typed, Opened, Closing
<1>4. CASE /\ live # 0 /\ (rt[live].disposing # "no" \/ rt[live].disposeFailed)
           /\ rt' = [rt EXCEPT ![live] = Dispose(@)]
           /\ req' = [req EXCEPT ![r] = [pc |-> "retry", conn |-> c, rt |-> live]]
           /\ UNCHANGED <<live, opening>>
  <2> DEFINE q == [pc |-> "retry", conn |-> c, rt |-> live]
  <2>1. q \in Commands /\ q.pc \notin Operating /\ MovesTo(r, q)
    BY <1>2, <1>3, <1>4 DEF Commands, Serving, Operating, MovesTo, PlacedAs
  <2>2. rt' = [rt EXCEPT ![live] = Dispose(rt[live])]
    BY <1>4
  <2> QED BY <1>1, <1>2, <1>3, <1>4, <2>1, <2>2, DisposeKeeps, RequestQuiet
<1>5. CASE /\ live # 0 /\ rt[live].disposing = "no" /\ ~rt[live].disposeFailed
           /\ req' = [req EXCEPT ![r] = IF rt[live].terminal THEN Answered
                                        ELSE [pc |-> "attach", conn |-> c, rt |-> live]]
           /\ UNCHANGED <<live, opening, rt>>
  <2> DEFINE q == [pc |-> "attach", conn |-> c, rt |-> live]
  <2>1. q \in Commands /\ q.pc \notin Operating /\ MovesTo(r, q)
    BY <1>2, <1>3, <1>5 DEF Commands, Serving, Operating, MovesTo, PlacedAs
  <2>2. Answered \in Commands /\ Answered.pc \notin Operating /\ MovesTo(r, Answered)
    BY <1>2, AnswerMoves
  <2>3. req' = [req EXCEPT ![r] = q] \/ req' = [req EXCEPT ![r] = Answered]
    BY <1>5
  <2> HIDE DEF q
  <2> QED BY <1>1, <1>2, <1>5, <2>1, <2>2, <2>3, RequestAlone
<1>6. CASE /\ live = 0 /\ opening # 0
           /\ req' = [req EXCEPT ![r] = [pc |-> "joining", conn |-> c, rt |-> opening]]
           /\ UNCHANGED <<live, opening, rt>>
  <2> DEFINE q == [pc |-> "joining", conn |-> c, rt |-> opening]
  <2>1. q \in Commands /\ q.pc \notin Operating /\ MovesTo(r, q)
    BY <1>2, <1>6 DEF IInv, Typed, Commands, Serving, Operating, MovesTo, PlacedAs
  <2> HIDE DEF q
  <2>2. req' = [req EXCEPT ![r] = q]
    BY <1>6 DEF q
  <2> QED BY <1>1, <1>2, <1>6, <2>1, <2>2, RequestAlone
<1>7. CASE /\ live = 0 /\ opening = 0
           /\ opening' = r
           /\ rt' = [rt EXCEPT ![r].state = "acquiring"]
           /\ req' = [req EXCEPT ![r] = [pc |-> "creating", conn |-> c, rt |-> r]]
           /\ UNCHANGED live
  BY <1>7, CreateStep
<1> QED BY <1>4, <1>5, <1>6, <1>7 DEF AcquireStep

\* An attach command, and a command that looks again.
LEMMA AttachStep ==
    ASSUME IInv, NEW r \in Reqs, NEW c \in Conns, Attach(r, c)
    PROVE  IInv'
BY AcquireStepIInv DEF Attach

LEMMA ReacquireStep ==
    ASSUME IInv, NEW r \in Reqs, Reacquire(r)
    PROVE  IInv'
<1>1. req[r].conn \in Conns
  BY RequestFacts DEF PlacedAs, Reacquire
<1> QED BY <1>1, AcquireStepIInv DEF Reacquire

\* The runtime a command waited for is live, or could not be opened.
LEMMA AcquiredStep ==
    ASSUME IInv, NEW r \in Reqs, Acquired(r)
    PROVE  IInv'
<1> USE Numbers
<1> DEFINE i == req[r].rt
           q == IF rt[i].state = "live" THEN [req[r] EXCEPT !.pc = "attach"] ELSE Answered
<1>1. /\ req[r] \in Commands /\ PlacedAs(r, req[r]) /\ req[r].pc \in {"creating", "joining"}
      /\ i \in Runtimes /\ req[r].conn \in Conns /\ req[r].pc \notin Operating
  BY RequestFacts DEF Acquired, PlacedAs, Commands, Operating
<1>2. q \in Commands /\ q.pc \notin Operating /\ q.pc \in {"attach", "answered"} /\ PlacedAs(r, q)
  BY <1>1 DEF Commands, PlacedAs, Answered, Operating, Serving
<1>3. req' = [req EXCEPT ![r] = q]
  BY DEF Acquired, Go, Answer
<1>4. /\ req' \in [Reqs -> Commands] /\ req'[r] = q /\ \A s \in Reqs : s # r => req'[s] = req[s]
  BY <1>2, <1>3 DEF IInv, Typed
<1>5. req[r].pc = "creating" => i = r /\ rt[r].state \in {"live", "failed"}
  BY <1>1 DEF PlacedAs, Acquired
<1>6. rt' = rt /\ live' = live /\ server' = server /\ stage' = stage /\ attached' = attached
      /\ opening' \in Reqs \cup {0} /\ (opening' = opening \/ (opening = r /\ req[r].pc = "creating"))
  BY DEF Acquired, IInv, Typed
<1> HIDE DEF i, q
<1>7. Typed'
  BY <1>4, <1>6 DEF IInv, Typed
<1>8. Counted'
  <2>1. \A s \in Reqs : /\ req'[s].pc \in Operating <=> req[s].pc \in Operating
                        /\ req[s].pc \in Operating => req'[s].rt = req[s].rt
    BY <1>1, <1>2, <1>4
  <2> QED BY <1>4, <1>6, <2>1, CountKept
<1>9. ASSUME NEW s \in Reqs PROVE PlacedAs(s, req[s])'
  <2>1. PlacedAs(s, req'[s])
    BY <1>2, <1>4 DEF IInv
  <2> QED BY <1>6, <2>1 DEF PlacedAs
<1>10. ASSUME NEW j \in Runtimes PROVE Opened(j)'
  <2>1. ASSUME rt[j].state \in Opening PROVE opening' = j /\ req'[j].pc = "creating"
    <3>1. opening = j /\ req[j].pc = "creating" /\ j \in Reqs
      BY <2>1 DEF IInv, Typed, Opened
    <3>2. j # r
      BY <1>5, <2>1, <3>1 DEF Opening
    <3> QED BY <1>4, <1>6, <3>1, <3>2
  <2> QED BY <1>6, <2>1 DEF IInv, Opened
<1>11. \A j \in Runtimes : Spared(rt[j], Closing)'
  BY <1>6 DEF IInv, Spared, Closing
<1>12. Closes'
  BY <1>6 DEF IInv, Closes
<1> QED BY <1>7, <1>8, <1>9, <1>10, <1>11, <1>12 DEF IInv

-----------------------------------------------------------------------------
(* Opening a runtime *)

\* What the answers of the service and of the first snapshot do to the runtime being
\* opened: it is live, given back, or waits for its snapshot, which it does not begin
\* to do once the server closes.
LEMMA OpeningStep ==
    ASSUME IInv, NEW i \in Runtimes, NEW t \in RuntimeRecords, rt[i].state \in Opening,
           rt' = [rt EXCEPT ![i] = t], t.state \in {"snapshotting", "rejecting", "live", "failed"},
           t.operationCount = rt[i].operationCount, t.disposing = rt[i].disposing,
           t.ending = rt[i].ending, t.disposeFailed = rt[i].disposeFailed,
           t.state = "snapshotting" => ~Closing /\ t.held,
           t.state = "live" => rt[i].state = "snapshotting" /\ t.held,
           live' = IF t.state = "live" THEN i ELSE live,
           UNCHANGED <<stage, attached, opening, req, server>>
    PROVE  IInv'
<1> USE Numbers
<1>1. /\ opening = i /\ live = 0 /\ i \in Reqs /\ req[i].pc = "creating"
      /\ rt[i].disposing = "no" /\ ~rt[i].ending /\ i # 0
  BY DEF IInv, Typed, Opened, Opening
<1>2. /\ rt' \in [Runtimes -> RuntimeRecords] /\ rt'[i] = t /\ \A j \in Runtimes : j # i => rt'[j] = rt[j]
  BY DEF IInv, Typed
<1>3. Typed'
  BY <1>2 DEF IInv, Typed
<1>4. Counted'
  BY <1>2, CountKept DEF IInv, Typed
<1>5. ASSUME NEW s \in Reqs PROVE PlacedAs(s, req[s])'
  <2>1. PlacedAs(s, req[s]) /\ req[s] \in Commands
    BY DEF IInv, Typed
  <2>2. rt'[s].state = "none" <=> rt[s].state = "none"
    BY <1>2 DEF Opening
  <2>3. req[s].pc \in Serving => req[s].rt # i
    BY <2>1 DEF PlacedAs, Opening
  <2>4. req[s].pc \in Serving => rt'[req[s].rt] = rt[req[s].rt]
    BY <1>2, <2>1, <2>3 DEF PlacedAs, Commands
  <2> QED BY <2>1, <2>2, <2>4 DEF PlacedAs
<1>6. ASSUME NEW j \in Runtimes PROVE Opened(j)'
  <2>1. CASE j = i
    <3>1. t.state \in Opening => live' = 0
      BY <1>1 DEF Opening
    <3>2. t.state # "live" => live' # i
      BY <1>1
    <3> QED BY <1>1, <1>2, <2>1, <3>1, <3>2 DEF Opened
  <2>2. CASE j # i
    <3>1. Opened(j) /\ rt'[j] = rt[j] /\ rt[j].state \notin Opening /\ live' # j
      BY <1>1, <1>2, <2>2 DEF IInv, Opened
    <3>2. ~(rt[j].state = "live" /\ rt[j].held)
      BY <1>1, <3>1 DEF Opened
    <3> QED BY <3>1, <3>2 DEF Opened
  <2> QED BY <2>1, <2>2
<1>7. ASSUME NEW j \in Runtimes PROVE Spared(rt[j], Closing)'
  BY <1>2 DEF IInv, Spared, Closing
<1>8. Closes'
  <2>1. server.at \in {"draining", "disposing", "closed"} => t.state # "snapshotting"
    BY DEF Closing
  <2>2. server.at = "draining" => \A j \in Runtimes : rt'[j].state = "snapshotting" => server.awaits = j
    BY <1>2, <2>1 DEF IInv, Closes
  <2>3. server.at \in {"disposing", "closed"} => \A j \in Runtimes : rt'[j].state # "snapshotting"
    BY <1>2, <2>1 DEF IInv, Closes
  <2>4. server.at \in {"disposing", "closed"} => live' = live
    BY DEF IInv, Closes
  <2> QED BY <2>2, <2>3, <2>4 DEF IInv, Closes
<1> QED BY <1>3, <1>4, <1>5, <1>6, <1>7, <1>8 DEF IInv

\* The service answers.
LEMMA RuntimeAcquiredStep ==
    ASSUME IInv, NEW i \in Runtimes, NEW b \in BOOLEAN, RuntimeAcquired(i, b)
    PROVE  IInv'
<1> DEFINE t == [rt[i] EXCEPT !.state = IF Closing THEN "rejecting" ELSE "snapshotting",
                              !.held = TRUE, !.running = b]
<1>1. rt[i] \in RuntimeRecords /\ rt[i].state \in Opening /\ live' = live
  BY RuntimeFacts DEF RuntimeAcquired, Opening
<1>2. rt' = [rt EXCEPT ![i] = t]
  BY DEF RuntimeAcquired
<1>3. t \in RuntimeRecords
  BY <1>1 DEF RuntimeRecords, States, Opening
<1>4. /\ t.state = IF Closing THEN "rejecting" ELSE "snapshotting"
      /\ t.held = TRUE /\ t.operationCount = rt[i].operationCount /\ t.disposing = rt[i].disposing
      /\ t.ending = rt[i].ending /\ t.disposeFailed = rt[i].disposeFailed
  BY <1>1 DEF RuntimeRecords
<1> HIDE DEF t
<1> QED BY <1>1, <1>2, <1>3, <1>4, OpeningStep DEF RuntimeAcquired

\* createSession() or openSession() rejects, or the first snapshot fails.
LEMMA OpeningFailsStep ==
    ASSUME IInv, NEW i \in Runtimes, AcquireFails(i) \/ SnapshotFails(i)
    PROVE  IInv'
<1> DEFINE f == IF rt[i].state = "acquiring" THEN "failed" ELSE "rejecting"
           t == [rt[i] EXCEPT !.state = f]
<1>1. /\ rt[i] \in RuntimeRecords /\ rt[i].state \in Opening /\ live' = live
      /\ UNCHANGED <<stage, attached, opening, req, server>>
  BY RuntimeFacts DEF AcquireFails, SnapshotFails, Opening
<1>2. rt' = [rt EXCEPT ![i] = t]
  BY DEF AcquireFails, SnapshotFails
<1>3. t \in RuntimeRecords
  BY <1>1 DEF RuntimeRecords, States, Opening
<1>4. /\ t.state \in {"rejecting", "failed"}
      /\ t.operationCount = rt[i].operationCount /\ t.disposing = rt[i].disposing
      /\ t.ending = rt[i].ending /\ t.disposeFailed = rt[i].disposeFailed
  BY <1>1 DEF RuntimeRecords
<1> HIDE DEF t
<1> QED BY <1>1, <1>2, <1>3, <1>4, OpeningStep

\* The first snapshot: the session is live.
LEMMA BecomesLiveStep ==
    ASSUME IInv, NEW i \in Runtimes, BecomesLive(i)
    PROVE  IInv'
<1> DEFINE t == [rt[i] EXCEPT !.state = "live", !.phase = rt[i].running]
<1>1. rt[i] \in RuntimeRecords /\ rt[i].state = "snapshotting" /\ rt[i].held
  BY RuntimeFacts DEF BecomesLive, Opened
<1>2. rt' = [rt EXCEPT ![i] = t]
  BY DEF BecomesLive
<1>3. t \in RuntimeRecords
  BY <1>1 DEF RuntimeRecords, States, Opening
<1>4. /\ t.state = "live" /\ t.held = rt[i].held
      /\ t.operationCount = rt[i].operationCount /\ t.disposing = rt[i].disposing
      /\ t.ending = rt[i].ending /\ t.disposeFailed = rt[i].disposeFailed
  BY <1>1 DEF RuntimeRecords
<1> HIDE DEF t
<1> QED BY <1>1, <1>2, <1>3, <1>4, OpeningStep DEF BecomesLive, Opening

\* A runtime that never became live is given back, or cannot be.
LEMMA RejectedDisposedStep ==
    ASSUME IInv, NEW i \in Runtimes, NEW ok \in BOOLEAN, RejectedDisposed(i, ok)
    PROVE  IInv'
<1> DEFINE t == [rt[i] EXCEPT !.state = "failed", !.held = ~ok]
<1>1. rt[i] \in RuntimeRecords /\ rt[i].state \in Opening /\ live' = live
  BY RuntimeFacts DEF RejectedDisposed, Opening
<1>2. rt' = [rt EXCEPT ![i] = t]
  BY DEF RejectedDisposed
<1>3. t \in RuntimeRecords
  BY <1>1 DEF RuntimeRecords, States, Opening
<1>4. /\ t.state = "failed"
      /\ t.operationCount = rt[i].operationCount /\ t.disposing = rt[i].disposing
      /\ t.ending = rt[i].ending /\ t.disposeFailed = rt[i].disposeFailed
  BY <1>1 DEF RuntimeRecords
<1> HIDE DEF t
<1> QED BY <1>1, <1>2, <1>3, <1>4, OpeningStep DEF RejectedDisposed

-----------------------------------------------------------------------------
(* Attaching, detaching and operating *)

\* The fields of runtime i that the invariant speaks of are the same in t.
Alike(i, t) ==
    /\ t.state = rt[i].state /\ t.held = rt[i].held /\ t.operationCount = rt[i].operationCount
    /\ t.disposing = rt[i].disposing /\ t.disposeFailed = rt[i].disposeFailed

\* A change of the other fields of a runtime that exists.
LEMMA AlikeKeeps ==
    ASSUME IInv, NEW i \in Runtimes, NEW t, Alike(i, t), rt[i].state # "none",
           rt[i].state # "live" => t.ending = rt[i].ending
    PROVE  KeepsAs(i, t, Closing) /\ Spared(t, Closing)
BY RuntimeFacts DEF Alike, KeepsAs, Opened, Spared

\* The same, followed by maybeDispose().
LEMMA AlikeDisposes ==
    ASSUME IInv, NEW i \in Runtimes, NEW t \in RuntimeRecords, Alike(i, t), rt[i].state = "live"
    PROVE  /\ MaybeDispose(t) \in RuntimeRecords /\ KeepsAs(i, MaybeDispose(t), Closing)
           /\ MaybeDispose(t).operationCount = rt[i].operationCount
<1>1. Spared(t, Closing)
  BY AlikeKeeps
<1> QED BY <1>1, MaybeDisposeKeeps DEF Alike

\* attach().
LEMMA AttachLiveStep ==
    ASSUME IInv, NEW r \in Reqs, AttachLive(r)
    PROVE  IInv'
<1> DEFINE c == req[r].conn
           i == req[r].rt
<1>1. /\ req[r].pc = "attach" /\ i \in Runtimes /\ c \in Conns /\ rt[i].state = "live"
      /\ req[r] \in Commands /\ rt[i] \in RuntimeRecords /\ req[r].pc \notin Operating
      /\ UNCHANGED <<live, opening, server>>
  BY RequestFacts, RuntimeFacts DEF AttachLive, Serving, Operating
<1>2. CASE stage[c] = "ready"
  <2> DEFINE t == [rt[i] EXCEPT !.connections = @ \cup {c}]
             q == [req[r] EXCEPT !.pc = "snapshot"]
  <2>1. rt' = [rt EXCEPT ![i] = t] /\ req' = [req EXCEPT ![r] = q] /\ attached' = attached \cup {c}
    BY <1>2 DEF AttachLive, Go
  <2>2. t \in RuntimeRecords
    BY <1>1 DEF RuntimeRecords
  <2>3. Alike(i, t)
    BY <1>1 DEF Alike, RuntimeRecords
  <2>4. KeepsAs(i, t, Closing)
    BY <1>1, <2>3, AlikeKeeps
  <2>5. q \in Commands /\ q.pc \notin Operating /\ MovesTo(r, q)
    <3>1. q \in Commands /\ q.pc = "snapshot" /\ q.conn = c /\ q.rt = i
      BY <1>1 DEF Commands, Serving
    <3> HIDE DEF q
    <3> QED BY <1>1, <3>1, Numbers DEF Serving, Operating, MovesTo, PlacedAs
  <2>6. ConnsKept
    BY <1>1, <1>2, <2>1 DEF ConnsKept, IInv, Typed, Closes, AttachLive
  <2> HIDE DEF t, q, i
  <2> QED BY <1>1, <2>1, <2>2, <2>3, <2>4, <2>5, <2>6, RequestQuiet DEF Alike
<1>3. CASE stage[c] # "ready"
  <2>1. rt' = [rt EXCEPT ![i] = MaybeDispose(rt[i])] /\ req' = Leave(r, c, i, MaybeDispose(rt[i]))
    BY <1>3 DEF AttachLive
  <2>2. /\ MaybeDispose(rt[i]) \in RuntimeRecords /\ KeepsAs(i, MaybeDispose(rt[i]), Closing)
        /\ MaybeDispose(rt[i]).operationCount = rt[i].operationCount
    BY <1>1, AlikeDisposes DEF Alike
  <2>3. PICK q \in Commands : req' = [req EXCEPT ![r] = q] /\ q.pc \notin Operating /\ MovesTo(r, q)
    <3> DEFINE u == MaybeDispose(rt[i])
    <3>1. req[r].pc # "creating" /\ req' = Leave(r, c, i, u)
      BY <1>1, <2>1
    <3> HIDE DEF i, c, u
    <3> QED BY <1>1, <3>1, LeaveMoves
  <2>4. ConnsKept
    BY <1>3, ConnsSame DEF AttachLive
  <2> HIDE DEF i
  <2> QED BY <1>1, <2>1, <2>2, <2>3, <2>4, RequestQuiet
<1> QED BY <1>2, <1>3

\* The snapshot of an attach is taken, or fails.
LEMMA AttachEndsStep ==
    ASSUME IInv, NEW r \in Reqs, AttachEnds(r)
    PROVE  IInv'
<1> DEFINE i == req[r].rt
           t == [rt[i] EXCEPT !.phase = rt[i].running]
<1>1. /\ req[r].pc = "snapshot" /\ i \in Runtimes /\ rt[i].state = "live"
      /\ rt[i] \in RuntimeRecords /\ req[r].pc \notin Operating
      /\ UNCHANGED <<live, opening, server>>
  BY RequestFacts, RuntimeFacts DEF AttachEnds, Serving, Operating
<1>2. Answered \in Commands /\ Answered.pc \notin Operating /\ MovesTo(r, Answered)
  BY <1>1, AnswerMoves
<1>3. ConnsKept /\ req' = [req EXCEPT ![r] = Answered]
  BY ConnsSame DEF AttachEnds, Answer
<1>4. CASE rt' = [rt EXCEPT ![i].phase = rt[i].running]
  <2>1. t \in RuntimeRecords /\ rt' = [rt EXCEPT ![i] = t]
    BY <1>1, <1>4 DEF RuntimeRecords
  <2>2. Alike(i, t)
    BY <1>1 DEF Alike, RuntimeRecords
  <2>3. KeepsAs(i, t, Closing)
    BY <1>1, <2>2, AlikeKeeps
  <2> HIDE DEF t, i
  <2> QED BY <1>1, <1>2, <1>3, <2>1, <2>2, <2>3, RequestQuiet DEF Alike
<1>5. CASE rt' = rt
  <2> QED BY <1>1, <1>2, <1>3, <1>5, RequestAlone
<1> QED BY <1>4, <1>5 DEF AttachEnds

\* A detach command.
LEMMA DetachStep ==
    ASSUME IInv, NEW r \in Reqs, NEW c \in Conns, Detach(r, c)
    PROVE  IInv'
<1>1. /\ req[r].pc = "idle" /\ req[r].pc \notin Operating /\ UNCHANGED <<live, opening, server>>
      /\ req[r] \in Commands /\ rt[r].state = "none"
  BY RequestFacts DEF Detach, Operating, PlacedAs
<1>2. Answered \in Commands /\ Answered.pc \notin Operating /\ MovesTo(r, Answered)
  BY <1>1, AnswerMoves
<1>3. ConnsKept
  BY DEF Detach, ConnsKept, IInv, Typed, Closes
<1>4. CASE live = 0
  <2>1. rt' = rt /\ req' = [req EXCEPT ![r] = Answered]
    BY <1>4 DEF Detach, Answer
  <2> QED BY <1>1, <1>2, <1>3, <2>1, RequestAlone
<1>5. CASE live # 0
  <2> DEFINE t == [rt[live] EXCEPT !.connections = @ \ {c}]
             q == [pc |-> "detaching", conn |-> c, rt |-> live]
             m == IF rt[live].disposing # "no" \/ rt[live].disposeFailed THEN MaybeDispose(rt[live]) ELSE rt[live]
  <2>1. live \in Runtimes /\ rt[live] \in RuntimeRecords /\ rt[live].state = "live"
    BY <1>5 DEF IInv, Typed, Opened
  <2>2. t \in RuntimeRecords
    BY <2>1 DEF RuntimeRecords
  <2>3. Alike(live, t) /\ Alike(live, rt[live])
    BY <2>1 DEF Alike, RuntimeRecords
  <2>4. KeepsAs(live, t, Closing) /\ KeepsAs(live, rt[live], Closing)
    BY <2>1, <2>3, AlikeKeeps
  <2>5. q \in Commands /\ q.pc \notin Operating /\ MovesTo(r, q)
    BY <1>1, <1>5, <2>1 DEF Commands, Serving, Operating, MovesTo, PlacedAs
  <2>6. \/ rt' = [rt EXCEPT ![live] = m] /\ req' = Leave(r, c, live, m)
        \/ rt' = [rt EXCEPT ![live] = t] /\ req' = [req EXCEPT ![r] = q]
        \/ rt' = [rt EXCEPT ![live] = MaybeDispose(t)] /\ req' = Leave(r, c, live, MaybeDispose(t))
    BY <1>5 DEF Detach
  <2>7. /\ MaybeDispose(t) \in RuntimeRecords /\ KeepsAs(live, MaybeDispose(t), Closing)
        /\ MaybeDispose(t).operationCount = rt[live].operationCount
    BY <2>1, <2>2, <2>3, AlikeDisposes
  <2>8. m \in RuntimeRecords /\ KeepsAs(live, m, Closing) /\ m.operationCount = rt[live].operationCount
    BY <2>1, <2>3, <2>4, AlikeDisposes
  <2>9. t.operationCount = rt[live].operationCount
    BY <2>3 DEF Alike
  <2> HIDE DEF t, q, m
  <2>10. CASE rt' = [rt EXCEPT ![live] = m] /\ req' = Leave(r, c, live, m)
    <3>1. PICK p \in Commands : req' = [req EXCEPT ![r] = p] /\ p.pc \notin Operating /\ MovesTo(r, p)
      BY <1>1, <2>1, <2>10, LeaveMoves
    <3> QED BY <1>1, <1>3, <2>1, <2>8, <2>10, <3>1, RequestQuiet
  <2>11. CASE rt' = [rt EXCEPT ![live] = t] /\ req' = [req EXCEPT ![r] = q]
    BY <1>1, <1>3, <2>1, <2>2, <2>4, <2>5, <2>9, <2>11, RequestQuiet
  <2>12. CASE rt' = [rt EXCEPT ![live] = MaybeDispose(t)] /\ req' = Leave(r, c, live, MaybeDispose(t))
    <3>1. PICK p \in Commands : req' = [req EXCEPT ![r] = p] /\ p.pc \notin Operating /\ MovesTo(r, p)
      BY <1>1, <2>1, <2>12, LeaveMoves
    <3> QED BY <1>1, <1>3, <2>1, <2>7, <2>12, <3>1, RequestQuiet
  <2> QED BY <2>6, <2>10, <2>11, <2>12
<1> QED BY <1>4, <1>5

\* The others have been told that a connection detached, or could not be.
LEMMA DetachEndsStep ==
    ASSUME IInv, NEW r \in Reqs, DetachEnds(r)
    PROVE  IInv'
<1> DEFINE i == req[r].rt
           t == [rt[i] EXCEPT !.phase = rt[i].running]
<1>1. /\ req[r].pc = "detaching" /\ i \in Runtimes /\ rt[i].state = "live" /\ req[r].conn \in Conns
      /\ rt[i] \in RuntimeRecords /\ req[r].pc \notin Operating
      /\ UNCHANGED <<live, opening, server>>
  BY RequestFacts, RuntimeFacts DEF DetachEnds, Serving, Operating
<1>2. Answered \in Commands /\ Answered.pc \notin Operating /\ MovesTo(r, Answered)
  BY <1>1, AnswerMoves
<1>3. ConnsKept
  BY ConnsSame DEF DetachEnds
<1>4. CASE rt' = [rt EXCEPT ![i] = MaybeDispose(t)] /\ req' = Leave(r, req[r].conn, i, MaybeDispose(t))
  <2>1. t \in RuntimeRecords
    BY <1>1 DEF RuntimeRecords
  <2>2. Alike(i, t)
    BY <1>1 DEF Alike, RuntimeRecords
  <2> HIDE DEF t, i
  <2>3. /\ MaybeDispose(t) \in RuntimeRecords /\ KeepsAs(i, MaybeDispose(t), Closing)
        /\ MaybeDispose(t).operationCount = rt[i].operationCount
    BY <1>1, <2>1, <2>2, AlikeDisposes
  <2>4. PICK q \in Commands : req' = [req EXCEPT ![r] = q] /\ q.pc \notin Operating /\ MovesTo(r, q)
    <3> DEFINE u == MaybeDispose(t)
               c == req[r].conn
    <3>1. req[r].pc # "creating" /\ c \in Conns /\ req' = Leave(r, c, i, u)
      BY <1>1, <1>4
    <3> HIDE DEF c, u
    <3> QED BY <1>1, <3>1, LeaveMoves
  <2> QED BY <1>1, <1>3, <1>4, <2>3, <2>4, RequestQuiet
<1>5. CASE rt' = rt /\ req' = [req EXCEPT ![r] = Answered]
  BY <1>1, <1>2, <1>3, <1>5, RequestAlone
<1> QED BY <1>4, <1>5 DEF DetachEnds, Answer

\* An operation begins on the live runtime, which is not being disposed of.
LEMMA OperateStep ==
    ASSUME IInv, NEW r \in Reqs, NEW c \in Conns, Prompt(r, c) \/ Operate(r, c)
    PROVE  IInv'
<1> DEFINE t == rt'[live]
           q == req'[r]
<1>1. /\ req[r].pc = "idle" /\ req[r].pc \notin Operating /\ UNCHANGED <<live, opening, server, stage, attached>>
      /\ req[r] \in Commands /\ rt[r].state = "none" /\ RequireAttached(c)
  BY RequestFacts DEF Prompt, Operate, Operating, PlacedAs
<1>2. /\ live \in Runtimes /\ rt[live] \in RuntimeRecords /\ rt[live].state = "live" /\ live # 0
      /\ rt[live].disposing = "no" /\ ~rt[live].disposeFailed
  BY <1>1 DEF RequireAttached, IInv, Typed, Opened
<1>3. /\ rt' = [rt EXCEPT ![live] = t] /\ t \in RuntimeRecords
      /\ t.state = rt[live].state /\ t.held = rt[live].held /\ t.operationCount = rt[live].operationCount + 1
      /\ t.disposing = rt[live].disposing /\ t.disposeFailed = rt[live].disposeFailed
  <2>1. rt \in [Runtimes -> RuntimeRecords]
    BY DEF IInv, Typed
  <2>2. CASE Prompt(r, c)
    <3> DEFINE u == [rt[live] EXCEPT !.operationCount = rt[live].operationCount + 1, !.running = TRUE]
    <3>1. t = u /\ rt' = [rt EXCEPT ![live] = t]
      BY <1>2, <2>1, <2>2 DEF Prompt
    <3>2. rt[live].operationCount \in Nat /\ rt[live].operationCount + 1 \in Nat
      BY <1>2 DEF RuntimeRecords
    <3>3. u \in RuntimeRecords
      BY <1>2, <3>2 DEF RuntimeRecords
    <3>4. /\ u.state = rt[live].state /\ u.held = rt[live].held /\ u.operationCount = rt[live].operationCount + 1
          /\ u.disposing = rt[live].disposing /\ u.disposeFailed = rt[live].disposeFailed
      BY <1>2 DEF RuntimeRecords
    <3> HIDE DEF u
    <3> QED BY <3>1, <3>3, <3>4
  <2>3. CASE Operate(r, c)
    <3>1. t = [rt[live] EXCEPT !.operationCount = @ + 1] /\ rt' = [rt EXCEPT ![live] = t]
      BY <1>2, <2>1, <2>3 DEF Operate
    <3> QED BY <1>2, <3>1 DEF RuntimeRecords
  <2> QED BY <2>2, <2>3
<1>4. /\ req' = [req EXCEPT ![r] = q] /\ q \in Commands /\ q.pc \in Operating /\ q.rt = live /\ q.conn \in Conns
  <2>1. req \in [Reqs -> Commands]
    BY DEF IInv, Typed
  <2>2. PICK pc \in {"operating", "prompting"} :
            req' = [req EXCEPT ![r] = [pc |-> pc, conn |-> c, rt |-> live]]
    BY DEF Prompt, Operate
  <2>3. q = [pc |-> pc, conn |-> c, rt |-> live] /\ req' = [req EXCEPT ![r] = q]
    BY <2>1, <2>2
  <2> QED BY <1>2, <2>2, <2>3 DEF Commands, Serving, Operating
<1>5. Closing' = Closing /\ ConnsKept
  BY <1>1, ConnsSame DEF Closing
<1> HIDE DEF t, q
<1>6. KeepsAs(live, t, Closing)
  BY <1>2, <1>3 DEF KeepsAs, Spared
<1>7. MovesTo(r, q)
  BY <1>1, <1>2, <1>4 DEF MovesTo, PlacedAs, Serving, Operating
<1>8. /\ rt' \in [Runtimes -> RuntimeRecords] /\ rt'[live] = t
      /\ \A j \in Runtimes : KeepsAs(j, rt'[j], Closing') /\ rt'[j].state = rt[j].state
      /\ \A j \in Runtimes : j # live => rt'[j] = rt[j]
  BY <1>2, <1>3, <1>5, <1>6, OneRuntime
<1>9. /\ req' \in [Reqs -> Commands] /\ req'[r] = q
      /\ \A s \in Reqs : MovesTo(s, req'[s])
      /\ \A s \in Reqs : s # r => req'[s] = req[s]
  BY <1>4, <1>7, OneRequest
<1>10. Counted'
  BY <1>1, <1>2, <1>3, <1>4, <1>8, <1>9, CountBegins
<1>11. Closes' /\ attached' \subseteq Conns
  BY <1>1, <1>5, <1>8, ClosesKept DEF ConnsKept
<1>12. Typed'
  BY <1>1, <1>8, <1>9, <1>11 DEF IInv, Typed
<1> QED BY <1>1, <1>8, <1>9, <1>10, <1>11, <1>12, QuietStep

\* An operation ends; finally the session may have become useless.
LEMMA OperationEndsStep ==
    ASSUME IInv, NEW r \in Reqs, OperationEnds(r)
    PROVE  IInv'
<1> DEFINE i == req[r].rt
<1>1. /\ req[r].pc \in Operating /\ i \in Runtimes /\ rt[i].state = "live"
      /\ rt[i] \in RuntimeRecords /\ req[r].pc # "creating"
      /\ UNCHANGED <<live, opening, server, stage, attached>>
  BY RequestFacts, RuntimeFacts DEF OperationEnds, Serving, Operating
<1>2. Answered \in Commands /\ Answered.pc \notin Operating /\ MovesTo(r, Answered)
  BY <1>1, AnswerMoves
<1>3. ConnsKept /\ req' = [req EXCEPT ![r] = Answered] /\ Closing' = Closing
  BY <1>1, ConnsSame DEF OperationEnds, Answer, Closing
<1>4. rt[i].operationCount \in Nat /\ rt[i].operationCount > 0
  BY <1>1, CountPositive DEF RuntimeRecords
<1> DEFINE After(u) == [rt[i] EXCEPT !.operationCount = rt[i].operationCount - 1, !.phase = u]
<1>5. PICK u \in BOOLEAN : rt' = [rt EXCEPT ![i] = MaybeDispose(After(u))]
  <2>1. CASE rt' = [rt EXCEPT ![i] = MaybeDispose([rt[i] EXCEPT !.operationCount = @ - 1, !.phase = rt[i].running])]
    <3>1. rt[i].running \in BOOLEAN
      BY <1>1 DEF RuntimeRecords
    <3> DEFINE a == [rt[i] EXCEPT !.operationCount = @ - 1, !.phase = rt[i].running]
    <3>2. rt' = [rt EXCEPT ![i] = MaybeDispose(a)]
      BY <2>1
    <3>3. a = After(rt[i].running)
      BY <1>1 DEF RuntimeRecords
    <3> HIDE DEF a, After
    <3> QED BY <3>1, <3>2, <3>3
  <2>2. CASE rt' = [rt EXCEPT ![i] = MaybeDispose([rt[i] EXCEPT !.operationCount = @ - 1])]
    <3>1. rt[i].phase \in BOOLEAN
      BY <1>1 DEF RuntimeRecords
    <3> DEFINE a == [rt[i] EXCEPT !.operationCount = @ - 1]
    <3>2. rt' = [rt EXCEPT ![i] = MaybeDispose(a)]
      BY <2>2
    <3>3. a = After(rt[i].phase)
      BY <1>1 DEF RuntimeRecords
    <3> HIDE DEF a, After
    <3> QED BY <3>1, <3>2, <3>3
  <2> QED BY <2>1, <2>2 DEF OperationEnds
<1> DEFINE t == After(u)
           m == MaybeDispose(t)
<1>6. t \in RuntimeRecords
  <2>1. rt[i].operationCount - 1 \in Nat
    BY <1>4
  <2> QED BY <1>1, <2>1 DEF RuntimeRecords
<1>7. /\ t.state = rt[i].state /\ t.held = rt[i].held /\ t.operationCount = rt[i].operationCount - 1
      /\ t.disposing = rt[i].disposing /\ t.disposeFailed = rt[i].disposeFailed
  BY <1>1 DEF RuntimeRecords
<1>8. rt' = [rt EXCEPT ![i] = m]
  BY <1>5
<1> HIDE DEF t, i
<1>9. Spared(t, Closing)
  BY <1>1, <1>4, <1>7, RuntimeFacts DEF Spared
<1>10. m \in RuntimeRecords /\ KeepsAs(i, m, Closing) /\ m.operationCount = rt[i].operationCount - 1
  BY <1>1, <1>6, <1>7, <1>9, MaybeDisposeKeeps
<1> HIDE DEF m
<1>11. /\ rt' \in [Runtimes -> RuntimeRecords] /\ rt'[i] = m
       /\ \A j \in Runtimes : KeepsAs(j, rt'[j], Closing') /\ rt'[j].state = rt[j].state
       /\ \A j \in Runtimes : j # i => rt'[j] = rt[j]
  BY <1>1, <1>3, <1>8, <1>10, OneRuntime
<1>12. /\ req' \in [Reqs -> Commands] /\ req'[r] = Answered
       /\ \A s \in Reqs : MovesTo(s, req'[s])
       /\ \A s \in Reqs : s # r => req'[s] = req[s]
  BY <1>2, <1>3, OneRequest
<1>13. Counted'
  BY <1>1, <1>2, <1>10, <1>11, <1>12, CountEnds DEF i
<1>14. Closes' /\ attached' \subseteq Conns
  BY <1>1, <1>3, <1>11, ClosesKept DEF ConnsKept
<1>15. Typed'
  BY <1>1, <1>11, <1>12, <1>14 DEF IInv, Typed
<1> QED BY <1>1, <1>11, <1>12, <1>13, <1>14, <1>15, QuietStep

-----------------------------------------------------------------------------
(* What the runtime does by itself, and disposal *)

\* A run ends: its prompts go on, still counted, and the session may have become useless.
LEMMA RunEndsStep ==
    ASSUME IInv, NEW i \in Runtimes, RunEnds(i)
    PROVE  IInv'
<1> DEFINE t == [rt[i] EXCEPT !.running = FALSE]
           v == [t EXCEPT !.refresh = TRUE]
           m == Notified(i, t)
<1>1. /\ rt[i] \in RuntimeRecords /\ rt[i].held /\ rt[i].running /\ rt[i].state # "none"
      /\ UNCHANGED <<stage, attached, live, opening, server>>
  BY RuntimeFacts DEF RunEnds, Opened, NoRuntime
<1>2. t \in RuntimeRecords /\ v \in RuntimeRecords
  BY <1>1 DEF RuntimeRecords
<1>3. Alike(i, t) /\ t.ending = rt[i].ending
  BY <1>1 DEF Alike, RuntimeRecords
<1>4. Alike(i, v)
  BY <1>1 DEF Alike, RuntimeRecords
<1>5. rt' = [rt EXCEPT ![i] = m]
  BY DEF RunEnds
<1>6. m = IF Subscribed(i) THEN MaybeDispose(v) ELSE t
  BY DEF Notified
<1> HIDE DEF t, v, m
<1>7. m \in RuntimeRecords /\ KeepsAs(i, m, Closing) /\ m.operationCount = rt[i].operationCount
  <2>1. CASE Subscribed(i)
    BY <1>2, <1>4, <1>6, <2>1, AlikeDisposes DEF Subscribed
  <2>2. CASE ~Subscribed(i)
    BY <1>1, <1>2, <1>3, <1>6, <2>2, AlikeKeeps DEF Alike
  <2> QED BY <2>1, <2>2
<1>8. Closing' = Closing /\ ConnsKept
  BY <1>1, ConnsSame DEF Closing
<1>9. /\ rt' \in [Runtimes -> RuntimeRecords] /\ rt'[i] = m
      /\ \A j \in Runtimes : KeepsAs(j, rt'[j], Closing') /\ rt'[j].state = rt[j].state
      /\ \A j \in Runtimes : j # i => rt'[j] = rt[j]
  BY <1>5, <1>7, <1>8, OneRuntime
<1>10. /\ req' \in [Reqs -> Commands]
       /\ \A r \in Reqs : /\ req'[r].rt = req[r].rt /\ req'[r].conn = req[r].conn
                          /\ \/ req'[r].pc = req[r].pc
                             \/ req[r].pc = "prompting" /\ req'[r].pc = "ran"
  <2>1. req \in [Reqs -> Commands]
    BY DEF IInv, Typed
  <2>2. ASSUME NEW r \in Reqs
        PROVE  LET q == [req[r] EXCEPT !.pc = "ran"]
               IN  q \in Commands /\ q.rt = req[r].rt /\ q.conn = req[r].conn /\ q.pc = "ran"
    BY <2>1 DEF Commands, Serving, Operating
  <2> QED BY <2>1, <2>2 DEF RunEnds
<1>11. ASSUME NEW r \in Reqs PROVE MovesTo(r, req'[r])
  BY <1>10, RequestFacts DEF MovesTo, PlacedAs, Serving, Operating
<1>12. Counted'
  <2>1. \A j \in Runtimes : rt'[j].operationCount = rt[j].operationCount
    BY <1>7, <1>9
  <2>2. \A r \in Reqs : /\ req'[r].pc \in Operating <=> req[r].pc \in Operating
                        /\ req[r].pc \in Operating => req'[r].rt = req[r].rt
    BY <1>10 DEF Operating
  <2> QED BY <1>10, <2>1, <2>2, CountKept
<1>13. Closes' /\ attached' \subseteq Conns
  BY <1>1, <1>8, <1>9, ClosesKept DEF ConnsKept
<1>14. Typed'
  BY <1>1, <1>9, <1>10, <1>13 DEF IInv, Typed
<1> QED BY <1>1, <1>9, <1>11, <1>12, <1>13, <1>14, QuietStep

\* The snapshot of an event is taken.
LEMMA RefreshedStep ==
    ASSUME IInv, NEW i \in Runtimes, Refreshed(i)
    PROVE  IInv'
<1> DEFINE t == [rt[i] EXCEPT !.refresh = FALSE, !.phase = rt[i].running]
<1>1. rt[i] \in RuntimeRecords /\ rt[i].state # "none" /\ UNCHANGED <<live, opening, server, req>> /\ ConnsKept
  BY RuntimeFacts, ConnsSame DEF Refreshed, Opened, NoRuntime
<1>2. rt' = [rt EXCEPT ![i] = t] /\ t \in RuntimeRecords
  BY <1>1 DEF Refreshed, RuntimeRecords
<1>3. Alike(i, t) /\ t.ending = rt[i].ending
  BY <1>1 DEF Alike, RuntimeRecords
<1> HIDE DEF t
<1> QED BY <1>1, <1>2, <1>3, AlikeKeeps, RuntimeQuiet DEF Alike

\* The runtime reports an error: its connections are being closed, none is gone yet.
LEMMA TerminateStep ==
    ASSUME IInv, NEW i \in Runtimes, Terminate(i)
    PROVE  IInv'
<1> DEFINE t == [rt[i] EXCEPT !.terminal = TRUE, !.ending = TRUE]
<1>1. rt[i] \in RuntimeRecords /\ rt[i].state = "live" /\ UNCHANGED <<live, opening, server, req>>
  BY RuntimeFacts DEF Terminate, Subscribed
<1>2. rt' = [rt EXCEPT ![i] = t] /\ t \in RuntimeRecords
  BY <1>1 DEF Terminate, RuntimeRecords
<1>3. Alike(i, t)
  BY <1>1 DEF Alike, RuntimeRecords
<1>4. ConnsKept
  BY DEF Terminate, ConnsKept, IInv, Typed, Closes, Stages
<1> HIDE DEF t
<1> QED BY <1>1, <1>2, <1>3, <1>4, AlikeKeeps, RuntimeQuiet DEF Alike

\* The connections it closed are gone.
LEMMA TerminateEndsStep ==
    ASSUME IInv, NEW i \in Runtimes, TerminateEnds(i)
    PROVE  IInv'
<1> DEFINE t == [rt[i] EXCEPT !.ending = FALSE]
<1>1. rt[i] \in RuntimeRecords /\ rt[i].state = "live" /\ UNCHANGED <<live, opening, server, req>> /\ ConnsKept
  BY RuntimeFacts, ConnsSame DEF TerminateEnds, Opened
<1>2. t \in RuntimeRecords /\ rt' = [rt EXCEPT ![i] = MaybeDispose(t)]
  BY <1>1 DEF TerminateEnds, RuntimeRecords
<1>3. Alike(i, t)
  BY <1>1 DEF Alike, RuntimeRecords
<1> HIDE DEF t
<1>4. /\ MaybeDispose(t) \in RuntimeRecords /\ KeepsAs(i, MaybeDispose(t), Closing)
      /\ MaybeDispose(t).operationCount = rt[i].operationCount
  BY <1>1, <1>2, <1>3, AlikeDisposes
<1> QED BY <1>1, <1>2, <1>4, RuntimeQuiet

\* A connection is gone: it is detached from the live session.
LEMMA DisconnectStep ==
    ASSUME IInv, NEW c \in Conns, Disconnect(c)
    PROVE  IInv'
<1>1. UNCHANGED <<live, opening, server, req>> /\ ConnsKept
  BY DEF Disconnect, ConnsKept, IInv, Typed, Closes, Stages
<1>2. CASE c \in attached /\ live # 0
  <2> DEFINE t == [rt[live] EXCEPT !.connections = @ \ {c}]
  <2>1. live \in Runtimes /\ rt[live] \in RuntimeRecords /\ rt[live].state = "live"
    BY <1>2 DEF IInv, Typed, Opened
  <2>2. t \in RuntimeRecords /\ rt' = [rt EXCEPT ![live] = MaybeDispose(t)]
    BY <1>2, <2>1 DEF Disconnect, RuntimeRecords
  <2>3. Alike(live, t)
    BY <2>1 DEF Alike, RuntimeRecords
  <2> HIDE DEF t
  <2>4. /\ MaybeDispose(t) \in RuntimeRecords /\ KeepsAs(live, MaybeDispose(t), Closing)
        /\ MaybeDispose(t).operationCount = rt[live].operationCount
    BY <2>1, <2>2, <2>3, AlikeDisposes
  <2> QED BY <1>1, <2>1, <2>2, <2>4, RuntimeQuiet
<1>3. CASE ~(c \in attached /\ live # 0)
  <2>1. First \in Runtimes /\ rt[First] \in RuntimeRecords /\ rt' = [rt EXCEPT ![First] = rt[First]]
    BY <1>3, Numbers DEF Disconnect, IInv, Typed
  <2>2. KeepsAs(First, rt[First], Closing)
    BY <2>1, Same DEF Closing
  <2> QED BY <1>1, <2>1, <2>2, RuntimeQuiet
<1> QED BY <1>2, <1>3

\* A connection broke the protocol.
LEMMA FailProtocolStep ==
    ASSUME IInv, NEW c \in Conns, FailProtocol(c)
    PROVE  IInv'
<1>1. UNCHANGED <<live, opening, server, req, rt>> /\ ConnsKept
  BY DEF FailProtocol, ConnsKept, IInv, Typed, Closes, Stages
<1>2. First \in Runtimes /\ rt[First] \in RuntimeRecords /\ rt' = [rt EXCEPT ![First] = rt[First]]
  BY <1>1, Numbers DEF IInv, Typed
<1>3. KeepsAs(First, rt[First], Closing)
  BY <1>2, Same DEF Closing
<1> QED BY <1>1, <1>2, <1>3, RuntimeQuiet

\* runtime.dispose() is called.
LEMMA DisposeCalledStep ==
    ASSUME IInv, NEW i \in Runtimes, DisposeCalled(i)
    PROVE  IInv'
<1> DEFINE t == [rt[i] EXCEPT !.disposing = "called"]
<1>1. /\ rt[i] \in RuntimeRecords /\ rt[i].state = "live" /\ rt[i].disposing = "queued" /\ Spared(rt[i], Closing)
      /\ UNCHANGED <<live, opening, server, req>> /\ ConnsKept
  BY RuntimeFacts, ConnsSame DEF DisposeCalled, Opened
<1>2. rt' = [rt EXCEPT ![i] = t] /\ t \in RuntimeRecords
  BY <1>1 DEF DisposeCalled, RuntimeRecords
<1>3. /\ t.state = rt[i].state /\ t.held = rt[i].held /\ t.disposing = "called"
      /\ t.operationCount = rt[i].operationCount /\ t.disposeFailed = rt[i].disposeFailed
  BY <1>1 DEF RuntimeRecords
<1> HIDE DEF t
<1>4. KeepsAs(i, t, Closing)
  BY <1>1, <1>3 DEF KeepsAs, Spared
<1> QED BY <1>1, <1>2, <1>3, <1>4, RuntimeQuiet

\* Those that await a disposal end with it, look again or are refused; no operation is among them.
LEMMA AwaitingMoves ==
    ASSUME IInv, NEW i \in Runtimes, NEW ok \in BOOLEAN, req' = Awaiting(i, ok)
    PROVE  /\ req' \in [Reqs -> Commands]
           /\ \A r \in Reqs : MovesTo(r, req'[r])
           /\ \A r \in Reqs : /\ req'[r].pc \in Operating <=> req[r].pc \in Operating
                              /\ req[r].pc \in Operating => req'[r].rt = req[r].rt
<1>1. ASSUME NEW r \in Reqs
      PROVE  /\ req'[r] \in Commands /\ MovesTo(r, req'[r])
             /\ req'[r].pc \in Operating <=> req[r].pc \in Operating
             /\ req[r].pc \in Operating => req'[r].rt = req[r].rt
  <2>1. req[r] \in Commands /\ PlacedAs(r, req[r]) /\ MovesTo(r, req[r])
    BY RequestFacts, Same
  <2>2. CASE ~(req[r].pc \in {"retry", "leaving"} /\ req[r].rt = i)
    BY <2>1, <2>2 DEF Awaiting
  <2>3. CASE req[r].pc = "retry" /\ req[r].rt = i /\ ok
    <3> DEFINE q == [req[r] EXCEPT !.pc = "acquire"]
    <3>1. q \in Commands /\ q.pc = "acquire" /\ q.conn = req[r].conn
      BY <2>1 DEF Commands
    <3>2. req'[r] = q
      BY <2>3 DEF Awaiting
    <3> HIDE DEF q
    <3>3. MovesTo(r, q)
      BY <2>1, <2>3, <3>1 DEF MovesTo, PlacedAs, Serving, Operating
    <3> QED BY <2>3, <3>1, <3>2, <3>3 DEF Operating
  <2>4. CASE req[r].pc \in {"retry", "leaving"} /\ req[r].rt = i /\ ~(ok /\ req[r].pc = "retry")
    <3>1. req'[r] = Answered
      BY <2>4 DEF Awaiting
    <3> QED BY <2>4, <3>1, AnswerMoves DEF Operating
  <2> QED BY <2>2, <2>3, <2>4
<1>2. req' = [r \in Reqs |-> req'[r]]
  BY DEF Awaiting
<1> QED BY <1>1, <1>2

\* runtime.dispose() settles: the runtime is gone and nothing is live, or it is kept.
LEMMA DisposedStep ==
    ASSUME IInv, NEW i \in Runtimes, NEW ok \in BOOLEAN, Disposed(i, ok)
    PROVE  IInv'
<1> USE Numbers
<1>1. /\ rt[i] \in RuntimeRecords /\ Spared(rt[i], Closing) /\ rt[i].disposing = "called" /\ rt[i].state = "live"
      /\ live = i /\ stage' = stage /\ attached' = attached /\ opening' = opening
      /\ \A j \in Runtimes : rt[j].state \notin Opening
  BY RuntimeFacts DEF Disposed, Opened
<1>2. /\ req' \in [Reqs -> Commands]
      /\ \A r \in Reqs : MovesTo(r, req'[r])
      /\ \A r \in Reqs : /\ req'[r].pc \in Operating <=> req[r].pc \in Operating
                         /\ req[r].pc \in Operating => req'[r].rt = req[r].rt
  BY AwaitingMoves DEF Disposed
<1>3. /\ server' \in Servers /\ server'.at # "disposing" /\ (Closing => Closing')
      /\ server'.at = "draining" => server' = server
      /\ server'.at = "closed" => (ok /\ server.at = "disposing") \/ server.at = "closed"
      /\ server'.at \in {"draining", "closed"} => server.at \in {"draining", "disposing", "closed"}
  <2>1. server \in Servers /\ (server.at = "disposing" => server.awaits = i)
    BY <1>1 DEF IInv, Typed, Closes
  <2>2. CASE server.at = "disposing"
    <3> DEFINE a == IF ok /\ ~server.listenerFailed THEN "closed" ELSE "failed"
    <3>1. server' = [server EXCEPT !.at = a, !.awaits = 0]
      BY <2>1, <2>2 DEF Disposed, AfterDisposal, Closed
    <3>2. server' \in Servers /\ server'.at = a
      BY <2>1, <3>1 DEF Servers
    <3> QED BY <2>2, <3>2 DEF Closing
  <2>3. CASE server.at # "disposing"
    <3>1. server' = server
      BY <2>3 DEF Disposed, AfterDisposal
    <3> QED BY <2>1, <2>3, <3>1 DEF Closing
  <2> QED BY <2>2, <2>3
<1>4. server.at # "closed"
  BY <1>1 DEF IInv, Closes
<1>5. CASE ok
  <2> DEFINE t == Gone(rt[i])
  <2>1. rt' = [rt EXCEPT ![i] = t] /\ live' = 0
    BY <1>1, <1>5 DEF Disposed
  <2>2. /\ t \in RuntimeRecords /\ t.state = "live" /\ ~t.held /\ t.disposing = "done"
        /\ t.operationCount = rt[i].operationCount
    <3>1. NoRuntime \in RuntimeRecords /\ ~NoRuntime.held /\ rt[i].operationCount \in Nat
      BY <1>1 DEF NoRuntime, RuntimeRecords, States
    <3>2. t \in RuntimeRecords /\ t.held = NoRuntime.held
      BY <3>1 DEF Gone, RuntimeRecords, States
    <3>3. t.state = "live" /\ t.disposing = "done" /\ t.operationCount = rt[i].operationCount
      BY <3>1 DEF Gone, RuntimeRecords
    <3> QED BY <3>1, <3>2, <3>3
  <2> HIDE DEF t
  <2>3. rt' \in [Runtimes -> RuntimeRecords] /\ rt'[i] = t /\ \A j \in Runtimes : j # i => rt'[j] = rt[j]
    BY <2>1, <2>2 DEF IInv, Typed
  <2>4. Typed'
    BY <1>1, <1>2, <1>3, <2>1, <2>3 DEF IInv, Typed
  <2>5. Counted'
    <3>1. \A j \in Runtimes : rt'[j].operationCount = rt[j].operationCount
      BY <2>2, <2>3
    <3> QED BY <1>2, <3>1, CountKept
  <2>6. ASSUME NEW r \in Reqs PROVE PlacedAs(r, req[r])'
    <3>1. MovesTo(r, req'[r]) /\ req'[r] \in Commands
      BY <1>2
    <3>2. rt'[r].state = rt[r].state
      BY <1>1, <2>2, <2>3
    <3>3. req'[r].pc \in Serving => rt'[req'[r].rt].state = rt[req'[r].rt].state
      BY <1>1, <2>2, <2>3, <3>1 DEF MovesTo, PlacedAs, Commands
    <3> QED BY <3>1, <3>2, <3>3 DEF MovesTo, PlacedAs
  <2>7. ASSUME NEW j \in Runtimes PROVE Opened(j)'
    <3>1. CASE j = i
      BY <2>1, <2>2, <2>3, <3>1 DEF Opened, Opening
    <3>2. CASE j # i
      <4>1. Opened(j) /\ rt'[j] = rt[j] /\ rt[j].state \notin Opening /\ live # j /\ live' # j
        BY <1>1, <2>1, <2>3, <3>2 DEF IInv
      <4> QED BY <4>1 DEF Opened
    <3> QED BY <3>1, <3>2
  <2>8. ASSUME NEW j \in Runtimes PROVE Spared(rt[j], Closing)'
    BY <1>1, <1>3, <2>2, <2>3 DEF IInv, Spared
  <2>9. \A j \in Runtimes : rt'[j].state # "snapshotting"
    BY <1>1, <2>2, <2>3 DEF Opening
  <2>10. Closes'
    BY <1>1, <1>3, <2>1, <2>9 DEF IInv, Closes
  <2> QED BY <2>4, <2>5, <2>6, <2>7, <2>8, <2>10 DEF IInv
<1>6. CASE ~ok
  <2> DEFINE t == [rt[i] EXCEPT !.disposing = "no", !.disposeFailed = TRUE]
  <2>1. rt' = [rt EXCEPT ![i] = t] /\ live' = live
    BY <1>6 DEF Disposed
  <2>2. t \in RuntimeRecords
    BY <1>1 DEF RuntimeRecords
  <2>3. /\ t.state = "live" /\ t.held = rt[i].held /\ t.disposing = "no"
        /\ t.operationCount = rt[i].operationCount
    BY <1>1 DEF RuntimeRecords
  <2> HIDE DEF t
  <2>4. KeepsAs(i, t, Closing')
    BY <1>1, <1>3, <2>3 DEF KeepsAs, Spared
  <2>5. /\ rt' \in [Runtimes -> RuntimeRecords] /\ rt'[i] = t
        /\ \A j \in Runtimes : KeepsAs(j, rt'[j], Closing') /\ rt'[j].state = rt[j].state
        /\ \A j \in Runtimes : j # i => rt'[j] = rt[j]
    BY <1>3, <2>1, <2>2, <2>4, OneRuntime
  <2>6. Counted'
    <3>1. \A j \in Runtimes : rt'[j].operationCount = rt[j].operationCount
      BY <2>3, <2>5
    <3> QED BY <1>2, <3>1, CountKept
  <2>7. Typed'
    BY <1>1, <1>2, <1>3, <2>1, <2>5 DEF IInv, Typed
  <2>8. \A j \in Runtimes : rt'[j].state # "snapshotting"
    BY <1>1, <2>5 DEF Opening
  <2>9. Closes'
    BY <1>1, <1>3, <1>4, <1>6, <2>8 DEF IInv, Closes
  <2> QED BY <1>1, <1>2, <2>1, <2>5, <2>6, <2>7, <2>9, QuietStep
<1> QED BY <1>5, <1>6

-----------------------------------------------------------------------------
(* close() *)

\* Steps of close() that change no runtime.
LEMMA CloseQuiet ==
    ASSUME IInv, server' \in Servers, Closing', Closes', stage' \in [Conns -> Stages],
           UNCHANGED <<attached, live, opening, rt, req>>
    PROVE  IInv'
<1>1. \A j \in Runtimes : KeepsAs(j, rt'[j], Closing')
  BY NoRuntimeChanges
<1>2. \A r \in Reqs : MovesTo(r, req'[r])
  BY Same
<1>3. Counted'
  BY CountKept DEF IInv, Typed
<1>4. Typed'
  BY DEF IInv, Typed
<1> QED BY <1>1, <1>2, <1>3, <1>4, QuietStep

\* The call, and the connections it closes.
LEMMA CloseBegins ==
    ASSUME IInv, Close \/ \E b \in BOOLEAN : CloseConnections(b)
    PROVE  IInv'
<1>1. CASE Close
  <2>1. server' \in Servers /\ server'.at = "sealed"
    BY <1>1 DEF Close, Servers, IInv, Typed
  <2>2. Closes' /\ stage' \in [Conns -> Stages]
    BY <1>1, <2>1 DEF Close, IInv, Typed, Closes
  <2> QED BY <1>1, <2>1, <2>2, CloseQuiet DEF Close, Closing
<1>2. ASSUME NEW b \in BOOLEAN, CloseConnections(b) PROVE IInv'
  <2>1. server' \in Servers /\ server'.at = "disconnecting"
    BY <1>2 DEF CloseConnections, Servers, IInv, Typed
  <2>2. Closes' /\ stage' \in [Conns -> Stages]
    BY <1>2, <2>1 DEF CloseConnections, IInv, Typed, Closes, Stages
  <2> QED BY <1>2, <2>1, <2>2, CloseQuiet DEF CloseConnections, Closing
<1> QED BY <1>1, <1>2

\* The connections are gone: what is being opened is waited for.
LEMMA CloseSessionsStep ==
    ASSUME IInv, CloseSessions
    PROVE  IInv'
<1>1. server' \in Servers /\ server'.at = "draining" /\ server'.awaits = opening
  BY Numbers DEF CloseSessions, Servers, IInv, Typed
<1>2. \A i \in Runtimes : rt[i].state = "snapshotting" => opening = i
  BY DEF IInv, Opened, Opening
<1>3. Closes' /\ stage' \in [Conns -> Stages]
  BY <1>1, <1>2 DEF CloseSessions, IInv, Typed, Closes
<1> QED BY <1>1, <1>3, CloseQuiet DEF CloseSessions, Closing

\* The live session is disposed of, in use or not.
LEMMA CloseDisposesStep ==
    ASSUME IInv, CloseDisposes
    PROVE  IInv'
<1> USE Numbers
<1>1. \A i \in Runtimes : rt[i].state # "snapshotting"
  <2>1. ASSUME NEW i \in Runtimes, rt[i].state = "snapshotting" PROVE FALSE
    BY <2>1 DEF IInv, Closes, CloseDisposes
  <2> QED BY <2>1
<1>2. CASE live = 0
  <2> DEFINE a == IF ~server.listenerFailed THEN "closed" ELSE "failed"
  <2>1. server' = [server EXCEPT !.at = a, !.awaits = 0]
    BY <1>2 DEF CloseDisposes, Closed
  <2>2. server' \in Servers /\ server'.at = a
    BY <2>1 DEF Servers, IInv, Typed
  <2>3. Closes' /\ stage' \in [Conns -> Stages]
    BY <1>1, <1>2, <2>2 DEF CloseDisposes, IInv, Typed, Closes
  <2> QED BY <1>2, <2>2, <2>3, CloseQuiet DEF CloseDisposes, Closing
<1>3. CASE live # 0
  <2>1. /\ live \in Runtimes /\ rt[live] \in RuntimeRecords /\ rt[live].state = "live"
        /\ UNCHANGED <<stage, attached, live, opening, req>>
    BY <1>3 DEF IInv, Typed, Opened, CloseDisposes
  <2>2. server' \in Servers /\ server'.at = "disposing" /\ server'.awaits = live /\ Closing' = TRUE
    <3>1. server' = [server EXCEPT !.at = "disposing", !.awaits = live] /\ server \in Servers
      BY <1>3 DEF CloseDisposes, IInv, Typed
    <3>2. server' \in Servers /\ server'.at = "disposing" /\ server'.awaits = live
      BY <2>1, <3>1 DEF Servers
    <3> QED BY <3>2 DEF Closing
  <2>3. rt' = [rt EXCEPT ![live] = Dispose(rt[live])]
    BY <1>3 DEF CloseDisposes
  <2>4. /\ Dispose(rt[live]) \in RuntimeRecords /\ KeepsAs(live, Dispose(rt[live]), TRUE)
        /\ Dispose(rt[live]).operationCount = rt[live].operationCount
    BY <2>1, DisposeKeeps
  <2>5. /\ rt' \in [Runtimes -> RuntimeRecords] /\ rt'[live] = Dispose(rt[live])
        /\ \A j \in Runtimes : KeepsAs(j, rt'[j], Closing') /\ rt'[j].state = rt[j].state
        /\ \A j \in Runtimes : j # live => rt'[j] = rt[j]
    BY <2>1, <2>2, <2>3, <2>4, OneRuntime
  <2>6. Counted'
    BY <2>1, <2>4, <2>5, CountKept DEF IInv, Typed
  <2>7. Typed'
    BY <2>1, <2>2, <2>5 DEF IInv, Typed
  <2>8. Closes'
    BY <1>1, <2>1, <2>2, <2>5 DEF CloseDisposes, IInv, Closes
  <2>9. \A r \in Reqs : MovesTo(r, req'[r])
    BY <2>1, Same
  <2> QED BY <2>1, <2>5, <2>6, <2>7, <2>8, <2>9, QuietStep
<1> QED BY <1>2, <1>3

-----------------------------------------------------------------------------
(* The invariant *)

\* The server starts with no session, or with an idle one that its connections share.
LEMMA InitIInv == Init => IInv
<1> SUFFICES ASSUME Init PROVE IInv
  OBVIOUS
<1> USE Numbers
<1> DEFINE L == [NoRuntime EXCEPT !.state = "live", !.held = TRUE, !.connections = Conns]
<1>1. NoRuntime \in RuntimeRecords
  BY DEF NoRuntime, RuntimeRecords, States
<1>2. L \in RuntimeRecords /\ L.state = "live" /\ L.held
  BY <1>1 DEF RuntimeRecords, States
<1>3. /\ NoRuntime.state = "none" /\ NoRuntime.operationCount = 0 /\ NoRuntime.disposing = "no"
      /\ ~NoRuntime.disposeFailed /\ ~NoRuntime.ending
  BY DEF NoRuntime
<1>4. /\ L.operationCount = 0 /\ L.disposing = "no" /\ ~L.disposeFailed /\ ~L.ending
  BY DEF NoRuntime
<1>5. \A i \in Runtimes : \/ rt[i] = NoRuntime /\ live # i
                          \/ rt[i] = L /\ live = i /\ i = First
  BY DEF Init
<1>6. \A r \in Reqs : rt[r] = NoRuntime
  BY <1>5, SessionsAssumption DEF Reqs, First
<1> HIDE DEF L
<1>7. Typed
  <2>1. server \in Servers
    BY DEF Init, Servers
  <2>2. req \in [Reqs -> Commands]
    BY DEF Init, Commands
  <2>3. rt \in [Runtimes -> RuntimeRecords]
    BY <1>1, <1>2 DEF Init, L
  <2> QED BY <2>1, <2>2, <2>3 DEF Init, Typed, Stages
<1>8. Counted
  <2>1. \A i : OperationsOn(i) = {}
    BY DEF OperationsOn, Init, Operating
  <2> QED BY <1>3, <1>4, <1>5, <2>1, FS_EmptySet DEF Counted
<1>9. \A r \in Reqs : PlacedAs(r, req[r])
  BY <1>3, <1>6 DEF Init, PlacedAs, Serving, Operating
<1>10. \A i \in Runtimes : Opened(i)
  BY <1>2, <1>3, <1>4, <1>5 DEF Opened, Opening
<1>11. \A i \in Runtimes : Spared(rt[i], Closing)
  BY <1>3, <1>4, <1>5 DEF Spared
<1>12. Closes
  BY DEF Init, Closes
<1> QED BY <1>7, <1>8, <1>9, <1>10, <1>11, <1>12 DEF IInv

\* Every step keeps the invariant.
LEMMA NextIInv == IInv /\ [Next]_vars => IInv'
<1> SUFFICES ASSUME IInv, [Next]_vars PROVE IInv'
  OBVIOUS
<1>1. ASSUME NEW i \in Runtimes, RuntimeStep(i) \/ Terminate(i) PROVE IInv'
  BY <1>1, RuntimeAcquiredStep, RejectedDisposedStep, DisposedStep, OpeningFailsStep, BecomesLiveStep,
     RunEndsStep, RefreshedStep, TerminateStep, TerminateEndsStep, DisposeCalledStep DEF RuntimeStep
<1>2. ASSUME NEW r \in Reqs, RequestStep(r) PROVE IInv'
  BY <1>2, ReacquireStep, AcquiredStep, AttachLiveStep, AttachEndsStep, DetachEndsStep, OperationEndsStep
     DEF RequestStep
<1>3. ASSUME NEW r \in Reqs, NEW c \in Conns, Command(r, c) PROVE IInv'
  BY <1>3, AttachStep, DetachStep, OperateStep DEF Command
<1>4. ASSUME NEW c \in Conns, Disconnect(c) \/ FailProtocol(c) PROVE IInv'
  BY <1>4, DisconnectStep, FailProtocolStep
<1>5. CASE Close \/ CloseStep
  BY <1>5, CloseBegins, CloseSessionsStep, CloseDisposesStep DEF CloseStep
<1>6. CASE UNCHANGED vars
  <2>1. UNCHANGED <<stage, attached, live, opening, rt, req, server>>
    BY <1>6 DEF vars
  <2>2. Typed' /\ Closes' /\ Closing' = Closing
    BY <2>1 DEF IInv, Typed, Closes, Closing
  <2>3. Counted'
    BY <2>1, CountKept DEF IInv, Typed
  <2>4. \A j \in Runtimes : KeepsAs(j, rt'[j], Closing')
    BY <2>1, <2>2, NoRuntimeChanges
  <2> QED BY <2>1, <2>2, <2>3, <2>4, Same, QuietStep
<1> QED BY <1>1, <1>2, <1>3, <1>4, <1>5, <1>6 DEF Next

\* The inductive invariant holds in every reachable state.
THEOREM SessionsInvariant == Spec => []IInv
BY InitIInv, NextIInv, PTL DEF Spec

\* At every await the server's memory is true: each runtime counts the operations under
\* way on it, one runtime is live and held until it has been disposed of, none is opened
\* beside it, and no runtime is disposed of under an operation unless the server closes.
THEOREM SessionsConsistent == Spec => []Consistent
<1>1. IInv => Consistent
  <2> SUFFICES ASSUME IInv PROVE Consistent
    OBVIOUS
  <2>1. TypeOK
    <3>1. ASSUME NEW i \in Runtimes
          PROVE  /\ rt[i].state \in States /\ rt[i].connections \subseteq Conns
                 /\ rt[i].disposing \in {"no", "queued", "called", "done"}
                 /\ rt[i].operationCount = Cardinality(OperationsOn(i))
      BY DEF IInv, Typed, RuntimeRecords, Counted
    <3> QED BY <3>1 DEF IInv, Typed, TypeOK, Servers, Stages, States, Opening, OperationsOn, Operating
  <2>2. NoReplacement
    BY Numbers DEF IInv, Opened, NoReplacement, Opening
  <2>3. NoDisposalUnderOperation
    BY DEF IInv, Spared, NoDisposalUnderOperation
  <2> QED BY <2>1, <2>2, <2>3 DEF Consistent
<1> QED BY <1>1, SessionsInvariant, PTL

\* A close() that succeeds leaves no session live, no live runtime held and no
\* connection attached, whatever was being opened, attached or disposed of meanwhile.
THEOREM CloseLeavesNothing == Spec => []CloseComplete
<1>1. IInv => CloseComplete
  BY Numbers DEF IInv, Typed, Closes, Opened, CloseComplete
<1> QED BY <1>1, SessionsInvariant, PTL
=============================================================================
