--------------------------- MODULE AgentLoopProofs ---------------------------
(******************************************************************************)
(* What the agent of AgentLoop promises, for every number of messages, tool   *)
(* calls, turns, slots and process deaths.                                    *)
(*                                                                            *)
(* The invariant IInv is built up in layers, and every layer is kept by a step*)
(* given the ones below it:                                                   *)
(*   Typed       what the variables hold, and where the run is while they do; *)
(*   Pipelined   how far the calls of a batch have come;                      *)
(*   Numbered, StartedOnce  what the journal knows of the calls that a batch, *)
(*               also a resumed one, may still execute;                       *)
(*   Transcript  where transcript and context agree, and which calls are      *)
(*               answered in them;                                            *)
(*   Skipping, Steered  what each poll may still find for this turn;          *)
(*   Guarded     the rows of identical turns that the guard has counted.      *)
(* The theorems at the end follow from it.                                    *)
(******************************************************************************)
EXTENDS AgentLoop, SequenceTheorems, FiniteSetTheorems, TLAPS

-----------------------------------------------------------------------------
(* Operators.                                                               *)

\* Draining a PendingMessageQueue splits it: nothing appears.
LEMMA DrainSplits ==
    ASSUME NEW S, NEW q \in Seq(S), NEW mode
    PROVE  /\ Drained(q, mode) \in Seq(S) /\ Left(q, mode) \in Seq(S)
           /\ Ids(Drained(q, mode)) \subseteq Ids(q) /\ Ids(Left(q, mode)) \subseteq Ids(q)
<1>1. CASE mode = "all" \/ q = <<>>
  BY <1>1 DEF Drained, Left, Ids
<1>2. CASE ~(mode = "all" \/ q = <<>>)
  <2>1. q # <<>> /\ Len(q) \in Nat \ {0}
    BY <1>2
  <2>2. Drained(q, mode) = <<q[1]>> /\ Left(q, mode) = Tail(q) /\ q[1] \in S
    BY <1>2, <2>1 DEF Drained, Left
  <2>3. Tail(q) \in Seq(S) /\ Len(Tail(q)) = Len(q) - 1 /\ \A i \in 1 .. Len(q) - 1 : Tail(q)[i] = q[i + 1]
    BY <2>1
  <2>4. Ids(<<q[1]>>) = {q[1]} /\ q[1] \in Ids(q)
    BY <2>1 DEF Ids
  <2>5. Ids(Tail(q)) \subseteq Ids(q)
    BY <2>1, <2>3 DEF Ids
  <2> QED BY <2>2, <2>3, <2>4, <2>5
<1> QED BY <1>1, <1>2

\* The messages of a queue are those of its parts.
LEMMA IdsJoin ==
    ASSUME NEW S, NEW q \in Seq(S), NEW r \in Seq(S)
    PROVE  Ids(q \o r) = Ids(q) \cup Ids(r)
<1>1. /\ q \o r \in Seq(S) /\ Len(q \o r) = Len(q) + Len(r) /\ Len(q) \in Nat /\ Len(r) \in Nat
      /\ \A i \in 1 .. Len(q) + Len(r) : (q \o r)[i] = IF i <= Len(q) THEN q[i] ELSE r[i - Len(q)]
  OBVIOUS
<1>2. Ids(q \o r) \subseteq Ids(q) \cup Ids(r)
  BY <1>1 DEF Ids
<1>3. Ids(q) \subseteq Ids(q \o r)
  BY <1>1 DEF Ids
<1>4. ASSUME NEW i \in 1 .. Len(r) PROVE r[i] \in Ids(q \o r)
  <2>1. Len(q) + i \in 1 .. Len(q) + Len(r) /\ (q \o r)[Len(q) + i] = r[i]
    BY <1>1
  <2> QED BY <1>1, <2>1 DEF Ids
<1> QED BY <1>2, <1>3, <1>4 DEF Ids

\* Enqueueing adds one message.
LEMMA IdsAppend ==
    ASSUME NEW S, NEW q \in Seq(S), NEW m \in S
    PROVE  Append(q, m) \in Seq(S) /\ Ids(Append(q, m)) \subseteq Ids(q) \cup {m}
BY DEF Ids

\* A part of a queue has only its messages.
LEMMA IdsSubSeq ==
    ASSUME NEW S, NEW q \in Seq(S), NEW k \in 0 .. Len(q)
    PROVE  Ids(SubSeq(q, k + 1, Len(q))) \subseteq Ids(q)
<1>1. /\ Len(q) \in Nat /\ Len(SubSeq(q, k + 1, Len(q))) = Len(q) - k
      /\ \A i \in 1 .. Len(q) - k : SubSeq(q, k + 1, Len(q))[i] = q[k + i]
  OBVIOUS
<1> QED BY <1>1 DEF Ids

\* The calls of a message are ranked without gaps, so Nth() finds each of them.
LEMMA NthExists ==
    ASSUME NEW n \in Nat, NEW cs \in SUBSET (1 .. n), NEW k \in 1 .. Cardinality(cs)
    PROVE  Nth(cs, k) \in cs /\ Cardinality({d \in cs : d < Nth(cs, k)}) = k - 1
<1> DEFINE below(c) == {d \in cs : d < c}
           rank == [c \in cs |-> Cardinality(below(c))]
           N == Cardinality(cs)
<1>1. IsFiniteSet(cs) /\ N \in Nat
  <2>1. IsFiniteSet(1 .. n)
    BY FS_Interval
  <2> QED BY <2>1, FS_Subset, FS_CardinalityType
<1>2. ASSUME NEW c \in cs
      PROVE  IsFiniteSet(below(c)) /\ Cardinality(below(c)) \in 0 .. N - 1
  <2>1. below(c) \subseteq cs /\ c \notin below(c)
    OBVIOUS
  <2>2. IsFiniteSet(below(c)) /\ Cardinality(below(c)) \in Nat /\ Cardinality(below(c)) < N
    BY <1>1, <2>1, FS_Subset, FS_CardinalityType
  <2> QED BY <1>1, <2>2
<1>3. ASSUME NEW c \in cs, NEW d \in cs, c < d
      PROVE  rank[c] < rank[d]
  <2>1. below(c) \in SUBSET below(d) /\ c \in below(d) /\ c \notin below(c)
    <3>1. \A e \in cs : e \in Nat
      OBVIOUS
    <3>2. \A e \in cs : e < c => e < d
      BY <1>3, <3>1
    <3>3. ~(c < c)
      BY <3>1
    <3> QED BY <1>3, <3>2, <3>3
  <2>2. /\ IsFiniteSet(below(d)) /\ Cardinality(below(d)) \in Nat
        /\ Cardinality(below(c)) \in Nat /\ below(c) # below(d)
    BY <1>1, <1>2, <2>1
  <2>3. Cardinality(below(c)) < Cardinality(below(d))
    <3> HIDE DEF below
    <3> QED BY <2>1, <2>2, FS_Subset
  <2> QED BY <2>3
<1>4. rank \in Injection(cs, 0 .. N - 1)
  <2>1. rank \in [cs -> 0 .. N - 1]
    BY <1>2
  <2>2. ASSUME NEW c \in cs, NEW d \in cs, rank[c] = rank[d] PROVE c = d
    <3>1. c < d \/ d < c \/ c = d
      OBVIOUS
    <3>2. rank[c] \in Nat /\ rank[d] \in Nat
      BY <2>1, <1>1
    <3> QED BY <1>3, <2>2, <3>1, <3>2
  <2> QED BY <2>1, <2>2 DEF Injection, IsInjective
<1>5. Cardinality(0 .. N - 1) = N /\ IsFiniteSet(0 .. N - 1)
  <2> HIDE DEF N
  <2>1. IsFiniteSet(0 .. N - 1) /\ Cardinality(0 .. N - 1) = IF 0 > N - 1 THEN 0 ELSE N - 1 - 0 + 1
    BY <1>1, FS_Interval
  <2> QED BY <1>1, <2>1
<1>6. rank \in Surjection(cs, 0 .. N - 1)
  <2> HIDE DEF rank
  <2> QED BY <1>1, <1>4, <1>5, FS_Injection
<1>7. \E c \in cs : Cardinality(below(c)) = k - 1
  <2>1. k - 1 \in 0 .. N - 1
    BY <1>1
  <2>2. PICK c \in cs : rank[c] = k - 1
    BY <1>6, <2>1 DEF Surjection
  <2> QED BY <2>2
<1> QED BY <1>7 DEF Nth

\* As many results as calls, each of one of them.
LEMMA ResultsShape ==
    ASSUME NEW n \in Nat, NEW cs \in SUBSET (1 .. n), NEW t
    PROVE  /\ Cardinality(cs) \in Nat /\ Len(Results(t, cs)) = Cardinality(cs)
           /\ DOMAIN Results(t, cs) = 1 .. Cardinality(cs)
           /\ \A k \in 1 .. Cardinality(cs) : \E c \in cs : Results(t, cs)[k] = Result(t, c)
<1>1. IsFiniteSet(1 .. n)
  BY FS_Interval
<1>2. Cardinality(cs) \in Nat
  BY <1>1, FS_Subset, FS_CardinalityType
<1>3. \A k \in 1 .. Cardinality(cs) : Nth(cs, k) \in cs
  BY NthExists
<1> DEFINE N == Cardinality(cs)
<1>4. Results(t, cs) = [k \in 1 .. N |-> Result(t, Nth(cs, k))]
  BY DEF Results
<1> HIDE DEF N
<1>5. N \in Nat /\ \A k \in 1 .. N : Nth(cs, k) \in cs
  BY <1>2, <1>3 DEF N
<1>6. Len(Results(t, cs)) = N /\ DOMAIN Results(t, cs) = 1 .. N
  BY <1>4, <1>5
<1>7. ASSUME NEW k \in 1 .. N PROVE \E c \in cs : Results(t, cs)[k] = Result(t, c)
  BY <1>4, <1>5
<1> QED BY <1>5, <1>6, <1>7 DEF N

\* The results of a batch are entries of a transcript.
LEMMA ResultsTyped ==
    ASSUME NEW cs \in SUBSET (1 .. MaxCalls), NEW t \in Nat
    PROVE  Results(t, cs) \in Seq(Entries)
<1>1. MaxCalls \in Nat
  BY AgentAssumption
<1>2. \A c \in 1 .. MaxCalls : Result(t, c) \in Entries
  BY DEF Result, Entries
<1>3. \A k \in 1 .. Cardinality(cs) : Results(t, cs)[k] \in Entries
  <2> SUFFICES ASSUME NEW k \in 1 .. Cardinality(cs) PROVE Results(t, cs)[k] \in Entries
    OBVIOUS
  <2>1. PICK c \in cs : Results(t, cs)[k] = Result(t, c)
    BY <1>1, ResultsShape, ZenonT(40)
  <2> QED BY <1>2, <2>1
<1>4. Cardinality(cs) \in Nat /\ Results(t, cs) = [k \in 1 .. Cardinality(cs) |-> Results(t, cs)[k]]
  BY <1>1, ResultsShape DEF Results
<1> HIDE DEF Results
<1>5. [k \in 1 .. Cardinality(cs) |-> Results(t, cs)[k]] \in [1 .. Cardinality(cs) -> Entries]
  BY <1>3
<1> QED BY <1>4, <1>5, SeqDef

\* The results of all calls of a message are in the order of the calls.
LEMMA ResultsOfAll ==
    ASSUME NEW n \in Nat, NEW t
    PROVE  Cardinality(1 .. n) = n /\ \A k \in 1 .. n : Results(t, 1 .. n)[k] = Result(t, k)
<1>1. Cardinality(1 .. n) = n
  BY FS_Interval
<1>2. ASSUME NEW k \in 1 .. n PROVE Nth(1 .. n, k) = k
  <2>1. Nth(1 .. n, k) \in 1 .. n /\ Cardinality({d \in 1 .. n : d < Nth(1 .. n, k)}) = k - 1
    BY <1>1, NthExists
  <2> DEFINE below(c) == {d \in 1 .. n : d < c}
  <2>2. ASSUME NEW c \in 1 .. n, Cardinality(below(c)) = k - 1 PROVE c = k
    <3>1. below(c) = 1 .. c - 1
      OBVIOUS
    <3> HIDE DEF below
    <3>2. Cardinality(1 .. c - 1) = c - 1
      BY FS_Interval
    <3> QED BY <2>2, <3>1, <3>2
  <2> QED BY <2>1, <2>2
<1> QED BY <1>1, <1>2 DEF Results

\* Queued messages become entries of a transcript.
LEMMA UsersTyped ==
    ASSUME NEW ms \in Seq(Messages)
    PROVE  /\ Users(ms) \in Seq(Entries) /\ Len(Users(ms)) = Len(ms)
           /\ \A i \in 1 .. Len(ms) : Users(ms)[i] = User(ms[i])
<1>1. \A m \in Messages : User(m) \in Entries
  BY DEF User, Entries
<1>2. Len(ms) \in Nat /\ \A i \in 1 .. Len(ms) : ms[i] \in Messages
  OBVIOUS
<1>3. Users(ms) \in [1 .. Len(ms) -> Entries]
  BY <1>1, <1>2 DEF Users
<1> QED BY <1>2, <1>3 DEF Users

-----------------------------------------------------------------------------
(* The inductive invariant.                                                 *)

Stops  == {"stop", "toolUse", "length", "error", "aborted"}
Keys   == {<<>>} \cup ((0 .. MaxCalls) \X Stops \X (Prints \cup {"none"}))
Guards == [key : Keys, n : 0 .. RepeatLimit]
Batches ==
    [kind : {"none", "turn", "checkpoint", "resume"}, turn : Nat, key : Keys,
     mode : {"none", "parallel", "sequential"}, terminate : SUBSET (1 .. MaxCalls),
     launched : BOOLEAN, phase : UNION {[1 .. n -> Phases] : n \in 0 .. MaxCalls}]

\* The run is over, or about to be.
Over == {"ending", "ended", "failing", "failed"}

\* The queues: what is queued or drained has been sent, and a drained message is
\* pending only until it is emitted.
MailTyped ==
    /\ steering \in Seq(Steers) /\ followUps \in Seq(FollowUps) /\ pending \in Seq(Messages)
    /\ Ids(steering) \subseteq sent /\ Ids(followUps) \subseteq sent /\ Ids(pending) \subseteq sent
    /\ sent \subseteq Messages /\ dropped \subseteq sent
    /\ pc \notin {"prompting", "preparing", "injecting"} => pending = <<>>

\* Program points and counters: the guard has not tripped while the run goes on.
ControlTyped ==
    /\ pc \in {"idle", "prompting", "polling", "preparing", "injecting", "requesting", "streaming",
               "truncated", "batch", "recovered", "stopped", "turnEnd", "followUps", "ending",
               "ended", "failing", "failed"}
    /\ cancelled \in BOOLEAN /\ skip \in BOOLEAN /\ more \in BOOLEAN /\ turned \in BOOLEAN
    /\ base \in Nat /\ turn \in Nat /\ ended \in Nat /\ crashes \in Nat
    /\ guard \in Guards
    /\ pc \notin Over => guard.n < RepeatLimit

\* The tool batch; there is none between runs.
BatchTyped ==
    /\ batch \in Batches
    /\ step \in Nat
    /\ started \subseteq Nat \X (1 .. MaxCalls) /\ persisted \subseteq Nat \X (1 .. MaxCalls)
    /\ safe \subseteq Nat \X (1 .. MaxCalls) /\ unsafe \subseteq Nat \X (1 .. MaxCalls)
    /\ pc = "idle" => batch = NoBatch

\* The two copies of the transcript; a resumed batch has its message in both.
EntriesTyped ==
    /\ messages \in Seq(Entries) /\ context \in Seq(Entries)
    /\ base <= Len(messages)
    /\ pc = "idle" => base = 0
    /\ pc = "batch" /\ batch.kind = "resume" => base < Len(messages) /\ base < Len(context)

Typed == MailTyped /\ ControlTyped /\ BatchTyped /\ EntriesTyped

\* How far the calls of a batch have come.
Pipelined ==
    /\ NoOrphanEffects
    /\ pc = "batch" => batch.kind # "none"
    /\ pc = "batch" /\ Sequential => \A c, d \in Busy : c = d
    /\ pc = "batch" /\ ~Sequential /\ ~batch.launched =>
          /\ Busy \subseteq In({"immediate", "prepared"})
          /\ \A c, d \in In({"immediate"}) : c = d
    /\ pc = "batch" /\ batch.launched /\ ~cancelled => Todo = {}
    /\ batch.kind # "resume" => In({"completed"}) = {}

\* Calls before their execution.
Waits == {"todo", "immediate", "prepared", "waiting", "leased", "dispatched"}
Unstarted == In(Waits)

\* The assistant messages of ms have numbers up to t.
Numbered(ms, t) == \A i \in 1 .. Len(ms) : ms[i].role = "assistant" => ms[i].turn <= t

\* What the journal says of the calls that the batch may still execute: they are of
\* its step and have no result, and one that was executed before may be replayed.
StartedOnce ==
    /\ batch.turn <= turn
    /\ started \subseteq safe \cup unsafe /\ safe \cap unsafe = {}
    /\ pc = "batch" =>
          /\ batch.turn = step
          /\ \A c \in Unstarted : <<batch.turn, c>> \notin persisted
          /\ \A c \in Unstarted : <<batch.turn, c>> \in started => <<batch.turn, c>> \notin unsafe
          /\ \A c \in In({"dispatched"}) : <<batch.turn, c>> \in safe \cup unsafe

\* Where transcript and context are the same.
Agreeing == {"prompting", "polling", "preparing", "injecting", "requesting", "streaming",
             "turnEnd", "followUps", "truncated"}

\* An assistant message whose calls need an answer.
Asks(e) == e.role = "assistant" /\ e.stop \in {"toolUse", "length"}

\* The results of the message at i follow it in ms, all of them, in call order.
Replied(ms, i) ==
    /\ i + ms[i].calls <= Len(ms)
    /\ \A c \in 1 .. ms[i].calls : ms[i + c] = Result(ms[i].turn, c)

\* The calls of the messages after b and up to n are answered.
AllAnswered(ms, b, n) == \A i \in b + 1 .. n : Asks(ms[i]) => Replied(ms, i)

\* The message whose calls the batch executes.
Calls(e) == e.role = "assistant" /\ e.turn = batch.turn /\ DOMAIN batch.phase = 1 .. e.calls

\* The context ends with that message, and everything before it is answered.
Asked ==
    /\ Len(context) > base /\ Calls(context[Len(context)])
    /\ AllAnswered(context, base, Len(context) - 1)

\* A parallel batch emits its results when it ends, a sequential one as it goes.
Emitted ==
    /\ ~Sequential => messages = context
    /\ Sequential => \E k \in 0 .. MaxCalls :
          /\ In({"done"}) = 1 .. k /\ Busy \subseteq {k + 1} /\ In({"rejected"}) = {}
          /\ messages = context \o Results(batch.turn, 1 .. k)

\* A resumed batch has its message in both copies, and then results.
ResumedBatch ==
    /\ Calls(messages[base + 1])
    /\ \A i \in 1 .. base + 1 : messages[i] = context[i]
    /\ \A i \in base + 2 .. Len(messages) : messages[i].role = "toolResult"

\* The two copies of the transcript, and the answers to tool calls.
Transcript ==
    /\ pc \in Agreeing => context = messages
    /\ pc \in Agreeing \ {"truncated"} /\ (~cancelled \/ pc = "streaming")
          => AllAnswered(messages, base, Len(messages))
    /\ pc = "truncated" => Asked
    /\ pc = "batch" /\ batch.kind # "resume" => Asked /\ Emitted
    /\ pc = "batch" /\ batch.kind = "resume" => ResumedBatch

\* The initial poll is the only one that may be skipped.
Skipping == skip => pc \in {"prompting", "polling"} \cup Over

\* A steering message of ms that no response has followed.
Steering(e) == e.role = "user" /\ e.msg \in Steers
Unread(ms, i) == Steering(ms[i]) /\ \A j \in i + 1 .. Len(ms) : ms[j].role # "assistant"
NoneFresh(ms, b) == \A i \in b + 1 .. Len(ms) : ~Unread(ms, i)
OneFresh(ms, b)  == \A i, j \in b + 1 .. Len(ms) : Unread(ms, i) /\ Unread(ms, j) => i = j

NoSteer(q)   == \A i \in 1 .. Len(q) : q[i] \notin Steers
FewSteers(q) == NoSteer(q) \/ Len(q) <= 1

\* At most one steering message since the last response, pending ones included.
Steered ==
    SteeringMode = "one-at-a-time" /\ pc # "idle" =>
        /\ OneFresh(messages, base) /\ FewSteers(pending)
        /\ pc \in {"prompting", "preparing", "batch", "truncated", "turnEnd", "recovered", "stopped",
                   "followUps"} => NoneFresh(messages, base)
        /\ pc = "prompting" => ~turned /\ (skip \/ NoSteer(pending))
        /\ pc = "polling" => (skip => ~turned) /\ (skip \/ NoneFresh(messages, base))
        /\ pc = "injecting" => NoneFresh(messages, base) \/ NoSteer(pending)

\* The messages at i and j ask for the same tool calls.
Same(ms, i, j) ==
    /\ ms[j].role = "assistant" /\ ms[j].calls > 0
    /\ ms[j].calls = ms[i].calls /\ ms[j].stop = ms[i].stop /\ ms[j].print = ms[i].print

\* The identical tool turns from i to k, and how many they are.
Row(ms, i, k) ==
    ms[i].role = "assistant" /\ \A j \in i .. k : ms[j].role = "toolResult" \/ Same(ms, i, j)
Taken(ms, i, k) == Cardinality({j \in i .. k : ms[j].role = "assistant"})
KeyOf(e)        == <<e.calls, e.stop, e.print>>

NoLongRow(ms, b) ==
    \A i, k \in b + 2 .. Len(ms) : Row(ms, i, k) => Taken(ms, i, k) <= RepeatLimit

\* The rows at the end of ms have this key, and n turns at most.
RowsTo(ms, b, key, n) ==
    \A i \in b + 2 .. Len(ms) : Row(ms, i, Len(ms)) => KeyOf(ms[i]) = key /\ Taken(ms, i, Len(ms)) <= n

\* The no-progress guard has counted every row that can still grow.
Guarded ==
    pc # "idle" =>
        /\ NoLongRow(messages, base)
        /\ pc \in {"prompting", "polling", "requesting", "streaming"} =>
              RowsTo(messages, base, guard.key, guard.n)
        /\ pc \in {"preparing", "injecting"} => pending # <<>> \/ RowsTo(messages, base, guard.key, guard.n)
        /\ pc \in {"truncated", "turnEnd"} \/ (pc = "batch" /\ batch.kind = "turn") =>
              RowsTo(messages, base, batch.key, Repeats)

IInv ==
    /\ Typed /\ Pipelined
    /\ Numbered(messages, turn) /\ StartedOnce
    /\ Transcript
    /\ Skipping /\ Steered
    /\ Guarded

-----------------------------------------------------------------------------
(* Typed and Pipelined.                                                     *)

\* What an assistant message of this turn is made of.
LEMMA AssistantTyped ==
    ASSUME NEW t \in Nat, NEW n \in 0 .. MaxCalls, NEW stop \in Stops, NEW print \in Prints \cup {"none"},
           NEW checkpoint \in BOOLEAN
    PROVE  Assistant(t, n, stop, print, checkpoint) \in Entries
BY DEF Assistant, Entries, Stops

\* A note is an entry of the transcript.
LEMMA NoteTyped ==
    ASSUME turn \in Nat, NEW stop \in Stops
    PROVE  Note(stop) \in Entries
<1>1. 0 \in 0 .. MaxCalls
  BY AgentAssumption
<1> QED BY <1>1, AssistantTyped DEF Note

\* A call moves on: nothing else of its batch changes.
LEMMA MovesOn ==
    ASSUME batch \in Batches, NEW c \in DOMAIN batch.phase, NEW p \in Phases
    PROVE  /\ To(c, p) \in Batches
           /\ To(c, p).kind = batch.kind /\ To(c, p).turn = batch.turn /\ To(c, p).mode = batch.mode
           /\ To(c, p).key = batch.key /\ To(c, p).terminate = batch.terminate
           /\ To(c, p).launched = batch.launched
           /\ DOMAIN To(c, p).phase = DOMAIN batch.phase
           /\ To(c, p).phase[c] = p
           /\ \A d \in DOMAIN batch.phase \ {c} : To(c, p).phase[d] = batch.phase[d]
<1>1. PICK n \in 0 .. MaxCalls : batch.phase \in [1 .. n -> Phases]
  BY DEF Batches
<1>2. To(c, p).phase = [batch.phase EXCEPT ![c] = p]
  BY DEF To, Batches
<1>3. To(c, p).phase \in [1 .. n -> Phases]
  BY <1>1, <1>2
<1>4. To(c, p) \in Batches
  BY <1>1, <1>3 DEF To, Batches
<1> QED BY <1>1, <1>2, <1>4 DEF To, Batches

\* The calls of a batch are numbered from 1.
LEMMA BatchShape ==
    ASSUME batch \in Batches
    PROVE  \E n \in 0 .. MaxCalls : DOMAIN batch.phase = 1 .. n
BY DEF Batches

\* A call that can throw, or go on, belongs to the batch under way.
LEMMA ThrowsInBatch ==
    ASSUME NoOrphanEffects, NEW c, CallThrows(c)
    PROVE  pc = "batch"
<1>1. c \in In({"immediate", "leased", "dispatched", "executing", "executed"}) => c \in Busy /\ c \notin In({"prepared"})
  BY DEF In, Busy
<1>2. c \in In({"prepared"}) => c \in Busy
  BY DEF In, Busy
<1> QED BY <1>1, <1>2 DEF CallThrows, NoOrphanEffects

\* So does a call that the journal refuses.
LEMMA RefusedInBatch ==
    ASSUME NoOrphanEffects, NEW c, RefuseDispatch(c)
    PROVE  pc = "batch"
BY DEF RefuseDispatch, NoOrphanEffects, In, Busy

\* What is queued stays sent, whatever step is taken.
LEMMA MailStep ==
    ASSUME MailTyped, NoOrphanEffects, [Next]_vars
    PROVE  MailTyped'
<1>0. CASE UNCHANGED vars
  BY <1>0 DEF MailTyped, vars
<1>1. ASSUME NEW m \in Messages, Prompt(m) PROVE MailTyped'
  <2>1. m \in Prompts /\ <<m>> \in Seq(Messages) /\ Ids(<<m>>) = {m}
    BY <1>1 DEF Prompt, Messages, Ids
  <2> QED BY <1>1, <2>1 DEF MailTyped, Prompt, Begin, queues, loop, tools, journal, mail, scope
<1>2. ASSUME NEW m \in Messages, Steer(m) PROVE MailTyped'
  BY <1>2, IdsAppend DEF MailTyped, Steer, Messages, queues, loop, tools, journal, mail, scope
<1>3. ASSUME NEW m \in Messages, FollowUp(m) PROVE MailTyped'
  BY <1>3, IdsAppend DEF MailTyped, FollowUp, Messages, queues, loop, tools, journal, mail, scope
<1>4. CASE ClearAllQueues
  <2>1. Ids(steering \o followUps) \subseteq sent
    <3>1. steering \in Seq(Messages) /\ followUps \in Seq(Messages)
      BY DEF MailTyped, Messages
    <3> QED BY <3>1, IdsJoin DEF MailTyped
  <2> QED BY <1>4, <2>1 DEF MailTyped, ClearAllQueues, Ids, queues, loop, tools, journal, mail, scope
<1>5. CASE Reset
  BY <1>5 DEF MailTyped, Reset, Ids, queues, loop, tools, journal, mail, scope
<1>6. CASE Abort
  BY <1>6 DEF MailTyped, Abort, queues, loop, tools, journal, mail, scope
<1>7. CASE ContinueQueued
  <2>1. /\ Drained(steering, SteeringMode) \in Seq(Messages) /\ Left(steering, SteeringMode) \in Seq(Steers)
        /\ Drained(followUps, FollowUpMode) \in Seq(Messages) /\ Left(followUps, FollowUpMode) \in Seq(FollowUps)
    BY DrainSplits DEF MailTyped, Messages
  <2>2. /\ Ids(Drained(steering, SteeringMode)) \subseteq sent /\ Ids(Left(steering, SteeringMode)) \subseteq sent
        /\ Ids(Drained(followUps, FollowUpMode)) \subseteq sent /\ Ids(Left(followUps, FollowUpMode)) \subseteq sent
    BY DrainSplits DEF MailTyped
  <2> QED BY <1>7, <2>1, <2>2 DEF MailTyped, ContinueQueued, Begin, queues, loop, tools, journal, mail, scope
<1>8. CASE Continue
  BY <1>8 DEF MailTyped, Continue, Begin, Ids, queues, loop, tools, journal, mail, scope
<1>9. CASE ResumeToolCalls
  BY <1>9 DEF MailTyped, ResumeToolCalls, Begin, Ids, queues, loop, tools, journal, mail, scope
<1>10. CASE DropFailure
  BY <1>10 DEF MailTyped, DropFailure, queues, loop, tools, journal, mail, scope
<1>11. CASE EmitPrompts
  BY <1>11 DEF MailTyped, EmitPrompts, Ids, queues, loop, tools, journal, mail, scope
<1>12. CASE InitialPoll
  <2>1. /\ Drained(steering, SteeringMode) \in Seq(Messages) /\ Left(steering, SteeringMode) \in Seq(Steers)
        /\ Ids(Drained(steering, SteeringMode)) \subseteq sent /\ Ids(Left(steering, SteeringMode)) \subseteq sent
    BY DrainSplits DEF MailTyped, Messages
  <2> QED BY <1>12, <2>1 DEF MailTyped, InitialPoll, Poll, queues, loop, tools, journal, mail, scope
<1>13. CASE PrepareNextTurn
  <2>1. /\ Drained(steering, SteeringMode) \in Seq(Messages) /\ Left(steering, SteeringMode) \in Seq(Steers)
        /\ Ids(Drained(steering, SteeringMode)) \subseteq sent /\ Ids(Left(steering, SteeringMode)) \subseteq sent
    BY DrainSplits DEF MailTyped, Messages
  <2> QED BY <1>13, <2>1 DEF MailTyped, PrepareNextTurn, Poll, PollAgain, queues, loop, tools, journal, mail, scope
<1>14. CASE Inject
  BY <1>14 DEF MailTyped, Inject, Ids, queues, loop, tools, journal, mail, scope
<1>15. CASE Request
  BY <1>15 DEF MailTyped, Request, queues, loop, tools, journal, mail, scope
<1>16. CASE Recovered
  BY <1>16 DEF MailTyped, Recovered, queues, loop, tools, journal, mail, scope
<1>17. CASE FailTruncated
  BY <1>17 DEF MailTyped, FailTruncated, queues, loop, tools, journal, mail, scope
<1>18. CASE TurnEnd
  <2>1. /\ Drained(steering, SteeringMode) \in Seq(Messages) /\ Left(steering, SteeringMode) \in Seq(Steers)
        /\ Ids(Drained(steering, SteeringMode)) \subseteq sent /\ Ids(Left(steering, SteeringMode)) \subseteq sent
    BY DrainSplits DEF MailTyped, Messages
  <2> QED BY <1>18, <2>1 DEF MailTyped, TurnEnd, Poll, queues, loop, tools, journal, mail, scope
<1>19. CASE PollFollowUps
  <2>1. /\ Drained(followUps, FollowUpMode) \in Seq(Messages) /\ Left(followUps, FollowUpMode) \in Seq(FollowUps)
        /\ Ids(Drained(followUps, FollowUpMode)) \subseteq sent /\ Ids(Left(followUps, FollowUpMode)) \subseteq sent
    BY DrainSplits DEF MailTyped, Messages
  <2> QED BY <1>19, <2>1 DEF MailTyped, PollFollowUps, queues, loop, tools, journal, mail, scope
<1>20. CASE AgentEnd
  BY <1>20 DEF MailTyped, AgentEnd, queues, loop, tools, journal, mail, scope
<1>21. CASE FinishRun
  BY <1>21 DEF MailTyped, FinishRun, Idle, Ids, queues, loop, tools, journal, mail, scope
<1>22. CASE HandleRunFailure
  BY <1>22 DEF MailTyped, HandleRunFailure, queues, loop, tools, journal, mail, scope
<1>23. CASE BatchEnds
  BY <1>23 DEF MailTyped, BatchEnds, queues, loop, tools, journal, mail, scope
<1>24. ASSUME NEW c \in 1 .. MaxCalls, Prepare(c) PROVE MailTyped'
  BY <1>24 DEF MailTyped, Prepare, Pipeline, queues, loop, tools, journal, mail, scope
<1>25. ASSUME NEW c \in 1 .. MaxCalls, Admit(c) PROVE MailTyped'
  BY <1>25 DEF MailTyped, Admit, Pipeline, queues, loop, tools, journal, mail, scope
<1>26. ASSUME NEW c \in 1 .. MaxCalls, Acquire(c) PROVE MailTyped'
  BY <1>26 DEF MailTyped, Acquire, Pipeline, queues, loop, tools, journal, mail, scope
<1>27. ASSUME NEW c \in 1 .. MaxCalls, Dispatch(c) PROVE MailTyped'
  BY <1>27 DEF MailTyped, Dispatch, Pipeline, queues, loop, tools, journal, mail, scope
<1>28. ASSUME NEW c \in 1 .. MaxCalls, Settle(c) PROVE MailTyped'
  BY <1>28 DEF MailTyped, Settle, queues, loop, tools, journal, mail, scope
<1>29. CASE Respond
  BY <1>29 DEF MailTyped, Respond, queues, loop, tools, journal, mail, scope
<1>30. CASE RespondError
  BY <1>30 DEF MailTyped, RespondError, queues, loop, tools, journal, mail, scope
<1>31. CASE RespondCheckpoint
  BY <1>31 DEF MailTyped, RespondCheckpoint, queues, loop, tools, journal, mail, scope
<1>32. CASE Throw
  <2>1. PICK k \in 0 .. Len(Emitting) :
            dropped' = IF pc = "truncated" THEN dropped ELSE dropped \cup Ids(SubSeq(pending, k + 1, Len(pending)))
    BY <1>32 DEF Throw
  <2>2. CASE pc \in {"prompting", "injecting"}
    <3>1. Len(Emitting) = Len(pending)
      BY <2>2, UsersTyped DEF Emitting, MailTyped
    <3>2. Ids(SubSeq(pending, k + 1, Len(pending))) \subseteq sent
      BY <3>1, IdsSubSeq DEF MailTyped
    <3>3. sent' = sent /\ UNCHANGED queues /\ pending' = <<>> /\ pc' = "failing"
      BY <1>32 DEF Throw
    <3> QED BY <2>2, <2>1, <3>2, <3>3 DEF MailTyped, Ids, queues
  <2>3. CASE pc = "truncated"
    BY <1>32, <2>1, <2>3 DEF MailTyped, Throw, Ids, queues, loop, tools, journal, mail, scope
  <2>4. CASE pc \notin {"prompting", "injecting", "truncated"}
    <3>1. k = 0
      BY <2>4 DEF Emitting
    <3>2. Ids(SubSeq(pending, k + 1, Len(pending))) \subseteq sent
      BY <3>1, IdsSubSeq DEF MailTyped
    <3>3. sent' = sent /\ UNCHANGED queues /\ pending' = <<>> /\ pc' = "failing"
      BY <1>32 DEF Throw
    <3> QED BY <2>4, <2>1, <3>2, <3>3 DEF MailTyped, Ids, queues
  <2> QED BY <2>2, <2>3, <2>4
<1>33. CASE PrepareThrows
  BY <1>33 DEF MailTyped, PrepareThrows, queues, loop, tools, journal, mail, scope
<1>34. CASE Crash
  <2>1. Ids(steering \o followUps \o pending) \subseteq sent
    <3>1. steering \in Seq(Messages) /\ followUps \in Seq(Messages) /\ pending \in Seq(Messages)
      BY DEF MailTyped, Messages
    <3>2. steering \o followUps \in Seq(Messages) /\ Ids(steering \o followUps) \subseteq sent
      BY <3>1, IdsJoin DEF MailTyped
    <3> DEFINE both == steering \o followUps
    <3> HIDE DEF both
    <3>3. both \in Seq(Messages) /\ Ids(both) \subseteq sent
      BY <3>2 DEF both
    <3>4. Ids(both \o pending) \subseteq sent
      BY <3>1, <3>3, IdsJoin DEF MailTyped
    <3> QED BY <3>4 DEF both
  <2> QED BY <1>34, <2>1 DEF MailTyped, Crash, Idle, Ids, queues, loop, tools, journal, mail, scope
<1>35. ASSUME NEW c \in 1 .. MaxCalls, ExecuteEnds(c) PROVE MailTyped'
  BY <1>35 DEF MailTyped, ExecuteEnds, Pipeline, queues, loop, tools, journal, mail, scope
<1>36. ASSUME NEW c \in 1 .. MaxCalls, CallThrows(c) PROVE MailTyped'
  <2>1. pc = "batch" /\ UNCHANGED <<queues, loop, mail>> /\ (pc' = pc \/ pc' = "failing")
    BY <1>36, ThrowsInBatch DEF CallThrows
  <2> QED BY <2>1 DEF MailTyped, queues, loop, tools, journal, mail, scope
<1>37. ASSUME NEW c \in 1 .. MaxCalls, BeforeDispatch(c) PROVE MailTyped'
  BY <1>37 DEF MailTyped, BeforeDispatch, Pipeline, queues, loop, tools, journal, mail, scope
<1>38. ASSUME NEW c \in 1 .. MaxCalls, RefuseDispatch(c) PROVE MailTyped'
  <2>1. pc = "batch" /\ UNCHANGED <<queues, loop, mail>> /\ (pc' = pc \/ pc' = "failing")
    BY <1>38, RefusedInBatch DEF RefuseDispatch
  <2> QED BY <2>1 DEF MailTyped, queues, loop, tools, journal, mail, scope
<1>39. CASE Reconcile
  BY <1>39 DEF MailTyped, Reconcile, queues, loop, tools, journal, mail, scope
<1> QED BY <1>0, <1>1, <1>2, <1>3, <1>4, <1>5, <1>6, <1>7, <1>8, <1>9, <1>10, <1>11, <1>12,
           <1>13, <1>14, <1>15, <1>16, <1>17, <1>18, <1>19, <1>20, <1>21, <1>22, <1>23, <1>24,
           <1>25, <1>26, <1>27, <1>28, <1>29, <1>30, <1>31, <1>32, <1>33, <1>34, <1>35, <1>36,
           <1>37, <1>38, <1>39
         DEF Next, Caller, Step, Call, Response

\* A guard that has seen nothing has not tripped.
LEMMA NoGuardTyped == NoGuard \in Guards /\ NoGuard.n = 0 /\ NoGuard.n < RepeatLimit
BY AgentAssumption DEF NoGuard, Guards, Keys

\* The guard stops the run before its counter passes the limit.
LEMMA ControlStep ==
    ASSUME ControlTyped, BatchTyped, EntriesTyped, [Next]_vars
    PROVE  ControlTyped'
<1>0. CASE UNCHANGED vars
  BY <1>0 DEF ControlTyped, vars
<1>1. ASSUME NEW m \in Messages, Prompt(m) PROVE ControlTyped'
  <2>1. Len(messages) \in Nat
    BY DEF EntriesTyped
  <2>2. /\ pc' \in {"prompting", "polling"} /\ guard' = NoGuard /\ base' = Len(messages) /\ ended' = 0
        /\ cancelled' = FALSE /\ skip' \in BOOLEAN /\ more' = TRUE /\ turned' = FALSE
        /\ UNCHANGED <<turn, crashes>>
    BY <1>1 DEF Prompt, Begin, SkipPoll
  <2> QED BY <2>1, <2>2, NoGuardTyped DEF ControlTyped, Over
<1>2. ASSUME NEW m \in Messages, Steer(m) PROVE ControlTyped'
  BY <1>2, AgentAssumption DEF ControlTyped, Over, Steer, queues, loop, tools, journal, mail, scope
<1>3. ASSUME NEW m \in Messages, FollowUp(m) PROVE ControlTyped'
  BY <1>3, AgentAssumption DEF ControlTyped, Over, FollowUp, queues, loop, tools, journal, mail, scope
<1>4. CASE ClearAllQueues
  BY <1>4, AgentAssumption DEF ControlTyped, Over, ClearAllQueues, queues, loop, tools, journal, mail, scope
<1>5. CASE Reset
  BY <1>5, AgentAssumption DEF ControlTyped, Over, Reset, queues, loop, tools, journal, mail, scope
<1>6. CASE Abort
  BY <1>6, AgentAssumption DEF ControlTyped, Over, Abort, queues, loop, tools, journal, mail, scope
<1>7. CASE ContinueQueued
  <2>1. Len(messages) \in Nat
    BY DEF EntriesTyped
  <2>2. /\ pc' \in {"prompting", "polling"} /\ guard' = NoGuard /\ base' = Len(messages) /\ ended' = 0
        /\ cancelled' = FALSE /\ skip' \in BOOLEAN /\ more' = TRUE /\ turned' = FALSE
        /\ UNCHANGED <<turn, crashes>>
    BY <1>7 DEF ContinueQueued, Begin, SkipPoll
  <2> QED BY <2>1, <2>2, NoGuardTyped DEF ControlTyped, Over
<1>8. CASE Continue
  <2>1. Len(messages) \in Nat
    BY DEF EntriesTyped
  <2>2. /\ pc' \in {"prompting", "polling"} /\ guard' = NoGuard /\ base' = Len(messages) /\ ended' = 0
        /\ cancelled' = FALSE /\ skip' \in BOOLEAN /\ more' = TRUE /\ turned' = FALSE
        /\ UNCHANGED <<turn, crashes>>
    BY <1>8 DEF Continue, Begin, SkipPoll
  <2> QED BY <2>1, <2>2, NoGuardTyped DEF ControlTyped, Over
<1>9. CASE ResumeToolCalls
  <2>1. /\ pc' = "batch" /\ guard' = NoGuard /\ base' \in Nat /\ ended' = 0
        /\ cancelled' = FALSE /\ skip' = FALSE /\ more' = TRUE /\ turned' = TRUE
        /\ UNCHANGED <<turn, crashes>>
    BY <1>9 DEF ResumeToolCalls, Begin
  <2> QED BY <2>1, NoGuardTyped DEF ControlTyped, Over
<1>10. CASE DropFailure
  BY <1>10, AgentAssumption DEF ControlTyped, Over, DropFailure, queues, loop, tools, journal, mail, scope
<1>11. CASE EmitPrompts
  BY <1>11, AgentAssumption DEF ControlTyped, Over, EmitPrompts, queues, loop, tools, journal, mail, scope
<1>12. CASE InitialPoll
  BY <1>12, AgentAssumption DEF ControlTyped, Over, InitialPoll, queues, loop, tools, journal, mail, scope
<1>13. CASE PrepareNextTurn
  BY <1>13, AgentAssumption DEF ControlTyped, Over, PrepareNextTurn, queues, loop, tools, journal, mail, scope
<1>14. CASE Inject
  BY <1>14, AgentAssumption DEF ControlTyped, Over, Inject, NoGuard, Guards, Keys, queues, loop, tools, journal, mail, scope
<1>15. CASE Request
  BY <1>15, AgentAssumption DEF ControlTyped, Over, Request, queues, loop, tools, journal, mail, scope
<1>16. CASE Recovered
  BY <1>16, AgentAssumption DEF ControlTyped, Over, Recovered, queues, loop, tools, journal, mail, scope
<1>17. CASE FailTruncated
  BY <1>17, AgentAssumption DEF ControlTyped, Over, FailTruncated, queues, loop, tools, journal, mail, scope
<1>18. CASE TurnEnd
  <2>1. batch.key \in Keys /\ guard.n \in Nat /\ guard.n < RepeatLimit /\ RepeatLimit \in Nat \ {0}
    BY <1>18, AgentAssumption DEF TurnEnd, ControlTyped, BatchTyped, Batches, Guards, Over
  <2>2. Repeats \in 1 .. RepeatLimit
    BY <2>1 DEF Repeats
  <2>3. guard' \in Guards
    BY <1>18, <2>1, <2>2 DEF TurnEnd, Guards, NoGuard, Keys
  <2>4. pc' \notin Over => guard'.n < RepeatLimit
    BY <1>18, <2>1, <2>2 DEF TurnEnd, Stuck, NoGuard, Over
  <2> QED BY <1>18, <2>3, <2>4 DEF ControlTyped, TurnEnd, queues, loop, tools, journal, mail, scope
<1>19. CASE PollFollowUps
  BY <1>19, AgentAssumption DEF ControlTyped, Over, PollFollowUps, queues, loop, tools, journal, mail, scope
<1>20. CASE AgentEnd
  BY <1>20, AgentAssumption DEF ControlTyped, Over, AgentEnd, queues, loop, tools, journal, mail, scope
<1>21. CASE FinishRun
  <2>1. /\ pc' = "idle" /\ guard' = NoGuard /\ base' = 0 /\ ended' = 0
        /\ cancelled' = FALSE /\ skip' = FALSE /\ more' = FALSE /\ turned' = FALSE
        /\ turn' = turn /\ crashes' \in {crashes, crashes + 1}
    BY <1>21 DEF FinishRun, Idle
  <2>2. crashes' \in Nat /\ turn' \in Nat /\ base' \in Nat /\ ended' \in Nat
    BY <2>1 DEF ControlTyped
  <2>3. guard' \in Guards /\ (pc' \notin Over => guard'.n < RepeatLimit)
    BY <2>1, NoGuardTyped
  <2> QED BY <2>1, <2>2, <2>3 DEF ControlTyped
<1>22. CASE HandleRunFailure
  BY <1>22, AgentAssumption DEF ControlTyped, Over, HandleRunFailure, queues, loop, tools, journal, mail, scope
<1>23. CASE BatchEnds
  <2>1. /\ UNCHANGED <<scope, skip, turned, guard, turn, crashes>>
        /\ pc = "batch" /\ pc' \in {"failing", "turnEnd", "stopped", "recovered", "ending", "polling"}
    BY <1>23 DEF BatchEnds
  <2>2. more' = more \/ more' \in BOOLEAN
    BY <1>23 DEF BatchEnds
  <2> QED BY <2>1, <2>2 DEF ControlTyped, Over, queues, loop, tools, journal, mail, scope
<1>24. ASSUME NEW c \in 1 .. MaxCalls, Prepare(c) PROVE ControlTyped'
  BY <1>24, AgentAssumption DEF ControlTyped, Over, Prepare, Pipeline, queues, loop, tools, journal, mail, scope
<1>25. ASSUME NEW c \in 1 .. MaxCalls, Admit(c) PROVE ControlTyped'
  BY <1>25, AgentAssumption DEF ControlTyped, Over, Admit, Pipeline, queues, loop, tools, journal, mail, scope
<1>26. ASSUME NEW c \in 1 .. MaxCalls, Acquire(c) PROVE ControlTyped'
  BY <1>26, AgentAssumption DEF ControlTyped, Over, Acquire, Pipeline, queues, loop, tools, journal, mail, scope
<1>27. ASSUME NEW c \in 1 .. MaxCalls, Dispatch(c) PROVE ControlTyped'
  BY <1>27, AgentAssumption DEF ControlTyped, Over, Dispatch, Pipeline, queues, loop, tools, journal, mail, scope
<1>28. ASSUME NEW c \in 1 .. MaxCalls, Settle(c) PROVE ControlTyped'
  BY <1>28, AgentAssumption DEF ControlTyped, Over, Settle, queues, loop, tools, journal, mail, scope
<1>29. CASE Respond
  BY <1>29, AgentAssumption DEF ControlTyped, Over, Respond, queues, loop, tools, journal, mail, scope
<1>30. CASE RespondError
  BY <1>30, AgentAssumption DEF ControlTyped, Over, RespondError, queues, loop, tools, journal, mail, scope
<1>31. CASE RespondCheckpoint
  BY <1>31, AgentAssumption DEF ControlTyped, Over, RespondCheckpoint, queues, loop, tools, journal, mail, scope
<1>32. CASE Throw
  BY <1>32, AgentAssumption DEF ControlTyped, Over, Throw, queues, loop, tools, journal, mail, scope
<1>33. CASE PrepareThrows
  BY <1>33, AgentAssumption DEF ControlTyped, Over, PrepareThrows, queues, loop, tools, journal, mail, scope
<1>34. CASE Crash
  <2>1. /\ pc' = "idle" /\ guard' = NoGuard /\ base' = 0 /\ ended' = 0
        /\ cancelled' = FALSE /\ skip' = FALSE /\ more' = FALSE /\ turned' = FALSE
        /\ turn' = turn /\ crashes' \in {crashes, crashes + 1}
    BY <1>34 DEF Crash, Idle
  <2>2. crashes' \in Nat /\ turn' \in Nat /\ base' \in Nat /\ ended' \in Nat
    BY <2>1 DEF ControlTyped
  <2>3. guard' \in Guards /\ (pc' \notin Over => guard'.n < RepeatLimit)
    BY <2>1, NoGuardTyped
  <2> QED BY <2>1, <2>2, <2>3 DEF ControlTyped
<1>35. ASSUME NEW c \in 1 .. MaxCalls, ExecuteEnds(c) PROVE ControlTyped'
  BY <1>35, AgentAssumption DEF ControlTyped, Over, ExecuteEnds, Pipeline, queues, loop, tools, journal, mail, scope
<1>36. ASSUME NEW c \in 1 .. MaxCalls, CallThrows(c) PROVE ControlTyped'
  <2>1. UNCHANGED <<scope, loop, turn, crashes>> /\ (pc' = pc \/ pc' = "failing")
    BY <1>36 DEF CallThrows
  <2> QED BY <2>1 DEF ControlTyped, Over, queues, loop, tools, journal, mail, scope
<1>37. ASSUME NEW c \in 1 .. MaxCalls, BeforeDispatch(c) PROVE ControlTyped'
  BY <1>37, AgentAssumption DEF ControlTyped, Over, BeforeDispatch, Pipeline, queues, loop, tools, journal, mail, scope
<1>38. ASSUME NEW c \in 1 .. MaxCalls, RefuseDispatch(c) PROVE ControlTyped'
  <2>1. UNCHANGED <<scope, loop, turn, crashes>> /\ (pc' = pc \/ pc' = "failing")
    BY <1>38 DEF RefuseDispatch
  <2> QED BY <2>1 DEF ControlTyped, Over, queues, loop, tools, journal, mail, scope
<1>39. CASE Reconcile
  BY <1>39, AgentAssumption DEF ControlTyped, Over, Reconcile, queues, loop, tools, journal, mail, scope
<1> QED BY <1>0, <1>1, <1>2, <1>3, <1>4, <1>5, <1>6, <1>7, <1>8, <1>9, <1>10, <1>11, <1>12,
           <1>13, <1>14, <1>15, <1>16, <1>17, <1>18, <1>19, <1>20, <1>21, <1>22, <1>23, <1>24,
           <1>25, <1>26, <1>27, <1>28, <1>29, <1>30, <1>31, <1>32, <1>33, <1>34, <1>35, <1>36,
           <1>37, <1>38, <1>39
         DEF Next, Caller, Step, Call, Response

\* Between runs there is a batch without calls.
LEMMA NoBatchTyped == NoBatch \in Batches
<1>1. <<>> \in [1 .. 0 -> Phases]
  OBVIOUS
<1>2. 0 \in 0 .. MaxCalls
  BY AgentAssumption
<1> QED BY <1>1, <1>2 DEF NoBatch, Batches, Keys

\* A batch begins with all its calls to do.
LEMMA NewBatchTyped ==
    ASSUME turn \in Nat, NEW kind \in {"turn", "checkpoint"}, NEW n \in 1 .. MaxCalls,
           NEW mode \in ToolModes, NEW stop \in {"toolUse", "length"}, NEW print \in Prints
    PROVE  NewBatch(kind, mode, n, stop, print) \in Batches
<1>1. [c \in 1 .. n |-> "todo"] \in [1 .. n -> Phases]
  BY DEF Phases
<1>2. n \in 0 .. MaxCalls /\ mode \in {"parallel", "sequential"}
  BY AgentAssumption
<1>3. <<n, stop, print>> \in Keys
  BY <1>2 DEF Keys, Stops
<1> QED BY <1>1, <1>2, <1>3 DEF NewBatch, Batches

\* An assistant message of the transcript has its fields.
LEMMA AssistantAt ==
    ASSUME NEW ms \in Seq(Entries), NEW i \in 1 .. Len(ms), ms[i].role = "assistant"
    PROVE  ms[i] \in [role : {"assistant"}, turn : Nat, calls : 0 .. MaxCalls, print : Prints \cup {"none"},
                      stop : Stops, checkpoint : BOOLEAN]
<1>1. ms[i] \in Entries
  OBVIOUS
<1> QED BY <1>1 DEF Entries, Stops

\* What resumeToolCalls() does with the message at i.
ResumesAt(i, mode) ==
    LET e == messages[i]
        completed == {c \in 1 .. e.calls : <<e.turn, c>> \in persisted}
        history == SubSeq(messages, 1, i) \o Results(e.turn, completed)
    IN  /\ BatchAt(i)
        /\ e.turn = step /\ e.calls > 0 /\ e.stop = "toolUse"
        /\ Begin("batch", <<>>, FALSE, history, i - 1)
        /\ batch' = [kind |-> "resume", turn |-> e.turn, mode |-> mode, terminate |-> {},
                     key |-> <<e.calls, e.stop, e.print>>, launched |-> completed = 1 .. e.calls,
                     phase |-> [c \in 1 .. e.calls |-> IF c \in completed THEN "completed" ELSE "todo"]]

\* A resumed batch is one of the transcript.
LEMMA ResumesSomewhere ==
    ASSUME ResumeToolCalls
    PROVE  \E i \in 1 .. Len(messages), mode \in ToolModes : ResumesAt(i, mode)
BY DEF ResumeToolCalls, ResumesAt

\* Every call of a batch is in one of the phases of the pipeline.
LEMMA BatchStep ==
    ASSUME BatchTyped, ControlTyped, EntriesTyped, [Next]_vars
    PROVE  BatchTyped'
<1>0. CASE UNCHANGED vars
  BY <1>0 DEF BatchTyped, vars
<1>1. ASSUME NEW m \in Messages, Prompt(m) PROVE BatchTyped'
  BY <1>1 DEF BatchTyped, Prompt, Begin, NewJournal, queues, loop, tools, journal, mail, scope
<1>2. ASSUME NEW m \in Messages, Steer(m) PROVE BatchTyped'
  BY <1>2 DEF BatchTyped, Steer, queues, loop, tools, journal, mail, scope
<1>3. ASSUME NEW m \in Messages, FollowUp(m) PROVE BatchTyped'
  BY <1>3 DEF BatchTyped, FollowUp, queues, loop, tools, journal, mail, scope
<1>4. CASE ClearAllQueues
  BY <1>4 DEF BatchTyped, ClearAllQueues, queues, loop, tools, journal, mail, scope
<1>5. CASE Reset
  BY <1>5 DEF BatchTyped, Reset, queues, loop, tools, journal, mail, scope
<1>6. CASE Abort
  BY <1>6 DEF BatchTyped, Abort, queues, loop, tools, journal, mail, scope
<1>7. CASE ContinueQueued
  BY <1>7 DEF BatchTyped, ContinueQueued, Begin, queues, loop, tools, journal, mail, scope
<1>8. CASE Continue
  BY <1>8 DEF BatchTyped, Continue, Begin, queues, loop, tools, journal, mail, scope
<1>9. CASE ResumeToolCalls
  <2>1. PICK i \in 1 .. Len(messages), mode \in ToolModes : ResumesAt(i, mode)
    BY <1>9, ResumesSomewhere
  <2> DEFINE e == messages[i]
             completed == {c \in 1 .. e.calls : <<e.turn, c>> \in persisted}
  <2>2. e \in [role : {"assistant"}, turn : Nat, calls : 0 .. MaxCalls, print : Prints \cup {"none"},
               stop : Stops, checkpoint : BOOLEAN]
    BY <2>1, AssistantAt DEF ResumesAt, BatchAt, EntriesTyped
  <2>3. /\ batch' = [kind |-> "resume", turn |-> e.turn, mode |-> mode, terminate |-> {},
                      key |-> <<e.calls, e.stop, e.print>>, launched |-> completed = 1 .. e.calls,
                      phase |-> [c \in 1 .. e.calls |-> IF c \in completed THEN "completed" ELSE "todo"]]
        /\ pc' = "batch"
    BY <2>1 DEF ResumesAt, Begin
  <2> HIDE DEF e
  <2>4. completed \subseteq 1 .. MaxCalls /\ mode \in {"parallel", "sequential"}
    BY <2>2, AgentAssumption
  <2> HIDE DEF completed
  <2>6. [c \in 1 .. e.calls |-> IF c \in completed THEN "completed" ELSE "todo"] \in [1 .. e.calls -> Phases]
    BY DEF Phases
  <2>7. (completed = 1 .. e.calls) \in BOOLEAN
    OBVIOUS
  <2>8. <<e.calls, e.stop, e.print>> \in Keys
    BY <2>2 DEF Keys
  <2>9. batch' \in Batches
    BY <2>2, <2>3, <2>4, <2>6, <2>7, <2>8 DEF Batches
  <2> QED BY <1>9, <2>3, <2>9 DEF BatchTyped, ResumeToolCalls, queues, loop, tools, journal, mail, scope
<1>10. CASE DropFailure
  BY <1>10 DEF BatchTyped, DropFailure, queues, loop, tools, journal, mail, scope
<1>11. CASE EmitPrompts
  BY <1>11 DEF BatchTyped, EmitPrompts, queues, loop, tools, journal, mail, scope
<1>12. CASE InitialPoll
  BY <1>12 DEF BatchTyped, InitialPoll, queues, loop, tools, journal, mail, scope
<1>13. CASE PrepareNextTurn
  BY <1>13 DEF BatchTyped, PrepareNextTurn, queues, loop, tools, journal, mail, scope
<1>14. CASE Inject
  BY <1>14 DEF BatchTyped, Inject, queues, loop, tools, journal, mail, scope
<1>15. CASE Request
  BY <1>15 DEF BatchTyped, Request, queues, loop, tools, journal, mail, scope
<1>16. CASE Recovered
  BY <1>16 DEF BatchTyped, Recovered, queues, loop, tools, journal, mail, scope
<1>17. CASE FailTruncated
  <2>1. PICK n \in 0 .. MaxCalls : DOMAIN batch.phase = 1 .. n
    BY BatchShape DEF BatchTyped
  <2>2. batch.turn \in Nat /\ MaxCalls \in Nat
    BY AgentAssumption DEF BatchTyped, Batches
  <2> QED BY <1>17, <2>1, <2>2 DEF BatchTyped, FailTruncated, queues, loop, tools, journal, mail, scope
<1>18. CASE TurnEnd
  BY <1>18, NoBatchTyped DEF BatchTyped, TurnEnd, queues, loop, tools, journal, mail, scope
<1>19. CASE PollFollowUps
  BY <1>19 DEF BatchTyped, PollFollowUps, queues, loop, tools, journal, mail, scope
<1>20. CASE AgentEnd
  BY <1>20 DEF BatchTyped, AgentEnd, queues, loop, tools, journal, mail, scope
<1>21. CASE FinishRun
  BY <1>21, NoBatchTyped DEF BatchTyped, FinishRun, Idle, queues, loop, tools, journal, mail, scope
<1>22. CASE HandleRunFailure
  BY <1>22 DEF BatchTyped, HandleRunFailure, queues, loop, tools, journal, mail, scope
<1>23. CASE BatchEnds
  BY <1>23 DEF BatchTyped, BatchEnds, queues, loop, tools, journal, mail, scope
<1>24. ASSUME NEW c \in 1 .. MaxCalls, Prepare(c) PROVE BatchTyped'
  <2>1. c \in DOMAIN batch.phase
    BY <1>24 DEF Prepare, Todo, In
  <2>2. \A p \in Phases : To(c, p) \in Batches
    BY <2>1, MovesOn DEF BatchTyped
  <2>3. CASE \E stop \in {{}, {c}} : batch' = [To(c, "immediate") EXCEPT !.terminate = @ \cup stop]
    <3>1. To(c, "immediate") \in Batches
      BY <2>2 DEF Phases
    <3>2. batch' \in Batches
      BY <2>3, <3>1 DEF Batches
    <3> QED BY <1>24, <3>2 DEF BatchTyped, Prepare, Pipeline, queues, loop, tools, journal, mail, scope
  <2>4. CASE batch' = [To(c, "prepared") EXCEPT !.launched = ~Sequential /\ Todo = {c}]
    <3>1. To(c, "prepared") \in Batches
      BY <2>2 DEF Phases
    <3>2. batch' \in Batches
      BY <2>4, <3>1 DEF Batches
    <3> QED BY <1>24, <3>2 DEF BatchTyped, Prepare, Pipeline, queues, loop, tools, journal, mail, scope
  <2> QED BY <1>24, <2>3, <2>4 DEF Prepare
<1>25. ASSUME NEW c \in 1 .. MaxCalls, Admit(c) PROVE BatchTyped'
  <2>1. c \in DOMAIN batch.phase /\ \A p \in Phases : To(c, p) \in Batches
    BY <1>25, MovesOn DEF Admit, In, Todo, BatchTyped
  <2>2. batch' \in Batches
    BY <1>25, <2>1 DEF Admit, Phases
  <2>3. pc # "idle"
    BY <1>25, <2>1 DEF Admit, BatchTyped, NoBatch
  <2> QED BY <1>25, <2>2, <2>3 DEF BatchTyped, Admit, Pipeline, queues, loop, tools, journal, mail, scope
<1>26. ASSUME NEW c \in 1 .. MaxCalls, Acquire(c) PROVE BatchTyped'
  <2>1. c \in DOMAIN batch.phase /\ \A p \in Phases : To(c, p) \in Batches
    BY <1>26, MovesOn DEF Acquire, In, Todo, BatchTyped
  <2>2. batch' \in Batches
    BY <1>26, <2>1 DEF Acquire, Phases
  <2>3. pc # "idle"
    BY <1>26, <2>1 DEF Acquire, BatchTyped, NoBatch
  <2> QED BY <1>26, <2>2, <2>3 DEF BatchTyped, Acquire, Pipeline, queues, loop, tools, journal, mail, scope
<1>27. ASSUME NEW c \in 1 .. MaxCalls, Dispatch(c) PROVE BatchTyped'
  <2>1. c \in DOMAIN batch.phase /\ batch.turn \in Nat
    BY <1>27 DEF Dispatch, In, BatchTyped, Batches
  <2>2. batch' \in Batches
    BY <1>27, <2>1, MovesOn DEF Dispatch, Phases, BatchTyped
  <2>3. pc # "idle"
    BY <1>27, <2>1 DEF BatchTyped, NoBatch
  <2> QED BY <1>27, <2>1, <2>2, <2>3 DEF BatchTyped, Dispatch, Pipeline, queues, loop, tools, journal, mail, scope
<1>28. ASSUME NEW c \in 1 .. MaxCalls, Settle(c) PROVE BatchTyped'
  <2>1. c \in DOMAIN batch.phase /\ batch.turn \in Nat
    BY <1>28 DEF Settle, In, BatchTyped, Batches
  <2>2. To(c, "done") \in Batches
    BY <2>1, MovesOn DEF BatchTyped, Phases
  <2>3. PICK stop \in {{}, {c}} :
            batch' = [To(c, "done") EXCEPT !.terminate = @ \cup stop, !.launched = @ \/ cancelled \/ Todo = {}]
    BY <1>28 DEF Settle
  <2>4. batch' \in Batches
    BY <2>2, <2>3 DEF Batches
  <2>5. pc # "idle"
    BY <2>1 DEF BatchTyped, NoBatch
  <2> QED BY <1>28, <2>1, <2>4, <2>5 DEF BatchTyped, Settle, queues, loop, tools, journal, mail, scope
<1>29. CASE Respond
  <2>1. CASE UNCHANGED batch
    BY <1>29, <2>1 DEF BatchTyped, ControlTyped, Respond, NewJournal, queues, loop, tools, journal, mail, scope
  <2>2. CASE \E n \in 1 .. MaxCalls, mode \in ToolModes, stop \in {"toolUse", "length"}, print \in Prints :
               batch' = NewBatch("turn", mode, n, stop, print)
    <3>1. batch' \in Batches
      BY <2>2, NewBatchTyped DEF ControlTyped
    <3> QED BY <1>29, <3>1 DEF BatchTyped, ControlTyped, Respond, NewJournal, queues, loop, tools, journal, mail, scope
  <2> QED BY <1>29, <2>1, <2>2 DEF Respond
<1>30. CASE RespondError
  BY <1>30 DEF BatchTyped, RespondError, queues, loop, tools, journal, mail, scope
<1>31. CASE RespondCheckpoint
  <2>1. CASE UNCHANGED batch
    BY <1>31, <2>1 DEF BatchTyped, ControlTyped, RespondCheckpoint, NewJournal, queues, loop, tools, journal, mail, scope
  <2>2. CASE \E n \in 1 .. MaxCalls, mode \in ToolModes, stop \in {"toolUse", "length"}, print \in Prints :
               batch' = NewBatch("checkpoint", mode, n, stop, print)
    <3>1. batch' \in Batches
      BY <2>2, NewBatchTyped DEF ControlTyped
    <3> QED BY <1>31, <3>1 DEF BatchTyped, ControlTyped, RespondCheckpoint, NewJournal, queues, loop, tools, journal, mail, scope
  <2> QED BY <1>31, <2>1, <2>2 DEF RespondCheckpoint
<1>32. CASE Throw
  <2>1. PICK n \in 0 .. MaxCalls : DOMAIN batch.phase = 1 .. n
    BY BatchShape DEF BatchTyped
  <2>2. batch.turn \in Nat /\ MaxCalls \in Nat
    BY AgentAssumption DEF BatchTyped, Batches
  <2>3. CASE pc = "truncated"
    <3>1. Len(Emitting) = n
      <4>1. Emitting = Results(batch.turn, 1 .. n)
        BY <2>1, <2>3 DEF Emitting
      <4>2. n \in Nat /\ 1 .. n \in SUBSET (1 .. n)
        BY <2>2
      <4>3. Len(Results(batch.turn, 1 .. n)) = Cardinality(1 .. n)
        BY <4>2, ResultsShape
      <4>4. Cardinality(1 .. n) = n
        BY <4>2, ResultsOfAll
      <4> QED BY <4>1, <4>3, <4>4
    <3>2. {<<batch.turn, c>> : c \in 1 .. n} \subseteq Nat \X (1 .. MaxCalls)
      BY <2>2
    <3>3. persisted' \subseteq Nat \X (1 .. MaxCalls)
      BY <1>32, <2>3, <3>1, <3>2, <2>2 DEF Throw, BatchTyped
    <3> QED BY <1>32, <3>3 DEF BatchTyped, Throw, queues, loop, tools, journal, mail, scope
  <2>4. CASE pc # "truncated"
    BY <1>32, <2>4 DEF BatchTyped, Throw, queues, loop, tools, journal, mail, scope
  <2> QED BY <2>3, <2>4
<1>33. CASE PrepareThrows
  BY <1>33 DEF BatchTyped, PrepareThrows, queues, loop, tools, journal, mail, scope
<1>34. CASE Crash
  BY <1>34, NoBatchTyped DEF BatchTyped, Crash, Idle, queues, loop, tools, journal, mail, scope
<1>35. ASSUME NEW c \in 1 .. MaxCalls, ExecuteEnds(c) PROVE BatchTyped'
  <2>1. c \in DOMAIN batch.phase /\ \A p \in Phases : To(c, p) \in Batches
    BY <1>35, MovesOn DEF ExecuteEnds, In, Todo, BatchTyped
  <2>2. batch' \in Batches
    BY <1>35, <2>1 DEF ExecuteEnds, Phases
  <2>3. pc # "idle"
    BY <1>35, <2>1 DEF ExecuteEnds, BatchTyped, NoBatch
  <2> QED BY <1>35, <2>2, <2>3 DEF BatchTyped, ExecuteEnds, Pipeline, queues, loop, tools, journal, mail, scope
<1>36. ASSUME NEW c \in 1 .. MaxCalls, CallThrows(c) PROVE BatchTyped'
  <2>1. c \in DOMAIN batch.phase
    BY <1>36 DEF CallThrows, In
  <2>2. batch' \in Batches
    BY <1>36, <2>1, MovesOn DEF CallThrows, Phases, BatchTyped
  <2>3. pc # "idle"
    BY <1>36, <2>1 DEF BatchTyped, NoBatch
  <2> QED BY <1>36, <2>2, <2>3 DEF BatchTyped, CallThrows, queues, loop, tools, journal, mail, scope
<1>37. ASSUME NEW c \in 1 .. MaxCalls, BeforeDispatch(c) PROVE BatchTyped'
  <2>1. c \in DOMAIN batch.phase /\ <<batch.turn, c>> \in Nat \X (1 .. MaxCalls)
    BY <1>37 DEF BeforeDispatch, In, BatchTyped, Batches
  <2>2. batch' \in Batches
    BY <1>37, <2>1, MovesOn DEF BeforeDispatch, Phases, BatchTyped
  <2>3. pc # "idle"
    BY <2>1 DEF BatchTyped, NoBatch
  <2>4. safe' \subseteq safe \cup {<<batch.turn, c>>} /\ unsafe' \subseteq unsafe \cup {<<batch.turn, c>>}
    BY <1>37 DEF BeforeDispatch, Journal, journal
  <2>5. UNCHANGED <<step, started, persisted, pc>>
    BY <1>37 DEF BeforeDispatch, Pipeline, journal
  <2> QED BY <2>1, <2>2, <2>3, <2>4, <2>5 DEF BatchTyped
<1>38. ASSUME NEW c \in 1 .. MaxCalls, RefuseDispatch(c) PROVE BatchTyped'
  <2>1. c \in DOMAIN batch.phase /\ <<batch.turn, c>> \in Nat \X (1 .. MaxCalls)
    BY <1>38 DEF RefuseDispatch, In, BatchTyped, Batches
  <2>2. batch' \in Batches
    BY <1>38, <2>1, MovesOn DEF RefuseDispatch, Phases, BatchTyped
  <2>3. pc # "idle" /\ (pc' = pc \/ pc' = "failing")
    BY <1>38, <2>1 DEF BatchTyped, NoBatch, RefuseDispatch
  <2>4. /\ safe' \subseteq safe /\ unsafe' \subseteq unsafe \cup {<<batch.turn, c>>}
        /\ UNCHANGED <<step, started, persisted>>
    BY <1>38 DEF RefuseDispatch
  <2> QED BY <2>1, <2>2, <2>3, <2>4 DEF BatchTyped
<1>39. CASE Reconcile
  <2>1. /\ UNCHANGED <<batch, pc, step, safe>> /\ persisted' \subseteq persisted \cup Unknown
        /\ started' \subseteq started /\ unsafe' \subseteq unsafe /\ Unknown \subseteq unsafe
    BY <1>39 DEF Reconcile, Unknown
  <2> QED BY <2>1 DEF BatchTyped
<1> QED BY <1>0, <1>1, <1>2, <1>3, <1>4, <1>5, <1>6, <1>7, <1>8, <1>9, <1>10, <1>11, <1>12,
           <1>13, <1>14, <1>15, <1>16, <1>17, <1>18, <1>19, <1>20, <1>21, <1>22, <1>23, <1>24,
           <1>25, <1>26, <1>27, <1>28, <1>29, <1>30, <1>31, <1>32, <1>33, <1>34, <1>35, <1>36,
           <1>37, <1>38, <1>39
         DEF Next, Caller, Step, Call, Response

\* A single entry.
LEMMA OneEntry == \A x \in Entries : <<x>> \in Seq(Entries)
OBVIOUS
\* Both copies of the transcript grow by what is emitted.
LEMMA Pushed ==
    ASSUME messages \in Seq(Entries), context \in Seq(Entries), NEW es \in Seq(Entries), Push(es)
    PROVE  /\ messages' \in Seq(Entries) /\ context' \in Seq(Entries)
           /\ Len(messages') = Len(messages) + Len(es) /\ Len(messages') >= Len(messages)
           /\ Len(context') = Len(context) + Len(es)
           /\ \A i \in 1 .. Len(messages) : messages'[i] = messages[i]
           /\ \A i \in 1 .. Len(es) : messages'[Len(messages) + i] = es[i]
BY DEF Push

\* The results of calls of the batch are entries.
LEMMA InResults ==
    ASSUME BatchTyped, NEW P, NEW Q
    PROVE  /\ In(P) \cup In(Q) \subseteq DOMAIN batch.phase
           /\ Results(batch.turn, In(P)) \in Seq(Entries)
           /\ Results(batch.turn, In(P) \cup In(Q)) \in Seq(Entries)
           /\ Len(Results(batch.turn, In(P))) = Cardinality(In(P)) /\ Cardinality(In(P)) \in Nat
<1>1. PICK n \in 0 .. MaxCalls : DOMAIN batch.phase = 1 .. n
  BY BatchShape DEF BatchTyped
<1>2. batch.turn \in Nat /\ MaxCalls \in Nat
  BY AgentAssumption DEF BatchTyped, Batches
<1>3. In(P) \subseteq DOMAIN batch.phase /\ In(Q) \subseteq DOMAIN batch.phase
  BY DEF In
<1>4. In(P) \in SUBSET (1 .. MaxCalls) /\ In(P) \cup In(Q) \in SUBSET (1 .. MaxCalls)
  BY <1>1, <1>2, <1>3
<1> QED BY <1>2, <1>3, <1>4, ResultsTyped, ResultsShape

\* So are the results of all of them.
LEMMA BatchResults ==
    ASSUME BatchTyped
    PROVE  Results(batch.turn, DOMAIN batch.phase) \in Seq(Entries)
<1>1. PICK n \in 0 .. MaxCalls : DOMAIN batch.phase = 1 .. n
  BY BatchShape DEF BatchTyped
<1>2. batch.turn \in Nat /\ MaxCalls \in Nat
  BY AgentAssumption DEF BatchTyped, Batches
<1>3. DOMAIN batch.phase \in SUBSET (1 .. MaxCalls)
  BY <1>1, <1>2
<1> QED BY <1>2, <1>3, ResultsTyped

\* Both copies stay transcripts, and the run's part of them is not cut off.
LEMMA EntriesStep ==
    ASSUME MailTyped, ControlTyped, BatchTyped, EntriesTyped, [Next]_vars
    PROVE  EntriesTyped'
<1>0. CASE UNCHANGED vars
  BY <1>0 DEF EntriesTyped, vars
<1>1. ASSUME NEW m \in Messages, Prompt(m) PROVE EntriesTyped'
  BY <1>1 DEF EntriesTyped, Prompt, Begin, queues, loop, tools, journal, mail, scope
<1>2. ASSUME NEW m \in Messages, Steer(m) PROVE EntriesTyped'
  BY <1>2 DEF EntriesTyped, Steer, queues, loop, tools, journal, mail, scope
<1>3. ASSUME NEW m \in Messages, FollowUp(m) PROVE EntriesTyped'
  BY <1>3 DEF EntriesTyped, FollowUp, queues, loop, tools, journal, mail, scope
<1>4. CASE ClearAllQueues
  BY <1>4 DEF EntriesTyped, ClearAllQueues, queues, loop, tools, journal, mail, scope
<1>5. CASE Reset
  BY <1>5 DEF EntriesTyped, Reset, queues, loop, tools, journal, mail, scope
<1>6. CASE Abort
  BY <1>6 DEF EntriesTyped, Abort, queues, loop, tools, journal, mail, scope
<1>7. CASE ContinueQueued
  BY <1>7 DEF EntriesTyped, ContinueQueued, Begin, queues, loop, tools, journal, mail, scope
<1>8. CASE Continue
  BY <1>8 DEF EntriesTyped, Continue, Begin, queues, loop, tools, journal, mail, scope
<1>9. CASE ResumeToolCalls
  <2>1. PICK i \in 1 .. Len(messages), mode \in ToolModes : ResumesAt(i, mode)
    BY <1>9, ResumesSomewhere
  <2> DEFINE e == messages[i]
             completed == {c \in 1 .. e.calls : <<e.turn, c>> \in persisted}
             history == SubSeq(messages, 1, i) \o Results(e.turn, completed)
  <2>2. e.turn \in Nat /\ e.calls \in 0 .. MaxCalls
    BY <2>1, AssistantAt DEF ResumesAt, BatchAt, EntriesTyped
  <2>3. pc' = "batch" /\ messages' = history /\ context' = history /\ base' = i - 1
    BY <2>1 DEF ResumesAt, Begin
  <2>4. SubSeq(messages, 1, i) \in Seq(Entries) /\ Len(SubSeq(messages, 1, i)) = i
    BY DEF EntriesTyped
  <2>5. Results(e.turn, completed) \in Seq(Entries)
    <3>1. completed \in SUBSET (1 .. MaxCalls)
      BY <2>2, AgentAssumption
    <3> QED BY <2>2, <3>1, ResultsTyped
  <2> HIDE DEF e, completed
  <2>6. history \in Seq(Entries) /\ Len(history) >= i
    BY <2>4, <2>5
  <2> QED BY <2>3, <2>6 DEF EntriesTyped
<1>10. CASE DropFailure
  <2>1. Len(messages) \in Nat \ {0} /\ base = 0
    BY <1>10 DEF DropFailure, EntriesTyped
  <2> DEFINE n == Len(messages) - 1
  <2>2. messages \in Seq(Entries) /\ n \in 0 .. Len(messages) /\ messages' = SubSeq(messages, 1, n)
    BY <1>10, <2>1 DEF DropFailure, EntriesTyped
  <2> HIDE DEF n
  <2>3. messages' \in Seq(Entries) /\ Len(messages') >= 0
    BY <2>2
  <2> QED BY <1>10, <2>1, <2>3 DEF EntriesTyped, DropFailure, scope
<1>11. CASE EmitPrompts
  <2>1. Users(pending) \in Seq(Entries)
    BY UsersTyped DEF MailTyped
  <2>2. /\ messages' \in Seq(Entries) /\ context' \in Seq(Entries) /\ base' = base
        /\ Len(messages') >= Len(messages)
    BY <1>11, <2>1, Pushed DEF EmitPrompts, EntriesTyped, scope
  <2> QED BY <1>11, <2>2 DEF EntriesTyped, ControlTyped, EmitPrompts
<1>12. CASE InitialPoll
  BY <1>12 DEF EntriesTyped, InitialPoll, queues, loop, tools, journal, mail, scope
<1>13. CASE PrepareNextTurn
  BY <1>13 DEF EntriesTyped, PrepareNextTurn, queues, loop, tools, journal, mail, scope
<1>14. CASE Inject
  <2>1. Users(pending) \in Seq(Entries)
    BY UsersTyped DEF MailTyped
  <2>2. /\ messages' \in Seq(Entries) /\ context' \in Seq(Entries) /\ base' = base
        /\ Len(messages') >= Len(messages)
    BY <1>14, <2>1, Pushed DEF Inject, EntriesTyped, scope
  <2> QED BY <1>14, <2>2 DEF EntriesTyped, ControlTyped, Inject
<1>15. CASE Request
  <2>1. <<Note("aborted")>> \in Seq(Entries)
    BY NoteTyped DEF ControlTyped, Stops
  <2>2. CASE Push(<<Note("aborted")>>)
    <3>1. messages' \in Seq(Entries) /\ context' \in Seq(Entries) /\ Len(messages') >= Len(messages)
      BY <2>1, <2>2, Pushed DEF EntriesTyped
    <3> QED BY <1>15, <3>1 DEF EntriesTyped, ControlTyped, Request, scope
  <2>3. CASE UNCHANGED <<messages, context>>
    BY <1>15, <2>3 DEF EntriesTyped, Request, scope
  <2> QED BY <1>15, <2>2, <2>3 DEF Request
<1>16. CASE Recovered
  <2>1. <<Note(IF cancelled \/ pc = "stopped" THEN "aborted" ELSE "error")>> \in Seq(Entries)
    BY NoteTyped DEF ControlTyped, Stops
  <2>2. /\ messages' \in Seq(Entries) /\ context' \in Seq(Entries) /\ base' = base
        /\ Len(messages') >= Len(messages)
    BY <1>16, <2>1, Pushed DEF Recovered, EntriesTyped, scope
  <2> QED BY <1>16, <2>2 DEF EntriesTyped, ControlTyped, Recovered
<1>17. CASE FailTruncated
  <2>1. Results(batch.turn, DOMAIN batch.phase) \in Seq(Entries)
    BY BatchResults
  <2>2. /\ messages' \in Seq(Entries) /\ context' \in Seq(Entries) /\ base' = base
        /\ Len(messages') >= Len(messages)
    BY <1>17, <2>1, Pushed DEF FailTruncated, EntriesTyped, scope
  <2> QED BY <1>17, <2>2 DEF EntriesTyped, ControlTyped, FailTruncated
<1>18. CASE TurnEnd
  <2>1. <<Note("error")>> \in Seq(Entries)
    BY NoteTyped DEF ControlTyped, Stops
  <2>2. CASE Push(<<Note("error")>>)
    <3>1. messages' \in Seq(Entries) /\ context' \in Seq(Entries) /\ Len(messages') >= Len(messages)
      BY <2>1, <2>2, Pushed DEF EntriesTyped
    <3> QED BY <1>18, <3>1 DEF EntriesTyped, ControlTyped, TurnEnd, scope
  <2>3. CASE UNCHANGED <<messages, context>>
    BY <1>18, <2>3 DEF EntriesTyped, TurnEnd, scope
  <2> QED BY <1>18, <2>2, <2>3 DEF TurnEnd
<1>19. CASE PollFollowUps
  BY <1>19 DEF EntriesTyped, PollFollowUps, queues, loop, tools, journal, mail, scope
<1>20. CASE AgentEnd
  BY <1>20 DEF EntriesTyped, AgentEnd, queues, loop, tools, journal, mail, scope
<1>21. CASE FinishRun
  BY <1>21 DEF EntriesTyped, FinishRun, Idle, queues, loop, tools, journal, mail, scope
<1>22. CASE HandleRunFailure
  <2> DEFINE note == Note(IF cancelled THEN "aborted" ELSE "error")
  <2>1. note \in Entries
    BY NoteTyped DEF ControlTyped, Stops
  <2>2. messages' \in {messages, Append(messages, note)}
    BY <1>22 DEF HandleRunFailure
  <2> HIDE DEF note
  <2>3. messages' \in Seq(Entries) /\ Len(messages') >= Len(messages)
    BY <2>1, <2>2 DEF EntriesTyped
  <2> QED BY <1>22, <2>3 DEF EntriesTyped, ControlTyped, HandleRunFailure, scope
<1>23. CASE BatchEnds
  <2> DEFINE done == In({"done"})
             completed == In({"completed"})
             emitted == IF Sequential THEN messages ELSE messages \o Results(batch.turn, done)
  <2>1. /\ Results(batch.turn, done) \in Seq(Entries) /\ Len(Results(batch.turn, done)) = Cardinality(done)
        /\ Results(batch.turn, done \cup completed) \in Seq(Entries) /\ Cardinality(done) \in Nat
    BY InResults
  <2>2. base' = base /\ batch' = batch /\ pc' # "idle" /\ pc' # "batch"
    BY <1>23 DEF BatchEnds, scope
  <2> SUFFICES messages' \in Seq(Entries) /\ context' \in Seq(Entries) /\ base <= Len(messages')
    BY <2>2 DEF EntriesTyped
  <2>3. CASE UNCHANGED <<messages, context>>
    BY <2>3 DEF EntriesTyped
  <2>4. CASE /\ ~Sequential /\ context' = context
             /\ \E k \in 0 .. Cardinality(done) : messages' = SubSeq(emitted, 1, Len(messages) + k)
    <3>1. PICK k \in 0 .. Cardinality(done) : messages' = SubSeq(emitted, 1, Len(messages) + k)
      BY <2>4
    <3>2. emitted \in Seq(Entries) /\ Len(emitted) = Len(messages) + Cardinality(done) /\ Len(messages) \in Nat
      <4>1. emitted = messages \o Results(batch.turn, done)
        BY <2>4
      <4> DEFINE answers == Results(batch.turn, done)
                 n == Cardinality(done)
      <4>2. answers \in Seq(Entries) /\ Len(answers) = n /\ n \in Nat
        BY <2>1
      <4> HIDE DEF emitted, answers, n
      <4>3. messages \o answers \in Seq(Entries) /\ Len(messages \o answers) = Len(messages) + n /\ Len(messages) \in Nat
        BY <4>2 DEF EntriesTyped
      <4> QED BY <4>1, <4>3 DEF answers, n
    <3> HIDE DEF emitted, done
    <3>3. messages' \in Seq(Entries) /\ Len(messages') = Len(messages) + k
      BY <2>1, <3>1, <3>2
    <3> QED BY <2>4, <3>2, <3>3 DEF EntriesTyped, ControlTyped
  <2>5. CASE messages' = emitted /\ context' = context \o Results(batch.turn, done)
    <3> HIDE DEF done
    <3> QED BY <2>1, <2>5 DEF EntriesTyped, ControlTyped
  <2>6. CASE /\ batch.kind = "resume"
             /\ messages' = SubSeq(messages, 1, base + 1) \o Ordered(done, completed)
             /\ context' = SubSeq(context, 1, base + 1) \o Results(batch.turn, done \cup completed)
    <3>1. base < Len(messages) /\ base < Len(context) /\ base \in Nat
      BY <1>23, <2>6 DEF EntriesTyped, ControlTyped, BatchEnds
    <3>2. /\ SubSeq(messages, 1, base + 1) \in Seq(Entries) /\ SubSeq(context, 1, base + 1) \in Seq(Entries)
          /\ Len(SubSeq(messages, 1, base + 1)) = base + 1
      BY <3>1 DEF EntriesTyped
    <3>3. messages' = SubSeq(messages, 1, base + 1) \o Results(batch.turn, done \cup completed)
      BY <2>6 DEF Ordered
    <3> DEFINE kept == SubSeq(messages, 1, base + 1)
               answers == Results(batch.turn, done \cup completed)
    <3>4. kept \o answers \in Seq(Entries) /\ Len(kept \o answers) >= base + 1
      <4> HIDE DEF done, completed
      <4>1. kept \in Seq(Entries) /\ answers \in Seq(Entries) /\ Len(kept) = base + 1
        BY <2>1, <3>2
      <4> HIDE DEF kept, answers
      <4> QED BY <4>1, <3>1
    <3>5. context' \in Seq(Entries)
      BY <2>1, <2>6, <3>2
    <3> QED BY <3>1, <3>3, <3>4, <3>5
  <2> QED BY <1>23, <2>3, <2>4, <2>5, <2>6 DEF BatchEnds
<1>24. ASSUME NEW c \in 1 .. MaxCalls, Prepare(c) PROVE EntriesTyped'
  <2>1. c \in DOMAIN batch.phase
    BY <1>24 DEF Prepare, In, Todo
  <2>2. \A p \in {"immediate", "prepared"} : To(c, p) \in Batches /\ To(c, p).kind = batch.kind
    BY <2>1, MovesOn DEF BatchTyped, Phases
  <2>3. batch'.kind = batch.kind
    <3>1. \E x : \/ batch' = [To(c, "immediate") EXCEPT !.terminate = x]
                 \/ batch' = [To(c, "prepared") EXCEPT !.launched = x]
      BY <1>24 DEF Prepare
    <3> QED BY <2>2, <3>1 DEF Batches
  <2>4. UNCHANGED <<messages, context, base>> /\ (pc' = pc \/ pc' = "failing")
    BY <1>24 DEF Prepare, Pipeline, scope
  <2> QED BY <2>3, <2>4 DEF EntriesTyped
<1>25. ASSUME NEW c \in 1 .. MaxCalls, Admit(c) PROVE EntriesTyped'
  <2>1. c \in DOMAIN batch.phase
    BY <1>25 DEF Admit, In, Todo
  <2>2. \A p \in {"waiting", "executed"} : To(c, p).kind = batch.kind
    BY <2>1, MovesOn DEF BatchTyped, Phases
  <2>3. batch'.kind = batch.kind
    BY <1>25, <2>2 DEF Admit
  <2>4. UNCHANGED <<messages, context, base>> /\ (pc' = pc \/ pc' = "failing")
    BY <1>25 DEF Admit, Pipeline, scope
  <2> QED BY <2>3, <2>4 DEF EntriesTyped
<1>26. ASSUME NEW c \in 1 .. MaxCalls, Acquire(c) PROVE EntriesTyped'
  <2>1. c \in DOMAIN batch.phase
    BY <1>26 DEF Acquire, In, Todo
  <2>2. \A p \in Phases : To(c, p) \in Batches /\ To(c, p).kind = batch.kind
    BY <2>1, MovesOn DEF BatchTyped
  <2>3. batch'.kind = batch.kind
    BY <1>26, <2>2 DEF Acquire, Phases, Batches
  <2>4. UNCHANGED <<messages, context, base>> /\ (pc' = pc \/ pc' = "failing")
    BY <1>26 DEF Acquire, Pipeline, scope
  <2> QED BY <2>3, <2>4 DEF EntriesTyped
<1>27. ASSUME NEW c \in 1 .. MaxCalls, Dispatch(c) PROVE EntriesTyped'
  <2>1. c \in DOMAIN batch.phase
    BY <1>27 DEF Dispatch, In, Todo
  <2>2. \A p \in Phases : To(c, p) \in Batches /\ To(c, p).kind = batch.kind
    BY <2>1, MovesOn DEF BatchTyped
  <2>3. batch'.kind = batch.kind
    BY <1>27, <2>2 DEF Dispatch, Phases, Batches
  <2>4. UNCHANGED <<messages, context, base>> /\ (pc' = pc \/ pc' = "failing")
    BY <1>27 DEF Dispatch, Pipeline, scope
  <2> QED BY <2>3, <2>4 DEF EntriesTyped
<1>28. ASSUME NEW c \in 1 .. MaxCalls, Settle(c) PROVE EntriesTyped'
  <2>1. c \in DOMAIN batch.phase /\ batch.turn \in Nat
    BY <1>28 DEF Settle, In, BatchTyped, Batches
  <2>2. Result(batch.turn, c) \in Entries
    BY <2>1 DEF Result, Entries
  <2>3. messages' \in {messages, Append(messages, Result(batch.turn, c))}
    BY <1>28 DEF Settle
  <2>4. messages' \in Seq(Entries) /\ Len(messages') >= Len(messages)
    BY <2>2, <2>3 DEF EntriesTyped
  <2>5. To(c, "done") \in Batches /\ To(c, "done").kind = batch.kind
    BY <2>1, MovesOn DEF BatchTyped, Phases
  <2>6. batch'.kind = batch.kind
    BY <1>28, <2>5 DEF Settle, Batches
  <2> QED BY <1>28, <2>4, <2>6 DEF EntriesTyped, ControlTyped, Settle, scope
<1>29. CASE Respond
  <2>1. CASE Push(<<Note("stop")>>) /\ pc' # "batch"
    <3>1. <<Note("stop")>> \in Seq(Entries)
      <4>1. 0 \in 0 .. MaxCalls /\ "stop" \in Stops /\ "none" \in Prints \cup {"none"} /\ turn \in Nat
        BY AgentAssumption DEF Stops, ControlTyped
      <4>2. Note("stop") \in Entries
        BY <4>1, NoteTyped, AssistantTyped
      <4> QED BY <4>2, OneEntry, Zenon
    <3>2. messages' \in Seq(Entries) /\ context' \in Seq(Entries) /\ Len(messages') >= Len(messages)
      BY <2>1, <3>1, Pushed DEF EntriesTyped
    <3>3. base' = base /\ pc' # "idle"
      BY <1>29 DEF Respond, scope
    <3> QED BY <2>1, <3>2, <3>3 DEF EntriesTyped, ControlTyped
  <2>2. CASE \E n \in 1 .. MaxCalls, mode \in ToolModes, stop \in {"toolUse", "length"}, print \in Prints :
               /\ Push(<<Assistant(turn, n, stop, print, FALSE)>>)
               /\ batch' = NewBatch("turn", mode, n, stop, print)
    <3>1. PICK n \in 1 .. MaxCalls, mode \in ToolModes, stop \in {"toolUse", "length"}, print \in Prints :
               /\ Push(<<Assistant(turn, n, stop, print, FALSE)>>)
               /\ batch' = NewBatch("turn", mode, n, stop, print)
      BY <2>2
    <3>2. <<Assistant(turn, n, stop, print, FALSE)>> \in Seq(Entries)
      <4>1. n \in 0 .. MaxCalls /\ stop \in Stops /\ print \in Prints \cup {"none"}
        BY DEF Stops
      <4>2. Assistant(turn, n, stop, print, FALSE) \in Entries
        BY <4>1, AssistantTyped DEF ControlTyped
      <4> QED BY <4>2, OneEntry, Zenon
    <3>3. messages' \in Seq(Entries) /\ context' \in Seq(Entries) /\ Len(messages') >= Len(messages)
      BY <3>1, <3>2, Pushed DEF EntriesTyped
    <3>4. batch'.kind = "turn"
      BY <3>1 DEF NewBatch
    <3>5. base' = base /\ pc' # "idle"
      BY <1>29 DEF Respond, scope
    <3> QED BY <3>3, <3>4, <3>5 DEF EntriesTyped, ControlTyped
  <2> QED BY <1>29, <2>1, <2>2 DEF Respond
<1>30. CASE RespondError
  <2>1. <<Note(IF cancelled THEN "aborted" ELSE "error")>> \in Seq(Entries)
    BY NoteTyped DEF ControlTyped, Stops
  <2>2. /\ messages' \in Seq(Entries) /\ context' \in Seq(Entries) /\ base' = base
        /\ Len(messages') >= Len(messages)
    BY <1>30, <2>1, Pushed DEF RespondError, EntriesTyped, scope
  <2> QED BY <1>30, <2>2 DEF EntriesTyped, ControlTyped, RespondError
<1>31. CASE RespondCheckpoint
  <2>1. CASE Push(<<Assistant(turn, 0, "stop", "none", TRUE)>>) /\ pc' # "batch"
    <3>1. <<Assistant(turn, 0, "stop", "none", TRUE)>> \in Seq(Entries)
      <4>1. 0 \in 0 .. MaxCalls /\ "stop" \in Stops /\ "none" \in Prints \cup {"none"} /\ turn \in Nat
        BY AgentAssumption DEF Stops, ControlTyped
      <4>2. Assistant(turn, 0, "stop", "none", TRUE) \in Entries
        BY <4>1, NoteTyped, AssistantTyped
      <4> QED BY <4>2, OneEntry, Zenon
    <3>2. messages' \in Seq(Entries) /\ context' \in Seq(Entries) /\ Len(messages') >= Len(messages)
      BY <2>1, <3>1, Pushed DEF EntriesTyped
    <3>3. base' = base /\ pc' # "idle"
      BY <1>31 DEF RespondCheckpoint, scope
    <3> QED BY <2>1, <3>2, <3>3 DEF EntriesTyped, ControlTyped
  <2>2. CASE \E n \in 1 .. MaxCalls, mode \in ToolModes, stop \in {"toolUse"}, print \in Prints :
               /\ Push(<<Assistant(turn, n, stop, print, TRUE)>>)
               /\ batch' = NewBatch("checkpoint", mode, n, stop, print)
    <3>1. PICK n \in 1 .. MaxCalls, mode \in ToolModes, stop \in {"toolUse"}, print \in Prints :
               /\ Push(<<Assistant(turn, n, stop, print, TRUE)>>)
               /\ batch' = NewBatch("checkpoint", mode, n, stop, print)
      BY <2>2
    <3>2. <<Assistant(turn, n, stop, print, TRUE)>> \in Seq(Entries)
      <4>1. n \in 0 .. MaxCalls /\ stop \in Stops /\ print \in Prints \cup {"none"}
        BY DEF Stops
      <4>2. Assistant(turn, n, stop, print, TRUE) \in Entries
        BY <4>1, AssistantTyped DEF ControlTyped
      <4> QED BY <4>2, OneEntry, Zenon
    <3>3. messages' \in Seq(Entries) /\ context' \in Seq(Entries) /\ Len(messages') >= Len(messages)
      BY <3>1, <3>2, Pushed DEF EntriesTyped
    <3>4. batch'.kind = "checkpoint"
      BY <3>1 DEF NewBatch
    <3>5. base' = base /\ pc' # "idle"
      BY <1>31 DEF RespondCheckpoint, scope
    <3> QED BY <3>3, <3>4, <3>5 DEF EntriesTyped, ControlTyped
  <2> QED BY <1>31, <2>1, <2>2 DEF RespondCheckpoint
<1>32. CASE Throw
  <2>1. Emitting \in Seq(Entries)
    BY UsersTyped, BatchResults DEF Emitting, MailTyped
  <2>2. PICK k \in 0 .. Len(Emitting) : messages' = messages \o SubSeq(Emitting, 1, k)
    BY <1>32 DEF Throw
  <2>3. SubSeq(Emitting, 1, k) \in Seq(Entries)
    BY <2>1
  <2>4. messages' \in Seq(Entries) /\ Len(messages') >= Len(messages)
    BY <2>2, <2>3 DEF EntriesTyped
  <2> QED BY <1>32, <2>4 DEF EntriesTyped, ControlTyped, Throw, scope
<1>33. CASE PrepareThrows
  BY <1>33 DEF EntriesTyped, PrepareThrows, queues, loop, tools, journal, mail, scope
<1>34. CASE Crash
  BY <1>34 DEF EntriesTyped, Crash, Idle, queues, loop, tools, journal, mail, scope
<1>35. ASSUME NEW c \in 1 .. MaxCalls, ExecuteEnds(c) PROVE EntriesTyped'
  <2>1. c \in DOMAIN batch.phase
    BY <1>35 DEF ExecuteEnds, In, Todo
  <2>2. \A p \in Phases : To(c, p) \in Batches /\ To(c, p).kind = batch.kind
    BY <2>1, MovesOn DEF BatchTyped
  <2>3. batch'.kind = batch.kind
    BY <1>35, <2>2 DEF ExecuteEnds, Phases, Batches
  <2>4. UNCHANGED <<messages, context, base>> /\ (pc' = pc \/ pc' = "failing")
    BY <1>35 DEF ExecuteEnds, Pipeline, scope
  <2> QED BY <2>3, <2>4 DEF EntriesTyped
<1>36. ASSUME NEW c \in 1 .. MaxCalls, CallThrows(c) PROVE EntriesTyped'
  <2>1. c \in DOMAIN batch.phase
    BY <1>36 DEF CallThrows, In, Todo
  <2>2. \A p \in Phases : To(c, p) \in Batches /\ To(c, p).kind = batch.kind
    BY <2>1, MovesOn DEF BatchTyped
  <2>3. batch'.kind = batch.kind
    BY <1>36, <2>2 DEF CallThrows, Phases, Batches
  <2>4. UNCHANGED <<messages, context, base>> /\ (pc' = pc \/ pc' = "failing")
    BY <1>36 DEF CallThrows, scope
  <2> QED BY <2>3, <2>4 DEF EntriesTyped
<1>37. ASSUME NEW c \in 1 .. MaxCalls, BeforeDispatch(c) PROVE EntriesTyped'
  <2>1. c \in DOMAIN batch.phase
    BY <1>37 DEF BeforeDispatch, In, Todo
  <2>2. \A p \in Phases : To(c, p) \in Batches /\ To(c, p).kind = batch.kind
    BY <2>1, MovesOn DEF BatchTyped
  <2>3. batch'.kind = batch.kind
    BY <1>37, <2>2 DEF BeforeDispatch, Phases, Batches
  <2>4. UNCHANGED <<messages, context, base>> /\ (pc' = pc \/ pc' = "failing")
    BY <1>37 DEF BeforeDispatch, Pipeline, scope
  <2> QED BY <2>3, <2>4 DEF EntriesTyped
<1>38. ASSUME NEW c \in 1 .. MaxCalls, RefuseDispatch(c) PROVE EntriesTyped'
  <2>1. c \in DOMAIN batch.phase
    BY <1>38 DEF RefuseDispatch, In, Todo
  <2>2. \A p \in Phases : To(c, p) \in Batches /\ To(c, p).kind = batch.kind
    BY <2>1, MovesOn DEF BatchTyped
  <2>3. batch'.kind = batch.kind
    BY <1>38, <2>2 DEF RefuseDispatch, Phases, Batches
  <2>4. UNCHANGED <<messages, context, base>> /\ (pc' = pc \/ pc' = "failing")
    BY <1>38 DEF RefuseDispatch, scope
  <2> QED BY <2>3, <2>4 DEF EntriesTyped
<1>39. CASE Reconcile
  BY <1>39 DEF EntriesTyped, Reconcile, queues, loop, tools, journal, mail, scope
<1> QED BY <1>0, <1>1, <1>2, <1>3, <1>4, <1>5, <1>6, <1>7, <1>8, <1>9, <1>10, <1>11, <1>12,
           <1>13, <1>14, <1>15, <1>16, <1>17, <1>18, <1>19, <1>20, <1>21, <1>22, <1>23, <1>24,
           <1>25, <1>26, <1>27, <1>28, <1>29, <1>30, <1>31, <1>32, <1>33, <1>34, <1>35, <1>36,
           <1>37, <1>38, <1>39
         DEF Next, Caller, Step, Call, Response

\* One call moves on to phase p.
Moves(c, p) ==
    /\ DOMAIN batch'.phase = DOMAIN batch.phase /\ batch'.phase[c] = p
    /\ \A d \in DOMAIN batch.phase \ {c} : batch'.phase[d] = batch.phase[d]
    /\ batch'.kind = batch.kind /\ batch'.mode = batch.mode /\ batch'.turn = batch.turn
    /\ batch'.key = batch.key

\* A step that agrees with To(c, p) on what a move is about moves call c to p.
LEMMA MovesAs ==
    ASSUME batch \in Batches, NEW c \in DOMAIN batch.phase, NEW p \in Phases,
           batch'.phase = To(c, p).phase, batch'.kind = To(c, p).kind, batch'.mode = To(c, p).mode,
           batch'.turn = To(c, p).turn, batch'.key = To(c, p).key
    PROVE  Moves(c, p)
BY MovesOn DEF Moves

\* Steps that leave the batch alone.
LEMMA SameBatch ==
    ASSUME Pipelined, batch' = batch, pc' = pc \/ (pc # "batch" /\ pc' # "batch"),
           cancelled => cancelled' \/ pc' # "batch"
    PROVE  Pipelined'
BY DEF Pipelined, NoOrphanEffects, Sequential, Busy, Todo, In

\* A call settles; the last one, or an abort, closes the batch.
LEMMA Settled ==
    ASSUME Typed, NEW c, Settle(c)
    PROVE  Moves(c, "done") /\ (batch'.launched <=> batch.launched \/ cancelled \/ Todo = {})
<1>1. c \in DOMAIN batch.phase /\ batch \in Batches
  BY DEF Settle, In, Typed, BatchTyped
<1> DEFINE closed == batch.launched \/ cancelled \/ Todo = {}
           b == To(c, "done")
<1>2. b \in Batches /\ b.launched = batch.launched
  BY <1>1, MovesOn DEF Phases
<1>3. PICK stop : batch' = [b EXCEPT !.terminate = @ \cup stop, !.launched = @ \/ cancelled \/ Todo = {}]
  BY DEF Settle
<1>4. batch' = [b EXCEPT !.terminate = @ \cup stop, !.launched = closed]
  BY <1>2, <1>3
<1> HIDE DEF closed
<1>5. Moves(c, "done")
  <2>1. /\ batch'.phase = b.phase /\ batch'.kind = b.kind /\ batch'.mode = b.mode
        /\ batch'.turn = b.turn /\ batch'.key = b.key
    BY <1>2, <1>4 DEF Batches
  <2>2. "done" \in Phases
    BY DEF Phases
  <2> QED BY <1>1, <2>1, <2>2, MovesAs
<1> HIDE DEF b
<1>6. batch'.launched = closed
  BY <1>2, <1>4 DEF Batches
<1> QED BY <1>5, <1>6 DEF closed

\* A sequential batch has one call under way, a parallel one executes nothing before
\* all calls are prepared, and a batch that ends leaves no call behind.
LEMMA PipelineStep ==
    ASSUME Typed, Pipelined, [Next]_vars
    PROVE  Pipelined'
<1> USE DEF Typed
<1>0. CASE UNCHANGED vars
  BY <1>0, SameBatch DEF vars
<1>1. ASSUME NEW m \in Messages, Prompt(m) PROVE Pipelined'
  <2>1. batch' = batch /\ (cancelled => cancelled' \/ pc' # "batch") /\ (pc' = pc \/ (pc # "batch" /\ pc' # "batch"))
    BY <1>1 DEF Prompt, Begin, scope
  <2> QED BY <2>1, SameBatch
<1>2. ASSUME NEW m \in Messages, Steer(m) PROVE Pipelined'
  <2>1. batch' = batch /\ (cancelled => cancelled' \/ pc' # "batch") /\ (pc' = pc \/ (pc # "batch" /\ pc' # "batch"))
    BY <1>2 DEF Steer, scope
  <2> QED BY <2>1, SameBatch
<1>3. ASSUME NEW m \in Messages, FollowUp(m) PROVE Pipelined'
  <2>1. batch' = batch /\ (cancelled => cancelled' \/ pc' # "batch") /\ (pc' = pc \/ (pc # "batch" /\ pc' # "batch"))
    BY <1>3 DEF FollowUp, scope
  <2> QED BY <2>1, SameBatch
<1>4. CASE ClearAllQueues
  <2>1. batch' = batch /\ (cancelled => cancelled' \/ pc' # "batch") /\ (pc' = pc \/ (pc # "batch" /\ pc' # "batch"))
    BY <1>4 DEF ClearAllQueues, scope
  <2> QED BY <2>1, SameBatch
<1>5. CASE Reset
  <2>1. batch' = batch /\ (cancelled => cancelled' \/ pc' # "batch") /\ (pc' = pc \/ (pc # "batch" /\ pc' # "batch"))
    BY <1>5 DEF Reset, scope
  <2> QED BY <2>1, SameBatch
<1>6. CASE Abort
  <2>1. batch' = batch /\ (cancelled => cancelled' \/ pc' # "batch") /\ (pc' = pc \/ (pc # "batch" /\ pc' # "batch"))
    BY <1>6 DEF Abort, scope
  <2> QED BY <2>1, SameBatch
<1>7. CASE ContinueQueued
  <2>1. batch' = batch /\ (cancelled => cancelled' \/ pc' # "batch") /\ (pc' = pc \/ (pc # "batch" /\ pc' # "batch"))
    BY <1>7 DEF ContinueQueued, Begin, scope
  <2> QED BY <2>1, SameBatch
<1>8. CASE Continue
  <2>1. batch' = batch /\ (cancelled => cancelled' \/ pc' # "batch") /\ (pc' = pc \/ (pc # "batch" /\ pc' # "batch"))
    BY <1>8 DEF Continue, Begin, scope
  <2> QED BY <2>1, SameBatch
<1>9. CASE ResumeToolCalls
  <2>1. PICK i \in 1 .. Len(messages), mode \in ToolModes : ResumesAt(i, mode)
    BY <1>9, ResumesSomewhere
  <2> DEFINE e == messages[i]
             completed == {c \in 1 .. e.calls : <<e.turn, c>> \in persisted}
  <2>2. /\ pc' = "batch" /\ batch'.kind = "resume" /\ (batch'.launched <=> completed = 1 .. e.calls)
        /\ DOMAIN batch'.phase = 1 .. e.calls
        /\ \A c \in 1 .. e.calls : batch'.phase[c] = IF c \in completed THEN "completed" ELSE "todo"
    BY <2>1 DEF ResumesAt, Begin
  <2> HIDE DEF completed
  <2> QED BY <2>2 DEF Pipelined, NoOrphanEffects, Sequential, Busy, Todo, In
<1>10. CASE DropFailure
  <2>1. batch' = batch /\ (cancelled => cancelled' \/ pc' # "batch") /\ (pc' = pc \/ (pc # "batch" /\ pc' # "batch"))
    BY <1>10 DEF DropFailure, scope
  <2> QED BY <2>1, SameBatch
<1>11. CASE EmitPrompts
  <2>1. batch' = batch /\ (cancelled => cancelled' \/ pc' # "batch") /\ (pc' = pc \/ (pc # "batch" /\ pc' # "batch"))
    BY <1>11 DEF EmitPrompts, scope
  <2> QED BY <2>1, SameBatch
<1>12. CASE InitialPoll
  <2>1. batch' = batch /\ (cancelled => cancelled' \/ pc' # "batch") /\ (pc' = pc \/ (pc # "batch" /\ pc' # "batch"))
    BY <1>12 DEF InitialPoll, scope
  <2> QED BY <2>1, SameBatch
<1>13. CASE PrepareNextTurn
  <2>1. batch' = batch /\ (cancelled => cancelled' \/ pc' # "batch") /\ (pc' = pc \/ (pc # "batch" /\ pc' # "batch"))
    BY <1>13 DEF PrepareNextTurn, scope
  <2> QED BY <2>1, SameBatch
<1>14. CASE Inject
  <2>1. batch' = batch /\ (cancelled => cancelled' \/ pc' # "batch") /\ (pc' = pc \/ (pc # "batch" /\ pc' # "batch"))
    BY <1>14 DEF Inject, scope
  <2> QED BY <2>1, SameBatch
<1>15. CASE Request
  <2>1. batch' = batch /\ (cancelled => cancelled' \/ pc' # "batch") /\ (pc' = pc \/ (pc # "batch" /\ pc' # "batch"))
    BY <1>15 DEF Request, scope
  <2> QED BY <2>1, SameBatch
<1>16. CASE Recovered
  <2>1. batch' = batch /\ (cancelled => cancelled' \/ pc' # "batch") /\ (pc' = pc \/ (pc # "batch" /\ pc' # "batch"))
    BY <1>16 DEF Recovered, scope
  <2> QED BY <2>1, SameBatch
<1>17. CASE FailTruncated
  <2>1. batch' = batch /\ (cancelled => cancelled' \/ pc' # "batch") /\ (pc' = pc \/ (pc # "batch" /\ pc' # "batch"))
    BY <1>17 DEF FailTruncated, scope
  <2> QED BY <2>1, SameBatch
<1>18. CASE TurnEnd
  <2>1. batch' = NoBatch /\ pc' # "batch"
    BY <1>18 DEF TurnEnd
  <2> QED BY <2>1 DEF Pipelined, NoOrphanEffects, Sequential, Busy, Todo, In, NoBatch
<1>19. CASE PollFollowUps
  <2>1. batch' = batch /\ (cancelled => cancelled' \/ pc' # "batch") /\ (pc' = pc \/ (pc # "batch" /\ pc' # "batch"))
    BY <1>19 DEF PollFollowUps, scope
  <2> QED BY <2>1, SameBatch
<1>20. CASE AgentEnd
  <2>1. batch' = batch /\ (cancelled => cancelled' \/ pc' # "batch") /\ (pc' = pc \/ (pc # "batch" /\ pc' # "batch"))
    BY <1>20 DEF AgentEnd, scope
  <2> QED BY <2>1, SameBatch
<1>21. CASE FinishRun
  <2>1. batch' = NoBatch /\ pc' # "batch"
    BY <1>21 DEF FinishRun, Idle
  <2> QED BY <2>1 DEF Pipelined, NoOrphanEffects, Sequential, Busy, Todo, In, NoBatch
<1>22. CASE HandleRunFailure
  <2>1. batch' = batch /\ (cancelled => cancelled' \/ pc' # "batch") /\ (pc' = pc \/ (pc # "batch" /\ pc' # "batch"))
    BY <1>22 DEF HandleRunFailure, scope
  <2> QED BY <2>1, SameBatch
<1>23. CASE BatchEnds
  <2>1. batch' = batch /\ pc' # "batch" /\ Busy = {}
    BY <1>23 DEF BatchEnds
  <2> QED BY <2>1 DEF Pipelined, NoOrphanEffects, Sequential, Busy, Todo, In
<1>24. ASSUME NEW c \in 1 .. MaxCalls, Prepare(c) PROVE Pipelined'
  <2>1. /\ c \in DOMAIN batch.phase /\ batch.phase[c] = "todo" /\ pc = "batch" /\ ~batch.launched
        /\ pc' = pc /\ cancelled' = cancelled
        /\ IF Sequential THEN Busy = {} ELSE In({"immediate"}) = {}
    BY <1>24 DEF Prepare, In, Todo, Pipeline, scope
  <2>2. CASE \E stop \in {{}, {c}} : batch' = [To(c, "immediate") EXCEPT !.terminate = @ \cup stop]
    <3>1. To(c, "immediate") \in Batches
      BY <2>1, MovesOn DEF BatchTyped, Phases
    <3>2. Moves(c, "immediate") /\ batch'.launched = batch.launched
      BY <2>1, <2>2, <3>1, MovesOn, SMTT(30) DEF Moves, BatchTyped, Phases, Batches
    <3> QED BY <2>1, <3>2 DEF Moves, Pipelined, NoOrphanEffects, Sequential, Busy, Todo, In
  <2>3. CASE batch' = [To(c, "prepared") EXCEPT !.launched = ~Sequential /\ Todo = {c}]
    <3>1. To(c, "prepared") \in Batches
      BY <2>1, MovesOn DEF BatchTyped, Phases
    <3> DEFINE all == ~Sequential /\ Todo = {c}
    <3>2. batch' = [To(c, "prepared") EXCEPT !.launched = all]
      BY <2>3
    <3> HIDE DEF all
    <3>3. Moves(c, "prepared")
      BY <2>1, <3>1, <3>2, MovesOn, SMTT(30) DEF Moves, BatchTyped, Phases, Batches
    <3>4. batch'.launched = all
      BY <3>1, <3>2 DEF Batches
    <3>5. batch'.launched <=> ~Sequential /\ Todo = {c}
      BY <3>4 DEF all
    <3> QED BY <2>1, <3>3, <3>5 DEF Moves, Pipelined, NoOrphanEffects, Sequential, Busy, Todo, In
  <2> QED BY <1>24, <2>2, <2>3 DEF Prepare
<1>25. ASSUME NEW c \in 1 .. MaxCalls, Admit(c) PROVE Pipelined'
  <2>1. /\ c \in DOMAIN batch.phase /\ batch.phase[c] = "prepared"
        /\ pc' = pc /\ cancelled' = cancelled /\ \E p \in {"waiting", "executed"} : batch' = To(c, p)
    BY <1>25 DEF Admit, In, Pipeline, scope
  <2>2. PICK p \in {"waiting", "executed"} : batch' = To(c, p)
    BY <2>1
  <2>3. Moves(c, p) /\ batch'.launched = batch.launched
    BY <2>1, <2>2, MovesOn DEF Moves, BatchTyped, Phases
  <2>4. pc = "batch" /\ (Sequential \/ batch.launched)
    BY <1>25, <2>1 DEF Admit, Pipelined, NoOrphanEffects, Sequential, Busy, Todo, In
  <2>5. /\ Todo' = Todo /\ Busy' = Busy /\ In({"completed"})' = In({"completed"})
        /\ batch'.kind = batch.kind /\ Sequential' = Sequential
    BY <2>1, <2>2, <2>3 DEF Moves, Todo, Busy, In, Sequential
  <2> QED BY <2>1, <2>3, <2>4, <2>5 DEF Pipelined, NoOrphanEffects
<1>26. ASSUME NEW c \in 1 .. MaxCalls, Acquire(c) PROVE Pipelined'
  <2>1. /\ c \in DOMAIN batch.phase /\ batch.phase[c] = "waiting"
        /\ pc' = pc /\ cancelled' = cancelled /\ \E p \in {"leased", "executed"} : batch' = To(c, p)
    BY <1>26 DEF Acquire, In, Pipeline, scope
  <2>2. PICK p \in {"leased", "executed"} : batch' = To(c, p)
    BY <2>1
  <2>3. Moves(c, p) /\ batch'.launched = batch.launched
    BY <2>1, <2>2, MovesOn DEF Moves, BatchTyped, Phases
  <2>4. pc = "batch" /\ (Sequential \/ batch.launched)
    BY <1>26, <2>1 DEF Acquire, Pipelined, NoOrphanEffects, Sequential, Busy, Todo, In
  <2>5. /\ Todo' = Todo /\ Busy' = Busy /\ In({"completed"})' = In({"completed"})
        /\ batch'.kind = batch.kind /\ Sequential' = Sequential
    BY <2>1, <2>2, <2>3 DEF Moves, Todo, Busy, In, Sequential
  <2> QED BY <2>1, <2>3, <2>4, <2>5 DEF Pipelined, NoOrphanEffects
<1>27. ASSUME NEW c \in 1 .. MaxCalls, Dispatch(c) PROVE Pipelined'
  <2>1. /\ c \in DOMAIN batch.phase /\ batch.phase[c] = "dispatched"
        /\ pc' = pc /\ cancelled' = cancelled /\ \E p \in {"executing", "executed"} : batch' = To(c, p)
    BY <1>27 DEF Dispatch, In, Pipeline, scope
  <2>2. PICK p \in {"executing", "executed"} : batch' = To(c, p)
    BY <2>1
  <2>3. Moves(c, p) /\ batch'.launched = batch.launched
    BY <2>1, <2>2, MovesOn DEF Moves, BatchTyped, Phases
  <2>4. pc = "batch" /\ (Sequential \/ batch.launched)
    BY <1>27, <2>1 DEF Dispatch, Pipelined, NoOrphanEffects, Sequential, Busy, Todo, In
  <2>5. /\ Todo' = Todo /\ Busy' = Busy /\ In({"completed"})' = In({"completed"})
        /\ batch'.kind = batch.kind /\ Sequential' = Sequential
    BY <2>1, <2>2, <2>3 DEF Moves, Todo, Busy, In, Sequential
  <2> QED BY <2>1, <2>3, <2>4, <2>5 DEF Pipelined, NoOrphanEffects
<1>28. ASSUME NEW c \in 1 .. MaxCalls, Settle(c) PROVE Pipelined'
  <2>1. /\ c \in DOMAIN batch.phase /\ batch.phase[c] \in {"immediate", "executed"}
        /\ pc' = pc /\ cancelled' = cancelled
    BY <1>28 DEF Settle, In, scope
  <2>4. Moves(c, "done") /\ (batch'.launched <=> batch.launched \/ cancelled \/ Todo = {})
    BY <1>28, <2>1, Settled
  <2>5. pc = "batch"
    BY <2>1 DEF Pipelined, NoOrphanEffects, Sequential, Busy, Todo, In
  <2>6. In({"todo"})' = In({"todo"}) /\ Busy' = Busy \ {c} /\ In({"completed"})' = In({"completed"})
    BY <2>1, <2>4 DEF Moves, Busy, In
  <2>7. In({"immediate"})' \subseteq In({"immediate"}) /\ In({"immediate", "prepared"})' = In({"immediate", "prepared"}) \ {c}
    BY <2>1, <2>4 DEF Moves, In
  <2>8. batch'.kind = batch.kind /\ Sequential' = Sequential
    BY <2>4 DEF Moves, Sequential
  <2> QED BY <2>1, <2>4, <2>5, <2>6, <2>7, <2>8 DEF Pipelined, NoOrphanEffects, Todo
<1>29. CASE Respond
  <2>1. CASE UNCHANGED batch /\ pc' # "batch"
    <3>1. pc # "batch"
      BY <1>29 DEF Respond
    <3> QED BY <2>1, <3>1, SameBatch
  <2>2. CASE \E n \in 1 .. MaxCalls, mode \in ToolModes, stop \in {"toolUse", "length"}, print \in Prints :
               batch' = NewBatch("turn", mode, n, stop, print)
    <3>1. /\ batch'.kind = "turn" /\ batch'.launched = FALSE
          /\ \A c \in DOMAIN batch'.phase : batch'.phase[c] = "todo"
      BY <2>2 DEF NewBatch
    <3> QED BY <3>1 DEF Pipelined, NoOrphanEffects, Sequential, Busy, Todo, In
  <2> QED BY <1>29, <2>1, <2>2 DEF Respond
<1>30. CASE RespondError
  <2>1. batch' = batch /\ (cancelled => cancelled' \/ pc' # "batch") /\ (pc' = pc \/ (pc # "batch" /\ pc' # "batch"))
    BY <1>30 DEF RespondError, scope
  <2> QED BY <2>1, SameBatch
<1>31. CASE RespondCheckpoint
  <2>1. CASE UNCHANGED batch /\ pc' # "batch"
    <3>1. pc # "batch"
      BY <1>31 DEF RespondCheckpoint
    <3> QED BY <2>1, <3>1, SameBatch
  <2>2. CASE \E n \in 1 .. MaxCalls, mode \in ToolModes, stop \in {"toolUse"}, print \in Prints :
               batch' = NewBatch("checkpoint", mode, n, stop, print)
    <3>1. /\ batch'.kind = "checkpoint" /\ batch'.launched = FALSE
          /\ \A c \in DOMAIN batch'.phase : batch'.phase[c] = "todo"
      BY <2>2 DEF NewBatch
    <3> QED BY <3>1 DEF Pipelined, NoOrphanEffects, Sequential, Busy, Todo, In
  <2> QED BY <1>31, <2>1, <2>2 DEF RespondCheckpoint
<1>32. CASE Throw
  <2>1. batch' = batch /\ (cancelled => cancelled' \/ pc' # "batch") /\ (pc' = pc \/ (pc # "batch" /\ pc' # "batch"))
    BY <1>32 DEF Throw, scope
  <2> QED BY <2>1, SameBatch
<1>33. CASE PrepareThrows
  <2>1. /\ batch' = batch /\ pc' = "failing" /\ ~batch.launched
        /\ Busy \subseteq In({"prepared"}) /\ (Sequential => Busy = {})
    BY <1>33 DEF PrepareThrows
  <2> QED BY <2>1 DEF Pipelined, NoOrphanEffects, Sequential, Busy, Todo, In
<1>34. CASE Crash
  <2>1. batch' = NoBatch /\ pc' # "batch"
    BY <1>34 DEF Crash, Idle
  <2> QED BY <2>1 DEF Pipelined, NoOrphanEffects, Sequential, Busy, Todo, In, NoBatch
<1>35. ASSUME NEW c \in 1 .. MaxCalls, ExecuteEnds(c) PROVE Pipelined'
  <2>1. /\ c \in DOMAIN batch.phase /\ batch.phase[c] = "executing"
        /\ pc' = pc /\ cancelled' = cancelled /\ \E p \in {"executed"} : batch' = To(c, p)
    BY <1>35 DEF ExecuteEnds, In, Pipeline, scope
  <2>2. PICK p \in {"executed"} : batch' = To(c, p)
    BY <2>1
  <2>3. Moves(c, p) /\ batch'.launched = batch.launched
    BY <2>1, <2>2, MovesOn DEF Moves, BatchTyped, Phases
  <2>4. pc = "batch" /\ (Sequential \/ batch.launched)
    BY <1>35, <2>1 DEF ExecuteEnds, Pipelined, NoOrphanEffects, Sequential, Busy, Todo, In
  <2>5. /\ Todo' = Todo /\ Busy' = Busy /\ In({"completed"})' = In({"completed"})
        /\ batch'.kind = batch.kind /\ Sequential' = Sequential
    BY <2>1, <2>2, <2>3 DEF Moves, Todo, Busy, In, Sequential
  <2> QED BY <2>1, <2>3, <2>4, <2>5 DEF Pipelined, NoOrphanEffects
<1>36. ASSUME NEW c \in 1 .. MaxCalls, CallThrows(c) PROVE Pipelined'
  <2>1. /\ c \in DOMAIN batch.phase /\ batch' = To(c, "rejected") /\ pc = "batch" /\ cancelled' = cancelled
        /\ batch.phase[c] \in {"immediate", "prepared", "leased", "dispatched", "executing", "executed"}
        /\ batch.phase[c] = "prepared" => Sequential \/ batch.launched
        /\ pc' = IF Sequential \/ ~batch.launched THEN "failing" ELSE pc
    BY <1>36, ThrowsInBatch DEF CallThrows, In, BatchFails, Pipelined, scope
  <2>2. Moves(c, "rejected") /\ batch'.launched = batch.launched
    BY <2>1, MovesOn DEF Moves, BatchTyped, Phases
  <2>3. Todo' = Todo /\ Busy' = Busy \ {c} /\ In({"completed"})' = In({"completed"}) /\ c \in Busy
    BY <2>1, <2>2 DEF Moves, Todo, Busy, In
  <2>4. In({"immediate"})' \subseteq In({"immediate"}) /\ In({"prepared"}) \ {c} \subseteq In({"prepared"})'
    BY <2>1, <2>2 DEF Moves, In
  <2>5. batch'.kind = batch.kind /\ Sequential' = Sequential
    BY <2>2 DEF Moves, Sequential
  <2>6. CASE Sequential
    <3>1. Busy' = {}
      BY <2>1, <2>3, <2>6 DEF Pipelined
    <3> QED BY <2>1, <2>2, <2>3, <2>5, <2>6, <3>1 DEF Pipelined, NoOrphanEffects
  <2>7. CASE ~Sequential /\ ~batch.launched
    <3>1. c \in In({"immediate"})
      BY <2>1, <2>7 DEF Pipelined, Busy, In
    <3>2. Busy \ {c} \subseteq In({"prepared"})
      BY <2>1, <2>7, <3>1 DEF Pipelined, Busy, In
    <3>3. Busy' \subseteq In({"prepared"})'
      BY <2>3, <2>4, <3>2
    <3> QED BY <2>1, <2>2, <2>3, <2>5, <2>7, <3>3 DEF Pipelined, NoOrphanEffects
  <2>8. CASE ~Sequential /\ batch.launched
    BY <2>1, <2>2, <2>3, <2>5, <2>8 DEF Pipelined, NoOrphanEffects
  <2> QED BY <2>6, <2>7, <2>8
<1>37. ASSUME NEW c \in 1 .. MaxCalls, BeforeDispatch(c) PROVE Pipelined'
  <2>1. /\ c \in DOMAIN batch.phase /\ batch.phase[c] = "leased"
        /\ pc' = pc /\ cancelled' = cancelled /\ \E p \in {"dispatched", "executed"} : batch' = To(c, p)
    BY <1>37 DEF BeforeDispatch, In, Pipeline, scope
  <2>2. PICK p \in {"dispatched", "executed"} : batch' = To(c, p)
    BY <2>1
  <2>3. Moves(c, p) /\ batch'.launched = batch.launched
    BY <2>1, <2>2, MovesOn DEF Moves, BatchTyped, Phases
  <2>4. pc = "batch" /\ (Sequential \/ batch.launched)
    BY <1>37, <2>1 DEF BeforeDispatch, Pipelined, NoOrphanEffects, Sequential, Busy, Todo, In
  <2>5. /\ Todo' = Todo /\ Busy' = Busy /\ In({"completed"})' = In({"completed"})
        /\ batch'.kind = batch.kind /\ Sequential' = Sequential
    BY <2>1, <2>2, <2>3 DEF Moves, Todo, Busy, In, Sequential
  <2> QED BY <2>1, <2>3, <2>4, <2>5 DEF Pipelined, NoOrphanEffects
<1>38. ASSUME NEW c \in 1 .. MaxCalls, RefuseDispatch(c) PROVE Pipelined'
  <2>1. /\ c \in DOMAIN batch.phase /\ batch' = To(c, "rejected") /\ pc = "batch" /\ cancelled' = cancelled
        /\ batch.phase[c] \in {"immediate", "prepared", "leased", "dispatched", "executing", "executed"}
        /\ batch.phase[c] = "prepared" => Sequential \/ batch.launched
        /\ pc' = IF Sequential \/ ~batch.launched THEN "failing" ELSE pc
    BY <1>38, RefusedInBatch DEF RefuseDispatch, In, BatchFails, Pipelined, scope
  <2>2. Moves(c, "rejected") /\ batch'.launched = batch.launched
    BY <2>1, MovesOn DEF Moves, BatchTyped, Phases
  <2>3. Todo' = Todo /\ Busy' = Busy \ {c} /\ In({"completed"})' = In({"completed"}) /\ c \in Busy
    BY <2>1, <2>2 DEF Moves, Todo, Busy, In
  <2>4. In({"immediate"})' \subseteq In({"immediate"}) /\ In({"prepared"}) \ {c} \subseteq In({"prepared"})'
    BY <2>1, <2>2 DEF Moves, In
  <2>5. batch'.kind = batch.kind /\ Sequential' = Sequential
    BY <2>2 DEF Moves, Sequential
  <2>6. CASE Sequential
    <3>1. Busy' = {}
      BY <2>1, <2>3, <2>6 DEF Pipelined
    <3> QED BY <2>1, <2>2, <2>3, <2>5, <2>6, <3>1 DEF Pipelined, NoOrphanEffects
  <2>7. CASE ~Sequential /\ ~batch.launched
    <3>1. c \in In({"immediate"})
      BY <2>1, <2>7 DEF Pipelined, Busy, In
    <3>2. Busy \ {c} \subseteq In({"prepared"})
      BY <2>1, <2>7, <3>1 DEF Pipelined, Busy, In
    <3>3. Busy' \subseteq In({"prepared"})'
      BY <2>3, <2>4, <3>2
    <3> QED BY <2>1, <2>2, <2>3, <2>5, <2>7, <3>3 DEF Pipelined, NoOrphanEffects
  <2>8. CASE ~Sequential /\ batch.launched
    BY <2>1, <2>2, <2>3, <2>5, <2>8 DEF Pipelined, NoOrphanEffects
  <2> QED BY <2>6, <2>7, <2>8
<1>39. CASE Reconcile
  <2>1. batch' = batch /\ (cancelled => cancelled' \/ pc' # "batch") /\ (pc' = pc \/ (pc # "batch" /\ pc' # "batch"))
    BY <1>39 DEF Reconcile, scope
  <2> QED BY <2>1, SameBatch
<1> QED BY <1>0, <1>1, <1>2, <1>3, <1>4, <1>5, <1>6, <1>7, <1>8, <1>9, <1>10, <1>11, <1>12,
           <1>13, <1>14, <1>15, <1>16, <1>17, <1>18, <1>19, <1>20, <1>21, <1>22, <1>23, <1>24,
           <1>25, <1>26, <1>27, <1>28, <1>29, <1>30, <1>31, <1>32, <1>33, <1>34, <1>35, <1>36,
           <1>37, <1>38, <1>39
         DEF Next, Caller, Step, Call, Response

\* The steps that keep types and pipeline keep Consistent.
LEMMA ConsistentByParts ==
    ASSUME Typed, Pipelined
    PROVE  Consistent
<1>1. \A c \in DOMAIN batch.phase : batch.phase[c] \in Phases
  BY DEF Typed, BatchTyped, Batches
<1>2. guard.n \in 0 .. RepeatLimit
  BY DEF Typed, ControlTyped, Guards
<1>3. /\ {base, turn, step, ended, crashes} \subseteq Nat
      /\ started \cup persisted \cup safe \cup unsafe \subseteq Nat \X (1 .. MaxCalls)
  BY DEF Typed, ControlTyped, BatchTyped
<1>4. TypeOK
  BY <1>1, <1>2, <1>3 DEF TypeOK, Typed, MailTyped, ControlTyped, EntriesTyped
<1> QED BY <1>4 DEF Consistent, Pipelined

\* Types and pipeline hold in the beginning
LEMMA TypedInit == Init => Typed /\ Pipelined
<1> SUFFICES ASSUME Init PROVE Typed /\ Pipelined
  OBVIOUS
<1>1. MailTyped
  BY DEF Init, MailTyped, Ids
<1>2. ControlTyped
  <2>1. guard \in Guards /\ guard.n < RepeatLimit
    BY NoGuardTyped DEF Init
  <2> QED BY <2>1 DEF Init, ControlTyped
<1>3. BatchTyped /\ EntriesTyped
  BY NoBatchTyped DEF Init, BatchTyped, EntriesTyped
<1>4. Pipelined
  BY DEF Init, Pipelined, NoOrphanEffects, Sequential, Busy, Todo, In, NoBatch
<1> QED BY <1>1, <1>2, <1>3, <1>4 DEF Typed

\* and are kept by every step.
LEMMA TypedStep ==
    ASSUME Typed, Pipelined, [Next]_vars
    PROVE  Typed' /\ Pipelined'
<1>1. MailTyped'
  BY MailStep DEF Typed, Pipelined
<1>2. ControlTyped' /\ BatchTyped' /\ EntriesTyped'
  BY ControlStep, BatchStep, EntriesStep DEF Typed
<1> QED BY <1>1, <1>2, PipelineStep DEF Typed

-----------------------------------------------------------------------------
(* Numbered and StartedOnce.                                                *)

\* Concatenation and prefixes keep the numbers.
LEMMA NumberedJoin ==
    ASSUME NEW t, NEW q \in Seq(Entries), NEW r \in Seq(Entries), Numbered(q, t), Numbered(r, t)
    PROVE  Numbered(q \o r, t)
<1>1. /\ Len(q \o r) = Len(q) + Len(r) /\ Len(q) \in Nat /\ Len(r) \in Nat
      /\ \A i \in 1 .. Len(q) + Len(r) : (q \o r)[i] = IF i <= Len(q) THEN q[i] ELSE r[i - Len(q)]
  OBVIOUS
<1> QED BY <1>1 DEF Numbered

\* A prefix has no other numbers.
LEMMA NumberedPrefix ==
    ASSUME NEW t, NEW q \in Seq(Entries), NEW k \in 0 .. Len(q), Numbered(q, t)
    PROVE  Numbered(SubSeq(q, 1, k), t)
<1>1. Len(SubSeq(q, 1, k)) = k /\ \A i \in 1 .. k : SubSeq(q, 1, k)[i] = q[i]
  OBVIOUS
<1> QED BY <1>1 DEF Numbered

\* Results, and messages of the user, are not numbered.
LEMMA ResultsNumbered ==
    ASSUME NEW t, NEW n \in Nat, NEW cs \in SUBSET (1 .. n), NEW u
    PROVE  Numbered(Results(u, cs), t)
<1> SUFFICES ASSUME NEW k \in 1 .. Len(Results(u, cs)) PROVE Results(u, cs)[k].role # "assistant"
  BY DEF Numbered
<1>1. k \in 1 .. Cardinality(cs)
  BY ResultsShape
<1>2. PICK c \in cs : Results(u, cs)[k] = Result(u, c)
  BY <1>1, ResultsShape
<1>3. Result(u, c).role = "toolResult"
  BY DEF Result
<1> QED BY <1>2, <1>3

\* Messages of the user have no number.
LEMMA UsersNumbered ==
    ASSUME NEW t, NEW ms \in Seq(Messages)
    PROVE  Numbered(Users(ms), t)
<1> SUFFICES ASSUME NEW k \in 1 .. Len(Users(ms)) PROVE Users(ms)[k].role # "assistant"
  BY DEF Numbered
<1>1. Users(ms)[k] = User(ms[k])
  BY UsersTyped
<1> QED BY <1>1 DEF User

\* A response has the number of the request
LEMMA OneNumbered ==
    ASSUME NEW n, NEW stop, NEW print, NEW checkpoint, turn \in Nat
    PROVE  Numbered(<<Assistant(turn, n, stop, print, checkpoint)>>, turn)
BY DEF Numbered, Assistant

\* and so has a note.
LEMMA NoteNumbered ==
    ASSUME turn \in Nat, NEW stop
    PROVE  Numbered(<<Note(stop)>>, turn)
BY DEF Numbered, Note, Assistant

\* The results of calls of the batch have no number
LEMMA InNumbered ==
    ASSUME BatchTyped, NEW P, NEW Q, NEW t
    PROVE  /\ Numbered(Results(batch.turn, In(P)), t)
           /\ Numbered(Results(batch.turn, In(P) \cup In(Q)), t)
<1>1. PICK n \in 0 .. MaxCalls : DOMAIN batch.phase = 1 .. n
  BY BatchShape DEF BatchTyped
<1>2. In(P) \in SUBSET (1 .. n) /\ In(Q) \in SUBSET (1 .. n) /\ n \in Nat
  BY <1>1, AgentAssumption DEF In
<1>3. In(P) \cup In(Q) \in SUBSET (1 .. n)
  BY <1>2
<1> QED BY <1>2, <1>3, ResultsNumbered

\* and neither have those of all of them.
LEMMA BatchNumbered ==
    ASSUME BatchTyped, NEW t
    PROVE  Numbered(Results(batch.turn, DOMAIN batch.phase), t)
<1>1. PICK n \in 0 .. MaxCalls : DOMAIN batch.phase = 1 .. n
  BY BatchShape DEF BatchTyped
<1>2. n \in Nat /\ DOMAIN batch.phase \in SUBSET (1 .. n)
  BY <1>1, AgentAssumption
<1> QED BY <1>2, ResultsNumbered

\* The two messages without tool calls.
LEMMA FirstTyped ==
    ASSUME ControlTyped
    PROVE  Note("stop") \in Entries /\ Assistant(turn, 0, "stop", "none", TRUE) \in Entries
<1>1. 0 \in 0 .. MaxCalls /\ "stop" \in Stops /\ "none" \in Prints \cup {"none"} /\ turn \in Nat
  BY AgentAssumption DEF Stops, ControlTyped
<1> QED BY <1>1, NoteTyped, AssistantTyped

\* No message has the number of a request to come.
LEMMA NumberStep ==
    ASSUME Typed, Numbered(messages, turn), [Next]_vars
    PROVE  Numbered(messages, turn)'
<1> USE DEF Typed
<1>a. messages \in Seq(Entries) /\ Len(messages) \in Nat
  BY DEF EntriesTyped
<1> USE <1>a
<1>0. CASE UNCHANGED vars
  BY <1>0 DEF vars, Numbered
<1>1. ASSUME NEW m \in Messages, Prompt(m) PROVE Numbered(messages, turn)'
  <2>1. messages' = messages /\ turn' = turn
    BY <1>1 DEF Prompt, Begin
  <2> QED BY <2>1 DEF Numbered
<1>2. ASSUME NEW m \in Messages, Steer(m) PROVE Numbered(messages, turn)'
  <2>1. messages' = messages /\ turn' = turn
    BY <1>2 DEF Steer
  <2> QED BY <2>1 DEF Numbered
<1>3. ASSUME NEW m \in Messages, FollowUp(m) PROVE Numbered(messages, turn)'
  <2>1. messages' = messages /\ turn' = turn
    BY <1>3 DEF FollowUp
  <2> QED BY <2>1 DEF Numbered
<1>4. CASE ClearAllQueues
  <2>1. messages' = messages /\ turn' = turn
    BY <1>4 DEF ClearAllQueues
  <2> QED BY <2>1 DEF Numbered
<1>5. CASE Reset
  BY <1>5 DEF Reset, Numbered
<1>6. CASE Abort
  <2>1. messages' = messages /\ turn' = turn
    BY <1>6 DEF Abort
  <2> QED BY <2>1 DEF Numbered
<1>7. CASE ContinueQueued
  <2>1. messages' = messages /\ turn' = turn
    BY <1>7 DEF ContinueQueued, Begin
  <2> QED BY <2>1 DEF Numbered
<1>8. CASE Continue
  <2>1. messages' = messages /\ turn' = turn
    BY <1>8 DEF Continue, Begin
  <2> QED BY <2>1 DEF Numbered
<1>9. CASE ResumeToolCalls
  <2>1. PICK i \in 1 .. Len(messages), mode \in ToolModes : ResumesAt(i, mode)
    BY <1>9, ResumesSomewhere
  <2> DEFINE e == messages[i]
             completed == {c \in 1 .. e.calls : <<e.turn, c>> \in persisted}
  <2>2. e.turn \in Nat /\ e.calls \in 0 .. MaxCalls /\ turn' = turn
    BY <1>9, <2>1, AssistantAt DEF ResumesAt, BatchAt, ResumeToolCalls
  <2>3. messages' = SubSeq(messages, 1, i) \o Results(e.turn, completed)
    BY <2>1 DEF ResumesAt, Begin
  <2>4. SubSeq(messages, 1, i) \in Seq(Entries) /\ Numbered(SubSeq(messages, 1, i), turn)
    BY NumberedPrefix
  <2>5. completed \in SUBSET (1 .. MaxCalls) /\ MaxCalls \in Nat
    BY <2>2, AgentAssumption
  <2> HIDE DEF e, completed
  <2>6. Results(e.turn, completed) \in Seq(Entries) /\ Numbered(Results(e.turn, completed), turn)
    BY <2>2, <2>5, ResultsTyped, ResultsNumbered
  <2> QED BY <2>2, <2>3, <2>4, <2>6, NumberedJoin
<1>10. CASE DropFailure
  <2> DEFINE n == Len(messages) - 1
  <2>1. n \in 0 .. Len(messages) /\ messages' = SubSeq(messages, 1, n) /\ turn' = turn
    BY <1>10 DEF DropFailure
  <2> HIDE DEF n
  <2> QED BY <2>1, NumberedPrefix
<1>11. CASE EmitPrompts
  <2>1. Users(pending) \in Seq(Entries) /\ Numbered(Users(pending), turn)
    BY UsersTyped, UsersNumbered DEF MailTyped
  <2>2. messages' = messages \o Users(pending) /\ turn' = turn
    BY <1>11 DEF EmitPrompts, Push
  <2> QED BY <2>1, <2>2, NumberedJoin
<1>12. CASE InitialPoll
  <2>1. messages' = messages /\ turn' = turn
    BY <1>12 DEF InitialPoll
  <2> QED BY <2>1 DEF Numbered
<1>13. CASE PrepareNextTurn
  <2>1. messages' = messages /\ turn' = turn
    BY <1>13 DEF PrepareNextTurn
  <2> QED BY <2>1 DEF Numbered
<1>14. CASE Inject
  <2>1. Users(pending) \in Seq(Entries) /\ Numbered(Users(pending), turn)
    BY UsersTyped, UsersNumbered DEF MailTyped
  <2>2. messages' = messages \o Users(pending) /\ turn' = turn
    BY <1>14 DEF Inject, Push
  <2> QED BY <2>1, <2>2, NumberedJoin
<1>15. CASE Request
  <2>1. <<Note("aborted")>> \in Seq(Entries) /\ Numbered(<<Note("aborted")>>, turn)
    BY NoteTyped, NoteNumbered DEF ControlTyped, Stops
  <2>2. CASE messages' = messages \o <<Note("aborted")>> /\ turn' = turn
    BY <2>1, <2>2, NumberedJoin
  <2>3. CASE messages' = messages /\ turn' = turn + 1
    <3>1. \A i \in 1 .. Len(messages) : messages[i].role = "assistant" => messages[i].turn \in Nat
      BY AssistantAt
    <3> QED BY <2>3, <3>1 DEF Numbered, ControlTyped
  <2> QED BY <1>15, <2>2, <2>3 DEF Request, Push
<1>16. CASE Recovered
  <2>1. <<Note(IF cancelled \/ pc = "stopped" THEN "aborted" ELSE "error")>> \in Seq(Entries) /\ Numbered(<<Note(IF cancelled \/ pc = "stopped" THEN "aborted" ELSE "error")>>, turn)
    BY NoteTyped, NoteNumbered DEF ControlTyped, Stops
  <2>2. messages' = messages \o <<Note(IF cancelled \/ pc = "stopped" THEN "aborted" ELSE "error")>> /\ turn' = turn
    BY <1>16 DEF Recovered, Push
  <2> QED BY <2>1, <2>2, NumberedJoin
<1>17. CASE FailTruncated
  <2>1. Results(batch.turn, DOMAIN batch.phase) \in Seq(Entries) /\ Numbered(Results(batch.turn, DOMAIN batch.phase), turn)
    BY BatchResults, BatchNumbered
  <2>2. messages' = messages \o Results(batch.turn, DOMAIN batch.phase) /\ turn' = turn
    BY <1>17 DEF FailTruncated, Push
  <2> QED BY <2>1, <2>2, NumberedJoin
<1>18. CASE TurnEnd
  <2>1. <<Note("error")>> \in Seq(Entries) /\ Numbered(<<Note("error")>>, turn)
    BY NoteTyped, NoteNumbered DEF ControlTyped, Stops
  <2>2. turn' = turn /\ (messages' = messages \/ messages' = messages \o <<Note("error")>>)
    BY <1>18 DEF TurnEnd, Push
  <2> QED BY <2>1, <2>2, NumberedJoin
<1>19. CASE PollFollowUps
  <2>1. messages' = messages /\ turn' = turn
    BY <1>19 DEF PollFollowUps
  <2> QED BY <2>1 DEF Numbered
<1>20. CASE AgentEnd
  <2>1. messages' = messages /\ turn' = turn
    BY <1>20 DEF AgentEnd
  <2> QED BY <2>1 DEF Numbered
<1>21. CASE FinishRun
  <2>1. messages' = messages /\ turn' = turn
    BY <1>21 DEF FinishRun, Idle
  <2> QED BY <2>1 DEF Numbered
<1>22. CASE HandleRunFailure
  <2> DEFINE note == Note(IF cancelled THEN "aborted" ELSE "error")
  <2>1. <<note>> \in Seq(Entries) /\ Numbered(<<note>>, turn) /\ note \in Entries
    BY NoteTyped, NoteNumbered DEF ControlTyped, Stops
  <2>2. turn' = turn /\ messages' \in {messages, Append(messages, note)}
    BY <1>22 DEF HandleRunFailure
  <2> HIDE DEF note
  <2>3. Append(messages, note) = messages \o <<note>>
    BY <2>1
  <2> QED BY <2>1, <2>2, <2>3, NumberedJoin
<1>23. CASE BatchEnds
  <2> DEFINE done == In({"done"})
             both == In({"done"}) \cup In({"completed"})
             emitted == IF Sequential THEN messages ELSE messages \o Results(batch.turn, done)
  <2>1. /\ Results(batch.turn, done) \in Seq(Entries) /\ Numbered(Results(batch.turn, done), turn)
        /\ Len(Results(batch.turn, done)) = Cardinality(done) /\ Cardinality(done) \in Nat
        /\ Results(batch.turn, both) \in Seq(Entries) /\ Numbered(Results(batch.turn, both), turn)
    BY InResults, InNumbered
  <2>2. \/ messages' = messages \/ messages' = messages \o Results(batch.turn, done)
        \/ \E k \in 0 .. Cardinality(done) :
              messages' = SubSeq(messages \o Results(batch.turn, done), 1, Len(messages) + k)
        \/ batch.kind = "resume" /\ messages' = SubSeq(messages, 1, base + 1) \o Results(batch.turn, both)
    BY <1>23 DEF BatchEnds, Ordered
  <2> DEFINE answers == Results(batch.turn, done)
             whole == Results(batch.turn, both)
             N == Cardinality(done)
  <2>3. turn' = turn /\ pc = "batch"
    BY <1>23 DEF BatchEnds
  <2>4. /\ answers \in Seq(Entries) /\ Numbered(answers, turn) /\ Len(answers) = N /\ N \in Nat
        /\ whole \in Seq(Entries) /\ Numbered(whole, turn)
    BY <2>1
  <2>5. \/ messages' = messages \/ messages' = messages \o answers
        \/ \E k \in 0 .. N : messages' = SubSeq(messages \o answers, 1, Len(messages) + k)
        \/ batch.kind = "resume" /\ messages' = SubSeq(messages, 1, base + 1) \o whole
    BY <2>2
  <2> HIDE DEF answers, whole, N
  <2>6. /\ messages \o answers \in Seq(Entries) /\ Numbered(messages \o answers, turn)
        /\ Len(messages \o answers) = Len(messages) + N
    <3>1. Numbered(messages \o answers, turn)
      BY <2>4, NumberedJoin
    <3>2. messages \o answers \in Seq(Entries) /\ Len(messages \o answers) = Len(messages) + N
      BY <2>4
    <3> QED BY <3>1, <3>2
  <2>7. CASE \E k \in 0 .. N : messages' = SubSeq(messages \o answers, 1, Len(messages) + k)
    <3>1. PICK k \in 0 .. N : messages' = SubSeq(messages \o answers, 1, Len(messages) + k)
      BY <2>7
    <3>2. Len(messages) + k \in 0 .. Len(messages \o answers)
      BY <2>4, <2>6
    <3> QED BY <2>3, <2>6, <3>1, <3>2, NumberedPrefix
  <2>8. CASE batch.kind = "resume" /\ messages' = SubSeq(messages, 1, base + 1) \o whole
    <3>1. base + 1 \in 0 .. Len(messages)
      BY <2>3, <2>8 DEF EntriesTyped, ControlTyped
    <3>2. SubSeq(messages, 1, base + 1) \in Seq(Entries) /\ Numbered(SubSeq(messages, 1, base + 1), turn)
      BY <3>1, NumberedPrefix
    <3> QED BY <2>3, <2>4, <2>8, <3>2, NumberedJoin
  <2> QED BY <2>3, <2>4, <2>5, <2>6, <2>7, <2>8
<1>24. ASSUME NEW c \in 1 .. MaxCalls, Prepare(c) PROVE Numbered(messages, turn)'
  <2>1. messages' = messages /\ turn' = turn
    BY <1>24 DEF Prepare, Pipeline
  <2> QED BY <2>1 DEF Numbered
<1>25. ASSUME NEW c \in 1 .. MaxCalls, Admit(c) PROVE Numbered(messages, turn)'
  <2>1. messages' = messages /\ turn' = turn
    BY <1>25 DEF Admit, Pipeline
  <2> QED BY <2>1 DEF Numbered
<1>26. ASSUME NEW c \in 1 .. MaxCalls, Acquire(c) PROVE Numbered(messages, turn)'
  <2>1. messages' = messages /\ turn' = turn
    BY <1>26 DEF Acquire, Pipeline
  <2> QED BY <2>1 DEF Numbered
<1>27. ASSUME NEW c \in 1 .. MaxCalls, Dispatch(c) PROVE Numbered(messages, turn)'
  <2>1. messages' = messages /\ turn' = turn
    BY <1>27 DEF Dispatch, Pipeline
  <2> QED BY <2>1 DEF Numbered
<1>28. ASSUME NEW c \in 1 .. MaxCalls, Settle(c) PROVE Numbered(messages, turn)'
  <2>1. c \in DOMAIN batch.phase /\ batch.turn \in Nat
    BY <1>28 DEF Settle, In, BatchTyped, Batches
  <2> DEFINE answer == Result(batch.turn, c)
  <2>2. answer \in Entries /\ answer.role = "toolResult"
    BY <2>1 DEF Result, Entries
  <2>3. turn' = turn /\ messages' \in {messages, Append(messages, answer)}
    BY <1>28 DEF Settle
  <2> HIDE DEF answer
  <2>4. Append(messages, answer) = messages \o <<answer>> /\ <<answer>> \in Seq(Entries)
    BY <2>2
  <2>5. Numbered(<<answer>>, turn)
    BY <2>2 DEF Numbered
  <2> QED BY <2>3, <2>4, <2>5, NumberedJoin
<1>29. CASE Respond
  <2>1. turn' = turn
    BY <1>29 DEF Respond
  <2>2. ASSUME NEW e \in Entries, Numbered(<<e>>, turn), messages' = messages \o <<e>>
        PROVE  Numbered(messages, turn)'
    <3>1. <<e>> \in Seq(Entries)
      BY OneEntry
    <3> QED BY <2>1, <2>2, <3>1, NumberedJoin
  <2>3. CASE Push(<<Note("stop")>>)
    <3>1. Note("stop") \in Entries /\ Numbered(<<Note("stop")>>, turn)
      BY FirstTyped, NoteNumbered, OneNumbered DEF ControlTyped
    <3> QED BY <2>2, <2>3, <3>1, Zenon DEF Push
  <2>4. ASSUME NEW n \in 1 .. MaxCalls, NEW stop \in {"toolUse", "length"}, NEW print \in Prints,
               Push(<<Assistant(turn, n, stop, print, FALSE)>>)
        PROVE  Numbered(messages, turn)'
    <3>1. n \in 0 .. MaxCalls /\ stop \in Stops /\ print \in Prints \cup {"none"}
      BY DEF Stops
    <3>2. Assistant(turn, n, stop, print, FALSE) \in Entries /\ Numbered(<<Assistant(turn, n, stop, print, FALSE)>>, turn)
      BY <3>1, AssistantTyped, OneNumbered DEF ControlTyped
    <3> QED BY <2>2, <2>4, <3>2, Zenon DEF Push
  <2> QED BY <1>29, <2>3, <2>4 DEF Respond
<1>30. CASE RespondError
  <2>1. <<Note(IF cancelled THEN "aborted" ELSE "error")>> \in Seq(Entries) /\ Numbered(<<Note(IF cancelled THEN "aborted" ELSE "error")>>, turn)
    BY NoteTyped, NoteNumbered DEF ControlTyped, Stops
  <2>2. messages' = messages \o <<Note(IF cancelled THEN "aborted" ELSE "error")>> /\ turn' = turn
    BY <1>30 DEF RespondError, Push
  <2> QED BY <2>1, <2>2, NumberedJoin
<1>31. CASE RespondCheckpoint
  <2>1. turn' = turn
    BY <1>31 DEF RespondCheckpoint
  <2>2. ASSUME NEW e \in Entries, Numbered(<<e>>, turn), messages' = messages \o <<e>>
        PROVE  Numbered(messages, turn)'
    <3>1. <<e>> \in Seq(Entries)
      BY OneEntry
    <3> QED BY <2>1, <2>2, <3>1, NumberedJoin
  <2>3. CASE Push(<<Assistant(turn, 0, "stop", "none", TRUE)>>)
    <3>1. Assistant(turn, 0, "stop", "none", TRUE) \in Entries /\ Numbered(<<Assistant(turn, 0, "stop", "none", TRUE)>>, turn)
      BY FirstTyped, NoteNumbered, OneNumbered DEF ControlTyped
    <3> QED BY <2>2, <2>3, <3>1, Zenon DEF Push
  <2>4. ASSUME NEW n \in 1 .. MaxCalls, NEW stop \in {"toolUse"}, NEW print \in Prints,
               Push(<<Assistant(turn, n, stop, print, TRUE)>>)
        PROVE  Numbered(messages, turn)'
    <3>1. n \in 0 .. MaxCalls /\ stop \in Stops /\ print \in Prints \cup {"none"}
      BY DEF Stops
    <3>2. Assistant(turn, n, stop, print, TRUE) \in Entries /\ Numbered(<<Assistant(turn, n, stop, print, TRUE)>>, turn)
      BY <3>1, AssistantTyped, OneNumbered DEF ControlTyped
    <3> QED BY <2>2, <2>4, <3>2, Zenon DEF Push
  <2> QED BY <1>31, <2>3, <2>4 DEF RespondCheckpoint
<1>32. CASE Throw
  <2>1. Emitting \in Seq(Entries) /\ Numbered(Emitting, turn)
    <3>1. Users(pending) \in Seq(Entries) /\ Numbered(Users(pending), turn)
      BY UsersTyped, UsersNumbered DEF MailTyped
    <3>2. /\ Results(batch.turn, DOMAIN batch.phase) \in Seq(Entries)
          /\ Numbered(Results(batch.turn, DOMAIN batch.phase), turn)
      BY BatchResults, BatchNumbered
    <3>3. <<>> \in Seq(Entries) /\ Numbered(<<>>, turn)
      BY DEF Numbered
    <3> QED BY <3>1, <3>2, <3>3 DEF Emitting
  <2>2. PICK k \in 0 .. Len(Emitting) : messages' = messages \o SubSeq(Emitting, 1, k)
    BY <1>32 DEF Throw
  <2>3. SubSeq(Emitting, 1, k) \in Seq(Entries) /\ Numbered(SubSeq(Emitting, 1, k), turn) /\ turn' = turn
    BY <1>32, <2>1, NumberedPrefix DEF Throw
  <2> QED BY <2>2, <2>3, NumberedJoin
<1>33. CASE PrepareThrows
  <2>1. messages' = messages /\ turn' = turn
    BY <1>33 DEF PrepareThrows
  <2> QED BY <2>1 DEF Numbered
<1>34. CASE Crash
  <2>1. messages' = messages /\ turn' = turn
    BY <1>34 DEF Crash, Idle
  <2> QED BY <2>1 DEF Numbered
<1>35. ASSUME NEW c \in 1 .. MaxCalls, ExecuteEnds(c) PROVE Numbered(messages, turn)'
  <2>1. messages' = messages /\ turn' = turn
    BY <1>35 DEF ExecuteEnds, Pipeline
  <2> QED BY <2>1 DEF Numbered
<1>36. ASSUME NEW c \in 1 .. MaxCalls, CallThrows(c) PROVE Numbered(messages, turn)'
  <2>1. messages' = messages /\ turn' = turn
    BY <1>36 DEF CallThrows
  <2> QED BY <2>1 DEF Numbered
<1>37. ASSUME NEW c \in 1 .. MaxCalls, BeforeDispatch(c) PROVE Numbered(messages, turn)'
  <2>1. messages' = messages /\ turn' = turn
    BY <1>37 DEF BeforeDispatch, Pipeline
  <2> QED BY <2>1 DEF Numbered
<1>38. ASSUME NEW c \in 1 .. MaxCalls, RefuseDispatch(c) PROVE Numbered(messages, turn)'
  <2>1. messages' = messages /\ turn' = turn
    BY <1>38 DEF RefuseDispatch
  <2> QED BY <2>1 DEF Numbered
<1>39. CASE Reconcile
  <2>1. messages' = messages /\ turn' = turn
    BY <1>39 DEF Reconcile
  <2> QED BY <2>1 DEF Numbered
<1> QED BY <1>0, <1>1, <1>2, <1>3, <1>4, <1>5, <1>6, <1>7, <1>8, <1>9, <1>10, <1>11, <1>12,
           <1>13, <1>14, <1>15, <1>16, <1>17, <1>18, <1>19, <1>20, <1>21, <1>22, <1>23, <1>24,
           <1>25, <1>26, <1>27, <1>28, <1>29, <1>30, <1>31, <1>32, <1>33, <1>34, <1>35, <1>36,
           <1>37, <1>38, <1>39
         DEF Next, Caller, Step, Call, Response

\* Steps that leave batch and journal alone.
LEMMA SameStarted ==
    ASSUME StartedOnce, batch' = batch, UNCHANGED tools, turn' = turn, pc' = pc \/ pc' # "batch"
    PROVE  StartedOnce'
BY DEF StartedOnce, Unstarted, In, tools

\* Steps that end or have ended a batch: what is known of its calls may become more.
LEMMA LeftStarted ==
    ASSUME StartedOnce, batch'.turn <= turn', UNCHANGED <<started, journal>>, pc' # "batch"
    PROVE  StartedOnce'
BY DEF StartedOnce, journal

\* Steps that only move a call to a later phase, without starting it; its result may
\* be stored if it cannot be executed any more.
LEMMA MovedStarted ==
    ASSUME StartedOnce, UNCHANGED <<started, journal>>, turn' = turn, pc' = pc \/ pc' # "batch",
           NEW c \in DOMAIN batch.phase, NEW p, Moves(c, p), p # "dispatched",
           p \in Waits => c \in Unstarted /\ persisted' = persisted,
           persisted' \subseteq persisted \cup {<<batch.turn, c>>}
    PROVE  StartedOnce'
<1>1. batch'.turn = batch.turn /\ step' = step /\ safe' = safe /\ unsafe' = unsafe /\ started' = started
  BY DEF Moves, journal
<1>2. CASE pc' # "batch"
  BY <1>1, <1>2, LeftStarted DEF StartedOnce
<1>3. CASE pc' = pc /\ pc = "batch"
  <2>1. ASSUME NEW d \in Unstarted' PROVE d \in Unstarted /\ <<batch.turn, d>> \notin persisted'
    <3>1. CASE d = c
      <4>1. p \in Waits
        BY <2>1, <3>1 DEF Moves, Unstarted, In
      <4> QED BY <1>3, <3>1, <4>1 DEF StartedOnce
    <3>2. CASE d # c
      <4>1. d \in Unstarted
        BY <2>1, <3>2 DEF Moves, Unstarted, In
      <4>2. <<batch.turn, d>> # <<batch.turn, c>>
        BY <3>2
      <4> QED BY <1>3, <4>1, <4>2 DEF StartedOnce
    <3> QED BY <3>1, <3>2
  <2>2. In({"dispatched"})' \subseteq In({"dispatched"})
    BY DEF Moves, In
  <2> QED BY <1>1, <1>3, <2>1, <2>2 DEF StartedOnce
<1> QED BY <1>2, <1>3

\* A call is prepared, or answered without execution.
LEMMA Prepared ==
    ASSUME Typed, NEW c, Prepare(c)
    PROVE  \E p \in {"immediate", "prepared"} : Moves(c, p)
<1>1. c \in DOMAIN batch.phase /\ batch \in Batches
  BY DEF Prepare, Todo, In, Typed, BatchTyped
<1>2. CASE \E stop : batch' = [To(c, "immediate") EXCEPT !.terminate = @ \cup stop]
  <2>1. To(c, "immediate") \in Batches
    BY <1>1, MovesOn DEF Phases
  <2>2. /\ batch'.phase = To(c, "immediate").phase /\ batch'.kind = To(c, "immediate").kind
        /\ batch'.mode = To(c, "immediate").mode /\ batch'.turn = To(c, "immediate").turn
        /\ batch'.key = To(c, "immediate").key
    BY <1>2, <2>1 DEF Batches
  <2>3. Moves(c, "immediate")
    BY <1>1, <2>2, MovesAs DEF Phases
  <2> QED BY <2>3
<1>3. CASE \E all : batch' = [To(c, "prepared") EXCEPT !.launched = all]
  <2>1. To(c, "prepared") \in Batches
    BY <1>1, MovesOn DEF Phases
  <2>2. /\ batch'.phase = To(c, "prepared").phase /\ batch'.kind = To(c, "prepared").kind
        /\ batch'.mode = To(c, "prepared").mode /\ batch'.turn = To(c, "prepared").turn
        /\ batch'.key = To(c, "prepared").key
    BY <1>3, <2>1 DEF Batches
  <2>3. Moves(c, "prepared")
    BY <1>1, <2>2, MovesAs DEF Phases
  <2> QED BY <2>3
<1> QED BY <1>2, <1>3 DEF Prepare

\* The journal is ahead of the batch at every step, also after a restart: a resume
\* is refused while a call is unknown and supplies the results that are stored.
LEMMA StartedStep ==
    ASSUME Typed, Pipelined, Numbered(messages, turn), StartedOnce, [Next]_vars
    PROVE  StartedOnce'
<1> USE DEF Typed
<1>0. CASE UNCHANGED vars
  BY <1>0, SameStarted DEF vars, tools
<1>1. ASSUME NEW m \in Messages, Prompt(m) PROVE StartedOnce'
  <2>1. batch' = batch /\ turn' = turn /\ started' = {} /\ safe' = {} /\ unsafe' = {} /\ pc' # "batch"
    BY <1>1 DEF Prompt, Begin, NewJournal
  <2> QED BY <2>1 DEF StartedOnce
<1>2. ASSUME NEW m \in Messages, Steer(m) PROVE StartedOnce'
  <2>1. batch' = batch /\ UNCHANGED tools /\ turn' = turn /\ (pc' = pc \/ pc' # "batch")
    BY <1>2 DEF Steer
  <2> QED BY <2>1, SameStarted
<1>3. ASSUME NEW m \in Messages, FollowUp(m) PROVE StartedOnce'
  <2>1. batch' = batch /\ UNCHANGED tools /\ turn' = turn /\ (pc' = pc \/ pc' # "batch")
    BY <1>3 DEF FollowUp
  <2> QED BY <2>1, SameStarted
<1>4. CASE ClearAllQueues
  <2>1. batch' = batch /\ UNCHANGED tools /\ turn' = turn /\ (pc' = pc \/ pc' # "batch")
    BY <1>4 DEF ClearAllQueues
  <2> QED BY <2>1, SameStarted
<1>5. CASE Reset
  <2>1. batch' = batch /\ UNCHANGED tools /\ turn' = turn /\ (pc' = pc \/ pc' # "batch")
    BY <1>5 DEF Reset
  <2> QED BY <2>1, SameStarted
<1>6. CASE Abort
  <2>1. batch' = batch /\ UNCHANGED tools /\ turn' = turn /\ (pc' = pc \/ pc' # "batch")
    BY <1>6 DEF Abort
  <2> QED BY <2>1, SameStarted
<1>7. CASE ContinueQueued
  <2>1. batch' = batch /\ UNCHANGED tools /\ turn' = turn /\ (pc' = pc \/ pc' # "batch")
    BY <1>7 DEF ContinueQueued, Begin
  <2> QED BY <2>1, SameStarted
<1>8. CASE Continue
  <2>1. batch' = batch /\ UNCHANGED tools /\ turn' = turn /\ (pc' = pc \/ pc' # "batch")
    BY <1>8 DEF Continue, Begin
  <2> QED BY <2>1, SameStarted
<1>9. CASE ResumeToolCalls
  <2>1. PICK i \in 1 .. Len(messages), mode \in ToolModes : ResumesAt(i, mode)
    BY <1>9, ResumesSomewhere
  <2> DEFINE e == messages[i]
             completed == {c \in 1 .. e.calls : <<e.turn, c>> \in persisted}
  <2>2. e.turn \in Nat /\ e.turn <= turn /\ turn' = turn /\ UNCHANGED tools /\ Unknown = {}
    BY <1>9, <2>1, AssistantAt DEF ResumesAt, BatchAt, ResumeToolCalls, EntriesTyped, Numbered
  <2>3. /\ pc' = "batch" /\ batch'.turn = e.turn /\ e.turn = step /\ DOMAIN batch'.phase = 1 .. e.calls
        /\ \A c \in 1 .. e.calls : batch'.phase[c] = IF c \in completed THEN "completed" ELSE "todo"
    BY <2>1 DEF ResumesAt, Begin
  <2>4. \A c \in 1 .. e.calls : c \notin completed => <<e.turn, c>> \notin persisted
    OBVIOUS
  <2> HIDE DEF completed, e
  <2>5. \A c \in Unstarted' : <<e.turn, c>> \notin persisted /\ <<e.turn, c>> \notin unsafe
    <3>1. \A c \in Unstarted' : c \in 1 .. e.calls /\ c \notin completed
      BY <2>3 DEF Unstarted, Waits, In
    <3> QED BY <2>2, <2>4, <3>1 DEF Unknown
  <2>6. In({"dispatched"})' = {}
    BY <2>3 DEF In
  <2> QED BY <2>2, <2>3, <2>5, <2>6 DEF StartedOnce, tools
<1>10. CASE DropFailure
  <2>1. batch' = batch /\ UNCHANGED tools /\ turn' = turn /\ (pc' = pc \/ pc' # "batch")
    BY <1>10 DEF DropFailure
  <2> QED BY <2>1, SameStarted
<1>11. CASE EmitPrompts
  <2>1. batch' = batch /\ UNCHANGED tools /\ turn' = turn /\ (pc' = pc \/ pc' # "batch")
    BY <1>11 DEF EmitPrompts
  <2> QED BY <2>1, SameStarted
<1>12. CASE InitialPoll
  <2>1. batch' = batch /\ UNCHANGED tools /\ turn' = turn /\ (pc' = pc \/ pc' # "batch")
    BY <1>12 DEF InitialPoll
  <2> QED BY <2>1, SameStarted
<1>13. CASE PrepareNextTurn
  <2>1. batch' = batch /\ UNCHANGED tools /\ turn' = turn /\ (pc' = pc \/ pc' # "batch")
    BY <1>13 DEF PrepareNextTurn
  <2> QED BY <2>1, SameStarted
<1>14. CASE Inject
  <2>1. batch' = batch /\ UNCHANGED tools /\ turn' = turn /\ (pc' = pc \/ pc' # "batch")
    BY <1>14 DEF Inject
  <2> QED BY <2>1, SameStarted
<1>15. CASE Request
  <2>1. batch' = batch /\ UNCHANGED tools /\ pc' # "batch" /\ (turn' = turn \/ turn' = turn + 1)
    BY <1>15 DEF Request
  <2>2. batch'.turn <= turn'
    BY <2>1 DEF StartedOnce, ControlTyped, BatchTyped, Batches
  <2> QED BY <2>1, <2>2, LeftStarted DEF tools, journal
<1>16. CASE Recovered
  <2>1. batch' = batch /\ UNCHANGED tools /\ turn' = turn /\ (pc' = pc \/ pc' # "batch")
    BY <1>16 DEF Recovered
  <2> QED BY <2>1, SameStarted
<1>17. CASE FailTruncated
  <2>1. batch' = batch /\ UNCHANGED <<started, journal>> /\ turn' = turn /\ pc' # "batch"
    BY <1>17 DEF FailTruncated
  <2> QED BY <2>1, LeftStarted DEF StartedOnce
<1>18. CASE TurnEnd
  <2>1. batch' = NoBatch /\ pc' # "batch" /\ UNCHANGED <<started, journal>> /\ turn' = turn
    BY <1>18 DEF TurnEnd, tools, journal
  <2>2. batch'.turn <= turn'
    BY <2>1 DEF NoBatch, ControlTyped
  <2> QED BY <2>1, <2>2, LeftStarted
<1>19. CASE PollFollowUps
  <2>1. batch' = batch /\ UNCHANGED tools /\ turn' = turn /\ (pc' = pc \/ pc' # "batch")
    BY <1>19 DEF PollFollowUps
  <2> QED BY <2>1, SameStarted
<1>20. CASE AgentEnd
  <2>1. batch' = batch /\ UNCHANGED tools /\ turn' = turn /\ (pc' = pc \/ pc' # "batch")
    BY <1>20 DEF AgentEnd
  <2> QED BY <2>1, SameStarted
<1>21. CASE FinishRun
  <2>1. batch' = NoBatch /\ pc' # "batch" /\ UNCHANGED <<started, journal>> /\ turn' = turn
    BY <1>21 DEF FinishRun, Idle, tools, journal
  <2>2. batch'.turn <= turn'
    BY <2>1 DEF NoBatch, ControlTyped
  <2> QED BY <2>1, <2>2, LeftStarted
<1>22. CASE HandleRunFailure
  <2>1. batch' = batch /\ UNCHANGED tools /\ turn' = turn /\ (pc' = pc \/ pc' # "batch")
    BY <1>22 DEF HandleRunFailure
  <2> QED BY <2>1, SameStarted
<1>23. CASE BatchEnds
  <2>1. batch' = batch /\ UNCHANGED tools /\ turn' = turn /\ pc' # "batch"
    BY <1>23 DEF BatchEnds
  <2> QED BY <2>1, SameStarted
<1>24. ASSUME NEW c \in 1 .. MaxCalls, Prepare(c) PROVE StartedOnce'
  <2>1. /\ c \in DOMAIN batch.phase /\ c \in Unstarted /\ UNCHANGED <<started, journal, persisted>>
        /\ turn' = turn /\ pc' = pc
    BY <1>24 DEF Prepare, In, Todo, Unstarted, Waits, Pipeline
  <2>2. PICK p \in {"immediate", "prepared"} : Moves(c, p)
    BY <1>24, Prepared
  <2> QED BY <2>1, <2>2, MovedStarted
<1>25. ASSUME NEW c \in 1 .. MaxCalls, Admit(c) PROVE StartedOnce'
  <2>1. /\ c \in DOMAIN batch.phase /\ UNCHANGED <<started, journal, persisted>> /\ turn' = turn /\ pc' = pc
        /\ \E p \in {"waiting", "executed"} : batch' = To(c, p)
    BY <1>25 DEF Admit, In, Pipeline
  <2>2. PICK p \in {"waiting", "executed"} : batch' = To(c, p)
    BY <2>1
  <2>3. Moves(c, p)
    BY <2>1, <2>2, MovesOn DEF Moves, BatchTyped, Phases
  <2>4. p \in Waits => c \in Unstarted
    BY <1>25, <2>1 DEF Admit, In, Unstarted, Waits
  <2> QED BY <2>1, <2>3, <2>4, MovedStarted
<1>26. ASSUME NEW c \in 1 .. MaxCalls, Acquire(c) PROVE StartedOnce'
  <2>1. /\ c \in DOMAIN batch.phase /\ UNCHANGED <<started, journal, persisted>> /\ turn' = turn /\ pc' = pc
        /\ \E p \in {"leased", "executed"} : batch' = To(c, p)
    BY <1>26 DEF Acquire, In, Pipeline
  <2>2. PICK p \in {"leased", "executed"} : batch' = To(c, p)
    BY <2>1
  <2>3. Moves(c, p)
    BY <2>1, <2>2, MovesOn DEF Moves, BatchTyped, Phases
  <2>4. p \in Waits => c \in Unstarted
    BY <1>26, <2>1 DEF Acquire, In, Unstarted, Waits
  <2> QED BY <2>1, <2>3, <2>4, MovedStarted
<1>27. ASSUME NEW c \in 1 .. MaxCalls, Dispatch(c) PROVE StartedOnce'
  <2>1. /\ c \in DOMAIN batch.phase /\ turn' = turn /\ pc' = pc /\ batch.phase[c] = "dispatched"
        /\ UNCHANGED <<persisted, journal>>
    BY <1>27 DEF Dispatch, In, Pipeline
  <2>2. CASE batch' = To(c, "executed") /\ started' = started
    <3>1. Moves(c, "executed")
      BY <2>1, <2>2, MovesOn DEF Moves, BatchTyped, Phases
    <3> QED BY <2>1, <2>2, <3>1, MovedStarted DEF Waits
  <2>3. CASE batch' = To(c, "executing") /\ started' = started \cup {<<batch.turn, c>>}
    <3>1. Moves(c, "executing")
      BY <2>1, <2>3, MovesOn DEF Moves, BatchTyped, Phases
    <3>2. pc = "batch" /\ <<batch.turn, c>> \in safe \cup unsafe
      BY <2>1 DEF Pipelined, NoOrphanEffects, Busy, In, StartedOnce
    <3>3. started' \subseteq safe \cup unsafe
      BY <2>3, <3>2 DEF StartedOnce
    <3>4. ASSUME NEW d \in Unstarted'
          PROVE  d \in Unstarted /\ (<<batch.turn, d>> \in started' => <<batch.turn, d>> \in started)
      <4>1. d \in Unstarted /\ d # c
        BY <3>1 DEF Moves, Unstarted, Waits, In
      <4> QED BY <2>3, <4>1
    <3>5. In({"dispatched"})' \subseteq In({"dispatched"}) /\ batch'.turn = batch.turn
      BY <3>1 DEF Moves, In
    <3> QED BY <2>1, <3>2, <3>3, <3>4, <3>5 DEF StartedOnce, journal
  <2> QED BY <1>27, <2>2, <2>3 DEF Dispatch
<1>28. ASSUME NEW c \in 1 .. MaxCalls, Settle(c) PROVE StartedOnce'
  <2>1. /\ c \in DOMAIN batch.phase /\ UNCHANGED <<started, journal>> /\ turn' = turn /\ pc' = pc
        /\ persisted' \subseteq persisted \cup {<<batch.turn, c>>}
    BY <1>28 DEF Settle, In
  <2>2. Moves(c, "done")
    BY <1>28, Settled
  <2> QED BY <2>1, <2>2, MovedStarted DEF Waits
<1>29. CASE Respond
  <2>1. /\ turn' = turn /\ step' = turn /\ started' = {} /\ persisted' = {} /\ safe' = {} /\ unsafe' = {}
        /\ pc = "streaming"
    BY <1>29 DEF Respond, NewJournal
  <2>2. CASE batch' = batch /\ pc' # "batch"
    BY <2>1, <2>2 DEF StartedOnce
  <2>3. CASE \E n \in 1 .. MaxCalls, mode \in ToolModes, stop \in {"toolUse", "length"}, print \in Prints :
               batch' = NewBatch("turn", mode, n, stop, print)
    <3>1. batch'.turn = turn /\ In({"dispatched"})' = {}
      BY <2>3 DEF NewBatch, In
    <3> QED BY <2>1, <3>1 DEF StartedOnce, ControlTyped
  <2> QED BY <1>29, <2>2, <2>3 DEF Respond
<1>30. CASE RespondError
  <2>1. batch' = batch /\ UNCHANGED tools /\ turn' = turn /\ (pc' = pc \/ pc' # "batch")
    BY <1>30 DEF RespondError
  <2> QED BY <2>1, SameStarted
<1>31. CASE RespondCheckpoint
  <2>1. /\ turn' = turn /\ step' = turn /\ started' = {} /\ persisted' = {} /\ safe' = {} /\ unsafe' = {}
        /\ pc = "streaming"
    BY <1>31 DEF RespondCheckpoint, NewJournal
  <2>2. CASE batch' = batch /\ pc' # "batch"
    BY <2>1, <2>2 DEF StartedOnce
  <2>3. CASE \E n \in 1 .. MaxCalls, mode \in ToolModes, stop \in {"toolUse", "length"}, print \in Prints :
               batch' = NewBatch("checkpoint", mode, n, stop, print)
    <3>1. batch'.turn = turn /\ In({"dispatched"})' = {}
      BY <2>3 DEF NewBatch, In
    <3> QED BY <2>1, <3>1 DEF StartedOnce, ControlTyped
  <2> QED BY <1>31, <2>2, <2>3 DEF RespondCheckpoint
<1>32. CASE Throw
  <2>1. batch' = batch /\ UNCHANGED <<started, journal>> /\ turn' = turn /\ pc' # "batch"
    BY <1>32 DEF Throw
  <2> QED BY <2>1, LeftStarted DEF StartedOnce
<1>33. CASE PrepareThrows
  <2>1. batch' = batch /\ UNCHANGED tools /\ turn' = turn /\ (pc' = pc \/ pc' # "batch")
    BY <1>33 DEF PrepareThrows
  <2> QED BY <2>1, SameStarted
<1>34. CASE Crash
  <2>1. batch' = NoBatch /\ pc' # "batch" /\ UNCHANGED <<started, journal>> /\ turn' = turn
    BY <1>34 DEF Crash, Idle, tools, journal
  <2>2. batch'.turn <= turn'
    BY <2>1 DEF NoBatch, ControlTyped
  <2> QED BY <2>1, <2>2, LeftStarted
<1>35. ASSUME NEW c \in 1 .. MaxCalls, ExecuteEnds(c) PROVE StartedOnce'
  <2>1. /\ c \in DOMAIN batch.phase /\ UNCHANGED <<started, journal, persisted>> /\ turn' = turn /\ pc' = pc
        /\ \E p \in {"executed"} : batch' = To(c, p)
    BY <1>35 DEF ExecuteEnds, In, Pipeline
  <2>2. PICK p \in {"executed"} : batch' = To(c, p)
    BY <2>1
  <2>3. Moves(c, p)
    BY <2>1, <2>2, MovesOn DEF Moves, BatchTyped, Phases
  <2>4. p \in Waits => c \in Unstarted
    BY <1>35, <2>1 DEF ExecuteEnds, In, Unstarted, Waits
  <2> QED BY <2>1, <2>3, <2>4, MovedStarted
<1>36. ASSUME NEW c \in 1 .. MaxCalls, CallThrows(c) PROVE StartedOnce'
  <2>1. /\ c \in DOMAIN batch.phase /\ UNCHANGED tools /\ turn' = turn /\ batch' = To(c, "rejected")
        /\ (pc' = pc \/ pc' = "failing")
    BY <1>36 DEF CallThrows, In
  <2>2. Moves(c, "rejected")
    BY <2>1, MovesOn DEF Moves, BatchTyped, Phases
  <2> QED BY <2>1, <2>2, MovedStarted DEF tools, journal, Waits
<1>37. ASSUME NEW c \in 1 .. MaxCalls, BeforeDispatch(c) PROVE StartedOnce'
  <2>1. /\ c \in DOMAIN batch.phase /\ c \in Unstarted /\ turn' = turn /\ pc' = pc
        /\ UNCHANGED <<persisted, started>>
    BY <1>37 DEF BeforeDispatch, In, Unstarted, Waits, Pipeline
  <2>2. CASE batch' = To(c, "executed") /\ UNCHANGED journal
    <3>1. Moves(c, "executed")
      BY <2>1, <2>2, MovesOn DEF Moves, BatchTyped, Phases
    <3> QED BY <2>1, <2>2, <3>1, MovedStarted DEF Waits
  <2>3. CASE batch' = To(c, "dispatched") /\ Journal(<<batch.turn, c>>) /\ UNCHANGED step
    <3> DEFINE x == <<batch.turn, c>>
    <3>1. Moves(c, "dispatched")
      BY <2>1, <2>3, MovesOn DEF Moves, BatchTyped, Phases
    <3>2. \A d : d # c => <<batch.turn, d>> # x
      OBVIOUS
    <3>3. /\ x \notin unsafe /\ x \notin persisted
          /\ \/ safe' = safe \cup {x} /\ unsafe' = unsafe
             \/ x \notin safe /\ unsafe' = unsafe \cup {x} /\ safe' = safe
      BY <2>3 DEF Journal
    <3> HIDE DEF x
    <3>4. started' \subseteq safe' \cup unsafe' /\ safe' \cap unsafe' = {} /\ x \in safe' \cup unsafe'
      BY <2>1, <3>3 DEF StartedOnce
    <3>5. x \in started => x \notin unsafe'
      BY <3>3 DEF StartedOnce
    <3>6. /\ batch'.turn = batch.turn /\ Unstarted' \subseteq Unstarted
          /\ In({"dispatched"})' \subseteq In({"dispatched"}) \cup {c}
      BY <2>1, <3>1 DEF Moves, Unstarted, Waits, In
    <3>7. ASSUME pc = "batch", NEW d \in Unstarted, <<batch.turn, d>> \in started
          PROVE  <<batch.turn, d>> \notin unsafe'
      <4>1. CASE d = c
        BY <3>5, <3>7, <4>1 DEF x
      <4>2. CASE d # c
        BY <3>2, <3>3, <3>7, <4>2 DEF StartedOnce
      <4> QED BY <4>1, <4>2
    <3>8. ASSUME pc = "batch", NEW d \in In({"dispatched"})' PROVE <<batch.turn, d>> \in safe' \cup unsafe'
      <4>1. CASE d = c
        BY <3>4, <4>1 DEF x
      <4>2. CASE d # c
        BY <3>3, <3>6, <3>8, <4>2 DEF StartedOnce
      <4> QED BY <4>1, <4>2
    <3> QED BY <2>1, <2>3, <3>4, <3>6, <3>7, <3>8 DEF StartedOnce
  <2> QED BY <1>37, <2>2, <2>3 DEF BeforeDispatch
<1>38. ASSUME NEW c \in 1 .. MaxCalls, RefuseDispatch(c) PROVE StartedOnce'
  <2> DEFINE x == <<batch.turn, c>>
  <2>1. /\ c \in DOMAIN batch.phase /\ UNCHANGED <<started, persisted, step>> /\ turn' = turn
        /\ batch' = To(c, "rejected") /\ (pc' = pc \/ pc' = "failing")
        /\ safe' = safe \ {x} /\ unsafe' = unsafe \cup {x}
    BY <1>38 DEF RefuseDispatch, In
  <2>2. Moves(c, "rejected")
    BY <2>1, MovesOn DEF Moves, BatchTyped, Phases
  <2>3. /\ batch'.turn = batch.turn /\ Unstarted' \subseteq Unstarted \ {c}
        /\ In({"dispatched"})' \subseteq In({"dispatched"}) \ {c}
    BY <2>2 DEF Moves, Unstarted, Waits, In
  <2>4. \A d : d # c => <<batch.turn, d>> # x
    OBVIOUS
  <2> HIDE DEF x
  <2>5. started' \subseteq safe' \cup unsafe' /\ safe' \cap unsafe' = {} /\ safe \cup unsafe \subseteq safe' \cup unsafe'
    BY <2>1 DEF StartedOnce
  <2>6. ASSUME pc = "batch", NEW d \in Unstarted', <<batch.turn, d>> \in started
        PROVE  <<batch.turn, d>> \notin unsafe'
    BY <2>1, <2>3, <2>4, <2>6 DEF StartedOnce
  <2> QED BY <2>1, <2>3, <2>5, <2>6 DEF StartedOnce
<1>39. CASE Reconcile
  <2>1. /\ batch' = batch /\ turn' = turn /\ pc' # "batch" /\ safe' = safe
        /\ \/ started' = started /\ unsafe' = unsafe
           \/ \E x \in Unknown : started' = started \ {x} /\ unsafe' = unsafe \ {x}
    BY <1>39 DEF Reconcile
  <2> QED BY <2>1 DEF StartedOnce
<1> QED BY <1>0, <1>1, <1>2, <1>3, <1>4, <1>5, <1>6, <1>7, <1>8, <1>9, <1>10, <1>11, <1>12,
           <1>13, <1>14, <1>15, <1>16, <1>17, <1>18, <1>19, <1>20, <1>21, <1>22, <1>23, <1>24,
           <1>25, <1>26, <1>27, <1>28, <1>29, <1>30, <1>31, <1>32, <1>33, <1>34, <1>35, <1>36,
           <1>37, <1>38, <1>39
         DEF Next, Caller, Step, Call, Response

\* What ExecutedOnce says of a step.
StartsFresh ==
    \A d \in 1 .. MaxCalls :
        LET x == <<batch'.turn, d>> IN
        d \in In({"executing"})' /\ d \notin In({"executing"}) =>
            /\ batch'.turn = step /\ x \notin persisted
            /\ x \in started => x \in safe \ unsafe

\* Only a call without a result, and new or to be replayed, goes to execution.
LEMMA FreshStep ==
    ASSUME Typed, Pipelined, StartedOnce, [Next]_vars
    PROVE  StartsFresh
<1> USE DEF Typed
<1>0. CASE UNCHANGED vars
  BY <1>0 DEF vars, StartsFresh, In
<1>1. ASSUME NEW m \in Messages, Prompt(m) PROVE StartsFresh
  <2>1. batch' = batch
    BY <1>1 DEF Prompt
  <2> QED BY <2>1 DEF StartsFresh, In
<1>2. ASSUME NEW m \in Messages, Steer(m) PROVE StartsFresh
  <2>1. batch' = batch
    BY <1>2 DEF Steer
  <2> QED BY <2>1 DEF StartsFresh, In
<1>3. ASSUME NEW m \in Messages, FollowUp(m) PROVE StartsFresh
  <2>1. batch' = batch
    BY <1>3 DEF FollowUp
  <2> QED BY <2>1 DEF StartsFresh, In
<1>4. CASE ClearAllQueues
  <2>1. batch' = batch
    BY <1>4 DEF ClearAllQueues
  <2> QED BY <2>1 DEF StartsFresh, In
<1>5. CASE Reset
  <2>1. batch' = batch
    BY <1>5 DEF Reset
  <2> QED BY <2>1 DEF StartsFresh, In
<1>6. CASE Abort
  <2>1. batch' = batch
    BY <1>6 DEF Abort
  <2> QED BY <2>1 DEF StartsFresh, In
<1>7. CASE ContinueQueued
  <2>1. batch' = batch
    BY <1>7 DEF ContinueQueued
  <2> QED BY <2>1 DEF StartsFresh, In
<1>8. CASE Continue
  <2>1. batch' = batch
    BY <1>8 DEF Continue
  <2> QED BY <2>1 DEF StartsFresh, In
<1>9. CASE ResumeToolCalls
  <2>1. PICK i \in 1 .. Len(messages), mode \in ToolModes : ResumesAt(i, mode)
    BY <1>9, ResumesSomewhere
  <2>2. \A c \in DOMAIN batch'.phase : batch'.phase[c] \in {"completed", "todo"}
    BY <2>1 DEF ResumesAt
  <2> QED BY <2>2 DEF StartsFresh, In
<1>10. CASE DropFailure
  <2>1. batch' = batch
    BY <1>10 DEF DropFailure
  <2> QED BY <2>1 DEF StartsFresh, In
<1>11. CASE EmitPrompts
  <2>1. batch' = batch
    BY <1>11 DEF EmitPrompts
  <2> QED BY <2>1 DEF StartsFresh, In
<1>12. CASE InitialPoll
  <2>1. batch' = batch
    BY <1>12 DEF InitialPoll
  <2> QED BY <2>1 DEF StartsFresh, In
<1>13. CASE PrepareNextTurn
  <2>1. batch' = batch
    BY <1>13 DEF PrepareNextTurn
  <2> QED BY <2>1 DEF StartsFresh, In
<1>14. CASE Inject
  <2>1. batch' = batch
    BY <1>14 DEF Inject
  <2> QED BY <2>1 DEF StartsFresh, In
<1>15. CASE Request
  <2>1. batch' = batch
    BY <1>15 DEF Request
  <2> QED BY <2>1 DEF StartsFresh, In
<1>16. CASE Recovered
  <2>1. batch' = batch
    BY <1>16 DEF Recovered
  <2> QED BY <2>1 DEF StartsFresh, In
<1>17. CASE FailTruncated
  <2>1. batch' = batch
    BY <1>17 DEF FailTruncated
  <2> QED BY <2>1 DEF StartsFresh, In
<1>18. CASE TurnEnd
  <2>1. batch' = NoBatch
    BY <1>18 DEF TurnEnd
  <2> QED BY <2>1 DEF StartsFresh, In, NoBatch
<1>19. CASE PollFollowUps
  <2>1. batch' = batch
    BY <1>19 DEF PollFollowUps
  <2> QED BY <2>1 DEF StartsFresh, In
<1>20. CASE AgentEnd
  <2>1. batch' = batch
    BY <1>20 DEF AgentEnd
  <2> QED BY <2>1 DEF StartsFresh, In
<1>21. CASE FinishRun
  <2>1. batch' = NoBatch
    BY <1>21 DEF FinishRun, Idle
  <2> QED BY <2>1 DEF StartsFresh, In, NoBatch
<1>22. CASE HandleRunFailure
  <2>1. batch' = batch
    BY <1>22 DEF HandleRunFailure
  <2> QED BY <2>1 DEF StartsFresh, In
<1>23. CASE BatchEnds
  <2>1. batch' = batch
    BY <1>23 DEF BatchEnds
  <2> QED BY <2>1 DEF StartsFresh, In
<1>24. ASSUME NEW c \in 1 .. MaxCalls, Prepare(c) PROVE StartsFresh
  <2>1. PICK p \in {"immediate", "prepared"} : Moves(c, p)
    BY <1>24, Prepared
  <2> QED BY <2>1 DEF StartsFresh, In, Moves
<1>25. ASSUME NEW c \in 1 .. MaxCalls, Admit(c) PROVE StartsFresh
  <2>1. PICK p \in {"waiting", "executed"} : c \in DOMAIN batch.phase /\ batch' = To(c, p)
    BY <1>25 DEF Admit, In
  <2>2. Moves(c, p)
    BY <2>1, MovesOn DEF Moves, BatchTyped, Phases
  <2> QED BY <2>1, <2>2 DEF StartsFresh, In, Moves
<1>26. ASSUME NEW c \in 1 .. MaxCalls, Acquire(c) PROVE StartsFresh
  <2>1. PICK p \in {"leased", "executed"} : c \in DOMAIN batch.phase /\ batch' = To(c, p)
    BY <1>26 DEF Acquire, In
  <2>2. Moves(c, p)
    BY <2>1, MovesOn DEF Moves, BatchTyped, Phases
  <2> QED BY <2>1, <2>2 DEF StartsFresh, In, Moves
<1>27. ASSUME NEW c \in 1 .. MaxCalls, Dispatch(c) PROVE StartsFresh
  <2>1. PICK p \in {"executed", "executing"} : batch' = To(c, p)
    BY <1>27 DEF Dispatch
  <2>2. c \in DOMAIN batch.phase /\ c \in Unstarted /\ c \in Busy /\ c \notin In({"prepared"})
    BY <1>27 DEF Dispatch, In, Unstarted, Waits, Busy
  <2>3. Moves(c, p)
    BY <2>1, <2>2, MovesOn DEF Moves, BatchTyped, Phases
  <2>4. /\ batch.turn = step /\ <<batch.turn, c>> \notin persisted
        /\ <<batch.turn, c>> \in started => <<batch.turn, c>> \in safe \ unsafe
    BY <2>2 DEF StartedOnce, Pipelined, NoOrphanEffects
  <2> QED BY <2>3, <2>4 DEF StartsFresh, In, Moves
<1>28. ASSUME NEW c \in 1 .. MaxCalls, Settle(c) PROVE StartsFresh
  <2>1. Moves(c, "done")
    BY <1>28, Settled
  <2> QED BY <2>1 DEF StartsFresh, In, Moves
<1>29. CASE Respond
  <2>1. CASE batch' = batch
    BY <2>1 DEF StartsFresh, In
  <2>2. CASE \E n \in 1 .. MaxCalls, mode \in ToolModes, stop \in {"toolUse", "length"}, print \in Prints :
               batch' = NewBatch("turn", mode, n, stop, print)
    <3>1. \A c \in DOMAIN batch'.phase : batch'.phase[c] = "todo"
      BY <2>2 DEF NewBatch
    <3> QED BY <3>1 DEF StartsFresh, In
  <2> QED BY <1>29, <2>1, <2>2 DEF Respond
<1>30. CASE RespondError
  <2>1. batch' = batch
    BY <1>30 DEF RespondError
  <2> QED BY <2>1 DEF StartsFresh, In
<1>31. CASE RespondCheckpoint
  <2>1. CASE batch' = batch
    BY <2>1 DEF StartsFresh, In
  <2>2. CASE \E n \in 1 .. MaxCalls, mode \in ToolModes, stop \in {"toolUse"}, print \in Prints :
               batch' = NewBatch("checkpoint", mode, n, stop, print)
    <3>1. \A c \in DOMAIN batch'.phase : batch'.phase[c] = "todo"
      BY <2>2 DEF NewBatch
    <3> QED BY <3>1 DEF StartsFresh, In
  <2> QED BY <1>31, <2>1, <2>2 DEF RespondCheckpoint
<1>32. CASE Throw
  <2>1. batch' = batch
    BY <1>32 DEF Throw
  <2> QED BY <2>1 DEF StartsFresh, In
<1>33. CASE PrepareThrows
  <2>1. batch' = batch
    BY <1>33 DEF PrepareThrows
  <2> QED BY <2>1 DEF StartsFresh, In
<1>34. CASE Crash
  <2>1. batch' = NoBatch
    BY <1>34 DEF Crash, Idle
  <2> QED BY <2>1 DEF StartsFresh, In, NoBatch
<1>35. ASSUME NEW c \in 1 .. MaxCalls, ExecuteEnds(c) PROVE StartsFresh
  <2>1. PICK p \in {"executed"} : c \in DOMAIN batch.phase /\ batch' = To(c, p)
    BY <1>35 DEF ExecuteEnds, In
  <2>2. Moves(c, p)
    BY <2>1, MovesOn DEF Moves, BatchTyped, Phases
  <2> QED BY <2>1, <2>2 DEF StartsFresh, In, Moves
<1>36. ASSUME NEW c \in 1 .. MaxCalls, CallThrows(c) PROVE StartsFresh
  <2>1. PICK p \in {"rejected"} : c \in DOMAIN batch.phase /\ batch' = To(c, p)
    BY <1>36 DEF CallThrows, In
  <2>2. Moves(c, p)
    BY <2>1, MovesOn DEF Moves, BatchTyped, Phases
  <2> QED BY <2>1, <2>2 DEF StartsFresh, In, Moves
<1>37. ASSUME NEW c \in 1 .. MaxCalls, BeforeDispatch(c) PROVE StartsFresh
  <2>1. PICK p \in {"dispatched", "executed"} : c \in DOMAIN batch.phase /\ batch' = To(c, p)
    BY <1>37 DEF BeforeDispatch, In
  <2>2. Moves(c, p)
    BY <2>1, MovesOn DEF Moves, BatchTyped, Phases
  <2> QED BY <2>1, <2>2 DEF StartsFresh, In, Moves
<1>38. ASSUME NEW c \in 1 .. MaxCalls, RefuseDispatch(c) PROVE StartsFresh
  <2>1. PICK p \in {"rejected"} : c \in DOMAIN batch.phase /\ batch' = To(c, p)
    BY <1>38 DEF RefuseDispatch, In
  <2>2. Moves(c, p)
    BY <2>1, MovesOn DEF Moves, BatchTyped, Phases
  <2> QED BY <2>1, <2>2 DEF StartsFresh, In, Moves
<1>39. CASE Reconcile
  <2>1. batch' = batch
    BY <1>39 DEF Reconcile
  <2> QED BY <2>1 DEF StartsFresh, In
<1> QED BY <1>0, <1>1, <1>2, <1>3, <1>4, <1>5, <1>6, <1>7, <1>8, <1>9, <1>10, <1>11, <1>12,
           <1>13, <1>14, <1>15, <1>16, <1>17, <1>18, <1>19, <1>20, <1>21, <1>22, <1>23, <1>24,
           <1>25, <1>26, <1>27, <1>28, <1>29, <1>30, <1>31, <1>32, <1>33, <1>34, <1>35, <1>36,
           <1>37, <1>38, <1>39
         DEF Next, Caller, Step, Call, Response

\* No turn was taken and no call started in the beginning.
LEMMA StartedInit == Init => Numbered(messages, turn) /\ StartedOnce
BY DEF Init, Numbered, StartedOnce, Unstarted, In, NoBatch

-----------------------------------------------------------------------------
(* Transcript.                                                              *)

\* Entries of a concatenation.
LEMMA JoinAt ==
    ASSUME NEW q \in Seq(Entries), NEW r \in Seq(Entries)
    PROVE  /\ q \o r \in Seq(Entries) /\ Len(q \o r) = Len(q) + Len(r) /\ Len(q) \in Nat /\ Len(r) \in Nat
           /\ \A i \in 1 .. Len(q) : (q \o r)[i] = q[i]
           /\ \A i \in Len(q) + 1 .. Len(q) + Len(r) : (q \o r)[i] = r[i - Len(q)]
           /\ \A i \in 1 .. Len(r) : (q \o r)[Len(q) + i] = r[i]
OBVIOUS

\* Results are results.
LEMMA ResultsAre ==
    ASSUME NEW n \in Nat, NEW cs \in SUBSET (1 .. n), NEW t
    PROVE  \A k \in 1 .. Len(Results(t, cs)) : Results(t, cs)[k].role = "toolResult"
<1> SUFFICES ASSUME NEW k \in 1 .. Len(Results(t, cs)) PROVE Results(t, cs)[k].role = "toolResult"
  OBVIOUS
<1>1. k \in 1 .. Cardinality(cs)
  BY ResultsShape
<1>2. PICK c \in cs : Results(t, cs)[k] = Result(t, c)
  BY <1>1, ResultsShape
<1> QED BY <1>2 DEF Result

\* The number of calls of a message that asks.
LEMMA CallsAt ==
    ASSUME NEW q \in Seq(Entries), NEW i \in 1 .. Len(q), q[i].role = "assistant"
    PROVE  q[i].calls \in Nat /\ q[i].calls \in 0 .. MaxCalls /\ q[i].turn \in Nat
BY AssistantAt, AgentAssumption

\* What is answered stays answered.
LEMMA AnswersKept ==
    ASSUME NEW q \in Seq(Entries), NEW r \in Seq(Entries), NEW b \in Nat, NEW n \in 0 .. Len(q),
           AllAnswered(q, b, n)
    PROVE  AllAnswered(q \o r, b, n)
<1> SUFFICES ASSUME NEW i \in b + 1 .. n, Asks((q \o r)[i]) PROVE Replied(q \o r, i)
  BY DEF AllAnswered
<1>1. i \in 1 .. Len(q) /\ (q \o r)[i] = q[i]
  BY JoinAt
<1>2. Replied(q, i) /\ q[i].calls \in Nat
  BY <1>1, CallsAt DEF AllAnswered, Asks
<1>3. \A c \in 1 .. q[i].calls : (q \o r)[i + c] = q[i + c]
  <2> SUFFICES ASSUME NEW c \in 1 .. q[i].calls PROVE (q \o r)[i + c] = q[i + c]
    OBVIOUS
  <2>1. i + c \in 1 .. Len(q)
    BY <1>1, <1>2 DEF Replied
  <2> QED BY <2>1, JoinAt
<1>4. i + q[i].calls <= Len(q \o r)
  BY <1>1, <1>2, JoinAt DEF Replied
<1> QED BY <1>1, <1>2, <1>3, <1>4 DEF Replied

\* Messages that ask nothing leave everything answered.
LEMMA AnswersQuiet ==
    ASSUME NEW q \in Seq(Entries), NEW r \in Seq(Entries), NEW b \in Nat,
           AllAnswered(q, b, Len(q)), \A i \in 1 .. Len(r) : ~Asks(r[i])
    PROVE  AllAnswered(q \o r, b, Len(q \o r))
<1>1. AllAnswered(q \o r, b, Len(q))
  BY AnswersKept
<1> SUFFICES ASSUME NEW i \in b + 1 .. Len(q \o r), Asks((q \o r)[i]) PROVE Replied(q \o r, i)
  BY DEF AllAnswered
<1>2. CASE i <= Len(q)
  BY <1>1, <1>2 DEF AllAnswered
<1>3. CASE i > Len(q)
  <2>1. i - Len(q) \in 1 .. Len(r) /\ (q \o r)[i] = r[i - Len(q)]
    BY <1>3, JoinAt
  <2> QED BY <2>1
<1> QED BY <1>2, <1>3, JoinAt

\* The results of the first n calls.
LEMMA AllResults ==
    ASSUME NEW t \in Nat, NEW n \in 0 .. MaxCalls
    PROVE  /\ n \in Nat /\ Results(t, 1 .. n) \in Seq(Entries) /\ Len(Results(t, 1 .. n)) = n
           /\ \A i \in 1 .. n : Results(t, 1 .. n)[i] = Result(t, i)
<1>1. n \in Nat /\ 1 .. n \in SUBSET (1 .. MaxCalls) /\ 1 .. n \in SUBSET (1 .. n)
  BY AgentAssumption
<1> QED BY <1>1, ResultsTyped, ResultsOfAll, ResultsShape

\* A message and the results of all its calls.
LEMMA AnswersFull ==
    ASSUME NEW q \in Seq(Entries), Len(q) > 0, NEW b \in Nat, AllAnswered(q, b, Len(q) - 1),
           NEW t \in Nat, NEW n \in 0 .. MaxCalls,
           q[Len(q)].role = "assistant", q[Len(q)].turn = t, q[Len(q)].calls = n
    PROVE  LET all == q \o Results(t, 1 .. n) IN AllAnswered(all, b, Len(all))
<1> DEFINE r == Results(t, 1 .. n)
           all == q \o r
<1>1. n \in Nat /\ r \in Seq(Entries) /\ Len(r) = n /\ \A k \in 1 .. n : r[k] = Result(t, k)
  BY AllResults
<1> HIDE DEF r
<1>2. all \in Seq(Entries) /\ Len(all) = Len(q) + n /\ all[Len(q)] = q[Len(q)] /\ Len(q) \in Nat
  <2>1. Len(q) \in Nat /\ Len(q) \in 1 .. Len(q)
    OBVIOUS
  <2>2. /\ q \o r \in Seq(Entries) /\ Len(q \o r) = Len(q) + Len(r)
        /\ \A i \in 1 .. Len(q) : (q \o r)[i] = q[i]
    BY <1>1, JoinAt
  <2> QED BY <1>1, <2>1, <2>2
<1>3. \A k \in 1 .. n : all[Len(q) + k] = Result(t, k)
  BY <1>1, JoinAt
<1>4. AllAnswered(all, b, Len(q) - 1)
  <2>1. Len(q) - 1 \in 0 .. Len(q)
    BY <1>2
  <2> QED BY <1>1, <2>1, AnswersKept
<1> HIDE DEF all
<1>5. Replied(all, Len(q))
  BY <1>2, <1>3 DEF Replied
<1>6. \A i \in Len(q) + 1 .. Len(all) : ~Asks(all[i])
  <2> SUFFICES ASSUME NEW i \in Len(q) + 1 .. Len(all) PROVE ~Asks(all[i])
    OBVIOUS
  <2>1. i - Len(q) \in 1 .. n /\ i = Len(q) + (i - Len(q))
    BY <1>1, <1>2
  <2>2. all[i] = Result(t, i - Len(q))
    BY <1>3, <2>1
  <2> QED BY <2>2 DEF Asks, Result
<1>7. AllAnswered(all, b, Len(all))
  <2> SUFFICES ASSUME NEW i \in b + 1 .. Len(all), Asks(all[i]) PROVE Replied(all, i)
    BY DEF AllAnswered
  <2>1. i < Len(q) \/ i = Len(q) \/ i > Len(q)
    BY <1>2
  <2>2. CASE i < Len(q)
    BY <1>2, <1>4, <2>2 DEF AllAnswered
  <2>3. CASE i = Len(q)
    BY <1>5, <2>3
  <2>4. CASE i > Len(q)
    BY <1>2, <1>6, <2>4
  <2> QED BY <2>1, <2>2, <2>3, <2>4
<1> QED BY <1>7 DEF all, r

\* A sequential batch emits the next result.
LEMMA ResultsGrow ==
    ASSUME NEW q \in Seq(Entries), NEW t \in Nat, NEW k \in Nat, k + 1 <= MaxCalls
    PROVE  Append(q \o Results(t, 1 .. k), Result(t, k + 1)) = q \o Results(t, 1 .. k + 1)
<1>1. MaxCalls \in Nat
  BY AgentAssumption
<1>2. ASSUME NEW n \in 0 .. MaxCalls
      PROVE  /\ Results(t, 1 .. n) \in Seq(Entries) /\ Len(Results(t, 1 .. n)) = n
             /\ \A i \in 1 .. n : Results(t, 1 .. n)[i] = Result(t, i)
  BY AllResults
<1> DEFINE r == Results(t, 1 .. k)
           s == Results(t, 1 .. k + 1)
           e == Result(t, k + 1)
<1>3. /\ r \in Seq(Entries) /\ Len(r) = k /\ s \in Seq(Entries) /\ Len(s) = k + 1 /\ e \in Entries
      /\ \A i \in 1 .. k : r[i] = s[i]
      /\ s[k + 1] = e
  <2>1. k \in 0 .. MaxCalls /\ k + 1 \in 0 .. MaxCalls
    BY <1>1
  <2>2. e \in Entries
    BY <1>1 DEF Result, Entries
  <2> QED BY <1>2, <2>1, <2>2
<1> HIDE DEF r, s, e
<1>4. Append(q \o r, e) \in Seq(Entries) /\ q \o s \in Seq(Entries) /\ Len(Append(q \o r, e)) = Len(q \o s)
  BY <1>3
<1>5. ASSUME NEW i \in 1 .. Len(q \o s) PROVE Append(q \o r, e)[i] = (q \o s)[i]
  <2>1. q \o r \in Seq(Entries) /\ Len(q \o r) = Len(q) + k /\ Len(q \o s) = Len(q) + k + 1 /\ Len(q) \in Nat
    BY <1>3
  <2>2. CASE i <= Len(q)
    BY <1>3, <2>1, <2>2
  <2>3. CASE Len(q) < i /\ i <= Len(q) + k
    <3>1. (q \o r)[i] = r[i - Len(q)] /\ (q \o s)[i] = s[i - Len(q)] /\ i - Len(q) \in 1 .. k
      BY <1>3, <2>1, <2>3
    <3> QED BY <1>3, <2>1, <2>3, <3>1
  <2>4. CASE i = Len(q) + k + 1
    <3>1. (q \o s)[i] = s[k + 1]
      BY <1>3, <2>1, <2>4
    <3> QED BY <1>3, <2>1, <2>4, <3>1
  <2> QED BY <2>1, <2>2, <2>3, <2>4
<1>6. Append(q \o r, e) = q \o s
  BY <1>4, <1>5, SeqEqual
<1> QED BY <1>6 DEF r, s, e

\* Steps that touch neither copy and stay where they are.
LEMMA SameTranscript ==
    ASSUME Transcript, UNCHANGED <<messages, context, base, batch, pc>>, cancelled => cancelled'
    PROVE  Transcript'
BY DEF Transcript, Agreeing, Asked, Calls, Emitted, ResumedBatch, Sequential, Busy, In

\* Nothing is asked of a run that is over.
LEMMA RunOver ==
    ASSUME pc' \notin Agreeing \cup {"batch"}
    PROVE  Transcript'
BY DEF Transcript, Agreeing

\* Steps from one point of the loop to another.
LEMMA LoopGoesOn ==
    ASSUME Transcript, UNCHANGED <<messages, context, base, cancelled>>,
           pc \in Agreeing \ {"truncated"}, pc' \in Agreeing \ {"truncated"}, pc' = "streaming" => ~cancelled
    PROVE  Transcript'
BY DEF Transcript, Agreeing

\* A run begins with a transcript of its own.
LEMMA RunBegins ==
    ASSUME messages \in Seq(Entries), messages' = messages, context' = messages, base' = Len(messages),
           pc' \in {"prompting", "polling"}
    PROVE  Transcript'
<1>1. AllAnswered(messages', base', Len(messages'))
  BY DEF AllAnswered
<1> QED BY <1>1 DEF Transcript, Agreeing

\* The loop emits messages that ask nothing.
LEMMA LoopEmits ==
    ASSUME Typed, Transcript, NEW es \in Seq(Entries), \A i \in 1 .. Len(es) : ~Asks(es[i]),
           messages' = messages \o es, context' = context \o es, UNCHANGED <<base, cancelled>>,
           pc \in Agreeing \ {"truncated"}, pc' \in Agreeing \ {"truncated", "streaming"}
    PROVE  Transcript'
<1>1. context' = messages'
  BY DEF Transcript
<1>2. ASSUME ~cancelled PROVE AllAnswered(messages', base, Len(messages'))
  <2>1. AllAnswered(messages, base, Len(messages)) /\ messages \in Seq(Entries) /\ base \in Nat
    BY <1>2 DEF Transcript, Typed, EntriesTyped, ControlTyped
  <2> QED BY <2>1, AnswersQuiet
<1> QED BY <1>1, <1>2 DEF Transcript, Agreeing

\* A response with tool calls: its batch begins, or its calls are failed.
LEMMA BatchBegins ==
    ASSUME Typed, Transcript, pc = "streaming", NEW n \in 1 .. MaxCalls, NEW mode, NEW kind \in {"turn", "checkpoint"},
           NEW stop \in {"toolUse", "length"}, NEW print \in Prints, NEW checkpoint \in BOOLEAN,
           Push(<<Assistant(turn, n, stop, print, checkpoint)>>), batch' = NewBatch(kind, mode, n, stop, print),
           UNCHANGED <<base, cancelled>>, pc' \in {"truncated", "batch"}
    PROVE  Transcript'
<1> DEFINE e == Assistant(turn, n, stop, print, checkpoint)
<1>1. e \in Entries
  <2>1. n \in 0 .. MaxCalls /\ stop \in Stops /\ print \in Prints \cup {"none"} /\ turn \in Nat
    BY DEF Stops, Typed, ControlTyped
  <2> QED BY <2>1, AssistantTyped
<1>2. e.role = "assistant" /\ e.turn = turn /\ e.calls = n
  BY DEF Assistant
<1>3. messages' = messages \o <<e>> /\ context' = context \o <<e>>
  BY DEF Push
<1> HIDE DEF e
<1>4. /\ batch'.turn = turn /\ batch'.kind = kind /\ DOMAIN batch'.phase = 1 .. n
      /\ \A c \in 1 .. n : batch'.phase[c] = "todo"
  BY DEF NewBatch
<1>5. /\ context = messages /\ messages \in Seq(Entries) /\ base \in Nat /\ base <= Len(messages)
      /\ AllAnswered(messages, base, Len(messages))
  BY DEF Transcript, Agreeing, Typed, EntriesTyped, ControlTyped
<1>6. /\ context' = messages' /\ messages' \in Seq(Entries) /\ Len(messages') = Len(messages) + 1
      /\ messages'[Len(messages) + 1] = e /\ Len(messages) \in Nat
  BY <1>1, <1>3, <1>5
<1>7. AllAnswered(messages', base, Len(messages))
  <2>1. <<e>> \in Seq(Entries) /\ Len(messages) \in 0 .. Len(messages)
    BY <1>1, <1>6
  <2> QED BY <1>3, <1>5, <2>1, AnswersKept
<1>8. Asked'
  <2>1. Len(context') = Len(messages) + 1 /\ Len(context') - 1 = Len(messages)
    BY <1>6
  <2>2. Calls(context[Len(context)])'
    BY <1>2, <1>4, <1>6, <2>1 DEF Calls
  <2> QED BY <1>5, <1>6, <1>7, <2>1, <2>2 DEF Asked
<1>9. Emitted'
  <2>1. In({"done"})' = {} /\ Busy' = {} /\ In({"rejected"})' = {}
    BY <1>4 DEF In, Busy
  <2>2. 1 .. 0 = {} /\ 0 \in 0 .. MaxCalls /\ batch'.turn \in Nat
    BY <1>4, AgentAssumption DEF Typed, ControlTyped
  <2>3. Results(batch'.turn, 1 .. 0) = <<>>
    <3>1. Results(batch'.turn, 1 .. 0) \in Seq(Entries) /\ Len(Results(batch'.turn, 1 .. 0)) = 0
      BY <2>2, AllResults
    <3> QED BY <3>1
  <2>4. messages' = context' \o Results(batch'.turn, 1 .. 0)
    BY <1>6, <2>3
  <2> QED BY <1>6, <2>1, <2>2, <2>4 DEF Emitted
<1> QED BY <1>4, <1>6, <1>8, <1>9 DEF Transcript, Agreeing

\* A call moves on without a result.
LEMMA BatchGoesOn ==
    ASSUME Typed, Transcript, pc = "batch", UNCHANGED <<messages, context, base, pc>>,
           NEW c \in DOMAIN batch.phase, NEW p, Moves(c, p), batch.phase[c] # "done", p # "done",
           Sequential => p # "rejected",
           Sequential => \A k \in Nat : Busy \subseteq {k + 1} /\ In({"done"}) = 1 .. k => Busy' \subseteq {k + 1}
    PROVE  Transcript'
<1>1. batch'.kind = batch.kind /\ Sequential' = Sequential /\ batch'.turn = batch.turn
  BY DEF Moves, Sequential
<1>2. \A e : Calls(e)' <=> Calls(e)
  BY DEF Calls, Moves
<1>3. In({"done"})' = In({"done"}) /\ (Sequential => In({"rejected"})' \subseteq In({"rejected"}))
  BY DEF In, Moves
<1>4. Asked => Asked'
  BY <1>2 DEF Asked
<1>5. Emitted => Emitted'
  BY <1>1, <1>3 DEF Emitted
<1>6. ResumedBatch => ResumedBatch'
  BY <1>2 DEF ResumedBatch
<1> QED BY <1>1, <1>4, <1>5, <1>6 DEF Transcript, Agreeing

\* A transcript that ends with the message of the batch, and all its results.
LEMMA CallsAnswered ==
    ASSUME Typed, NEW q \in Seq(Entries), Len(q) > 0, NEW b \in Nat, Calls(q[Len(q)]), AllAnswered(q, b, Len(q) - 1)
    PROVE  LET all == q \o Results(batch.turn, DOMAIN batch.phase) IN AllAnswered(all, b, Len(all))
<1> DEFINE e == q[Len(q)]
<1>1. e.role = "assistant" /\ e.turn = batch.turn /\ DOMAIN batch.phase = 1 .. e.calls
  BY DEF Calls
<1>2. Len(q) \in 1 .. Len(q)
  OBVIOUS
<1>3. e.calls \in 0 .. MaxCalls /\ e.turn \in Nat
  BY <1>1, <1>2, CallsAt
<1>4. AllAnswered(q \o Results(e.turn, 1 .. e.calls), b, Len(q \o Results(e.turn, 1 .. e.calls)))
  BY <1>1, <1>3, AnswersFull
<1> QED BY <1>1, <1>4

\* The last response is answered by all results of the batch.
LEMMA AskedAndAnswered ==
    ASSUME Typed, Asked
    PROVE  LET all == context \o Results(batch.turn, DOMAIN batch.phase) IN AllAnswered(all, base, Len(all))
<1>1. context \in Seq(Entries) /\ base \in Nat /\ Len(context) > 0
  BY DEF Typed, EntriesTyped, ControlTyped, Asked
<1> QED BY <1>1, CallsAnswered DEF Asked

\* The agent's transcript and the loop's context, kept by different code, come together
\* at every turn, and no request leaves a call unanswered.
LEMMA TranscriptStep ==
    ASSUME Typed, Pipelined, Transcript, [Next]_vars
    PROVE  Transcript'
<1> USE DEF Typed
<1>0. CASE UNCHANGED vars
  BY <1>0, SameTranscript DEF vars
<1>1. ASSUME NEW m \in Messages, Prompt(m) PROVE Transcript'
  <2>1. messages' = messages /\ context' = messages /\ base' = Len(messages) /\ pc' \in {"prompting", "polling"}
    BY <1>1 DEF Prompt, Begin
  <2> QED BY <2>1, RunBegins DEF EntriesTyped
<1>2. ASSUME NEW m \in Messages, Steer(m) PROVE Transcript'
  <2>1. UNCHANGED <<messages, context, base, batch, pc>> /\ (cancelled => cancelled')
    BY <1>2 DEF Steer, scope
  <2> QED BY <2>1, SameTranscript
<1>3. ASSUME NEW m \in Messages, FollowUp(m) PROVE Transcript'
  <2>1. UNCHANGED <<messages, context, base, batch, pc>> /\ (cancelled => cancelled')
    BY <1>3 DEF FollowUp, scope
  <2> QED BY <2>1, SameTranscript
<1>4. CASE ClearAllQueues
  <2>1. UNCHANGED <<messages, context, base, batch, pc>> /\ (cancelled => cancelled')
    BY <1>4 DEF ClearAllQueues, scope
  <2> QED BY <2>1, SameTranscript
<1>5. CASE Reset
  <2>1. pc' \notin Agreeing \cup {"batch"}
    BY <1>5 DEF Reset, Agreeing
  <2> QED BY <2>1, RunOver
<1>6. CASE Abort
  <2>1. UNCHANGED <<messages, context, base, batch, pc>> /\ (cancelled => cancelled')
    BY <1>6 DEF Abort, scope
  <2> QED BY <2>1, SameTranscript
<1>7. CASE ContinueQueued
  <2>1. messages' = messages /\ context' = messages /\ base' = Len(messages) /\ pc' \in {"prompting", "polling"}
    BY <1>7 DEF ContinueQueued, Begin
  <2> QED BY <2>1, RunBegins DEF EntriesTyped
<1>8. CASE Continue
  <2>1. messages' = messages /\ context' = messages /\ base' = Len(messages) /\ pc' \in {"prompting", "polling"}
    BY <1>8 DEF Continue, Begin
  <2> QED BY <2>1, RunBegins DEF EntriesTyped
<1>9. CASE ResumeToolCalls
  <2>1. PICK i \in 1 .. Len(messages), mode \in ToolModes : ResumesAt(i, mode)
    BY <1>9, ResumesSomewhere
  <2> DEFINE e == messages[i]
             completed == {c \in 1 .. e.calls : <<e.turn, c>> \in persisted}
             answers == Results(e.turn, completed)
             kept == SubSeq(messages, 1, i)
  <2>2. e.turn \in Nat /\ e.calls \in 0 .. MaxCalls /\ e.role = "assistant"
    BY <2>1, AssistantAt DEF ResumesAt, BatchAt, EntriesTyped
  <2>3. /\ pc' = "batch" /\ messages' = kept \o answers /\ context' = messages' /\ base' = i - 1
        /\ batch'.kind = "resume" /\ batch'.turn = e.turn /\ DOMAIN batch'.phase = 1 .. e.calls
    BY <2>1 DEF ResumesAt, Begin
  <2>4. kept \in Seq(Entries) /\ Len(kept) = i /\ kept[i] = e
    BY DEF EntriesTyped
  <2>5. answers \in Seq(Entries) /\ \A k \in 1 .. Len(answers) : answers[k].role = "toolResult"
    <3>1. completed \in SUBSET (1 .. MaxCalls) /\ MaxCalls \in Nat
      BY <2>2, AgentAssumption
    <3>2. answers \in Seq(Entries)
      BY <2>2, <3>1, ResultsTyped
    <3>3. \A k \in 1 .. Len(answers) : answers[k].role = "toolResult"
      BY <3>1, ResultsAre
    <3> QED BY <3>2, <3>3
  <2> HIDE DEF kept, answers
  <2> HIDE DEF e
  <2>6. /\ Len(kept \o answers) = i + Len(answers) /\ Len(answers) \in Nat /\ (kept \o answers)[i] = e
        /\ \A j \in i + 1 .. i + Len(answers) : (kept \o answers)[j] = answers[j - i]
    <3>1. /\ Len(kept \o answers) = Len(kept) + Len(answers) /\ Len(answers) \in Nat
          /\ \A j \in 1 .. Len(kept) : (kept \o answers)[j] = kept[j]
          /\ \A j \in Len(kept) + 1 .. Len(kept) + Len(answers) : (kept \o answers)[j] = answers[j - Len(kept)]
      BY <2>4, <2>5, JoinAt
    <3>2. i \in 1 .. Len(kept)
      BY <2>4
    <3> QED BY <2>4, <3>1, <3>2
  <2>7. messages'[i] = e /\ \A j \in i + 1 .. Len(messages') : messages'[j].role = "toolResult"
    <3> SUFFICES ASSUME NEW j \in i + 1 .. Len(messages') PROVE messages'[j].role = "toolResult"
      BY <2>3, <2>6
    <3>1. j - i \in 1 .. Len(answers) /\ messages'[j] = answers[j - i]
      BY <2>3, <2>6
    <3> QED BY <2>5, <3>1
  <2>8. ResumedBatch'
    <3>1. base' + 1 = i /\ base' + 2 = i + 1
      BY <2>3
    <3>2. Calls(messages[base + 1])'
      BY <2>2, <2>3, <2>7, <3>1 DEF Calls
    <3> QED BY <2>3, <2>7, <3>1, <3>2 DEF ResumedBatch
  <2> QED BY <2>3, <2>8 DEF Transcript, Agreeing
<1>10. CASE DropFailure
  <2>1. pc' \notin Agreeing \cup {"batch"}
    BY <1>10 DEF DropFailure, Agreeing
  <2> QED BY <2>1, RunOver
<1>11. CASE EmitPrompts
  <2>1. /\ Users(pending) \in Seq(Entries) /\ Len(Users(pending)) = Len(pending)
        /\ \A i \in 1 .. Len(pending) : Users(pending)[i] = User(pending[i])
    BY UsersTyped DEF MailTyped
  <2>2. ASSUME NEW i \in 1 .. Len(Users(pending)) PROVE ~Asks(Users(pending)[i])
    <3>1. Users(pending)[i] = User(pending[i])
      BY <2>1
    <3> QED BY <3>1 DEF User, Asks
  <2>3. /\ messages' = messages \o Users(pending) /\ context' = context \o Users(pending)
        /\ UNCHANGED <<base, cancelled>> /\ pc \in Agreeing \ {"truncated"} /\ pc' \in Agreeing \ {"truncated", "streaming"}
    BY <1>11 DEF EmitPrompts, Push, Agreeing, scope
  <2> QED BY <2>1, <2>2, <2>3, LoopEmits
<1>12. CASE InitialPoll
  <2>1. /\ UNCHANGED <<messages, context, base, cancelled>> /\ pc \in Agreeing \ {"truncated"}
        /\ pc' \in Agreeing \ {"truncated", "streaming"}
    BY <1>12 DEF InitialPoll, Agreeing, scope
  <2> QED BY <2>1, LoopGoesOn
<1>13. CASE PrepareNextTurn
  <2>1. /\ UNCHANGED <<messages, context, base, cancelled>> /\ pc \in Agreeing \ {"truncated"}
        /\ pc' \in Agreeing \ {"truncated", "streaming"}
    BY <1>13 DEF PrepareNextTurn, Agreeing, scope
  <2> QED BY <2>1, LoopGoesOn
<1>14. CASE Inject
  <2>1. /\ Users(pending) \in Seq(Entries) /\ Len(Users(pending)) = Len(pending)
        /\ \A i \in 1 .. Len(pending) : Users(pending)[i] = User(pending[i])
    BY UsersTyped DEF MailTyped
  <2>2. ASSUME NEW i \in 1 .. Len(Users(pending)) PROVE ~Asks(Users(pending)[i])
    <3>1. Users(pending)[i] = User(pending[i])
      BY <2>1
    <3> QED BY <3>1 DEF User, Asks
  <2>3. /\ messages' = messages \o Users(pending) /\ context' = context \o Users(pending)
        /\ UNCHANGED <<base, cancelled>> /\ pc \in Agreeing \ {"truncated"} /\ pc' \in Agreeing \ {"truncated", "streaming"}
    BY <1>14 DEF Inject, Push, Agreeing, scope
  <2> QED BY <2>1, <2>2, <2>3, LoopEmits
<1>15. CASE Request
  <2>1. CASE pc' = "ending"
    BY <2>1, RunOver DEF Agreeing
  <2>2. CASE pc' = "streaming" /\ ~cancelled /\ UNCHANGED <<messages, context>>
    <3>1. UNCHANGED <<base, cancelled>> /\ pc \in Agreeing \ {"truncated"}
      BY <1>15 DEF Request, Agreeing, scope
    <3> QED BY <2>2, <3>1, LoopGoesOn DEF Agreeing
  <2> QED BY <1>15, <2>1, <2>2 DEF Request, CanAdmit
<1>16. CASE Recovered
  <2>1. pc' \notin Agreeing \cup {"batch"}
    BY <1>16 DEF Recovered, Agreeing
  <2> QED BY <2>1, RunOver
<1>17. CASE FailTruncated
  <2>1. /\ pc = "truncated" /\ pc' = "turnEnd" /\ UNCHANGED <<base, cancelled>>
        /\ messages' = messages \o Results(batch.turn, DOMAIN batch.phase)
        /\ context' = context \o Results(batch.turn, DOMAIN batch.phase)
    BY <1>17 DEF FailTruncated, Push, scope
  <2>2. context = messages /\ Asked
    BY <2>1 DEF Transcript, Agreeing
  <2>3. AllAnswered(messages', base, Len(messages'))
    BY <2>1, <2>2, AskedAndAnswered
  <2> QED BY <2>1, <2>2, <2>3 DEF Transcript, Agreeing
<1>18. CASE TurnEnd
  <2>1. CASE pc' = "ending"
    BY <2>1, RunOver DEF Agreeing
  <2>2. CASE pc' \in {"preparing", "followUps"} /\ UNCHANGED <<messages, context>>
    <3>1. UNCHANGED <<base, cancelled>> /\ pc \in Agreeing \ {"truncated"}
      BY <1>18 DEF TurnEnd, Agreeing, scope
    <3> QED BY <2>2, <3>1, LoopGoesOn DEF Agreeing
  <2> QED BY <1>18, <2>1, <2>2 DEF TurnEnd
<1>19. CASE PollFollowUps
  <2>1. CASE pc' = "ending"
    BY <2>1, RunOver DEF Agreeing
  <2>2. CASE pc' = "preparing"
    <3>1. UNCHANGED <<messages, context, base, cancelled>> /\ pc \in Agreeing \ {"truncated"}
      BY <1>19 DEF PollFollowUps, Agreeing, scope
    <3> QED BY <2>2, <3>1, LoopGoesOn DEF Agreeing
  <2> QED BY <1>19, <2>1, <2>2 DEF PollFollowUps
<1>20. CASE AgentEnd
  <2>1. pc' \notin Agreeing \cup {"batch"}
    BY <1>20 DEF AgentEnd, Agreeing
  <2> QED BY <2>1, RunOver
<1>21. CASE FinishRun
  <2>1. pc' \notin Agreeing \cup {"batch"}
    BY <1>21 DEF FinishRun, Idle, Agreeing
  <2> QED BY <2>1, RunOver
<1>22. CASE HandleRunFailure
  <2>1. pc' \notin Agreeing \cup {"batch"}
    BY <1>22 DEF HandleRunFailure, Agreeing
  <2> QED BY <2>1, RunOver
<1>23. CASE BatchEnds
  <2> DEFINE done == In({"done"})
             completed == In({"completed"})
  <2>1. /\ pc = "batch" /\ batch.launched /\ Busy = {} /\ UNCHANGED <<base, cancelled>>
    BY <1>23 DEF BatchEnds, scope
  <2>2. ASSUME In({"rejected"}) = {}, ~cancelled PROVE done \cup completed = DOMAIN batch.phase
    BY <2>1, <2>2 DEF Pipelined, Todo, Busy, In, BatchTyped, Batches, Phases
  <2>3. CASE pc' \notin {"turnEnd", "polling"}
    <3>1. pc' \notin Agreeing \cup {"batch"}
      BY <1>23, <2>3 DEF BatchEnds, Agreeing
    <3> QED BY <3>1, RunOver
  <2>4. CASE pc' = "turnEnd"
    <3>1. /\ In({"rejected"}) = {} /\ batch.kind = "turn" /\ context' = context \o Results(batch.turn, done)
          /\ messages' = IF Sequential THEN messages ELSE messages \o Results(batch.turn, done)
      BY <1>23, <2>4 DEF BatchEnds
    <3>2. Asked /\ Emitted
      BY <2>1, <3>1 DEF Transcript
    <3>3. context' = messages'
      BY <3>1, <3>2 DEF Emitted
    <3>4. ASSUME ~cancelled PROVE AllAnswered(messages', base, Len(messages'))
      <4>1. done = DOMAIN batch.phase
        BY <2>2, <3>1, <3>4 DEF Pipelined
      <4>2. AllAnswered(context', base, Len(context'))
        BY <3>1, <3>2, <4>1, AskedAndAnswered
      <4> QED BY <3>3, <4>2
    <3> QED BY <2>1, <2>4, <3>3, <3>4 DEF Transcript, Agreeing
  <2>5. CASE pc' = "polling"
    <3> DEFINE old == SubSeq(messages, 1, base + 1)
               new == SubSeq(context, 1, base + 1)
    <3>1. /\ In({"rejected"}) = {} /\ batch.kind = "resume" /\ ~cancelled
          /\ messages' = old \o Results(batch.turn, done \cup completed)
          /\ context' = new \o Results(batch.turn, done \cup completed)
      BY <1>23, <2>5 DEF BatchEnds, Ordered
    <3>2. /\ ResumedBatch /\ base \in Nat /\ base < Len(messages) /\ base < Len(context)
          /\ messages \in Seq(Entries) /\ context \in Seq(Entries)
      BY <2>1, <3>1 DEF Transcript, EntriesTyped, ControlTyped
    <3>3. /\ old \in Seq(Entries) /\ Len(old) = base + 1 /\ new \in Seq(Entries) /\ Len(new) = base + 1
          /\ (\A i \in 1 .. base + 1 : old[i] = messages[i]) /\ (\A i \in 1 .. base + 1 : new[i] = context[i])
      BY <3>2
    <3> HIDE DEF old, new
    <3>4. old = new
      <4>1. \A i \in 1 .. Len(old) : old[i] = new[i]
        BY <3>2, <3>3 DEF ResumedBatch
      <4> QED BY <3>3, <4>1, SeqEqual
    <3>5. Calls(old[Len(old)])
      <4>1. old[base + 1] = messages[base + 1]
        BY <3>2, <3>3
      <4> QED BY <3>2, <3>3, <4>1 DEF ResumedBatch
    <3>6. AllAnswered(old, base, Len(old) - 1)
      BY <3>2, <3>3 DEF AllAnswered
    <3>7. done \cup completed = DOMAIN batch.phase
      BY <2>2, <3>1
    <3>8. AllAnswered(messages', base, Len(messages'))
      <4>1. messages' = old \o Results(batch.turn, DOMAIN batch.phase)
        BY <3>1, <3>7
      <4>2. Len(old) > 0
        BY <3>2, <3>3
      <4> QED BY <3>2, <3>3, <3>5, <3>6, <4>1, <4>2, CallsAnswered
    <3> QED BY <2>1, <2>5, <3>1, <3>4, <3>8 DEF Transcript, Agreeing
  <2> QED BY <2>3, <2>4, <2>5
<1>24. ASSUME NEW c \in 1 .. MaxCalls, Prepare(c) PROVE Transcript'
  <2>1. /\ c \in DOMAIN batch.phase /\ batch.phase[c] = "todo" /\ pc = "batch"
        /\ UNCHANGED <<messages, context, base, pc>>
    BY <1>24 DEF Prepare, In, Todo, Pipeline, scope
  <2>2. PICK p \in {"immediate", "prepared"} : Moves(c, p)
    BY <1>24, Prepared
  <2>3. CASE batch.kind = "resume"
    <3>1. batch'.kind = "resume" /\ \A e : Calls(e)' <=> Calls(e)
      BY <2>2, <2>3 DEF Moves, Calls
    <3>2. ResumedBatch'
      BY <2>1, <2>3, <3>1 DEF Transcript, ResumedBatch
    <3> QED BY <2>1, <3>1, <3>2 DEF Transcript, Agreeing
  <2>4. CASE batch.kind # "resume"
    <3>1. ASSUME Sequential, NEW k \in Nat, In({"done"}) = 1 .. k PROVE Busy' \subseteq {k + 1}
      <4>1. Busy = {} /\ \A d \in Todo : c <= d
        BY <1>24, <3>1 DEF Prepare
      <4>2. PICK n \in 0 .. MaxCalls : DOMAIN batch.phase = 1 .. n
        BY BatchShape DEF BatchTyped
      <4>3. In({"completed"}) = {} /\ In({"rejected"}) = {}
        BY <2>1, <2>4, <3>1 DEF Pipelined, Transcript, Emitted
      <4>4. \A d \in DOMAIN batch.phase : d \in Todo \/ d \in 1 .. k
        BY <3>1, <4>1, <4>3 DEF In, Todo, Busy, BatchTyped, Batches, Phases
      <4>5. c \in Nat /\ c \in Todo /\ c \notin 1 .. k /\ c \in 1 .. n
        BY <2>1, <3>1, <4>2, AgentAssumption DEF Todo, In
      <4>6. c = k + 1
        <5>1. k + 1 \in 1 .. n /\ k + 1 \notin 1 .. k
          BY <4>5, AgentAssumption
        <5>2. k + 1 \in Todo
          BY <4>2, <4>4, <5>1
        <5> QED BY <4>1, <4>5, <5>2
      <4>7. Busy' \subseteq {c}
        BY <2>2, <4>1 DEF Moves, Busy, In
      <4> QED BY <4>6, <4>7
    <3> QED BY <2>1, <2>2, <3>1, BatchGoesOn
  <2> QED BY <2>3, <2>4
<1>25. ASSUME NEW c \in 1 .. MaxCalls, Admit(c) PROVE Transcript'
  <2>1. /\ c \in DOMAIN batch.phase /\ c \in Busy /\ batch.phase[c] # "done"
        /\ UNCHANGED <<messages, context, base, pc>> /\ \E p \in {"waiting", "executed"} : batch' = To(c, p)
    BY <1>25 DEF Admit, In, Busy, Pipeline, scope
  <2>2. PICK p \in {"waiting", "executed"} : batch' = To(c, p)
    BY <2>1
  <2>3. Moves(c, p)
    BY <2>1, <2>2, MovesOn DEF Moves, BatchTyped, Phases
  <2>4. Busy' = Busy
    BY <2>1, <2>2, <2>3 DEF Moves, Busy, In
  <2>5. pc = "batch"
    BY <1>25 DEF Admit, Pipelined, NoOrphanEffects, Busy, In
  <2> QED BY <2>1, <2>3, <2>4, <2>5, BatchGoesOn
<1>26. ASSUME NEW c \in 1 .. MaxCalls, Acquire(c) PROVE Transcript'
  <2>1. /\ c \in DOMAIN batch.phase /\ c \in Busy /\ batch.phase[c] # "done"
        /\ UNCHANGED <<messages, context, base, pc>> /\ \E p \in {"leased", "executed"} : batch' = To(c, p)
    BY <1>26 DEF Acquire, In, Busy, Pipeline, scope
  <2>2. PICK p \in {"leased", "executed"} : batch' = To(c, p)
    BY <2>1
  <2>3. Moves(c, p)
    BY <2>1, <2>2, MovesOn DEF Moves, BatchTyped, Phases
  <2>4. Busy' = Busy
    BY <2>1, <2>2, <2>3 DEF Moves, Busy, In
  <2>5. pc = "batch"
    BY <1>26 DEF Acquire, Pipelined, NoOrphanEffects, Busy, In
  <2> QED BY <2>1, <2>3, <2>4, <2>5, BatchGoesOn
<1>27. ASSUME NEW c \in 1 .. MaxCalls, Dispatch(c) PROVE Transcript'
  <2>1. /\ c \in DOMAIN batch.phase /\ c \in Busy /\ batch.phase[c] # "done"
        /\ UNCHANGED <<messages, context, base, pc>> /\ \E p \in {"executing", "executed"} : batch' = To(c, p)
    BY <1>27 DEF Dispatch, In, Busy, Pipeline, scope
  <2>2. PICK p \in {"executing", "executed"} : batch' = To(c, p)
    BY <2>1
  <2>3. Moves(c, p)
    BY <2>1, <2>2, MovesOn DEF Moves, BatchTyped, Phases
  <2>4. Busy' = Busy
    BY <2>1, <2>2, <2>3 DEF Moves, Busy, In
  <2>5. pc = "batch"
    BY <1>27 DEF Dispatch, Pipelined, NoOrphanEffects, Busy, In
  <2> QED BY <2>1, <2>3, <2>4, <2>5, BatchGoesOn
<1>28. ASSUME NEW c \in 1 .. MaxCalls, Settle(c) PROVE Transcript'
  <2>1. /\ c \in DOMAIN batch.phase /\ c \in Busy /\ c \notin In({"prepared"}) /\ UNCHANGED <<context, base, pc>>
        /\ messages' = IF Sequential THEN Append(messages, Result(batch.turn, c)) ELSE messages
    BY <1>28 DEF Settle, In, Busy, scope
  <2>2. Moves(c, "done") /\ pc = "batch"
    BY <1>28, <2>1, Settled DEF Pipelined, NoOrphanEffects
  <2>3. /\ batch'.kind = batch.kind /\ (\A e : Calls(e)' <=> Calls(e)) /\ Sequential' = Sequential
        /\ batch'.turn = batch.turn
    BY <2>2 DEF Moves, Calls, Sequential
  <2>4. CASE batch.kind = "resume"
    <3>1. ResumedBatch /\ base \in Nat /\ base < Len(messages) /\ messages \in Seq(Entries)
      BY <2>2, <2>4 DEF Transcript, EntriesTyped, ControlTyped
    <3> DEFINE answer == Result(batch.turn, c)
    <3>2. answer.role = "toolResult"
      BY DEF Result
    <3> HIDE DEF answer
    <3>3. messages' = messages \/ messages' = Append(messages, answer)
      BY <2>1 DEF answer
    <3>4. /\ \A i \in 1 .. base + 1 : messages'[i] = messages[i]
          /\ \A i \in base + 2 .. Len(messages') : messages'[i].role = "toolResult"
      <4>1. CASE messages' = messages
        BY <3>1, <4>1 DEF ResumedBatch
      <4>2. CASE messages' = Append(messages, answer)
        <5>1. /\ Len(messages') = Len(messages) + 1 /\ Len(messages) \in Nat /\ messages'[Len(messages) + 1] = answer
              /\ \A i \in 1 .. Len(messages) : messages'[i] = messages[i]
          BY <3>1, <4>2
        <5>2. ASSUME NEW i \in base + 2 .. Len(messages') PROVE messages'[i].role = "toolResult"
          <6>1. i \in base + 2 .. Len(messages) \/ i = Len(messages) + 1
            BY <3>1, <5>1
          <6> QED BY <3>1, <3>2, <5>1, <6>1 DEF ResumedBatch
        <5> QED BY <3>1, <5>1, <5>2
      <4> QED BY <3>3, <4>1, <4>2
    <3>5. messages'[base + 1] = messages[base + 1]
      BY <3>1, <3>4
    <3>6. ResumedBatch'
      BY <2>1, <2>3, <3>1, <3>4, <3>5 DEF ResumedBatch
    <3> QED BY <2>1, <2>2, <2>3, <2>4, <3>6 DEF Transcript, Agreeing
  <2>5. CASE batch.kind # "resume" /\ ~Sequential
    <3>1. Asked' /\ Emitted'
      BY <2>1, <2>2, <2>3, <2>5 DEF Transcript, Asked, Emitted
    <3> QED BY <2>1, <2>2, <2>3, <2>5, <3>1 DEF Transcript, Agreeing
  <2>6. CASE batch.kind # "resume" /\ Sequential
    <3>1. Asked'
      BY <2>1, <2>2, <2>3, <2>6 DEF Transcript, Asked
    <3>2. PICK k \in 0 .. MaxCalls :
              /\ In({"done"}) = 1 .. k /\ Busy \subseteq {k + 1} /\ In({"rejected"}) = {}
              /\ messages = context \o Results(batch.turn, 1 .. k)
      BY <2>2, <2>6 DEF Transcript, Emitted
    <3>3. c = k + 1 /\ k \in Nat /\ k + 1 <= MaxCalls /\ k + 1 \in 0 .. MaxCalls
      BY <2>1, <3>2, AgentAssumption
    <3>4. In({"done"})' = 1 .. k + 1 /\ Busy' = {} /\ In({"rejected"})' = {}
      <4>1. In({"done"})' = In({"done"}) \cup {c} /\ Busy' = Busy \ {c} /\ In({"rejected"})' \subseteq In({"rejected"})
        BY <2>1, <2>2 DEF Moves, In, Busy
      <4>2. 1 .. k + 1 = (1 .. k) \cup {k + 1}
        BY <3>3
      <4>3. In({"done"})' = 1 .. k + 1
        BY <3>2, <3>3, <4>1, <4>2
      <4>4. Busy' = {} /\ In({"rejected"})' = {}
        BY <3>2, <3>3, <4>1
      <4> QED BY <4>3, <4>4
    <3>5. messages' = context' \o Results(batch'.turn, 1 .. k + 1)
      <4>1. batch.turn \in Nat /\ context \in Seq(Entries)
        BY DEF BatchTyped, Batches, EntriesTyped
      <4>2. messages' = Append(context \o Results(batch.turn, 1 .. k), Result(batch.turn, k + 1))
        BY <2>1, <2>6, <3>2, <3>3
      <4> QED BY <2>1, <2>3, <3>3, <4>1, <4>2, ResultsGrow
    <3>6. Emitted'
      BY <2>3, <2>6, <3>3, <3>4, <3>5 DEF Emitted
    <3> QED BY <2>1, <2>2, <2>3, <2>6, <3>1, <3>6 DEF Transcript, Agreeing
  <2> QED BY <2>4, <2>5, <2>6
<1>29. CASE Respond
  <2>1. pc = "streaming" /\ UNCHANGED <<base, cancelled>>
    BY <1>29 DEF Respond, scope
  <2>2. CASE Push(<<Note("stop")>>) /\ pc' = "turnEnd"
    <3> DEFINE e == Note("stop")
    <3>1. e \in Entries /\ ~Asks(e)
      BY FirstTyped DEF Note, Assistant, Asks
    <3>2. messages' = messages \o <<e>> /\ context' = context \o <<e>>
      BY <2>2 DEF Push
    <3> HIDE DEF e
    <3>3. <<e>> \in Seq(Entries) /\ \A i \in 1 .. Len(<<e>>) : ~Asks(<<e>>[i])
      BY <3>1
    <3> QED BY <2>1, <2>2, <3>2, <3>3, LoopEmits DEF Agreeing
  <2>3. CASE \E n \in 1 .. MaxCalls, mode \in ToolModes, stop \in {"toolUse", "length"}, print \in Prints :
               /\ Push(<<Assistant(turn, n, stop, print, FALSE)>>)
               /\ batch' = NewBatch("turn", mode, n, stop, print)
               /\ pc' \in {"truncated", "batch"}
    BY <2>1, <2>3, BatchBegins
  <2> QED BY <1>29, <2>2, <2>3 DEF Respond
<1>30. CASE RespondError
  <2>1. pc' \notin Agreeing \cup {"batch"}
    BY <1>30 DEF RespondError, Agreeing
  <2> QED BY <2>1, RunOver
<1>31. CASE RespondCheckpoint
  <2>1. pc = "streaming" /\ UNCHANGED <<base, cancelled>>
    BY <1>31 DEF RespondCheckpoint, scope
  <2>2. CASE pc' = "recovered"
    BY <2>2, RunOver DEF Agreeing
  <2>3. CASE \E n \in 1 .. MaxCalls, mode \in ToolModes, print \in Prints :
               /\ Push(<<Assistant(turn, n, "toolUse", print, TRUE)>>)
               /\ batch' = NewBatch("checkpoint", mode, n, "toolUse", print)
               /\ pc' = "batch"
    BY <2>1, <2>3, BatchBegins
  <2> QED BY <1>31, <2>2, <2>3 DEF RespondCheckpoint
<1>32. CASE Throw
  <2>1. pc' \notin Agreeing \cup {"batch"}
    BY <1>32 DEF Throw, Agreeing
  <2> QED BY <2>1, RunOver
<1>33. CASE PrepareThrows
  <2>1. pc' \notin Agreeing \cup {"batch"}
    BY <1>33 DEF PrepareThrows, Agreeing
  <2> QED BY <2>1, RunOver
<1>34. CASE Crash
  <2>1. pc' \notin Agreeing \cup {"batch"}
    BY <1>34 DEF Crash, Idle, Agreeing
  <2> QED BY <2>1, RunOver
<1>35. ASSUME NEW c \in 1 .. MaxCalls, ExecuteEnds(c) PROVE Transcript'
  <2>1. /\ c \in DOMAIN batch.phase /\ c \in Busy /\ batch.phase[c] # "done"
        /\ UNCHANGED <<messages, context, base, pc>> /\ \E p \in {"executed"} : batch' = To(c, p)
    BY <1>35 DEF ExecuteEnds, In, Busy, Pipeline, scope
  <2>2. PICK p \in {"executed"} : batch' = To(c, p)
    BY <2>1
  <2>3. Moves(c, p)
    BY <2>1, <2>2, MovesOn DEF Moves, BatchTyped, Phases
  <2>4. Busy' = Busy
    BY <2>1, <2>2, <2>3 DEF Moves, Busy, In
  <2>5. pc = "batch"
    BY <1>35 DEF ExecuteEnds, Pipelined, NoOrphanEffects, Busy, In
  <2> QED BY <2>1, <2>3, <2>4, <2>5, BatchGoesOn
<1>36. ASSUME NEW c \in 1 .. MaxCalls, CallThrows(c) PROVE Transcript'
  <2>1. CASE pc' = "failing"
    BY <2>1, RunOver DEF Agreeing
  <2>2. CASE pc' = pc /\ ~Sequential
    <3>1. /\ c \in DOMAIN batch.phase /\ batch.phase[c] # "done" /\ batch' = To(c, "rejected")
          /\ UNCHANGED <<messages, context, base>> /\ pc = "batch"
      BY <1>36, ThrowsInBatch DEF CallThrows, In, Pipelined, scope
    <3>2. Moves(c, "rejected")
      BY <3>1, MovesOn DEF Moves, BatchTyped, Phases
    <3> QED BY <2>2, <3>1, <3>2, BatchGoesOn
  <2> QED BY <1>36, <2>1, <2>2 DEF CallThrows, BatchFails
<1>37. ASSUME NEW c \in 1 .. MaxCalls, BeforeDispatch(c) PROVE Transcript'
  <2>1. /\ c \in DOMAIN batch.phase /\ c \in Busy /\ batch.phase[c] # "done"
        /\ UNCHANGED <<messages, context, base, pc>> /\ \E p \in {"dispatched", "executed"} : batch' = To(c, p)
    BY <1>37 DEF BeforeDispatch, In, Busy, Pipeline, scope
  <2>2. PICK p \in {"dispatched", "executed"} : batch' = To(c, p)
    BY <2>1
  <2>3. Moves(c, p)
    BY <2>1, <2>2, MovesOn DEF Moves, BatchTyped, Phases
  <2>4. Busy' = Busy
    BY <2>1, <2>2, <2>3 DEF Moves, Busy, In
  <2>5. pc = "batch"
    BY <1>37 DEF BeforeDispatch, Pipelined, NoOrphanEffects, Busy, In
  <2> QED BY <2>1, <2>3, <2>4, <2>5, BatchGoesOn
<1>38. ASSUME NEW c \in 1 .. MaxCalls, RefuseDispatch(c) PROVE Transcript'
  <2>1. CASE pc' = "failing"
    BY <2>1, RunOver DEF Agreeing
  <2>2. CASE pc' = pc /\ ~Sequential
    <3>1. /\ c \in DOMAIN batch.phase /\ batch.phase[c] # "done" /\ batch' = To(c, "rejected")
          /\ UNCHANGED <<messages, context, base>> /\ pc = "batch"
      BY <1>38, RefusedInBatch DEF RefuseDispatch, In, Pipelined, scope
    <3>2. Moves(c, "rejected")
      BY <3>1, MovesOn DEF Moves, BatchTyped, Phases
    <3> QED BY <2>2, <3>1, <3>2, BatchGoesOn
  <2> QED BY <1>38, <2>1, <2>2 DEF RefuseDispatch, BatchFails
<1>39. CASE Reconcile
  <2>1. pc' \notin Agreeing \cup {"batch"}
    BY <1>39 DEF Reconcile, Agreeing
  <2> QED BY <2>1, RunOver
<1> QED BY <1>0, <1>1, <1>2, <1>3, <1>4, <1>5, <1>6, <1>7, <1>8, <1>9, <1>10, <1>11, <1>12,
           <1>13, <1>14, <1>15, <1>16, <1>17, <1>18, <1>19, <1>20, <1>21, <1>22, <1>23, <1>24,
           <1>25, <1>26, <1>27, <1>28, <1>29, <1>30, <1>31, <1>32, <1>33, <1>34, <1>35, <1>36,
           <1>37, <1>38, <1>39
         DEF Next, Caller, Step, Call, Response

\* Both copies are empty in the beginning.
LEMMA TranscriptInit == Init => Transcript
BY DEF Init, Transcript, Agreeing

-----------------------------------------------------------------------------
(* Skipping and Steered.                                                    *)

\* ms is q and something more.
Grows(q, ms) ==
    /\ q \in Seq(Entries) /\ ms \in Seq(Entries) /\ Len(q) <= Len(ms)
    /\ \A i \in 1 .. Len(q) : ms[i] = q[i]

\* A concatenation continues its first part.
LEMMA JoinGrows ==
    ASSUME NEW q \in Seq(Entries), NEW r \in Seq(Entries)
    PROVE  /\ Grows(q, q \o r) /\ Len(q \o r) = Len(q) + Len(r) /\ Len(q) \in Nat /\ Len(r) \in Nat
           /\ \A i \in Len(q) + 1 .. Len(q \o r) : i - Len(q) \in 1 .. Len(r) /\ (q \o r)[i] = r[i - Len(q)]
<1>1. /\ q \o r \in Seq(Entries) /\ Len(q \o r) = Len(q) + Len(r) /\ Len(q) \in Nat /\ Len(r) \in Nat
      /\ \A i \in 1 .. Len(q) : (q \o r)[i] = q[i]
      /\ \A i \in Len(q) + 1 .. Len(q) + Len(r) : (q \o r)[i] = r[i - Len(q)]
  BY JoinAt
<1> QED BY <1>1 DEF Grows

\* A message that was read stays read.
LEMMA ReadStays ==
    ASSUME NEW q, NEW ms, Grows(q, ms), NEW i \in 1 .. Len(q), Unread(ms, i)
    PROVE  Unread(q, i)
<1>1. ms[i] = q[i] /\ \A j \in i + 1 .. Len(q) : j \in i + 1 .. Len(ms) /\ ms[j] = q[j]
  BY DEF Grows
<1> QED BY <1>1 DEF Unread

\* Only a steering message makes a difference.
LEMMA FreshKept ==
    ASSUME NEW q, NEW ms, Grows(q, ms), NEW b \in Nat, \A i \in Len(q) + 1 .. Len(ms) : ~Steering(ms[i])
    PROVE  /\ NoneFresh(q, b) => NoneFresh(ms, b)
           /\ OneFresh(q, b) => OneFresh(ms, b)
<1>1. ASSUME NEW i \in b + 1 .. Len(ms), Unread(ms, i) PROVE i \in b + 1 .. Len(q) /\ Unread(q, i)
  <2>1. Len(q) \in Nat /\ Len(ms) \in Nat
    BY DEF Grows
  <2>2. i \in 1 .. Len(q)
    BY <1>1, <2>1 DEF Unread
  <2> QED BY <1>1, <2>1, <2>2, ReadStays
<1> QED BY <1>1 DEF NoneFresh, OneFresh

\* One more message is one more steering message at most.
LEMMA FreshOneMore ==
    ASSUME NEW q, NEW ms, Grows(q, ms), NEW b \in Nat, NoneFresh(q, b), Len(ms) <= Len(q) + 1
    PROVE  OneFresh(ms, b)
<1>1. Len(q) \in Nat /\ Len(ms) \in Nat
  BY DEF Grows
<1>2. ASSUME NEW i \in b + 1 .. Len(ms), Unread(ms, i) PROVE i = Len(q) + 1
  <2>1. ~(i \in 1 .. Len(q))
    BY <1>1, <1>2, ReadStays DEF NoneFresh
  <2> QED BY <1>1, <2>1
<1> QED BY <1>2 DEF OneFresh

\* A response reads everything.
LEMMA FreshRead ==
    ASSUME NEW q \in Seq(Entries), NEW e \in Entries, e.role = "assistant", NEW b \in Nat
    PROVE  NoneFresh(q \o <<e>>, b) /\ OneFresh(q \o <<e>>, b)
<1>1. /\ Len(q \o <<e>>) = Len(q) + 1 /\ Len(q) \in Nat /\ (q \o <<e>>)[Len(q) + 1] = e
  OBVIOUS
<1> DEFINE ms == q \o <<e>>
<1> HIDE DEF ms
<1>2. Len(ms) = Len(q) + 1 /\ ms[Len(ms)] = e
  BY <1>1 DEF ms
<1>3. NoneFresh(ms, b)
  <2> SUFFICES ASSUME NEW i \in b + 1 .. Len(ms) PROVE ~Unread(ms, i)
    BY DEF NoneFresh
  <2>1. CASE i = Len(ms)
    BY <1>2, <2>1 DEF Unread, Steering
  <2>2. CASE i # Len(ms)
    <3>1. Len(ms) \in i + 1 .. Len(ms)
      BY <1>1, <1>2, <2>2
    <3> QED BY <1>2, <3>1 DEF Unread
  <2> QED BY <2>1, <2>2
<1> QED BY <1>3 DEF NoneFresh, OneFresh, ms

\* A note is an assistant message.
LEMMA RoleOfNote == \A stop : Note(stop).role = "assistant"
BY DEF Note, Assistant

\* Messages that are not steering go to the transcript, or a single one.
LEMMA FreshUsers ==
    ASSUME NEW q \in Seq(Entries), NEW p \in Seq(Messages), NEW k \in 0 .. Len(p), NEW b \in Nat
    PROVE  LET ms == q \o SubSeq(Users(p), 1, k) IN
           /\ NoneFresh(q, b) /\ NoSteer(p) => NoneFresh(ms, b)
           /\ OneFresh(q, b) /\ NoSteer(p) => OneFresh(ms, b)
           /\ NoneFresh(q, b) /\ FewSteers(p) => OneFresh(ms, b)
<1> DEFINE r == SubSeq(Users(p), 1, k)
           ms == q \o r
<1>1. r \in Seq(Entries) /\ Len(r) = k /\ \A i \in 1 .. k : r[i] = User(p[i])
  <2>1. /\ Users(p) \in Seq(Entries) /\ Len(Users(p)) = Len(p)
        /\ \A i \in 1 .. Len(p) : Users(p)[i] = User(p[i])
    BY UsersTyped
  <2> QED BY <2>1
<1> HIDE DEF r
<1>2. /\ Grows(q, ms) /\ Len(ms) = Len(q) + k /\ Len(q) \in Nat
      /\ \A i \in Len(q) + 1 .. Len(ms) : i - Len(q) \in 1 .. k /\ ms[i] = r[i - Len(q)]
  BY <1>1, JoinGrows
<1> HIDE DEF ms
<1>3. ASSUME NoSteer(p) PROVE \A i \in Len(q) + 1 .. Len(ms) : ~Steering(ms[i])
  <2> SUFFICES ASSUME NEW i \in Len(q) + 1 .. Len(ms) PROVE ~Steering(ms[i])
    OBVIOUS
  <2>1. i - Len(q) \in 1 .. k /\ ms[i] = r[i - Len(q)]
    BY <1>2
  <2>2. ms[i] = User(p[i - Len(q)]) /\ i - Len(q) \in 1 .. Len(p)
    BY <1>1, <2>1
  <2> QED BY <1>3, <2>2 DEF NoSteer, Steering, User
<1>4. NoSteer(p) => (NoneFresh(q, b) => NoneFresh(ms, b)) /\ (OneFresh(q, b) => OneFresh(ms, b))
  BY <1>2, <1>3, FreshKept
<1>5. ASSUME NoneFresh(q, b), Len(p) <= 1 PROVE OneFresh(ms, b)
  <2>1. Len(ms) <= Len(q) + 1
    BY <1>2, <1>5
  <2> QED BY <1>2, <1>5, <2>1, FreshOneMore
<1>6. NoneFresh(q, b) => OneFresh(q, b)
  BY DEF NoneFresh, OneFresh
<1> QED BY <1>4, <1>5, <1>6 DEF FewSteers, ms, r

\* Results are not steering.
LEMMA FreshResults ==
    ASSUME NEW q \in Seq(Entries), NEW r \in Seq(Entries), \A i \in 1 .. Len(r) : r[i].role = "toolResult",
           NEW b \in Nat
    PROVE  (NoneFresh(q, b) => NoneFresh(q \o r, b)) /\ (OneFresh(q, b) => OneFresh(q \o r, b))
<1>1. Grows(q, q \o r)
  BY JoinGrows
<1>2. ASSUME NEW i \in Len(q) + 1 .. Len(q \o r) PROVE ~Steering((q \o r)[i])
  <2>1. i - Len(q) \in 1 .. Len(r) /\ (q \o r)[i] = r[i - Len(q)]
    BY JoinGrows
  <2> QED BY <2>1 DEF Steering
<1> QED BY <1>1, <1>2, FreshKept

\* One at a time: a poll yields one message.
LEMMA DrainsOne ==
    ASSUME MailTyped, SteeringMode = "one-at-a-time"
    PROVE  FewSteers(Drained(steering, SteeringMode))
<1>1. CASE steering = <<>>
  BY <1>1 DEF Drained, FewSteers, NoSteer
<1>2. CASE steering # <<>>
  BY <1>2 DEF Drained, FewSteers, NoSteer
<1> QED BY <1>1, <1>2

\* Follow-ups are not steering.
LEMMA FollowUpsOnly ==
    ASSUME MailTyped
    PROVE  NoSteer(Drained(followUps, FollowUpMode))
<1>1. Drained(followUps, FollowUpMode) \in Seq(FollowUps)
  BY DrainSplits DEF MailTyped
<1> QED BY <1>1, AgentAssumption DEF NoSteer

\* Steps that leave transcript and pending messages alone.
LEMMA SameSteered ==
    ASSUME Steered, SteeringMode = "one-at-a-time", pc # "idle", UNCHANGED <<messages, base, pending, skip, turned>>,
           pc' = pc \/ pc' \in {"ending", "ended", "failing", "failed", "idle"}
    PROVE  Steered'
BY DEF Steered

\* A response, or a note, is the last message.
LEMMA ReadSteered ==
    ASSUME Typed, NEW e \in Entries, e.role = "assistant", messages' = messages \o <<e>>, base' = base,
           pc' \notin {"prompting", "polling", "injecting"}, FewSteers(pending')
    PROVE  Steered'
<1>1. messages \in Seq(Entries) /\ base \in Nat
  BY DEF Typed, EntriesTyped, ControlTyped
<1>2. NoneFresh(messages', base') /\ OneFresh(messages', base')
  BY <1>1, FreshRead
<1> QED BY <1>2 DEF Steered

\* Nothing of the run is unread.
LEMMA NoneSteered ==
    ASSUME NoneFresh(messages', base'), FewSteers(pending'), pc' = "prompting" => ~turned' /\ (skip' \/ NoSteer(pending')),
           pc' = "polling" => ~skip'
    PROVE  Steered'
<1>1. OneFresh(messages', base')
  BY DEF NoneFresh, OneFresh
<1> QED BY <1>1 DEF Steered

\* The first message of a run, and the others.
LEMMA FirstOrLater == \A b, n \in Nat : \A j \in b + 1 .. n : j = b + 1 \/ j \in b + 2 .. n
OBVIOUS

\* Emitting all pending messages.
LEMMA UsersWhole ==
    ASSUME NEW p \in Seq(Messages)
    PROVE  Users(p) = SubSeq(Users(p), 1, Len(p)) /\ Len(p) \in 0 .. Len(p)
<1>1. Users(p) \in Seq(Entries) /\ Len(Users(p)) = Len(p)
  BY UsersTyped
<1> QED BY <1>1

\* An emission that breaks off.
LEMMA PrefixOfJoin ==
    ASSUME NEW q \in Seq(Entries), NEW r \in Seq(Entries), NEW k \in 0 .. Len(r)
    PROVE  SubSeq(q \o r, 1, Len(q) + k) = q \o SubSeq(r, 1, k)
<1>1. /\ q \o r \in Seq(Entries) /\ Len(q \o r) = Len(q) + Len(r) /\ Len(q) \in Nat /\ Len(r) \in Nat
      /\ SubSeq(r, 1, k) \in Seq(Entries) /\ Len(SubSeq(r, 1, k)) = k
  OBVIOUS
<1>2. /\ SubSeq(q \o r, 1, Len(q) + k) \in Seq(Entries) /\ Len(SubSeq(q \o r, 1, Len(q) + k)) = Len(q) + k
      /\ q \o SubSeq(r, 1, k) \in Seq(Entries) /\ Len(q \o SubSeq(r, 1, k)) = Len(q) + k
  BY <1>1
<1>3. \A i \in 1 .. Len(q) + k : SubSeq(q \o r, 1, Len(q) + k)[i] = (q \o SubSeq(r, 1, k))[i]
  BY <1>1
<1> QED BY <1>2, <1>3, SeqEqual

\* What a batch emits are results
LEMMA InResultsAre ==
    ASSUME BatchTyped, NEW P, NEW Q
    PROVE  /\ \A k \in 1 .. Len(Results(batch.turn, In(P))) : Results(batch.turn, In(P))[k].role = "toolResult"
           /\ \A k \in 1 .. Len(Results(batch.turn, In(P) \cup In(Q))) :
                 Results(batch.turn, In(P) \cup In(Q))[k].role = "toolResult"
<1>1. PICK n \in 0 .. MaxCalls : DOMAIN batch.phase = 1 .. n
  BY BatchShape DEF BatchTyped
<1>2. In(P) \in SUBSET (1 .. n) /\ In(Q) \in SUBSET (1 .. n) /\ n \in Nat
  BY <1>1, AgentAssumption DEF In
<1>3. In(P) \cup In(Q) \in SUBSET (1 .. n)
  BY <1>2
<1> QED BY <1>2, <1>3, ResultsAre

\* also where all of its calls fail.
LEMMA BatchResultsAre ==
    ASSUME BatchTyped
    PROVE  \A k \in 1 .. Len(Results(batch.turn, DOMAIN batch.phase)) :
              Results(batch.turn, DOMAIN batch.phase)[k].role = "toolResult"
<1>1. PICK n \in 0 .. MaxCalls : DOMAIN batch.phase = 1 .. n
  BY BatchShape DEF BatchTyped
<1>2. n \in Nat /\ DOMAIN batch.phase \in SUBSET (1 .. n)
  BY <1>1, AgentAssumption
<1> QED BY <1>2, ResultsAre

\* A call that settles belongs to the batch under way.
LEMMA SettlesInBatch ==
    ASSUME NoOrphanEffects, NEW c, Settle(c)
    PROVE  pc = "batch"
<1>1. c \in Busy /\ c \notin In({"prepared"})
  BY DEF Settle, In, Busy
<1> QED BY <1>1 DEF NoOrphanEffects

\* The initial poll is skipped once.
LEMMA SkippingStep ==
    ASSUME Skipping, [Next]_vars
    PROVE  Skipping'
<1>0. CASE UNCHANGED vars
  BY <1>0 DEF Skipping, vars
<1>1. ASSUME NEW m \in Messages, Prompt(m) PROVE Skipping'
  BY <1>1 DEF Prompt, Begin, Skipping, Over, loop
<1>2. ASSUME NEW m \in Messages, Steer(m) PROVE Skipping'
  BY <1>2 DEF Steer, Skipping, Over, loop
<1>3. ASSUME NEW m \in Messages, FollowUp(m) PROVE Skipping'
  BY <1>3 DEF FollowUp, Skipping, Over, loop
<1>4. CASE ClearAllQueues
  BY <1>4 DEF ClearAllQueues, Skipping, Over, loop
<1>5. CASE Reset
  BY <1>5 DEF Reset, Skipping, Over, loop
<1>6. CASE Abort
  BY <1>6 DEF Abort, Skipping, Over, loop
<1>7. CASE ContinueQueued
  BY <1>7 DEF ContinueQueued, Begin, Skipping, Over, loop
<1>8. CASE Continue
  BY <1>8 DEF Continue, Begin, Skipping, Over, loop
<1>9. CASE ResumeToolCalls
  BY <1>9 DEF ResumeToolCalls, Begin, Skipping, Over, loop
<1>10. CASE DropFailure
  BY <1>10 DEF DropFailure, Skipping, Over, loop
<1>11. CASE EmitPrompts
  BY <1>11 DEF EmitPrompts, Skipping, Over, loop
<1>12. CASE InitialPoll
  BY <1>12 DEF InitialPoll, Skipping, Over, loop
<1>13. CASE PrepareNextTurn
  BY <1>13 DEF PrepareNextTurn, Skipping, Over, loop
<1>14. CASE Inject
  BY <1>14 DEF Inject, Skipping, Over, loop
<1>15. CASE Request
  BY <1>15 DEF Request, Skipping, Over, loop
<1>16. CASE Recovered
  BY <1>16 DEF Recovered, Skipping, Over, loop
<1>17. CASE FailTruncated
  BY <1>17 DEF FailTruncated, Skipping, Over, loop
<1>18. CASE TurnEnd
  BY <1>18 DEF TurnEnd, Skipping, Over, loop
<1>19. CASE PollFollowUps
  BY <1>19 DEF PollFollowUps, Skipping, Over, loop
<1>20. CASE AgentEnd
  BY <1>20 DEF AgentEnd, Skipping, Over, loop
<1>21. CASE FinishRun
  BY <1>21 DEF FinishRun, Idle, Skipping, Over, loop
<1>22. CASE HandleRunFailure
  BY <1>22 DEF HandleRunFailure, Skipping, Over, loop
<1>23. CASE BatchEnds
  BY <1>23 DEF BatchEnds, Skipping, Over, loop
<1>24. ASSUME NEW c \in 1 .. MaxCalls, Prepare(c) PROVE Skipping'
  BY <1>24 DEF Prepare, Pipeline, Skipping, Over, loop
<1>25. ASSUME NEW c \in 1 .. MaxCalls, Admit(c) PROVE Skipping'
  BY <1>25 DEF Admit, Pipeline, Skipping, Over, loop
<1>26. ASSUME NEW c \in 1 .. MaxCalls, Acquire(c) PROVE Skipping'
  BY <1>26 DEF Acquire, Pipeline, Skipping, Over, loop
<1>27. ASSUME NEW c \in 1 .. MaxCalls, Dispatch(c) PROVE Skipping'
  BY <1>27 DEF Dispatch, Pipeline, Skipping, Over, loop
<1>28. ASSUME NEW c \in 1 .. MaxCalls, Settle(c) PROVE Skipping'
  BY <1>28 DEF Settle, Skipping, Over, loop
<1>29. CASE Respond
  BY <1>29 DEF Respond, Skipping, Over, loop
<1>30. CASE RespondError
  BY <1>30 DEF RespondError, Skipping, Over, loop
<1>31. CASE RespondCheckpoint
  BY <1>31 DEF RespondCheckpoint, Skipping, Over, loop
<1>32. CASE Throw
  BY <1>32 DEF Throw, Skipping, Over, loop
<1>33. CASE PrepareThrows
  BY <1>33 DEF PrepareThrows, Skipping, Over, loop
<1>34. CASE Crash
  BY <1>34 DEF Crash, Idle, Skipping, Over, loop
<1>35. ASSUME NEW c \in 1 .. MaxCalls, ExecuteEnds(c) PROVE Skipping'
  BY <1>35 DEF ExecuteEnds, Pipeline, Skipping, Over, loop
<1>36. ASSUME NEW c \in 1 .. MaxCalls, CallThrows(c) PROVE Skipping'
  BY <1>36 DEF CallThrows, Skipping, Over, loop
<1>37. ASSUME NEW c \in 1 .. MaxCalls, BeforeDispatch(c) PROVE Skipping'
  BY <1>37 DEF BeforeDispatch, Pipeline, Skipping, Over, loop
<1>38. ASSUME NEW c \in 1 .. MaxCalls, RefuseDispatch(c) PROVE Skipping'
  BY <1>38 DEF RefuseDispatch, Skipping, Over, loop
<1>39. CASE Reconcile
  BY <1>39 DEF Reconcile, Skipping, Over, loop
<1> QED BY <1>0, <1>1, <1>2, <1>3, <1>4, <1>5, <1>6, <1>7, <1>8, <1>9, <1>10, <1>11, <1>12,
           <1>13, <1>14, <1>15, <1>16, <1>17, <1>18, <1>19, <1>20, <1>21, <1>22, <1>23, <1>24,
           <1>25, <1>26, <1>27, <1>28, <1>29, <1>30, <1>31, <1>32, <1>33, <1>34, <1>35, <1>36,
           <1>37, <1>38, <1>39
         DEF Next, Caller, Step, Call, Response

\* However many polls precede a turn, one of them at most yields steering for it.
LEMMA SteeredStep ==
    ASSUME Typed, Typed', Pipelined, Transcript, Transcript', Skipping, Steered, SteeringMode = "one-at-a-time", [Next]_vars
    PROVE  Steered'
<1> USE DEF Typed
<1>a. messages \in Seq(Entries) /\ Len(messages) \in Nat /\ base \in Nat
  BY DEF EntriesTyped, ControlTyped
<1> USE <1>a
<1>0. CASE UNCHANGED vars
  BY <1>0 DEF Steered, vars
<1>1. ASSUME NEW m \in Messages, Prompt(m) PROVE Steered'
  <2>1. NoneFresh(messages, Len(messages))
    BY DEF NoneFresh
  <2>2. NoSteer(<<m>>)
    BY <1>1, AgentAssumption DEF Prompt, NoSteer
  <2>3. /\ messages' = messages /\ base' = Len(messages) /\ pending' = <<m>> /\ skip' = FALSE
        /\ turned' = FALSE /\ pc' = "prompting"
    BY <1>1 DEF Prompt, Begin
  <2> QED BY <2>1, <2>2, <2>3, NoneSteered DEF FewSteers
<1>2. ASSUME NEW m \in Messages, Steer(m) PROVE Steered'
  <2>1. /\ UNCHANGED <<messages, base, pending, skip, turned>>
        /\ (pc' = pc \/ pc' \in {"ending", "ended", "failing", "failed", "idle"})
    BY <1>2 DEF Steer, scope, loop
  <2>2. CASE pc = "idle"
    BY <1>2, <2>2 DEF Steer, Steered
  <2> QED BY <2>1, <2>2, SameSteered
<1>3. ASSUME NEW m \in Messages, FollowUp(m) PROVE Steered'
  <2>1. /\ UNCHANGED <<messages, base, pending, skip, turned>>
        /\ (pc' = pc \/ pc' \in {"ending", "ended", "failing", "failed", "idle"})
    BY <1>3 DEF FollowUp, scope, loop
  <2>2. CASE pc = "idle"
    BY <1>3, <2>2 DEF FollowUp, Steered
  <2> QED BY <2>1, <2>2, SameSteered
<1>4. CASE ClearAllQueues
  <2>1. /\ UNCHANGED <<messages, base, pending, skip, turned>>
        /\ (pc' = pc \/ pc' \in {"ending", "ended", "failing", "failed", "idle"})
    BY <1>4 DEF ClearAllQueues, scope, loop
  <2>2. CASE pc = "idle"
    BY <1>4, <2>2 DEF ClearAllQueues, Steered
  <2> QED BY <2>1, <2>2, SameSteered
<1>5. CASE Reset
  BY <1>5 DEF Reset, Steered
<1>6. CASE Abort
  <2>1. /\ UNCHANGED <<messages, base, pending, skip, turned>>
        /\ (pc' = pc \/ pc' \in {"ending", "ended", "failing", "failed", "idle"})
    BY <1>6 DEF Abort, scope, loop
  <2>2. CASE pc = "idle"
    BY <1>6, <2>2 DEF Abort, Steered
  <2> QED BY <2>1, <2>2, SameSteered
<1>7. CASE ContinueQueued
  <2>1. NoneFresh(messages, Len(messages))
    BY DEF NoneFresh
  <2>2. messages' = messages /\ base' = Len(messages) /\ turned' = FALSE /\ pc' = "prompting"
    BY <1>7 DEF ContinueQueued, Begin
  <2>3. CASE pending' = Drained(steering, SteeringMode) /\ skip' = TRUE
    BY <2>1, <2>2, <2>3, NoneSteered, DrainsOne
  <2>4. CASE pending' = Drained(followUps, FollowUpMode)
    BY <2>1, <2>2, <2>4, NoneSteered, FollowUpsOnly DEF FewSteers
  <2> QED BY <1>7, <2>3, <2>4 DEF ContinueQueued, Begin, SkipPoll
<1>8. CASE Continue
  <2>1. NoneFresh(messages, Len(messages))
    BY DEF NoneFresh
  <2>2. NoSteer(<<>>)
    BY DEF NoSteer
  <2>3. messages' = messages /\ base' = Len(messages) /\ pending' = <<>> /\ skip' = FALSE /\ pc' = "polling"
    BY <1>8 DEF Continue, Begin
  <2> QED BY <2>1, <2>2, <2>3, NoneSteered DEF FewSteers
<1>9. CASE ResumeToolCalls
  <2>1. PICK i \in 1 .. Len(messages), mode \in ToolModes : ResumesAt(i, mode)
    BY <1>9, ResumesSomewhere
  <2>2. pc' = "batch" /\ pending' = <<>> /\ batch'.kind = "resume"
    BY <2>1 DEF ResumesAt, Begin
  <2>3. ResumedBatch'
    BY <2>2 DEF Transcript
  <2>4. NoneFresh(messages', base')
    <3>1. messages'[base' + 1].role = "assistant" /\ base' \in Nat
      BY <2>3 DEF ResumedBatch, Calls, ControlTyped
    <3>2. \A j \in base' + 1 .. Len(messages') : j = base' + 1 \/ j \in base' + 2 .. Len(messages')
      <4>1. messages' \in Seq(Entries)
        BY DEF EntriesTyped
      <4>2. Len(messages') \in Nat
        BY <4>1
      <4> QED BY <3>1, <4>2, FirstOrLater
    <3> QED BY <2>3, <3>1, <3>2 DEF ResumedBatch, NoneFresh, Unread, Steering
  <2>5. NoSteer(<<>>)
    BY DEF NoSteer
  <2> QED BY <2>2, <2>4, <2>5, NoneSteered DEF FewSteers
<1>10. CASE DropFailure
  BY <1>10 DEF DropFailure, Steered
<1>11. CASE EmitPrompts
  <2>1. /\ pc = "prompting" /\ pc' = "polling" /\ messages' = messages \o Users(pending) /\ pending' = <<>>
        /\ UNCHANGED <<base, skip, turned>>
    BY <1>11 DEF EmitPrompts, Push, scope
  <2>2. NoneFresh(messages, base) /\ FewSteers(pending) /\ ~turned /\ (skip \/ NoSteer(pending))
    BY <2>1 DEF Steered
  <2>3. OneFresh(messages', base) /\ (NoSteer(pending) => NoneFresh(messages', base))
    BY <2>1, <2>2, UsersWhole, FreshUsers DEF MailTyped
  <2> QED BY <2>1, <2>2, <2>3 DEF Steered, FewSteers, NoSteer
<1>12. CASE InitialPoll
  <2>1. /\ pc = "polling" /\ UNCHANGED <<messages, base>> /\ pending = <<>>
        /\ pc' = IF turned THEN "preparing" ELSE "injecting"
        /\ IF skip THEN pending' = pending ELSE pending' = Drained(steering, SteeringMode)
    BY <1>12 DEF InitialPoll, Poll, MailTyped, scope
  <2>2. OneFresh(messages, base) /\ (skip => ~turned) /\ (skip \/ NoneFresh(messages, base))
    BY <2>1 DEF Steered
  <2>3. NoSteer(<<>>) /\ FewSteers(<<>>) /\ FewSteers(Drained(steering, SteeringMode))
    BY DrainsOne DEF NoSteer, FewSteers
  <2>4. CASE skip
    BY <2>1, <2>2, <2>3, <2>4 DEF Steered
  <2>5. CASE ~skip
    BY <2>1, <2>2, <2>3, <2>5, NoneSteered
  <2> QED BY <2>4, <2>5
<1>13. CASE PrepareNextTurn
  <2>1. /\ pc = "preparing" /\ pc' = "injecting" /\ UNCHANGED <<messages, base>>
        /\ (pending' = pending \/ pending' = Drained(steering, SteeringMode))
    BY <1>13 DEF PrepareNextTurn, PollAgain, Poll, scope
  <2>2. NoneFresh(messages, base) /\ FewSteers(pending)
    BY <2>1 DEF Steered
  <2> QED BY <2>1, <2>2, DrainsOne, NoneSteered
<1>14. CASE Inject
  <2>1. /\ pc = "injecting" /\ pc' = "requesting" /\ messages' = messages \o Users(pending) /\ pending' = <<>>
        /\ UNCHANGED base
    BY <1>14 DEF Inject, Push, scope
  <2>2. OneFresh(messages, base) /\ FewSteers(pending) /\ (NoneFresh(messages, base) \/ NoSteer(pending))
    BY <2>1 DEF Steered
  <2>3. OneFresh(messages', base)
    BY <2>1, <2>2, UsersWhole, FreshUsers DEF MailTyped
  <2> QED BY <2>1, <2>3 DEF Steered, FewSteers, NoSteer
<1>15. CASE Request
  <2>1. pc = "requesting" /\ pending = <<>> /\ pending' = pending /\ base' = base
    BY <1>15 DEF Request, MailTyped, scope, loop
  <2>2. CASE messages' = messages \o <<Note("aborted")>> /\ pc' = "ending"
    <3>1. Note("aborted") \in Entries /\ Note("aborted").role = "assistant" /\ FewSteers(<<>>)
      BY NoteTyped, RoleOfNote DEF ControlTyped, Stops, FewSteers, NoSteer
    <3> QED BY <2>1, <2>2, <3>1, ReadSteered
  <2>3. CASE messages' = messages /\ pc' = "streaming"
    BY <2>1, <2>3 DEF Steered
  <2> QED BY <1>15, <2>2, <2>3 DEF Request, Push
<1>16. CASE Recovered
  <2>1. /\ messages' = messages \o <<Note(IF cancelled \/ pc = "stopped" THEN "aborted" ELSE "error")>> /\ base' = base /\ pc' = "ending" /\ pending' = <<>>
    BY <1>16 DEF Recovered, Push, scope, loop, MailTyped
  <2>2. Note(IF cancelled \/ pc = "stopped" THEN "aborted" ELSE "error") \in Entries /\ Note(IF cancelled \/ pc = "stopped" THEN "aborted" ELSE "error").role = "assistant"
    BY NoteTyped, RoleOfNote DEF ControlTyped, Stops
  <2>3. FewSteers(<<>>)
    BY DEF FewSteers, NoSteer
  <2> QED BY <2>1, <2>2, <2>3, ReadSteered
<1>17. CASE FailTruncated
  <2>1. /\ pc = "truncated" /\ pc' = "turnEnd" /\ UNCHANGED <<base, pending>>
        /\ messages' = messages \o Results(batch.turn, DOMAIN batch.phase)
    BY <1>17 DEF FailTruncated, Push, scope
  <2>2. NoneFresh(messages', base)
    BY <2>1, BatchResults, BatchResultsAre, FreshResults DEF Steered
  <2> QED BY <2>1, <2>2, NoneSteered DEF Steered
<1>18. CASE TurnEnd
  <2>1. /\ pc = "turnEnd" /\ pending = <<>> /\ base' = base /\ pc' \in {"ending", "preparing", "followUps"}
        /\ (pending' = pending \/ pending' = Drained(steering, SteeringMode))
    BY <1>18 DEF TurnEnd, Poll, MailTyped, scope
  <2>2. NoneFresh(messages, base) /\ FewSteers(<<>>) /\ FewSteers(pending')
    BY <2>1, DrainsOne DEF Steered, FewSteers, NoSteer
  <2>3. CASE messages' = messages \o <<Note("error")>>
    <3>1. Note("error") \in Entries /\ Note("error").role = "assistant"
      BY NoteTyped, RoleOfNote DEF ControlTyped, Stops
    <3> QED BY <2>1, <2>2, <2>3, <3>1, ReadSteered
  <2>4. CASE messages' = messages
    BY <2>1, <2>2, <2>4, NoneSteered
  <2> QED BY <1>18, <2>3, <2>4 DEF TurnEnd, Push
<1>19. CASE PollFollowUps
  <2>1. /\ pc = "followUps" /\ UNCHANGED <<messages, base>> /\ pending' = Drained(followUps, FollowUpMode)
        /\ pc' \in {"preparing", "ending"}
    BY <1>19 DEF PollFollowUps, scope
  <2>2. NoneFresh(messages, base)
    BY <2>1 DEF Steered
  <2> QED BY <2>1, <2>2, FollowUpsOnly, NoneSteered DEF FewSteers
<1>20. CASE AgentEnd
  <2>1. /\ UNCHANGED <<messages, base, pending, skip, turned>>
        /\ (pc' = pc \/ pc' \in {"ending", "ended", "failing", "failed", "idle"})
    BY <1>20 DEF AgentEnd, scope, loop
  <2>2. CASE pc = "idle"
    BY <1>20, <2>2 DEF AgentEnd, Steered
  <2> QED BY <2>1, <2>2, SameSteered
<1>21. CASE FinishRun
  BY <1>21 DEF FinishRun, Idle, Steered
<1>22. CASE HandleRunFailure
  <2> DEFINE note == Note(IF cancelled THEN "aborted" ELSE "error")
  <2>1. note \in Entries /\ note.role = "assistant"
    BY NoteTyped, RoleOfNote DEF ControlTyped, Stops
  <2>2. /\ messages' \in {messages, Append(messages, note)} /\ UNCHANGED <<base, pending, skip, turned>>
        /\ pc = "failing" /\ pc' = "failed"
    BY <1>22 DEF HandleRunFailure, loop
  <2> HIDE DEF note
  <2>3. CASE messages' = messages
    BY <2>2, <2>3, SameSteered
  <2>4. CASE messages' = messages \o <<note>>
    BY <2>1, <2>2, <2>4, ReadSteered DEF Steered
  <2>5. Append(messages, note) = messages \o <<note>>
    BY <2>1
  <2> QED BY <2>2, <2>3, <2>4, <2>5
<1>23. CASE BatchEnds
  <2> DEFINE answers == Results(batch.turn, In({"done"}))
             whole == Results(batch.turn, In({"done"}) \cup In({"completed"}))
             N == Cardinality(In({"done"}))
  <2>1. /\ pc = "batch" /\ pc' \notin {"prompting", "injecting"} /\ UNCHANGED <<base, pending, skip, turned>>
        /\ pending = <<>>
    BY <1>23 DEF BatchEnds, scope, MailTyped
  <2>2. NoneFresh(messages, base) /\ FewSteers(pending)
    BY <2>1 DEF Steered
  <2>3. /\ answers \in Seq(Entries) /\ Len(answers) = N /\ N \in Nat /\ whole \in Seq(Entries)
        /\ \A i \in 1 .. Len(answers) : answers[i].role = "toolResult"
        /\ \A i \in 1 .. Len(whole) : whole[i].role = "toolResult"
    <3>1. answers \in Seq(Entries) /\ Len(answers) = N /\ N \in Nat /\ whole \in Seq(Entries)
      BY InResults
    <3>2. /\ \A i \in 1 .. Len(answers) : answers[i].role = "toolResult"
          /\ \A i \in 1 .. Len(whole) : whole[i].role = "toolResult"
      BY InResultsAre
    <3> QED BY ONLY <3>1, <3>2
  <2>4. \/ messages' = messages /\ pc' # "polling"
        \/ messages' = messages \o answers /\ pc' # "polling"
        \/ pc' # "polling" /\ \E k \in 0 .. N : messages' = SubSeq(messages \o answers, 1, Len(messages) + k)
        \/ batch.kind = "resume" /\ messages' = SubSeq(messages, 1, base + 1) \o whole
    BY <1>23 DEF BatchEnds, Ordered
  <2> HIDE DEF answers, whole, N
  <2>5. CASE messages' = messages /\ pc' # "polling"
    BY <2>1, <2>2, <2>5, NoneSteered
  <2>6. CASE messages' = messages \o answers /\ pc' # "polling"
    <3>1. NoneFresh(messages', base)
      BY <2>2, <2>3, <2>6, FreshResults
    <3> QED BY <2>1, <2>2, <2>6, <3>1, NoneSteered
  <2>7. CASE pc' # "polling" /\ \E k \in 0 .. N : messages' = SubSeq(messages \o answers, 1, Len(messages) + k)
    <3>1. PICK k \in 0 .. N : messages' = SubSeq(messages \o answers, 1, Len(messages) + k)
      BY <2>7
    <3>2. messages' = messages \o SubSeq(answers, 1, k)
      BY <2>3, <3>1, PrefixOfJoin
    <3>3. /\ SubSeq(answers, 1, k) \in Seq(Entries)
          /\ \A i \in 1 .. Len(SubSeq(answers, 1, k)) : SubSeq(answers, 1, k)[i].role = "toolResult"
      BY <2>3
    <3>4. NoneFresh(messages', base)
      BY <2>2, <3>2, <3>3, FreshResults
    <3> QED BY <2>1, <2>2, <2>7, <3>4, NoneSteered
  <2>8. CASE batch.kind = "resume" /\ messages' = SubSeq(messages, 1, base + 1) \o whole
    <3> DEFINE kept == SubSeq(messages, 1, base + 1)
    <3>1. ResumedBatch /\ base < Len(messages)
      BY <2>1, <2>8 DEF Transcript, EntriesTyped
    <3>2. kept \in Seq(Entries) /\ Len(kept) = base + 1 /\ kept[base + 1] = messages[base + 1]
      BY <3>1
    <3>3. kept[base + 1].role = "assistant"
      BY <3>1, <3>2 DEF ResumedBatch, Calls
    <3>4. messages' = kept \o whole
      BY <2>8
    <3> HIDE DEF kept
    <3>5. NoneFresh(kept, base)
      <4>1. \A i \in base + 1 .. Len(kept) : i = base + 1
        BY <3>2
      <4> QED BY <3>3, <4>1 DEF NoneFresh, Unread, Steering
    <3>6. NoneFresh(messages', base)
      BY <2>3, <3>2, <3>4, <3>5, FreshResults
    <3>7. ~skip
      BY <2>1 DEF Skipping, Over
    <3> QED BY <2>1, <2>2, <3>6, <3>7, NoneSteered
  <2> QED BY <2>4, <2>5, <2>6, <2>7, <2>8
<1>24. ASSUME NEW c \in 1 .. MaxCalls, Prepare(c) PROVE Steered'
  <2>1. UNCHANGED <<messages, base, pending, skip, turned, pc>>
    BY <1>24 DEF Prepare, Pipeline, scope, loop
  <2> QED BY <2>1 DEF Steered
<1>25. ASSUME NEW c \in 1 .. MaxCalls, Admit(c) PROVE Steered'
  <2>1. UNCHANGED <<messages, base, pending, skip, turned, pc>>
    BY <1>25 DEF Admit, Pipeline, scope, loop
  <2> QED BY <2>1 DEF Steered
<1>26. ASSUME NEW c \in 1 .. MaxCalls, Acquire(c) PROVE Steered'
  <2>1. UNCHANGED <<messages, base, pending, skip, turned, pc>>
    BY <1>26 DEF Acquire, Pipeline, scope, loop
  <2> QED BY <2>1 DEF Steered
<1>27. ASSUME NEW c \in 1 .. MaxCalls, Dispatch(c) PROVE Steered'
  <2>1. UNCHANGED <<messages, base, pending, skip, turned, pc>>
    BY <1>27 DEF Dispatch, Pipeline, scope, loop
  <2> QED BY <2>1 DEF Steered
<1>28. ASSUME NEW c \in 1 .. MaxCalls, Settle(c) PROVE Steered'
  <2> DEFINE answer == Result(batch.turn, c)
  <2>1. c \in DOMAIN batch.phase /\ batch.turn \in Nat
    BY <1>28 DEF Settle, In, BatchTyped, Batches
  <2>2. answer \in Entries /\ answer.role = "toolResult"
    BY <2>1 DEF Result, Entries
  <2>3. messages' \in {messages, Append(messages, answer)} /\ UNCHANGED <<base, pending, skip, turned, pc>>
    BY <1>28 DEF Settle, scope, loop
  <2>4. pc = "batch"
    BY <1>28, SettlesInBatch DEF Pipelined
  <2> HIDE DEF answer
  <2>5. Append(messages, answer) = messages \o <<answer>> /\ <<answer>> \in Seq(Entries)
        /\ \A i \in 1 .. Len(<<answer>>) : <<answer>>[i].role = "toolResult"
    BY <2>2
  <2>6. NoneFresh(messages', base)
    BY <2>3, <2>4, <2>5, FreshResults DEF Steered
  <2> QED BY <2>3, <2>4, <2>6, NoneSteered DEF Steered
<1>29. CASE Respond
  <2>0. FewSteers(<<>>)
    BY DEF FewSteers, NoSteer
  <2>1. base' = base /\ pending' = <<>> /\ pc' \in {"turnEnd", "truncated", "batch", "recovered"}
    BY <1>29 DEF Respond, scope, loop, MailTyped
  <2>2. ASSUME NEW e \in Entries, e.role = "assistant", messages' = messages \o <<e>>
        PROVE  Steered'
    BY <2>0, <2>1, <2>2, ReadSteered
  <2>3. CASE Push(<<Note("stop")>>)
    <3>1. Note("stop") \in Entries /\ Note("stop").role = "assistant"
      BY FirstTyped, RoleOfNote DEF Assistant
    <3> QED BY <2>2, <2>3, <3>1, Zenon DEF Push
  <2>4. ASSUME NEW n \in 1 .. MaxCalls, NEW stop \in {"toolUse", "length"}, NEW print \in Prints,
               Push(<<Assistant(turn, n, stop, print, FALSE)>>)
        PROVE  Steered'
    <3>1. n \in 0 .. MaxCalls /\ stop \in Stops /\ print \in Prints \cup {"none"}
      BY DEF Stops
    <3>2. Assistant(turn, n, stop, print, FALSE) \in Entries
      BY <3>1, AssistantTyped DEF ControlTyped
    <3>3. Assistant(turn, n, stop, print, FALSE).role = "assistant"
      BY DEF Assistant
    <3> QED BY <2>2, <2>4, <3>2, <3>3, Zenon DEF Push
  <2> QED BY <1>29, <2>3, <2>4 DEF Respond
<1>30. CASE RespondError
  <2>1. /\ messages' = messages \o <<Note(IF cancelled THEN "aborted" ELSE "error")>> /\ base' = base /\ pc' = "ending" /\ pending' = <<>>
    BY <1>30 DEF RespondError, Push, scope, loop, MailTyped
  <2>2. Note(IF cancelled THEN "aborted" ELSE "error") \in Entries /\ Note(IF cancelled THEN "aborted" ELSE "error").role = "assistant"
    BY NoteTyped, RoleOfNote DEF ControlTyped, Stops
  <2>3. FewSteers(<<>>)
    BY DEF FewSteers, NoSteer
  <2> QED BY <2>1, <2>2, <2>3, ReadSteered
<1>31. CASE RespondCheckpoint
  <2>0. FewSteers(<<>>)
    BY DEF FewSteers, NoSteer
  <2>1. base' = base /\ pending' = <<>> /\ pc' \in {"turnEnd", "truncated", "batch", "recovered"}
    BY <1>31 DEF RespondCheckpoint, scope, loop, MailTyped
  <2>2. ASSUME NEW e \in Entries, e.role = "assistant", messages' = messages \o <<e>>
        PROVE  Steered'
    BY <2>0, <2>1, <2>2, ReadSteered
  <2>3. CASE Push(<<Assistant(turn, 0, "stop", "none", TRUE)>>)
    <3>1. Assistant(turn, 0, "stop", "none", TRUE) \in Entries /\ Assistant(turn, 0, "stop", "none", TRUE).role = "assistant"
      BY FirstTyped, RoleOfNote DEF Assistant
    <3> QED BY <2>2, <2>3, <3>1, Zenon DEF Push
  <2>4. ASSUME NEW n \in 1 .. MaxCalls, NEW stop \in {"toolUse"}, NEW print \in Prints,
               Push(<<Assistant(turn, n, stop, print, TRUE)>>)
        PROVE  Steered'
    <3>1. n \in 0 .. MaxCalls /\ stop \in Stops /\ print \in Prints \cup {"none"}
      BY DEF Stops
    <3>2. Assistant(turn, n, stop, print, TRUE) \in Entries
      BY <3>1, AssistantTyped DEF ControlTyped
    <3>3. Assistant(turn, n, stop, print, TRUE).role = "assistant"
      BY DEF Assistant
    <3> QED BY <2>2, <2>4, <3>2, <3>3, Zenon DEF Push
  <2> QED BY <1>31, <2>3, <2>4 DEF RespondCheckpoint
<1>32. CASE Throw
  <2>1. PICK k \in 0 .. Len(Emitting) : messages' = messages \o SubSeq(Emitting, 1, k)
    BY <1>32 DEF Throw
  <2>2. base' = base /\ pending' = <<>> /\ pc' = "failing" /\ pc # "idle" /\ FewSteers(<<>>)
    BY <1>32 DEF Throw, scope, FewSteers, NoSteer
  <2> SUFFICES OneFresh(messages', base)
    BY <2>2 DEF Steered
  <2>3. CASE pc \in {"prompting", "injecting"}
    <3>1. Emitting = Users(pending) /\ Len(Users(pending)) = Len(pending) /\ pending \in Seq(Messages)
      BY <2>3, UsersTyped DEF Emitting, MailTyped
    <3>2. OneFresh(messages, base) /\ FewSteers(pending) /\ (NoneFresh(messages, base) \/ NoSteer(pending))
      BY <2>3 DEF Steered
    <3>3. k \in 0 .. Len(pending) /\ messages' = messages \o SubSeq(Users(pending), 1, k)
      BY <2>1, <3>1
    <3> QED BY <3>1, <3>2, <3>3, FreshUsers
  <2>4. CASE pc = "truncated"
    <3> DEFINE rs == Results(batch.turn, DOMAIN batch.phase)
    <3>1. rs \in Seq(Entries) /\ \A i \in 1 .. Len(rs) : rs[i].role = "toolResult"
      BY BatchResults, BatchResultsAre
    <3>2. Emitting = rs
      BY <2>4 DEF Emitting
    <3> HIDE DEF rs
    <3>3. SubSeq(rs, 1, k) \in Seq(Entries) /\ \A i \in 1 .. Len(SubSeq(rs, 1, k)) : SubSeq(rs, 1, k)[i].role = "toolResult"
      BY <2>1, <3>1, <3>2
    <3>4. OneFresh(messages, base)
      BY <2>2 DEF Steered
    <3> QED BY <2>1, <3>2, <3>3, <3>4, FreshResults
  <2>5. CASE pc \notin {"prompting", "injecting", "truncated"}
    <3>1. Emitting = <<>> /\ k = 0
      BY <2>5 DEF Emitting
    <3>2. messages' = messages
      BY <2>1, <3>1
    <3> QED BY <2>2, <3>2 DEF Steered
  <2> QED BY <2>3, <2>4, <2>5
<1>33. CASE PrepareThrows
  <2>1. /\ UNCHANGED <<messages, base, pending, skip, turned>>
        /\ (pc' = pc \/ pc' \in {"ending", "ended", "failing", "failed", "idle"})
    BY <1>33 DEF PrepareThrows, scope, loop
  <2>2. CASE pc = "idle"
    BY <1>33, <2>2 DEF PrepareThrows, Steered
  <2> QED BY <2>1, <2>2, SameSteered
<1>34. CASE Crash
  BY <1>34 DEF Crash, Idle, Steered
<1>35. ASSUME NEW c \in 1 .. MaxCalls, ExecuteEnds(c) PROVE Steered'
  <2>1. UNCHANGED <<messages, base, pending, skip, turned, pc>>
    BY <1>35 DEF ExecuteEnds, Pipeline, scope, loop
  <2> QED BY <2>1 DEF Steered
<1>36. ASSUME NEW c \in 1 .. MaxCalls, CallThrows(c) PROVE Steered'
  <2>1. UNCHANGED <<messages, base, pending, skip, turned>> /\ (pc' = pc \/ pc' = "failing") /\ pc = "batch"
    BY <1>36, ThrowsInBatch DEF CallThrows, Pipelined, scope, loop
  <2> QED BY <2>1, SameSteered
<1>37. ASSUME NEW c \in 1 .. MaxCalls, BeforeDispatch(c) PROVE Steered'
  <2>1. UNCHANGED <<messages, base, pending, skip, turned, pc>>
    BY <1>37 DEF BeforeDispatch, Pipeline, scope, loop
  <2> QED BY <2>1 DEF Steered
<1>38. ASSUME NEW c \in 1 .. MaxCalls, RefuseDispatch(c) PROVE Steered'
  <2>1. UNCHANGED <<messages, base, pending, skip, turned>> /\ (pc' = pc \/ pc' = "failing") /\ pc = "batch"
    BY <1>38, RefusedInBatch DEF RefuseDispatch, Pipelined, scope, loop
  <2> QED BY <2>1, SameSteered
<1>39. CASE Reconcile
  BY <1>39 DEF Reconcile, Steered
<1> QED BY <1>0, <1>1, <1>2, <1>3, <1>4, <1>5, <1>6, <1>7, <1>8, <1>9, <1>10, <1>11, <1>12,
           <1>13, <1>14, <1>15, <1>16, <1>17, <1>18, <1>19, <1>20, <1>21, <1>22, <1>23, <1>24,
           <1>25, <1>26, <1>27, <1>28, <1>29, <1>30, <1>31, <1>32, <1>33, <1>34, <1>35, <1>36,
           <1>37, <1>38, <1>39
         DEF Next, Caller, Step, Call, Response

\* Nothing is queued or unread in the beginning.
LEMMA SteeredInit == Init => Skipping /\ Steered
BY DEF Init, Skipping, Steered

-----------------------------------------------------------------------------
(* Guarded.                                                                 *)

\* No entry of r asks for tool calls.
Quiet(r) == \A j \in 1 .. Len(r) : r[j].role = "assistant" => r[j].calls = 0

\* A row has finitely many turns, and none if it is empty.
LEMMA TakenFinite ==
    ASSUME NEW ms, NEW i \in Int, NEW k \in Int
    PROVE  /\ IsFiniteSet({j \in i .. k : ms[j].role = "assistant"}) /\ Taken(ms, i, k) \in Nat
           /\ k < i => Taken(ms, i, k) = 0
<1>1. IsFiniteSet(i .. k)
  BY FS_Interval
<1>2. IsFiniteSet({j \in i .. k : ms[j].role = "assistant"})
  BY <1>1, FS_Subset
<1>3. k < i => {j \in i .. k : ms[j].role = "assistant"} = {}
  OBVIOUS
<1> QED BY <1>2, <1>3, FS_CardinalityType, FS_EmptySet DEF Taken

\* Rows within the first entries stay as they are.
LEMMA RowKept ==
    ASSUME NEW q, NEW ms, Grows(q, ms), NEW i \in 1 .. Len(q), NEW k \in 1 .. Len(q)
    PROVE  /\ Row(ms, i, k) => Row(q, i, k)
           /\ Taken(ms, i, k) = Taken(q, i, k)
           /\ KeyOf(ms[i]) = KeyOf(q[i])
<1>1. ms[i] = q[i] /\ \A j \in i .. k : j \in 1 .. Len(q) /\ ms[j] = q[j]
  BY DEF Grows
<1>2. {j \in i .. k : ms[j].role = "assistant"} = {j \in i .. k : q[j].role = "assistant"}
  BY <1>1
<1> QED BY <1>1, <1>2 DEF Row, Same, Taken, KeyOf

\* Entries that ask for no tool calls make no row longer.
LEMMA RowsQuiet ==
    ASSUME NEW q \in Seq(Entries), NEW r \in Seq(Entries), Quiet(r), NEW b \in Nat
    PROVE  /\ NoLongRow(q, b) => NoLongRow(q \o r, b)
           /\ \A key, n : RowsTo(q, b, key, n) => RowsTo(q \o r, b, key, n)
<1> DEFINE ms == q \o r
<1>1. /\ Grows(q, ms) /\ Len(ms) = Len(q) + Len(r) /\ Len(q) \in Nat /\ Len(r) \in Nat
      /\ \A j \in Len(q) + 1 .. Len(ms) : j - Len(q) \in 1 .. Len(r) /\ ms[j] = r[j - Len(q)]
  BY JoinGrows
<1>2. \A j \in Len(q) + 1 .. Len(ms) : ms[j].role = "assistant" => ms[j].calls = 0
  BY <1>1 DEF Quiet
<1> HIDE DEF ms
<1>3. ASSUME NEW i \in b + 2 .. Len(ms), NEW k \in i .. Len(ms), Row(ms, i, k)
      PROVE  /\ i \in 1 .. Len(q)
             /\ k > Len(q) => /\ Row(q, i, Len(q)) /\ Taken(ms, i, k) = Taken(q, i, Len(q))
                              /\ KeyOf(ms[i]) = KeyOf(q[i])
  <2>1. \A j \in i .. k : j \in Len(q) + 1 .. Len(ms) => ms[j].role = "toolResult"
    <3> SUFFICES ASSUME NEW j \in i .. k, j \in Len(q) + 1 .. Len(ms) PROVE ms[j].role = "toolResult"
      OBVIOUS
    <3>1. ms[j].role = "assistant" => ~(ms[j].calls > 0)
      BY <1>2
    <3> QED BY <1>3, <3>1 DEF Row, Same
  <2>2. i \in 1 .. Len(q)
    <3>1. ms[i].role = "assistant"
      BY <1>3 DEF Row
    <3>2. i \in i .. k
      BY <1>1
    <3>3. i \notin Len(q) + 1 .. Len(ms)
      BY <2>1, <3>1, <3>2
    <3> QED BY <1>1, <3>3
  <2>3. ASSUME k > Len(q)
        PROVE  Row(q, i, Len(q)) /\ Taken(ms, i, k) = Taken(q, i, Len(q)) /\ KeyOf(ms[i]) = KeyOf(q[i])
    <3>1. Len(q) \in 1 .. Len(q)
      BY <1>1, <2>2
    <3>2. i .. Len(q) \subseteq i .. k /\ \A j \in i .. k : j \in i .. Len(q) \/ j \in Len(q) + 1 .. Len(ms)
      BY <1>1, <2>2, <2>3
    <3>3. Row(ms, i, Len(q))
      BY <1>3, <3>2 DEF Row
    <3>4. {j \in i .. k : ms[j].role = "assistant"} = {j \in i .. Len(q) : ms[j].role = "assistant"}
      BY <2>1, <3>2
    <3>5. Taken(ms, i, k) = Taken(ms, i, Len(q))
      BY <3>4 DEF Taken
    <3> QED BY <1>1, <2>2, <3>1, <3>3, <3>5, RowKept
  <2> QED BY <2>2, <2>3
<1>4. ASSUME NoLongRow(q, b) PROVE NoLongRow(ms, b)
  <2> SUFFICES ASSUME NEW i \in b + 2 .. Len(ms), NEW k \in b + 2 .. Len(ms), Row(ms, i, k)
               PROVE  Taken(ms, i, k) <= RepeatLimit
    BY DEF NoLongRow
  <2>0. i \in Int /\ k \in Int /\ 0 <= RepeatLimit
    BY AgentAssumption
  <2>1. CASE k < i
    <3>1. Taken(ms, i, k) = 0
      BY <2>0, <2>1, TakenFinite
    <3> QED BY <2>0, <3>1
  <2>2. CASE k >= i
    <3>1. k \in i .. Len(ms)
      BY <2>2
    <3>2. /\ i \in 1 .. Len(q)
          /\ k > Len(q) => Row(q, i, Len(q)) /\ Taken(ms, i, k) = Taken(q, i, Len(q))
      BY <1>3, <3>1
    <3>3. CASE k > Len(q)
      <4>1. i \in b + 2 .. Len(q) /\ Len(q) \in b + 2 .. Len(q)
        BY <1>1, <3>2
      <4> QED BY <1>4, <3>2, <3>3, <4>1 DEF NoLongRow
    <3>4. CASE k <= Len(q)
      <4>1. i \in 1 .. Len(q) /\ k \in 1 .. Len(q) /\ i \in b + 2 .. Len(q) /\ k \in b + 2 .. Len(q)
        BY <1>1, <3>2, <3>4
      <4>2. Row(q, i, k) /\ Taken(ms, i, k) = Taken(q, i, k)
        BY <1>1, <4>1, RowKept
      <4> QED BY <1>4, <4>1, <4>2 DEF NoLongRow
    <3> QED BY <1>1, <3>3, <3>4
  <2> QED BY <2>1, <2>2
<1>5. ASSUME NEW key, NEW n, RowsTo(q, b, key, n) PROVE RowsTo(ms, b, key, n)
  <2> SUFFICES ASSUME NEW i \in b + 2 .. Len(ms), Row(ms, i, Len(ms))
               PROVE  KeyOf(ms[i]) = key /\ Taken(ms, i, Len(ms)) <= n
    BY DEF RowsTo
  <2>1. Len(ms) \in i .. Len(ms)
    BY <1>1
  <2>2. /\ i \in 1 .. Len(q)
        /\ Len(ms) > Len(q) => /\ Row(q, i, Len(q)) /\ Taken(ms, i, Len(ms)) = Taken(q, i, Len(q))
                               /\ KeyOf(ms[i]) = KeyOf(q[i])
    BY <1>3, <2>1
  <2>3. CASE Len(ms) > Len(q)
    <3>1. i \in b + 2 .. Len(q)
      BY <2>2
    <3> QED BY <1>5, <2>2, <2>3, <3>1 DEF RowsTo
  <2>4. CASE Len(ms) = Len(q)
    <3>1. i \in b + 2 .. Len(q) /\ Len(q) \in 1 .. Len(q)
      BY <1>1, <2>2
    <3>2. Row(q, i, Len(q)) /\ Taken(ms, i, Len(q)) = Taken(q, i, Len(q)) /\ KeyOf(ms[i]) = KeyOf(q[i])
      BY <1>1, <2>2, <2>4, <3>1, RowKept
    <3> QED BY <1>5, <2>4, <3>1, <3>2 DEF RowsTo
  <2> QED BY <1>1, <2>3, <2>4
<1> QED BY <1>4, <1>5 DEF ms

\* A message of the user, or text of the model, ends every row.
LEMMA RowsBroken ==
    ASSUME NEW q \in Seq(Entries), NEW r \in Seq(Entries), r # <<>>, NEW b \in Nat, NEW key, NEW n,
           r[Len(r)].role = "user" \/ (r[Len(r)].role = "assistant" /\ r[Len(r)].calls = 0)
    PROVE  RowsTo(q \o r, b, key, n)
<1>1. Len(r) \in Nat \ {0} /\ Len(q) \in Nat /\ Len(q \o r) = Len(q) + Len(r) /\ (q \o r)[Len(q) + Len(r)] = r[Len(r)]
  OBVIOUS
<1> DEFINE ms == q \o r
<1>2. Len(ms) \in Nat /\ ms[Len(ms)] = r[Len(r)]
  BY <1>1
<1> HIDE DEF ms
<1>3. ASSUME NEW i \in b + 2 .. Len(ms), Row(ms, i, Len(ms)) PROVE FALSE
  <2>1. Len(ms) \in i .. Len(ms)
    BY <1>2
  <2>2. ms[Len(ms)].role = "toolResult" \/ (ms[Len(ms)].role = "assistant" /\ ms[Len(ms)].calls > 0)
    BY <1>3, <2>1 DEF Row, Same
  <2> QED BY <1>2, <2>2
<1> QED BY <1>3 DEF RowsTo, ms

\* One more response makes the rows that end with it one longer.
LEMMA RowsMore ==
    ASSUME NEW q \in Seq(Entries), NEW e \in Entries, e.role = "assistant", NEW b \in Nat,
           NEW key, NEW n \in Nat, RowsTo(q, b, key, n), NEW m \in Nat,
           m = IF key = KeyOf(e) THEN n + 1 ELSE 1
    PROVE  /\ RowsTo(q \o <<e>>, b, KeyOf(e), m)
           /\ NoLongRow(q, b) /\ m <= RepeatLimit => NoLongRow(q \o <<e>>, b)
<1> DEFINE ms == q \o <<e>>
           L == Len(q)
<1>1. <<e>> \in Seq(Entries) /\ Len(<<e>>) = 1 /\ <<e>>[1] = e
  OBVIOUS
<1>2. /\ Grows(q, ms) /\ Len(ms) = L + 1 /\ L \in Nat
      /\ \A j \in L + 1 .. Len(ms) : j - L \in 1 .. 1 /\ ms[j] = <<e>>[j - L]
  BY <1>1, JoinGrows
<1>3. ms[L + 1] = e
  BY <1>1, <1>2
<1> HIDE DEF ms, L
<1>4. ASSUME NEW i \in b + 2 .. Len(ms), Row(ms, i, L + 1)
      PROVE  KeyOf(ms[i]) = KeyOf(e) /\ Taken(ms, i, L + 1) <= m
  <2>1. CASE i = L + 1
    <3>1. {j \in L + 1 .. L + 1 : ms[j].role = "assistant"} = {L + 1}
      BY <1>2, <1>3
    <3>2. Taken(ms, i, L + 1) = 1
      BY <2>1, <3>1, FS_Singleton DEF Taken
    <3>3. 1 <= m
      OBVIOUS
    <3> QED BY <1>3, <2>1, <3>2, <3>3
  <2>2. CASE i # L + 1
    <3>1. i \in b + 2 .. L /\ i \in 1 .. L /\ L \in 1 .. L /\ i \in Nat
      BY <1>2, <2>2
    <3>2. L + 1 \in i .. L + 1 /\ (i .. L) \subseteq (i .. L + 1)
      BY <1>2, <3>1
    <3>3. Row(ms, i, L)
      BY <1>4, <3>2 DEF Row
    <3>4. Row(q, i, L) /\ Taken(ms, i, L) = Taken(q, i, L) /\ KeyOf(ms[i]) = KeyOf(q[i])
      BY <1>2, <3>1, <3>3, RowKept DEF L
    <3>5. KeyOf(q[i]) = key /\ Taken(q, i, L) <= n
      BY <3>1, <3>4 DEF RowsTo, L
    <3>6. Same(ms, i, L + 1)
      BY <1>3, <1>4, <3>2 DEF Row
    <3>7. KeyOf(e) = KeyOf(ms[i])
      BY <1>3, <3>6 DEF Same, KeyOf
    <3>8. m = n + 1
      BY <3>4, <3>5, <3>7
    <3>9. Taken(ms, i, L + 1) = Taken(ms, i, L) + 1
      <4> DEFINE S == {j \in i .. L : ms[j].role = "assistant"}
      <4>0. i \in Int /\ L \in Int
        BY <1>2, <3>1
      <4>a. IsFiniteSet(S)
        BY <4>0, TakenFinite
      <4>b. L + 1 \notin S
        BY <1>2
      <4>1. IsFiniteSet(S) /\ L + 1 \notin S
        BY <4>a, <4>b
      <4>2. {j \in i .. L + 1 : ms[j].role = "assistant"} = S \cup {L + 1}
        <5>1. i .. L + 1 = (i .. L) \cup {L + 1}
          BY <1>2, <3>1
        <5> QED BY <1>3, <5>1
      <4>3. Cardinality(S \cup {L + 1}) = Cardinality(S) + 1
        BY <4>1, FS_AddElement
      <4> QED BY <4>2, <4>3 DEF Taken
    <3>10. Taken(ms, i, L) \in Nat
      <4>1. i \in Int /\ L \in Int
        BY <1>2, <3>1
      <4> QED BY <4>1, TakenFinite
    <3> QED BY <3>4, <3>5, <3>7, <3>8, <3>9, <3>10
  <2> QED BY <2>1, <2>2
<1>5. RowsTo(ms, b, KeyOf(e), m)
  BY <1>2, <1>4 DEF RowsTo
<1>6. ASSUME NoLongRow(q, b), m <= RepeatLimit PROVE NoLongRow(ms, b)
  <2> SUFFICES ASSUME NEW i \in b + 2 .. Len(ms), NEW k \in b + 2 .. Len(ms), Row(ms, i, k)
               PROVE  Taken(ms, i, k) <= RepeatLimit
    BY DEF NoLongRow
  <2>0. i \in Int /\ k \in Int /\ 0 <= RepeatLimit
    BY AgentAssumption
  <2>1. CASE k < i
    <3>1. Taken(ms, i, k) = 0
      BY <2>0, <2>1, TakenFinite
    <3> QED BY <2>0, <3>1
  <2>2. CASE k = L + 1
    <3>1. Taken(ms, i, k) <= m
      BY <1>4, <2>2
    <3>2. Taken(ms, i, k) \in Nat
      BY <2>0, TakenFinite
    <3> QED BY <1>6, <3>1, <3>2, AgentAssumption
  <2>3. CASE k >= i /\ k # L + 1
    <3>1. i \in 1 .. L /\ k \in 1 .. L /\ i \in b + 2 .. L /\ k \in b + 2 .. L
      BY <1>2, <2>3
    <3>2. Row(q, i, k) /\ Taken(ms, i, k) = Taken(q, i, k)
      BY <1>2, <3>1, RowKept DEF L
    <3> QED BY <1>6, <3>1, <3>2 DEF NoLongRow, L
  <2> QED BY <2>1, <2>2, <2>3
<1> QED BY <1>5, <1>6 DEF ms

\* Without responses after the first entry there is no row.
LEMMA NoRows ==
    ASSUME NEW ms, NEW b, \A i \in b + 2 .. Len(ms) : ms[i].role # "assistant"
    PROVE  NoLongRow(ms, b) /\ \A key, n : RowsTo(ms, b, key, n)
BY DEF NoLongRow, RowsTo, Row

\* Messages of the user ask for no tool calls.
LEMMA QuietUsers ==
    ASSUME NEW p \in Seq(Messages), NEW k \in 0 .. Len(p)
    PROVE  /\ SubSeq(Users(p), 1, k) \in Seq(Entries) /\ Quiet(SubSeq(Users(p), 1, k))
           /\ Users(p) \in Seq(Entries) /\ Quiet(Users(p))
<1>1. /\ Users(p) \in Seq(Entries) /\ Len(Users(p)) = Len(p)
      /\ \A i \in 1 .. Len(p) : Users(p)[i] = User(p[i])
  BY UsersTyped
<1>a. \A m : User(m).role = "user"
  BY DEF User
<1>2. \A i \in 1 .. Len(p) : Users(p)[i].role = "user"
  BY <1>1, <1>a
<1> DEFINE us == Users(p)
<1> HIDE DEF us
<1>3. us \in Seq(Entries) /\ Len(us) = Len(p) /\ \A i \in 1 .. Len(p) : us[i].role = "user"
  BY <1>1, <1>2 DEF us
<1>4. SubSeq(us, 1, k) \in Seq(Entries) /\ Quiet(SubSeq(us, 1, k)) /\ Quiet(us)
  BY <1>3 DEF Quiet
<1> QED BY <1>3, <1>4 DEF us

\* Results ask for nothing.
LEMMA QuietResults ==
    ASSUME NEW r \in Seq(Entries), \A i \in 1 .. Len(r) : r[i].role = "toolResult", NEW k \in 0 .. Len(r)
    PROVE  Quiet(r) /\ SubSeq(r, 1, k) \in Seq(Entries) /\ Quiet(SubSeq(r, 1, k))
BY DEF Quiet

\* Notes ask for nothing.
LEMMA QuietNote ==
    ASSUME ControlTyped, NEW stop \in Stops
    PROVE  /\ Quiet(<<Note(stop)>>) /\ <<Note(stop)>> \in Seq(Entries)
           /\ Note(stop).role = "assistant" /\ Note(stop).calls = 0
<1>1. Note(stop) \in Entries
  BY NoteTyped DEF ControlTyped
<1>2. Note(stop).role = "assistant" /\ Note(stop).calls = 0
  BY DEF Note, Assistant
<1> HIDE DEF Note
<1> QED BY <1>1, <1>2 DEF Quiet

\* The guard's state stays what it was while the loop only emits.
LEMMA QuietRows ==
    ASSUME Typed, Guarded, pc # "idle", base' = base, NEW r \in Seq(Entries), Quiet(r), messages' = messages \o r
    PROVE  /\ NoLongRow(messages', base')
           /\ \A key, n : RowsTo(messages, base, key, n) => RowsTo(messages', base', key, n)
<1>1. messages \in Seq(Entries) /\ base \in Nat
  BY DEF Typed, EntriesTyped, ControlTyped
<1>2. NoLongRow(messages, base)
  BY DEF Guarded
<1> QED BY <1>1, <1>2, RowsQuiet

\* Where the guard has nothing to compare.
LEMMA RowsOnly ==
    ASSUME NoLongRow(messages', base'),
           pc' \in {"ending", "ended", "failing", "failed", "recovered", "stopped", "followUps"}
              \/ (pc' = "batch" /\ batch'.kind # "turn")
    PROVE  Guarded'
BY DEF Guarded

\* A run begins, with no row of its own.
LEMMA RowsBegin ==
    ASSUME Typed, messages' = messages, base' = Len(messages), pc' \in {"prompting", "polling"}
    PROVE  Guarded'
<1>1. Len(messages) \in Nat
  BY DEF Typed, EntriesTyped
<1>2. \A i \in Len(messages) + 2 .. Len(messages) : FALSE
  BY <1>1
<1>3. NoLongRow(messages', base') /\ \A key, n : RowsTo(messages', base', key, n)
  BY <1>2 DEF NoLongRow, RowsTo
<1> QED BY <1>3 DEF Guarded

\* Steps that leave transcript and guard alone.
LEMMA SameGuarded ==
    ASSUME Guarded, pc # "idle", UNCHANGED <<messages, base, guard, pending>>,
           batch'.kind = batch.kind, batch'.key = batch.key,
           pc' = pc \/ pc' \in {"ending", "ended", "failing", "failed", "idle"}
    PROVE  Guarded'
<1>1. Repeats' = Repeats
  BY DEF Repeats
<1> QED BY <1>1 DEF Guarded

\* The guard counts every row of identical tool turns as it grows.
LEMMA GuardedStep ==
    ASSUME Typed, Pipelined, Transcript', Guarded, [Next]_vars
    PROVE  Guarded'
<1> USE DEF Typed
<1>a. messages \in Seq(Entries) /\ Len(messages) \in Nat /\ base \in Nat
  BY DEF EntriesTyped, ControlTyped
<1> USE <1>a
<1>0. CASE UNCHANGED vars
  BY <1>0 DEF Guarded, Repeats, vars
<1>1. ASSUME NEW m \in Messages, Prompt(m) PROVE Guarded'
  <2>1. messages' = messages /\ base' = Len(messages) /\ pc' \in {"prompting", "polling"}
    BY <1>1 DEF Prompt, Begin
  <2> QED BY <2>1, RowsBegin
<1>2. ASSUME NEW m \in Messages, Steer(m) PROVE Guarded'
  <2>1. /\ UNCHANGED <<messages, base, guard, pending, batch>>
        /\ (pc' = pc \/ pc' \in {"ending", "ended", "failing", "failed", "idle"})
    BY <1>2 DEF Steer, scope, loop
  <2>2. CASE pc = "idle"
    BY <1>2, <2>2 DEF Steer, Guarded
  <2> QED BY <2>1, <2>2, SameGuarded
<1>3. ASSUME NEW m \in Messages, FollowUp(m) PROVE Guarded'
  <2>1. /\ UNCHANGED <<messages, base, guard, pending, batch>>
        /\ (pc' = pc \/ pc' \in {"ending", "ended", "failing", "failed", "idle"})
    BY <1>3 DEF FollowUp, scope, loop
  <2>2. CASE pc = "idle"
    BY <1>3, <2>2 DEF FollowUp, Guarded
  <2> QED BY <2>1, <2>2, SameGuarded
<1>4. CASE ClearAllQueues
  <2>1. /\ UNCHANGED <<messages, base, guard, pending, batch>>
        /\ (pc' = pc \/ pc' \in {"ending", "ended", "failing", "failed", "idle"})
    BY <1>4 DEF ClearAllQueues, scope, loop
  <2>2. CASE pc = "idle"
    BY <1>4, <2>2 DEF ClearAllQueues, Guarded
  <2> QED BY <2>1, <2>2, SameGuarded
<1>5. CASE Reset
  BY <1>5 DEF Reset, Guarded
<1>6. CASE Abort
  <2>1. /\ UNCHANGED <<messages, base, guard, pending, batch>>
        /\ (pc' = pc \/ pc' \in {"ending", "ended", "failing", "failed", "idle"})
    BY <1>6 DEF Abort, scope, loop
  <2>2. CASE pc = "idle"
    BY <1>6, <2>2 DEF Abort, Guarded
  <2> QED BY <2>1, <2>2, SameGuarded
<1>7. CASE ContinueQueued
  <2>1. messages' = messages /\ base' = Len(messages) /\ pc' \in {"prompting", "polling"}
    BY <1>7 DEF ContinueQueued, Begin
  <2> QED BY <2>1, RowsBegin
<1>8. CASE Continue
  <2>1. messages' = messages /\ base' = Len(messages) /\ pc' \in {"prompting", "polling"}
    BY <1>8 DEF Continue, Begin
  <2> QED BY <2>1, RowsBegin
<1>9. CASE ResumeToolCalls
  <2>1. PICK i \in 1 .. Len(messages), mode \in ToolModes : ResumesAt(i, mode)
    BY <1>9, ResumesSomewhere
  <2>2. pc' = "batch" /\ batch'.kind = "resume"
    BY <2>1 DEF ResumesAt, Begin
  <2>3. \A j \in base' + 2 .. Len(messages') : messages'[j].role # "assistant"
    BY <2>2 DEF Transcript, ResumedBatch
  <2> QED BY <2>2, <2>3, NoRows, RowsOnly
<1>10. CASE DropFailure
  BY <1>10 DEF DropFailure, Guarded
<1>11. CASE EmitPrompts
  <2>1. /\ pc = "prompting" /\ pc' = "polling" /\ messages' = messages \o Users(pending)
        /\ UNCHANGED <<base, guard>>
    BY <1>11 DEF EmitPrompts, Push, scope
  <2>2. Users(pending) \in Seq(Entries) /\ Quiet(Users(pending))
    BY UsersWhole, QuietUsers DEF MailTyped
  <2>3. NoLongRow(messages', base') /\ RowsTo(messages', base', guard.key, guard.n)
    BY <2>1, <2>2, QuietRows DEF Guarded
  <2> QED BY <2>1, <2>3 DEF Guarded
<1>12. CASE InitialPoll
  <2>1. pc = "polling" /\ pc' \in {"preparing", "injecting"} /\ UNCHANGED <<messages, base, guard>>
    BY <1>12 DEF InitialPoll, scope
  <2> QED BY <2>1 DEF Guarded
<1>13. CASE PrepareNextTurn
  <2>1. /\ pc = "preparing" /\ pc' = "injecting" /\ UNCHANGED <<messages, base, guard>>
        /\ (pending # <<>> => pending' = pending)
    BY <1>13 DEF PrepareNextTurn, PollAgain, scope
  <2> QED BY <2>1 DEF Guarded
<1>14. CASE Inject
  <2>1. /\ pc = "injecting" /\ pc' = "requesting" /\ messages' = messages \o Users(pending) /\ base' = base
        /\ guard' = IF pending = <<>> THEN guard ELSE NoGuard
    BY <1>14 DEF Inject, Push, scope
  <2>2. Users(pending) \in Seq(Entries) /\ Quiet(Users(pending)) /\ pending \in Seq(Messages)
    BY UsersWhole, QuietUsers DEF MailTyped
  <2>3. /\ NoLongRow(messages', base')
        /\ \A key, n : RowsTo(messages, base, key, n) => RowsTo(messages', base', key, n)
    BY <2>1, <2>2, QuietRows
  <2>4. CASE pending = <<>>
    BY <2>1, <2>3, <2>4 DEF Guarded
  <2>5. CASE pending # <<>>
    <3> DEFINE us == Users(pending)
    <3>1. Len(us) = Len(pending) /\ Len(pending) \in Nat \ {0} /\ us[Len(pending)] = User(pending[Len(pending)])
      <4>1. Len(pending) \in Nat \ {0}
        BY <2>2, <2>5
      <4>2. Len(us) = Len(pending) /\ \A i \in 1 .. Len(pending) : us[i] = User(pending[i])
        BY <2>2, UsersTyped
      <4> QED BY <4>1, <4>2
    <3>2. us[Len(us)].role = "user"
      BY <3>1 DEF User
    <3> HIDE DEF us
    <3>3. us \in Seq(Entries) /\ us # <<>> /\ messages' = messages \o us
      BY <2>1, <2>2, <3>1 DEF us
    <3>4. RowsTo(messages', base', guard'.key, guard'.n)
      BY <2>1, <3>2, <3>3, RowsBroken
    <3> QED BY <2>1, <2>3, <3>4 DEF Guarded
  <2> QED BY <2>4, <2>5
<1>15. CASE Request
  <2>1. pc = "requesting" /\ base' = base /\ guard' = guard
    BY <1>15 DEF Request, scope, loop
  <2>2. CASE messages' = messages \o <<Note("aborted")>> /\ pc' = "ending"
    <3>1. Quiet(<<Note("aborted")>>) /\ <<Note("aborted")>> \in Seq(Entries)
      BY QuietNote DEF Stops
    <3> QED BY <2>1, <2>2, <3>1, QuietRows, RowsOnly
  <2>3. CASE messages' = messages /\ pc' = "streaming"
    BY <2>1, <2>3 DEF Guarded
  <2> QED BY <1>15, <2>2, <2>3 DEF Request, Push
<1>16. CASE Recovered
  <2>1. messages' = messages \o <<Note(IF cancelled \/ pc = "stopped" THEN "aborted" ELSE "error")>> /\ base' = base /\ pc' = "ending" /\ pc # "idle"
    BY <1>16 DEF Recovered, Push, scope
  <2>2. Quiet(<<Note(IF cancelled \/ pc = "stopped" THEN "aborted" ELSE "error")>>) /\ <<Note(IF cancelled \/ pc = "stopped" THEN "aborted" ELSE "error")>> \in Seq(Entries)
    BY QuietNote DEF Stops
  <2> QED BY <2>1, <2>2, QuietRows, RowsOnly
<1>17. CASE FailTruncated
  <2> DEFINE rs == Results(batch.turn, DOMAIN batch.phase)
  <2>1. pc = "truncated" /\ pc' = "turnEnd" /\ UNCHANGED <<base, batch, guard>> /\ messages' = messages \o rs
    BY <1>17 DEF FailTruncated, Push, scope
  <2>2. rs \in Seq(Entries) /\ \A i \in 1 .. Len(rs) : rs[i].role = "toolResult"
    BY BatchResults, BatchResultsAre
  <2> HIDE DEF rs
  <2>3. Quiet(rs)
    BY <2>2, QuietResults
  <2>4. NoLongRow(messages', base') /\ RowsTo(messages', base', batch.key, Repeats)
    BY <2>1, <2>2, <2>3, QuietRows DEF Guarded
  <2>5. Repeats' = Repeats
    BY <2>1 DEF Repeats
  <2> QED BY <2>1, <2>4, <2>5 DEF Guarded
<1>18. CASE TurnEnd
  <2>1. /\ pc = "turnEnd" /\ base' = base /\ pc' \in {"ending", "preparing", "followUps"}
        /\ guard' = IF more THEN [key |-> batch.key, n |-> Repeats] ELSE NoGuard
        /\ pc' = "preparing" => more \/ pending' # <<>>
    BY <1>18 DEF TurnEnd, scope
  <2>2. NoLongRow(messages, base) /\ RowsTo(messages, base, batch.key, Repeats)
    BY <2>1 DEF Guarded
  <2>3. CASE messages' = messages \o <<Note("error")>> /\ pc' = "ending"
    <3>1. Quiet(<<Note("error")>>) /\ <<Note("error")>> \in Seq(Entries)
      BY QuietNote DEF Stops
    <3> QED BY <2>1, <2>3, <3>1, QuietRows, RowsOnly
  <2>4. CASE messages' = messages
    <3>1. more => guard'.key = batch.key /\ guard'.n = Repeats
      BY <2>1
    <3>2. CASE pc' = "preparing"
      BY <2>1, <2>2, <2>4, <3>1, <3>2 DEF Guarded
    <3>3. CASE pc' \in {"ending", "followUps"}
      BY <2>1, <2>2, <2>4, <3>3, RowsOnly
    <3> QED BY <2>1, <3>2, <3>3
  <2> QED BY <1>18, <2>3, <2>4 DEF TurnEnd, Push
<1>19. CASE PollFollowUps
  <2>1. /\ pc = "followUps" /\ UNCHANGED <<messages, base>>
        /\ pc' = IF pending' # <<>> THEN "preparing" ELSE "ending"
    BY <1>19 DEF PollFollowUps, scope
  <2> QED BY <2>1 DEF Guarded
<1>20. CASE AgentEnd
  <2>1. /\ UNCHANGED <<messages, base, guard, pending, batch>>
        /\ (pc' = pc \/ pc' \in {"ending", "ended", "failing", "failed", "idle"})
    BY <1>20 DEF AgentEnd, scope, loop
  <2>2. CASE pc = "idle"
    BY <1>20, <2>2 DEF AgentEnd, Guarded
  <2> QED BY <2>1, <2>2, SameGuarded
<1>21. CASE FinishRun
  BY <1>21 DEF FinishRun, Idle, Guarded
<1>22. CASE HandleRunFailure
  <2> DEFINE note == Note(IF cancelled THEN "aborted" ELSE "error")
  <2>1. Quiet(<<note>>) /\ <<note>> \in Seq(Entries)
    BY QuietNote DEF Stops
  <2>2. messages' \in {messages, Append(messages, note)} /\ base' = base /\ pc = "failing" /\ pc' = "failed"
    BY <1>22 DEF HandleRunFailure
  <2> HIDE DEF note
  <2>3. Append(messages, note) = messages \o <<note>>
    BY <2>1
  <2>4. CASE messages' = messages
    BY <2>2, <2>4, RowsOnly DEF Guarded
  <2>5. CASE messages' = messages \o <<note>>
    BY <2>1, <2>2, <2>5, QuietRows, RowsOnly
  <2> QED BY <2>2, <2>3, <2>4, <2>5
<1>23. CASE BatchEnds
  <2> DEFINE answers == Results(batch.turn, In({"done"}))
             whole == Results(batch.turn, In({"done"}) \cup In({"completed"}))
             N == Cardinality(In({"done"}))
  <2>1. pc = "batch" /\ UNCHANGED <<base, guard, batch>>
    BY <1>23 DEF BatchEnds, scope
  <2>2. /\ answers \in Seq(Entries) /\ Len(answers) = N /\ N \in Nat /\ whole \in Seq(Entries)
        /\ \A i \in 1 .. Len(answers) : answers[i].role = "toolResult"
        /\ \A i \in 1 .. Len(whole) : whole[i].role = "toolResult"
    <3>1. answers \in Seq(Entries) /\ Len(answers) = N /\ N \in Nat /\ whole \in Seq(Entries)
      BY InResults
    <3>2. /\ \A i \in 1 .. Len(answers) : answers[i].role = "toolResult"
          /\ \A i \in 1 .. Len(whole) : whole[i].role = "toolResult"
      BY InResultsAre
    <3> QED BY ONLY <3>1, <3>2
  <2>3. \/ messages' = messages /\ pc' = "failing"
        \/ messages' \in {messages, messages \o answers} /\ pc' \in {"stopped", "recovered"}
        \/ messages' \in {messages, messages \o answers} /\ pc' = "turnEnd" /\ batch.kind = "turn"
        \/ pc' = "failing" /\ \E k \in 0 .. N : messages' = SubSeq(messages \o answers, 1, Len(messages) + k)
        \/ /\ batch.kind = "resume" /\ messages' = SubSeq(messages, 1, base + 1) \o whole
           /\ pc' \in {"ending", "polling"}
    BY <1>23 DEF BatchEnds, Ordered
  <2> HIDE DEF answers, whole, N
  <2>4. Quiet(answers) /\ Repeats' = Repeats
    BY <2>1, <2>2, QuietResults DEF Repeats
  <2>5. NoLongRow(messages, base) /\ (batch.kind = "turn" => RowsTo(messages, base, batch.key, Repeats))
    BY <2>1 DEF Guarded
  <2>6. ASSUME messages' \in {messages, messages \o answers}
        PROVE  /\ NoLongRow(messages', base')
               /\ batch.kind = "turn" => RowsTo(messages', base', batch.key, Repeats)
    <3>1. CASE messages' = messages
      BY <2>1, <2>5, <3>1
    <3>2. CASE messages' = messages \o answers
      BY <2>1, <2>2, <2>4, <2>5, <3>2, QuietRows
    <3> QED BY <2>6, <3>1, <3>2
  <2>7. CASE messages' \in {messages, messages \o answers} /\ pc' \in {"failing", "stopped", "recovered"}
    BY <2>6, <2>7, RowsOnly
  <2>8. CASE messages' \in {messages, messages \o answers} /\ pc' = "turnEnd" /\ batch.kind = "turn"
    BY <2>1, <2>4, <2>6, <2>8 DEF Guarded
  <2>9. CASE pc' = "failing" /\ \E k \in 0 .. N : messages' = SubSeq(messages \o answers, 1, Len(messages) + k)
    <3>1. PICK k \in 0 .. N : messages' = SubSeq(messages \o answers, 1, Len(messages) + k)
      BY <2>9
    <3>2. messages' = messages \o SubSeq(answers, 1, k)
      BY <2>2, <3>1, PrefixOfJoin
    <3>3. SubSeq(answers, 1, k) \in Seq(Entries) /\ Quiet(SubSeq(answers, 1, k))
      BY <2>2, QuietResults
    <3> QED BY <2>1, <2>9, <3>2, <3>3, QuietRows, RowsOnly
  <2>10. CASE /\ batch.kind = "resume" /\ messages' = SubSeq(messages, 1, base + 1) \o whole
              /\ pc' \in {"ending", "polling"}
    <3> DEFINE kept == SubSeq(messages, 1, base + 1)
    <3>1. base < Len(messages)
      BY <2>1, <2>10 DEF EntriesTyped
    <3>2. kept \in Seq(Entries) /\ Len(kept) = base + 1
      BY <3>1
    <3>3. messages' = kept \o whole
      BY <2>10
    <3> HIDE DEF kept
    <3>4. ASSUME NEW j \in base' + 2 .. Len(messages') PROVE messages'[j].role # "assistant"
      <4>1. /\ Len(kept \o whole) = Len(kept) + Len(whole)
            /\ \A i \in Len(kept) + 1 .. Len(kept \o whole) :
                  i - Len(kept) \in 1 .. Len(whole) /\ (kept \o whole)[i] = whole[i - Len(kept)]
        BY <2>2, <3>2, JoinGrows
      <4>2. j \in Len(kept) + 1 .. Len(kept \o whole)
        BY <2>1, <3>2, <3>3
      <4> QED BY <2>2, <3>3, <4>1, <4>2
    <3>5. NoLongRow(messages', base') /\ \A key, n : RowsTo(messages', base', key, n)
      BY <3>4, NoRows
    <3> QED BY <2>10, <3>5 DEF Guarded
  <2> QED BY <2>3, <2>7, <2>8, <2>9, <2>10
<1>24. ASSUME NEW c \in 1 .. MaxCalls, Prepare(c) PROVE Guarded'
  <2>1. UNCHANGED <<messages, base, guard, pending, pc>>
    BY <1>24 DEF Prepare, Pipeline, scope, loop
  <2>2. c \in DOMAIN batch.phase /\ batch \in Batches
    BY <1>24 DEF Prepare, Todo, In, BatchTyped
  <2>3. batch'.kind = batch.kind /\ batch'.key = batch.key
    BY <1>24, <2>2, MovesOn, SMTT(30) DEF Prepare, Phases, Batches
  <2>4. CASE pc = "idle"
    BY <2>1, <2>4 DEF Guarded
  <2> QED BY <2>1, <2>3, <2>4, SameGuarded
<1>25. ASSUME NEW c \in 1 .. MaxCalls, Admit(c) PROVE Guarded'
  <2>1. UNCHANGED <<messages, base, guard, pending, pc>>
    BY <1>25 DEF Admit, Pipeline, scope, loop
  <2>2. c \in DOMAIN batch.phase /\ batch \in Batches
    BY <1>25 DEF Admit, Todo, In, BatchTyped
  <2>3. batch'.kind = batch.kind /\ batch'.key = batch.key
    BY <1>25, <2>2, MovesOn, SMTT(30) DEF Admit, Phases, Batches
  <2>4. CASE pc = "idle"
    BY <2>1, <2>4 DEF Guarded
  <2> QED BY <2>1, <2>3, <2>4, SameGuarded
<1>26. ASSUME NEW c \in 1 .. MaxCalls, Acquire(c) PROVE Guarded'
  <2>1. UNCHANGED <<messages, base, guard, pending, pc>>
    BY <1>26 DEF Acquire, Pipeline, scope, loop
  <2>2. c \in DOMAIN batch.phase /\ batch \in Batches
    BY <1>26 DEF Acquire, Todo, In, BatchTyped
  <2>3. batch'.kind = batch.kind /\ batch'.key = batch.key
    BY <1>26, <2>2, MovesOn, SMTT(30) DEF Acquire, Phases, Batches
  <2>4. CASE pc = "idle"
    BY <2>1, <2>4 DEF Guarded
  <2> QED BY <2>1, <2>3, <2>4, SameGuarded
<1>27. ASSUME NEW c \in 1 .. MaxCalls, Dispatch(c) PROVE Guarded'
  <2>1. UNCHANGED <<messages, base, guard, pending, pc>>
    BY <1>27 DEF Dispatch, Pipeline, scope, loop
  <2>2. c \in DOMAIN batch.phase /\ batch \in Batches
    BY <1>27 DEF Dispatch, Todo, In, BatchTyped
  <2>3. batch'.kind = batch.kind /\ batch'.key = batch.key
    BY <1>27, <2>2, MovesOn, SMTT(30) DEF Dispatch, Phases, Batches
  <2>4. CASE pc = "idle"
    BY <2>1, <2>4 DEF Guarded
  <2> QED BY <2>1, <2>3, <2>4, SameGuarded
<1>28. ASSUME NEW c \in 1 .. MaxCalls, Settle(c) PROVE Guarded'
  <2> DEFINE answer == Result(batch.turn, c)
  <2>1. c \in DOMAIN batch.phase /\ batch.turn \in Nat /\ batch \in Batches
    BY <1>28 DEF Settle, In, BatchTyped, Batches
  <2>2. answer \in Entries /\ answer.role = "toolResult"
    BY <2>1 DEF Result, Entries
  <2>3. messages' \in {messages, Append(messages, answer)} /\ UNCHANGED <<base, guard, pending, pc>>
    BY <1>28 DEF Settle, scope, loop
  <2>4. pc = "batch"
    BY <1>28, SettlesInBatch DEF Pipelined
  <2>5. batch'.kind = batch.kind /\ batch'.key = batch.key
    BY <1>28, <2>1, MovesOn DEF Settle, Phases, Batches
  <2> HIDE DEF answer
  <2>6. Append(messages, answer) = messages \o <<answer>> /\ <<answer>> \in Seq(Entries) /\ Quiet(<<answer>>)
    BY <2>2 DEF Quiet
  <2>7. CASE messages' = messages
    BY <2>3, <2>4, <2>5, <2>7, SameGuarded
  <2>8. CASE messages' = messages \o <<answer>>
    <3>1. /\ NoLongRow(messages', base')
          /\ \A key, n : RowsTo(messages, base, key, n) => RowsTo(messages', base', key, n)
      BY <2>3, <2>4, <2>6, <2>8, QuietRows
    <3>2. Repeats' = Repeats
      BY <2>3, <2>5 DEF Repeats
    <3> QED BY <2>3, <2>4, <2>5, <3>1, <3>2 DEF Guarded
  <2> QED BY <2>3, <2>6, <2>7, <2>8
<1>29. CASE Respond
  <2>1. pc = "streaming" /\ UNCHANGED <<base, guard>>
    BY <1>29 DEF Respond, scope
  <2>2. /\ NoLongRow(messages, base) /\ RowsTo(messages, base, guard.key, guard.n)
        /\ guard.n \in Nat /\ guard.n < RepeatLimit /\ guard \in Guards
    BY <2>1 DEF Guarded, ControlTyped, Over, Guards
  <2>3. CASE Push(<<Note("stop")>>) /\ pc' = "turnEnd"
    <3>1. /\ Quiet(<<Note("stop")>>) /\ <<Note("stop")>> \in Seq(Entries)
          /\ Note("stop").role = "assistant" /\ Note("stop").calls = 0
      BY QuietNote DEF Stops
    <3>2. messages' = messages \o <<Note("stop")>>
      BY <2>3 DEF Push
    <3>3. NoLongRow(messages', base')
      BY <2>1, <3>1, <3>2, QuietRows
    <3>4. ASSUME NEW key, NEW n PROVE RowsTo(messages', base', key, n)
      <4> DEFINE e == Note("stop")
      <4> HIDE DEF e
      <4>1. /\ <<e>> \in Seq(Entries) /\ <<e>> # <<>> /\ <<e>>[Len(<<e>>)].role = "assistant"
            /\ <<e>>[Len(<<e>>)].calls = 0 /\ messages' = messages \o <<e>>
        BY <3>1, <3>2 DEF e
      <4> QED BY <2>1, <4>1, RowsBroken
    <3> QED BY <2>3, <3>3, <3>4 DEF Guarded
  <2>4. ASSUME NEW n \in 1 .. MaxCalls, NEW mode \in ToolModes, NEW stop \in {"toolUse", "length"},
               NEW print \in Prints, Push(<<Assistant(turn, n, stop, print, FALSE)>>),
               batch' = NewBatch("turn", mode, n, stop, print), pc' \in {"truncated", "batch"}
        PROVE  Guarded'
    <3> DEFINE e == Assistant(turn, n, stop, print, FALSE)
    <3>1. n \in 0 .. MaxCalls /\ stop \in Stops /\ print \in Prints \cup {"none"}
      BY DEF Stops
    <3>2. e \in Entries
      BY <3>1, AssistantTyped DEF ControlTyped
    <3>3. e.role = "assistant" /\ KeyOf(e) = <<n, stop, print>> /\ batch'.key = <<n, stop, print>>
      BY <2>4 DEF Assistant, KeyOf, NewBatch
    <3>4. messages' = messages \o <<e>>
      BY <2>4, Zenon DEF Push
    <3> HIDE DEF e
    <3>5. Repeats' = (IF guard.key = KeyOf(e) THEN guard.n + 1 ELSE 1)
      BY <2>1, <3>3 DEF Repeats
    <3>6. Repeats' \in Nat /\ Repeats' <= RepeatLimit
      BY <2>2, <3>5, AgentAssumption
    <3>7. RowsTo(messages', base', KeyOf(e), Repeats') /\ NoLongRow(messages', base')
      BY <2>1, <2>2, <3>2, <3>3, <3>4, <3>5, <3>6, RowsMore
    <3> QED BY <2>4, <3>3, <3>7 DEF Guarded
  <2> QED BY <1>29, <2>3, <2>4 DEF Respond
<1>30. CASE RespondError
  <2>1. messages' = messages \o <<Note(IF cancelled THEN "aborted" ELSE "error")>> /\ base' = base /\ pc' = "ending" /\ pc # "idle"
    BY <1>30 DEF RespondError, Push, scope
  <2>2. Quiet(<<Note(IF cancelled THEN "aborted" ELSE "error")>>) /\ <<Note(IF cancelled THEN "aborted" ELSE "error")>> \in Seq(Entries)
    BY QuietNote DEF Stops
  <2> QED BY <2>1, <2>2, QuietRows, RowsOnly
<1>31. CASE RespondCheckpoint
  <2>1. pc = "streaming" /\ UNCHANGED <<base, guard>>
    BY <1>31 DEF RespondCheckpoint, scope, loop
  <2>2. /\ NoLongRow(messages, base) /\ RowsTo(messages, base, guard.key, guard.n)
        /\ guard.n \in Nat /\ guard.n < RepeatLimit
    BY <2>1 DEF Guarded, ControlTyped, Over, Guards
  <2>3. ASSUME NEW e \in Entries, e.role = "assistant", messages' = messages \o <<e>>,
               pc' = "recovered" \/ (pc' = "batch" /\ batch'.kind # "turn")
        PROVE  Guarded'
    <3> DEFINE m == IF guard.key = KeyOf(e) THEN guard.n + 1 ELSE 1
    <3>1. m \in Nat /\ m <= RepeatLimit
      BY <2>2, AgentAssumption
    <3>2. NoLongRow(messages', base')
      BY <2>1, <2>2, <2>3, <3>1, RowsMore
    <3> QED BY <2>3, <3>2, RowsOnly
  <2>4. CASE Push(<<Assistant(turn, 0, "stop", "none", TRUE)>>) /\ pc' = "recovered"
    <3>1. Assistant(turn, 0, "stop", "none", TRUE) \in Entries /\ Assistant(turn, 0, "stop", "none", TRUE).role = "assistant"
      BY FirstTyped DEF Assistant
    <3> QED BY <2>3, <2>4, <3>1, Zenon DEF Push
  <2>5. ASSUME NEW n \in 1 .. MaxCalls, NEW mode \in ToolModes, NEW print \in Prints,
               Push(<<Assistant(turn, n, "toolUse", print, TRUE)>>),
               batch' = NewBatch("checkpoint", mode, n, "toolUse", print), pc' = "batch"
        PROVE  Guarded'
    <3>1. n \in 0 .. MaxCalls /\ "toolUse" \in Stops /\ print \in Prints \cup {"none"}
      BY DEF Stops
    <3>2. Assistant(turn, n, "toolUse", print, TRUE) \in Entries
      BY <3>1, AssistantTyped DEF ControlTyped
    <3>3. Assistant(turn, n, "toolUse", print, TRUE).role = "assistant" /\ batch'.kind # "turn"
      BY <2>5 DEF Assistant, NewBatch
    <3> QED BY <2>3, <2>5, <3>2, <3>3, Zenon DEF Push
  <2> QED BY <1>31, <2>4, <2>5 DEF RespondCheckpoint
<1>32. CASE Throw
  <2>1. PICK k \in 0 .. Len(Emitting) : messages' = messages \o SubSeq(Emitting, 1, k)
    BY <1>32 DEF Throw
  <2>2. base' = base /\ pc' = "failing" /\ pc # "idle"
    BY <1>32 DEF Throw, scope
  <2> SUFFICES NoLongRow(messages', base')
    BY <2>2, RowsOnly
  <2>3. CASE pc \in {"prompting", "injecting"}
    <3>1. Emitting = Users(pending) /\ Len(Users(pending)) = Len(pending) /\ pending \in Seq(Messages)
      BY <2>3, UsersTyped DEF Emitting, MailTyped
    <3>2. k \in 0 .. Len(pending) /\ messages' = messages \o SubSeq(Users(pending), 1, k)
      BY <2>1, <3>1
    <3>3. SubSeq(Users(pending), 1, k) \in Seq(Entries) /\ Quiet(SubSeq(Users(pending), 1, k))
      BY <3>1, <3>2, QuietUsers
    <3> QED BY <2>2, <3>2, <3>3, QuietRows
  <2>4. CASE pc = "truncated"
    <3> DEFINE rs == Results(batch.turn, DOMAIN batch.phase)
    <3>1. rs \in Seq(Entries) /\ \A i \in 1 .. Len(rs) : rs[i].role = "toolResult"
      BY BatchResults, BatchResultsAre
    <3>2. Emitting = rs
      BY <2>4 DEF Emitting
    <3> HIDE DEF rs
    <3>3. SubSeq(rs, 1, k) \in Seq(Entries) /\ Quiet(SubSeq(rs, 1, k))
      BY <2>1, <3>1, <3>2, QuietResults
    <3> QED BY <2>1, <2>2, <3>2, <3>3, QuietRows
  <2>5. CASE pc \notin {"prompting", "injecting", "truncated"}
    <3>1. Emitting = <<>> /\ k = 0
      BY <2>5 DEF Emitting
    <3>2. messages' = messages
      BY <2>1, <3>1
    <3> QED BY <2>2, <3>2 DEF Guarded
  <2> QED BY <2>3, <2>4, <2>5
<1>33. CASE PrepareThrows
  <2>1. /\ UNCHANGED <<messages, base, guard, pending, batch>>
        /\ (pc' = pc \/ pc' \in {"ending", "ended", "failing", "failed", "idle"})
    BY <1>33 DEF PrepareThrows, scope, loop
  <2>2. CASE pc = "idle"
    BY <1>33, <2>2 DEF PrepareThrows, Guarded
  <2> QED BY <2>1, <2>2, SameGuarded
<1>34. CASE Crash
  BY <1>34 DEF Crash, Idle, Guarded
<1>35. ASSUME NEW c \in 1 .. MaxCalls, ExecuteEnds(c) PROVE Guarded'
  <2>1. UNCHANGED <<messages, base, guard, pending, pc>>
    BY <1>35 DEF ExecuteEnds, Pipeline, scope, loop
  <2>2. c \in DOMAIN batch.phase /\ batch \in Batches
    BY <1>35 DEF ExecuteEnds, Todo, In, BatchTyped
  <2>3. batch'.kind = batch.kind /\ batch'.key = batch.key
    BY <1>35, <2>2, MovesOn DEF ExecuteEnds, Phases, Batches
  <2>4. CASE pc = "idle"
    BY <2>1, <2>4 DEF Guarded
  <2> QED BY <2>1, <2>3, <2>4, SameGuarded
<1>36. ASSUME NEW c \in 1 .. MaxCalls, CallThrows(c) PROVE Guarded'
  <2>1. UNCHANGED <<messages, base, guard, pending>> /\ (pc' = pc \/ pc' = "failing") /\ pc = "batch"
    BY <1>36, ThrowsInBatch DEF CallThrows, Pipelined, scope, loop
  <2>2. c \in DOMAIN batch.phase /\ batch \in Batches /\ batch' = To(c, "rejected")
    BY <1>36 DEF CallThrows, In, BatchTyped
  <2>3. batch'.kind = batch.kind /\ batch'.key = batch.key
    BY <2>2, MovesOn DEF Phases
  <2> QED BY <2>1, <2>3, SameGuarded
<1>37. ASSUME NEW c \in 1 .. MaxCalls, BeforeDispatch(c) PROVE Guarded'
  <2>1. UNCHANGED <<messages, base, guard, pending, pc>>
    BY <1>37 DEF BeforeDispatch, Pipeline, scope, loop
  <2>2. c \in DOMAIN batch.phase /\ batch \in Batches
    BY <1>37 DEF BeforeDispatch, Todo, In, BatchTyped
  <2>3. batch'.kind = batch.kind /\ batch'.key = batch.key
    BY <1>37, <2>2, MovesOn, SMTT(30) DEF BeforeDispatch, Phases, Batches
  <2>4. CASE pc = "idle"
    BY <2>1, <2>4 DEF Guarded
  <2> QED BY <2>1, <2>3, <2>4, SameGuarded
<1>38. ASSUME NEW c \in 1 .. MaxCalls, RefuseDispatch(c) PROVE Guarded'
  <2>1. UNCHANGED <<messages, base, guard, pending>> /\ (pc' = pc \/ pc' = "failing") /\ pc = "batch"
    BY <1>38, RefusedInBatch DEF RefuseDispatch, Pipelined, scope, loop
  <2>2. c \in DOMAIN batch.phase /\ batch \in Batches /\ batch' = To(c, "rejected")
    BY <1>38 DEF RefuseDispatch, In, BatchTyped
  <2>3. batch'.kind = batch.kind /\ batch'.key = batch.key
    BY <2>2, MovesOn DEF Phases
  <2> QED BY <2>1, <2>3, SameGuarded
<1>39. CASE Reconcile
  BY <1>39 DEF Reconcile, Guarded
<1> QED BY <1>0, <1>1, <1>2, <1>3, <1>4, <1>5, <1>6, <1>7, <1>8, <1>9, <1>10, <1>11, <1>12,
           <1>13, <1>14, <1>15, <1>16, <1>17, <1>18, <1>19, <1>20, <1>21, <1>22, <1>23, <1>24,
           <1>25, <1>26, <1>27, <1>28, <1>29, <1>30, <1>31, <1>32, <1>33, <1>34, <1>35, <1>36,
           <1>37, <1>38, <1>39
         DEF Next, Caller, Step, Call, Response

\* There is no row in the beginning.
LEMMA GuardedInit == Init => Guarded
BY DEF Init, Guarded

\* IInv: the agent's inductive invariant holds in every state of every run.
THEOREM AgentInvariant == Spec => []IInv
<1>1. Init => IInv
  BY TypedInit, StartedInit, TranscriptInit, SteeredInit, GuardedInit DEF IInv
<1>2. IInv /\ [Next]_vars => IInv'
  <2> SUFFICES ASSUME IInv, [Next]_vars PROVE IInv'
    OBVIOUS
  <2>1. Typed' /\ Pipelined' /\ Transcript' /\ Skipping'
    BY TypedStep, TranscriptStep, SkippingStep DEF IInv
  <2>2. Numbered(messages, turn)' /\ StartedOnce'
    BY TypedStep, NumberStep, StartedStep DEF IInv
  <2>3. Steered'
    <3>1. CASE SteeringMode = "one-at-a-time"
      BY <2>1, <3>1, SteeredStep DEF IInv
    <3>2. CASE SteeringMode # "one-at-a-time"
      BY <3>2 DEF Steered
    <3> QED BY <3>1, <3>2
  <2>4. Guarded'
    BY <2>1, GuardedStep DEF IInv
  <2> QED BY <2>1, <2>2, <2>3, <2>4 DEF IInv
<1> QED BY <1>1, <1>2, PTL DEF Spec

-----------------------------------------------------------------------------
(* What follows from the invariant.                                         *)

\* Consistent, for every number of calls, turns, messages and slots: the agent's
\* state is what its types say, and no call outlives the batch that started it,
\* neither through a cancelled run nor through a throwing hook.
THEOREM AgentConsistent == Spec => []Consistent
<1>1. IInv => Consistent
  BY ConsistentByParts DEF IInv
<1> QED BY <1>1, AgentInvariant, PTL

\* NoEffectAfterCancel: once cancel is requested, no request and no tool starts.
THEOREM CancelStopsEffects == Spec => NoEffectAfterCancel
<1>1. [Next]_vars =>
        [cancelled => started' \subseteq started /\ (pc' = "streaming" => pc = "streaming")]_vars
  <2> SUFFICES ASSUME [Next]_vars, cancelled
               PROVE  started' \subseteq started /\ (pc' = "streaming" => pc = "streaming")
    OBVIOUS
  <2>0. CASE UNCHANGED vars
    BY <2>0 DEF vars
  <2>1. ASSUME NEW m \in Messages, Prompt(m) PROVE started' \subseteq started /\ (pc' = "streaming" => pc = "streaming")
    BY <2>1 DEF Prompt, Begin, NewJournal
  <2>2. ASSUME NEW m \in Messages, Steer(m) PROVE started' \subseteq started /\ (pc' = "streaming" => pc = "streaming")
    BY <2>2 DEF Steer, tools
  <2>3. ASSUME NEW m \in Messages, FollowUp(m) PROVE started' \subseteq started /\ (pc' = "streaming" => pc = "streaming")
    BY <2>3 DEF FollowUp, tools
  <2>4. CASE ClearAllQueues
    BY <2>4 DEF ClearAllQueues, tools
  <2>5. CASE Reset
    BY <2>5 DEF Reset, tools
  <2>6. CASE Abort
    BY <2>6 DEF Abort, tools
  <2>7. CASE ContinueQueued
    BY <2>7 DEF ContinueQueued, Begin, tools
  <2>8. CASE Continue
    BY <2>8 DEF Continue, Begin, tools
  <2>9. CASE ResumeToolCalls
    BY <2>9 DEF ResumeToolCalls, Begin, tools
  <2>10. CASE DropFailure
    BY <2>10 DEF DropFailure, tools
  <2>11. CASE EmitPrompts
    BY <2>11 DEF EmitPrompts, tools
  <2>12. CASE InitialPoll
    BY <2>12 DEF InitialPoll, tools
  <2>13. CASE PrepareNextTurn
    BY <2>13 DEF PrepareNextTurn, tools
  <2>14. CASE Inject
    BY <2>14 DEF Inject, tools
  <2>15. CASE Request
    BY <2>15 DEF Request, CanAdmit, tools
  <2>16. CASE Recovered
    BY <2>16 DEF Recovered, tools
  <2>17. CASE FailTruncated
    BY <2>17 DEF FailTruncated, tools
  <2>18. CASE TurnEnd
    BY <2>18 DEF TurnEnd, tools
  <2>19. CASE PollFollowUps
    BY <2>19 DEF PollFollowUps, tools
  <2>20. CASE AgentEnd
    BY <2>20 DEF AgentEnd, tools
  <2>21. CASE FinishRun
    BY <2>21 DEF FinishRun, Idle, tools
  <2>22. CASE HandleRunFailure
    BY <2>22 DEF HandleRunFailure, tools
  <2>23. CASE BatchEnds
    BY <2>23 DEF BatchEnds, tools
  <2>24. ASSUME NEW c \in 1 .. MaxCalls, Prepare(c) PROVE started' \subseteq started /\ (pc' = "streaming" => pc = "streaming")
    BY <2>24 DEF Prepare, Pipeline, tools
  <2>25. ASSUME NEW c \in 1 .. MaxCalls, Admit(c) PROVE started' \subseteq started /\ (pc' = "streaming" => pc = "streaming")
    BY <2>25 DEF Admit, Pipeline, tools
  <2>26. ASSUME NEW c \in 1 .. MaxCalls, Acquire(c) PROVE started' \subseteq started /\ (pc' = "streaming" => pc = "streaming")
    BY <2>26 DEF Acquire, Pipeline, tools
  <2>27. ASSUME NEW c \in 1 .. MaxCalls, Dispatch(c) PROVE started' \subseteq started /\ (pc' = "streaming" => pc = "streaming")
    BY <2>27 DEF Dispatch, CanAdmit, Pipeline, tools
  <2>28. ASSUME NEW c \in 1 .. MaxCalls, Settle(c) PROVE started' \subseteq started /\ (pc' = "streaming" => pc = "streaming")
    BY <2>28 DEF Settle, tools
  <2>29. CASE Respond
    BY <2>29 DEF Respond, NewJournal
  <2>30. CASE RespondError
    BY <2>30 DEF RespondError, tools
  <2>31. CASE RespondCheckpoint
    BY <2>31 DEF RespondCheckpoint, NewJournal
  <2>32. CASE Throw
    BY <2>32 DEF Throw, tools
  <2>33. CASE PrepareThrows
    BY <2>33 DEF PrepareThrows, tools
  <2>34. CASE Crash
    BY <2>34 DEF Crash, Idle, tools
  <2>35. ASSUME NEW c \in 1 .. MaxCalls, ExecuteEnds(c) PROVE started' \subseteq started /\ (pc' = "streaming" => pc = "streaming")
    BY <2>35 DEF ExecuteEnds, Pipeline, tools
  <2>36. ASSUME NEW c \in 1 .. MaxCalls, CallThrows(c) PROVE started' \subseteq started /\ (pc' = "streaming" => pc = "streaming")
    BY <2>36 DEF CallThrows, tools
  <2>37. ASSUME NEW c \in 1 .. MaxCalls, BeforeDispatch(c) PROVE started' \subseteq started /\ (pc' = "streaming" => pc = "streaming")
    BY <2>37 DEF BeforeDispatch, Pipeline
  <2>38. ASSUME NEW c \in 1 .. MaxCalls, RefuseDispatch(c) PROVE started' \subseteq started /\ (pc' = "streaming" => pc = "streaming")
    BY <2>38 DEF RefuseDispatch
  <2>39. CASE Reconcile
    BY <2>39 DEF Reconcile
  <2> QED BY <2>0, <2>1, <2>2, <2>3, <2>4, <2>5, <2>6, <2>7, <2>8, <2>9, <2>10, <2>11, <2>12,
             <2>13, <2>14, <2>15, <2>16, <2>17, <2>18, <2>19, <2>20, <2>21, <2>22, <2>23,
             <2>24, <2>25, <2>26, <2>27, <2>28, <2>29, <2>30, <2>31, <2>32, <2>33, <2>34,
             <2>35, <2>36, <2>37, <2>38, <2>39
           DEF Next, Caller, Step, Call, Response
<1> QED BY <1>1, PTL DEF Spec, NoEffectAfterCancel

\* ExecutedOnce, for every number of calls, turns and process deaths: a run, also one
\* that resumes the batch of another run or process, executes a call that was executed
\* before only if its tool was and is one that may be replayed, and it has no result.
THEOREM CallsExecuteOnce == Spec => ExecutedOnce
<1>1. IInv /\ [Next]_vars =>
        [\A c \in 1 .. MaxCalls :
            LET x == <<batch'.turn, c>> IN
            c \in In({"executing"})' /\ c \notin In({"executing"}) =>
                /\ batch'.turn = step /\ x \notin persisted
                /\ x \in started => x \in safe \ unsafe]_vars
  BY FreshStep DEF IInv, StartsFresh
<1> QED BY <1>1, AgentInvariant, PTL DEF Spec, ExecutedOnce

\* RequestWellFormed, for every number of calls, turns and messages: a request carries
\* what the user sees, with an answer to every tool call of the run.
THEOREM RequestsWellFormed == Spec => []RequestWellFormed
<1>1. IInv => RequestWellFormed
  BY DEF IInv, Transcript, Agreeing, RequestWellFormed, AllAnswered, Asks, Replied, Answered
<1> QED BY <1>1, AgentInvariant, PTL

\* OneSteeringPerTurn, for every number of messages and turns: in one-at-a-time mode a
\* request follows at most one steering message, although agent.ts drains the queue in
\* continue() and agent-loop.ts polls it in three places.
THEOREM OneSteering == Spec => []OneSteeringPerTurn
<1>1. IInv => OneSteeringPerTurn
  <2> SUFFICES ASSUME OneFresh(messages, base) PROVE Cardinality(Fresh(Steers)) <= 1
    BY DEF IInv, Steered, OneSteeringPerTurn
  <2>1. \A i, j \in Fresh(Steers) : i = j
    BY DEF OneFresh, Unread, Steering, Fresh
  <2>2. CASE Fresh(Steers) = {}
    BY <2>2, FS_EmptySet
  <2>3. CASE Fresh(Steers) # {}
    <3>1. PICK i \in Fresh(Steers) : TRUE
      BY <2>3
    <3>2. Fresh(Steers) = {i}
      BY <2>1
    <3> QED BY <3>2, FS_Singleton
  <2> QED BY <2>2, <2>3
<1> QED BY <1>1, AgentInvariant, PTL

\* NoEndlessRepetition, for every limit and every number of turns: runLoop()'s
\* no-progress guard bounds identical tool turns in a row, although it is compared
\* after a turn, reset by a message, and not consulted for recovered or resumed ones.
THEOREM RepetitionBounded == Spec => []NoEndlessRepetition
<1>1. IInv => NoEndlessRepetition
  BY DEF IInv, Guarded, NoLongRow, Row, Same, Taken, NoEndlessRepetition, Alike
<1> QED BY <1>1, AgentInvariant, PTL
=============================================================================
