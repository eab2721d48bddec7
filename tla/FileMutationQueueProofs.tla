----------------------- MODULE FileMutationQueueProofs -----------------------
(***************************************************************************)
(* Safety of the file mutation queue for any number of calls, paths and      *)
(* files: mutual exclusion, the upkeep of state.queues, and that the chain   *)
(* of promises implements FileLock.                                          *)
(***************************************************************************)
EXTENDS FileMutationQueue, TLAPS

USE QueueAssumption

\* A call has a place in the order from the call on, and no two have the same one.
TicketsOrder ==
    /\ \A c \in Calls : ticket[c] <= count /\ (pc[c] = "idle" <=> ticket[c] = 0)
    /\ \A c, d \in Calls : ticket[c] = ticket[d] /\ ticket[c] # 0 => c = d

\* state.registration is the last call, and previous leads from each call to the one
\* before it.
ChainOrder ==
    /\ registration = "none" <=> count = 0
    /\ registration # "none" => ticket[registration] = count
    /\ \A c \in Calls : pc[c] # "idle" =>
          IF previous[c] = "none" THEN ticket[c] = 1
          ELSE 0 < ticket[previous[c]] /\ ticket[previous[c]] + 1 = ticket[c]

Registered(c) == pc[c] \in {"queued", "running", "failed"} \cup Ended

\* Calls register in the order of the calls: a call whose registration has begun has
\* nothing but settled registrations before it.
RegisteredInOrder ==
    \A c, d \in Calls :
        0 < ticket[d] /\ ticket[d] < ticket[c] /\ pc[c] # "registering" => Registered(d)

Live(c) == pc[c] \in {"queued", "running"}
Located(c) == pc[c] \in {"resolved", "queued", "running"} \cup Ended

\* Call d comes before c in the queue of their file.
Before(d, c) == Located(d) /\ key[d] = key[c] /\ 0 < ticket[d] /\ ticket[d] < ticket[c]

\* A call has a path from the call on, and a key once its file is known.
KeyKnown ==
    \A c \in Calls : (pc[c] # "idle" => path[c] \in Paths) /\ (Located(c) <=> key[c] # "none")

\* What a registered call awaits is before it, and every live call before it is at or
\* before that one.
AwaitsPredecessor ==
    \A c \in Calls : pc[c] \in {"queued", "running"} \cup Ended =>
        /\ currentQueue[c] # "none" => Before(currentQueue[c], c)
        /\ \A d \in Calls : Before(d, c) /\ Live(d) =>
              currentQueue[c] # "none" /\ ticket[d] <= ticket[currentQueue[c]]

\* A call that runs or has run has nothing live before it; nor has a resolved promise.
NothingBefore ==
    \A c \in Calls : pc[c] \in {"running"} \cup Ended \/ c \in resolved =>
        \A d \in Calls : Before(d, c) => pc[d] \in Ended

IInv ==
    /\ TypeOK /\ TicketsOrder /\ ChainOrder /\ RegisteredInOrder /\ KeyKnown
    /\ AwaitsPredecessor /\ NothingBefore /\ QueuesTight

\* Before the first call there is nothing to order.
LEMMA InitIInv == Init => IInv
BY DEF Init, IInv, TypeOK, TicketsOrder, ChainOrder, RegisteredInOrder, Registered, Live, Located, Before, KeyKnown, AwaitsPredecessor, NothingBefore, QueuesTight, Ended

\* When its predecessor's registration has settled, so have all earlier ones.
LEMMA EarlierRegistered ==
    ASSUME IInv, NEW c \in Calls, pc[c] = "registering", RegistrationReached(c),
           NEW d \in Calls, 0 < ticket[d], ticket[d] < ticket[c]
    PROVE  Registered(d)
<1>1. previous[c] \in Calls /\ ticket[previous[c]] + 1 = ticket[c] /\ Registered(previous[c])
  BY DEF IInv, TypeOK, ChainOrder, RegistrationReached, Registered
<1>2. CASE ticket[d] < ticket[previous[c]]
  BY <1>1, <1>2 DEF IInv, RegisteredInOrder, Registered, Ended
<1>3. CASE ticket[d] = ticket[previous[c]]
  BY <1>1, <1>3 DEF IInv, TicketsOrder
<1> QED
  BY <1>1, <1>2, <1>3 DEF IInv, TypeOK

\* When the promise a call awaits is resolved, every earlier mutation of its file is over.
LEMMA ReachedMeansOver ==
    ASSUME IInv, NEW c \in Calls, pc[c] \in {"queued", "running"} \cup Ended, QueueReached(c),
           NEW d \in Calls, Before(d, c)
    PROVE  pc[d] \in Ended
<1>1. Live(d) \/ pc[d] \in Ended
  BY DEF IInv, RegisteredInOrder, Registered, Before, Located, Live, Ended
<1>2. SUFFICES ASSUME Live(d) PROVE FALSE
  BY <1>1
<1>3. currentQueue[c] \in Calls /\ ticket[d] <= ticket[currentQueue[c]] /\ Before(currentQueue[c], c)
  BY <1>2 DEF IInv, TypeOK, AwaitsPredecessor
<1>4. currentQueue[c] \in resolved /\ pc[currentQueue[c]] \in Ended
  BY <1>3 DEF IInv, TypeOK, QueueReached
<1>5. CASE ticket[d] < ticket[currentQueue[c]]
  BY <1>2, <1>3, <1>4, <1>5 DEF IInv, NothingBefore, Before, Live, Ended
<1>6. CASE ticket[d] = ticket[currentQueue[c]]
  BY <1>2, <1>3, <1>4, <1>6 DEF IInv, TicketsOrder, Before, Live, Ended
<1> QED
  BY <1>3, <1>5, <1>6 DEF IInv, TypeOK

\* A call that is about to register is later than every call in a queue.
LEMMA LastOfAll ==
    ASSUME IInv, NEW c \in Calls, pc[c] = "resolved",
           NEW d \in Calls, pc[d] \in {"queued", "running"} \cup Ended
    PROVE  0 < ticket[d] /\ ticket[d] < ticket[c]
<1>1. ticket[c] \in Nat /\ ticket[d] \in Nat /\ 0 < ticket[c] /\ 0 < ticket[d]
  BY DEF IInv, TypeOK, TicketsOrder, Ended
<1>2. c # d /\ ~Registered(c)
  BY DEF Registered, Ended
<1>3. ~(ticket[c] < ticket[d])
  BY <1>1, <1>2 DEF IInv, RegisteredInOrder, Ended
<1>4. ticket[c] # ticket[d]
  BY <1>1, <1>2 DEF IInv, TicketsOrder
<1> QED
  BY <1>1, <1>3, <1>4

\* The file system may change at any time: keys are read once.
LEMMA RelinkIInv ==
    ASSUME IInv, NEW p \in Paths, NEW k \in Keys, Relink(p, k)
    PROVE  IInv'
<1>1. TypeOK'
  BY DEF IInv, TypeOK, Ended, Relink
<1>2. TicketsOrder'
  BY DEF IInv, TypeOK, TicketsOrder, Relink
<1>3. ChainOrder'
  BY DEF IInv, TypeOK, TicketsOrder, ChainOrder, Relink
<1>4. RegisteredInOrder'
  BY DEF IInv, TypeOK, TicketsOrder, RegisteredInOrder, Registered, Ended, Relink
<1>5. KeyKnown'
  BY DEF IInv, TypeOK, KeyKnown, Located, Ended, Relink
<1>6. AwaitsPredecessor'
  BY DEF IInv, TypeOK, TicketsOrder, AwaitsPredecessor, Before, Live, Located, Ended, Relink
<1>7. NothingBefore'
  BY DEF IInv, TypeOK, TicketsOrder, NothingBefore, Before, Located, Ended, Relink
<1>8. QueuesTight'
  BY DEF IInv, TypeOK, TicketsOrder, KeyKnown, QueuesTight, Located, Ended, Relink
<1> QED
  BY <1>1, <1>2, <1>3, <1>4, <1>5, <1>6, <1>7, <1>8 DEF IInv

\* A call takes the last place.
LEMMA CallIInv ==
    ASSUME IInv, NEW c \in Calls, NEW p \in Paths, Call(c, p)
    PROVE  IInv'
<1>1. TypeOK'
  BY DEF IInv, TypeOK, Ended, Call
<1>2. TicketsOrder'
  BY DEF IInv, TypeOK, TicketsOrder, Call
<1>3. ChainOrder'
  <2>1. ticket[c] = 0 /\ ticket'[c] = count + 1 /\ \A d \in Calls \ {c} : ticket'[d] = ticket[d]
    BY DEF IInv, TypeOK, TicketsOrder, Call
  <2>2. registration' = c /\ count' = count + 1 /\ count + 1 # 0
    BY DEF IInv, TypeOK, Call
  <2>3. registration # c /\ \A d \in Calls : pc[d] # "idle" => previous[d] # c
    BY <2>1 DEF IInv, TypeOK, TicketsOrder, ChainOrder
  <2>4. ASSUME NEW d \in Calls, pc'[d] # "idle"
        PROVE  IF previous'[d] = "none" THEN ticket'[d] = 1
               ELSE 0 < ticket'[previous'[d]] /\ ticket'[previous'[d]] + 1 = ticket'[d]
    <3>1. CASE d = c
      BY <2>1, <2>3, <3>1 DEF IInv, TypeOK, ChainOrder, Call
    <3>2. CASE d # c
      BY <2>1, <2>3, <2>4, <3>2 DEF IInv, TypeOK, ChainOrder, Call
    <3> QED
      BY <3>1, <3>2
  <2> QED
    BY <2>1, <2>2, <2>4 DEF ChainOrder
<1>4. RegisteredInOrder'
  BY DEF IInv, TypeOK, TicketsOrder, RegisteredInOrder, Registered, Ended, ChainOrder, Call
<1>5. KeyKnown'
  BY DEF IInv, TypeOK, KeyKnown, Located, Ended, TicketsOrder, Call
<1>6. AwaitsPredecessor'
  BY DEF IInv, TypeOK, TicketsOrder, AwaitsPredecessor, Before, Live, Located, Ended, Call
<1>7. NothingBefore'
  BY DEF IInv, TypeOK, TicketsOrder, NothingBefore, Before, Located, Ended, Call
<1>8. QueuesTight'
  BY DEF IInv, TypeOK, TicketsOrder, KeyKnown, QueuesTight, Located, Ended, Call
<1> QED
  BY <1>1, <1>2, <1>3, <1>4, <1>5, <1>6, <1>7, <1>8 DEF IInv

\* A call learns its file when every earlier one has registered.
LEMMA ResolveIInv ==
    ASSUME IInv, NEW c \in Calls, Resolve(c)
    PROVE  IInv'
<1>1. TypeOK'
  BY DEF IInv, TypeOK, KeyKnown, Ended, Resolve
<1>2. TicketsOrder'
  BY DEF IInv, TypeOK, TicketsOrder, Resolve
<1>3. ChainOrder'
  BY DEF IInv, TypeOK, TicketsOrder, ChainOrder, Resolve
<1>4. RegisteredInOrder'
  BY EarlierRegistered DEF IInv, TypeOK, TicketsOrder, RegisteredInOrder, Registered, Ended, Resolve
<1>5. KeyKnown'
  BY DEF IInv, TypeOK, KeyKnown, Located, Ended, Resolve
<1>6. AwaitsPredecessor'
  BY DEF IInv, TypeOK, TicketsOrder, AwaitsPredecessor, Before, Live, Located, Ended, Resolve
<1>7. NothingBefore'
  <2> SUFFICES ASSUME NEW d \in Calls, pc'[d] \in {"running"} \cup Ended \/ d \in resolved',
                      NEW e \in Calls, Before(e, d)'
               PROVE  pc'[e] \in Ended
    BY DEF NothingBefore
  <2>1. d # c /\ pc[d] \in {"running"} \cup Ended
    BY DEF IInv, TypeOK, Ended, Resolve
  <2>2. e # c
    BY <2>1 DEF IInv, TypeOK, RegisteredInOrder, Registered, Before, Ended, Resolve
  <2> QED
    BY <2>1, <2>2 DEF IInv, TypeOK, NothingBefore, Before, Located, Resolve
<1>8. QueuesTight'
  BY DEF IInv, TypeOK, TicketsOrder, KeyKnown, QueuesTight, Located, Ended, Resolve
<1> QED
  BY <1>1, <1>2, <1>3, <1>4, <1>5, <1>6, <1>7, <1>8 DEF IInv

\* A call without a file counts as registered.
LEMMA ResolveFailsIInv ==
    ASSUME IInv, NEW c \in Calls, ResolveFails(c)
    PROVE  IInv'
<1>1. TypeOK'
  BY DEF IInv, TypeOK, Ended, ResolveFails
<1>2. TicketsOrder'
  BY DEF IInv, TypeOK, TicketsOrder, ResolveFails
<1>3. ChainOrder'
  BY DEF IInv, TypeOK, TicketsOrder, ChainOrder, ResolveFails
<1>4. RegisteredInOrder'
  BY EarlierRegistered DEF IInv, TypeOK, TicketsOrder, RegisteredInOrder, Registered, Ended, ResolveFails
<1>5. KeyKnown'
  BY DEF IInv, TypeOK, KeyKnown, Located, Ended, ResolveFails
<1>6. AwaitsPredecessor'
  BY DEF IInv, TypeOK, TicketsOrder, AwaitsPredecessor, Before, Live, Located, Ended, ResolveFails
<1>7. NothingBefore'
  BY DEF IInv, TypeOK, TicketsOrder, NothingBefore, Before, Located, Ended, ResolveFails
<1>8. QueuesTight'
  BY DEF IInv, TypeOK, TicketsOrder, KeyKnown, QueuesTight, Located, Ended, ResolveFails
<1> QED
  BY <1>1, <1>2, <1>3, <1>4, <1>5, <1>6, <1>7, <1>8 DEF IInv

\* The new tail is the last call of its file.
LEMMA RegisterIInv ==
    ASSUME IInv, NEW c \in Calls, Register(c)
    PROVE  IInv'
<1>1. TypeOK'
  BY DEF IInv, TypeOK, KeyKnown, Located, Ended, Register
<1>2. TicketsOrder'
  BY DEF IInv, TypeOK, TicketsOrder, Register
<1>3. ChainOrder'
  BY DEF IInv, TypeOK, TicketsOrder, ChainOrder, Register
<1>4. RegisteredInOrder'
  BY DEF IInv, TypeOK, TicketsOrder, RegisteredInOrder, Registered, Ended, Register
<1>5. KeyKnown'
  BY DEF IInv, TypeOK, KeyKnown, Located, Ended, Register
<1>6. AwaitsPredecessor'
  <2> DEFINE q == queues[key[c]]
  <2>1. key[c] \in Keys /\ q \in Calls \cup {"none"} /\ c \notin {q}
    BY DEF IInv, TypeOK, KeyKnown, Located, QueuesTight, Register
  <2>2. q # "none" => Before(q, c)
    BY <2>1, LastOfAll DEF IInv, QueuesTight, Before, Located, Register
  <2>3. ASSUME NEW d \in Calls, Before(d, c), Live(d)
        PROVE  q # "none" /\ ticket[d] <= ticket[q]
    BY <2>1, <2>3 DEF IInv, QueuesTight, Before, Live, Register
  <2>4. ASSUME NEW d \in Calls, d # c, pc[d] \in {"queued", "running"} \cup Ended
        PROVE  ~Before(c, d)
    BY <2>4, LastOfAll DEF IInv, TypeOK, Before, Register
  <2> SUFFICES ASSUME NEW d \in Calls, pc'[d] \in {"queued", "running"} \cup Ended
               PROVE  /\ currentQueue'[d] # "none" => Before(currentQueue[d], d)'
                      /\ \A e \in Calls : Before(e, d)' /\ Live(e)' =>
                            currentQueue'[d] # "none" /\ ticket[e] <= ticket[currentQueue'[d]]
    BY DEF AwaitsPredecessor, Before, Live, Located, Register
  <2>5. \A e, g \in Calls : Before(e, g)' <=> Before(e, g)
    BY DEF IInv, TypeOK, Before, Located, Register
  <2>6. \A e \in Calls : Live(e)' <=> Live(e) \/ e = c
    BY DEF IInv, TypeOK, Live, Register
  <2>7. CASE d = c
    BY <2>1, <2>2, <2>3, <2>5, <2>6, <2>7 DEF IInv, TypeOK, Before, Register
  <2>8. CASE d # c
    <3>1. pc[d] \in {"queued", "running"} \cup Ended /\ currentQueue'[d] = currentQueue[d]
      BY <2>8 DEF IInv, TypeOK, Register
    <3> QED
      BY <3>1, <2>4, <2>5, <2>6, <2>8 DEF IInv, TypeOK, AwaitsPredecessor, Register
  <2> QED
    BY <2>7, <2>8
<1>7. NothingBefore'
  BY DEF IInv, TypeOK, TicketsOrder, NothingBefore, Before, Located, Ended, Register
<1>8. QueuesTight'
  <2>1. key[c] \in Keys
    BY DEF IInv, TypeOK, KeyKnown, Located, Register
  <2>2. \A d \in Calls : pc[d] \in {"queued", "running"} => ticket[d] <= ticket[c]
    BY LastOfAll DEF IInv, TypeOK, Register
  <2> QED
    BY <2>1, <2>2 DEF IInv, TypeOK, QueuesTight, Register
<1> QED
  BY <1>1, <1>2, <1>3, <1>4, <1>5, <1>6, <1>7, <1>8 DEF IInv

\* When the awaited promise is resolved, everything before the call is over.
LEMMA RunIInv ==
    ASSUME IInv, NEW c \in Calls, Run(c)
    PROVE  IInv'
<1>1. TypeOK'
  BY DEF IInv, TypeOK, Ended, Run, QueueReached
<1>2. TicketsOrder'
  BY DEF IInv, TypeOK, TicketsOrder, Run, QueueReached
<1>3. ChainOrder'
  BY DEF IInv, TypeOK, TicketsOrder, ChainOrder, Run, QueueReached
<1>4. RegisteredInOrder'
  BY DEF IInv, TypeOK, TicketsOrder, RegisteredInOrder, Registered, Ended, Run, QueueReached
<1>5. KeyKnown'
  BY DEF IInv, TypeOK, KeyKnown, Located, Ended, Run, QueueReached
<1>6. AwaitsPredecessor'
  BY DEF IInv, TypeOK, TicketsOrder, AwaitsPredecessor, Before, Live, Located, Ended, Run, QueueReached
<1>7. NothingBefore'
  <2>1. \A d \in Calls : Before(d, c) => pc[d] \in Ended
    BY ReachedMeansOver DEF Run
  <2> QED
    BY <2>1 DEF IInv, TypeOK, NothingBefore, Before, Located, Ended, Run
<1>8. QueuesTight'
  BY DEF IInv, TypeOK, TicketsOrder, KeyKnown, QueuesTight, Located, Ended, Run, QueueReached
<1> QED
  BY <1>1, <1>2, <1>3, <1>4, <1>5, <1>6, <1>7, <1>8 DEF IInv

\* A call that ends was the first of its queue; what is left is behind it.
LEMMA FinishIInv ==
    ASSUME IInv, NEW c \in Calls, NEW how \in Ended, Finish(c, how)
    PROVE  IInv'
<1>1. TypeOK'
  BY DEF IInv, TypeOK, KeyKnown, Located, Ended, Finish, Dequeue
<1>2. TicketsOrder'
  BY DEF IInv, TypeOK, TicketsOrder, Ended, Finish
<1>3. ChainOrder'
  BY DEF IInv, TypeOK, TicketsOrder, ChainOrder, Finish, Dequeue
<1>4. RegisteredInOrder'
  BY DEF IInv, TypeOK, TicketsOrder, RegisteredInOrder, Registered, Ended, Finish, Dequeue
<1>5. KeyKnown'
  BY DEF IInv, TypeOK, KeyKnown, Located, Ended, Finish, Dequeue
<1>6. AwaitsPredecessor'
  BY DEF IInv, TypeOK, TicketsOrder, AwaitsPredecessor, Before, Live, Located, Ended, Finish, Dequeue
<1>7. NothingBefore'
  BY DEF IInv, TypeOK, TicketsOrder, NothingBefore, Before, Located, Ended, Finish, Dequeue
<1>8. QueuesTight'
  <2>1. key[c] \in Keys
    BY DEF IInv, TypeOK, KeyKnown, Located, Finish
  <2>2. \A d \in Calls \ {c} : key[d] = key[c] /\ Live(d) => ticket[c] < ticket[d]
    <3> SUFFICES ASSUME NEW d \in Calls \ {c}, key[d] = key[c], Live(d)
                 PROVE  ticket[c] < ticket[d]
      OBVIOUS
    <3>1. pc[d] \notin Ended /\ Located(d)
      BY DEF Live, Located, Ended
    <3>2. ticket[c] \in Nat /\ ticket[d] \in Nat /\ 0 < ticket[c] /\ 0 < ticket[d]
      BY DEF IInv, TypeOK, TicketsOrder, Live, Finish
    <3>3. ~(ticket[d] < ticket[c])
      BY <3>1, <3>2 DEF IInv, NothingBefore, Before, Finish
    <3>4. ticket[d] # ticket[c]
      BY <3>2 DEF IInv, TicketsOrder
    <3> QED
      BY <3>2, <3>3, <3>4
  <2>3. queues[key[c]] # "none"
    BY <2>1 DEF IInv, QueuesTight, Finish
  <2>4. ASSUME NEW k \in Keys
        PROVE  LET live == {d \in Calls : key[d] = k /\ pc'[d] \in {"queued", "running"}}
               IN  IF queues'[k] = "none" THEN live = {}
                   ELSE queues'[k] \in live /\ \A d \in live : ticket[d] <= ticket[queues'[k]]
    <3>1. CASE k # key[c]
      BY <2>1, <3>1 DEF IInv, TypeOK, QueuesTight, Ended, Finish, Dequeue
    <3>2. CASE k = key[c] /\ queues[k] # c
      BY <2>1, <2>3, <3>2 DEF IInv, TypeOK, QueuesTight, Ended, Finish, Dequeue
    <3>3. CASE k = key[c] /\ queues[k] = c
      BY <2>1, <2>2, <3>3 DEF IInv, TypeOK, QueuesTight, Live, Ended, Finish, Dequeue
    <3> QED
      BY <3>1, <3>2, <3>3
  <2> QED
    BY <2>4 DEF QueuesTight, Finish
<1> QED
  BY <1>1, <1>2, <1>3, <1>4, <1>5, <1>6, <1>7, <1>8 DEF IInv

\* A promise resolves behind everything before it.
LEMMA ChainResolvesIInv ==
    ASSUME IInv, NEW c \in Calls, ChainResolves(c)
    PROVE  IInv'
<1>1. TypeOK'
  BY DEF IInv, TypeOK, Ended, ChainResolves, QueueReached
<1>2. TicketsOrder'
  BY DEF IInv, TypeOK, TicketsOrder, ChainResolves, QueueReached
<1>3. ChainOrder'
  BY DEF IInv, TypeOK, TicketsOrder, ChainOrder, ChainResolves, QueueReached
<1>4. RegisteredInOrder'
  BY DEF IInv, TypeOK, TicketsOrder, RegisteredInOrder, Registered, Ended, ChainResolves, QueueReached
<1>5. KeyKnown'
  BY DEF IInv, TypeOK, KeyKnown, Located, Ended, ChainResolves, QueueReached
<1>6. AwaitsPredecessor'
  BY DEF IInv, TypeOK, TicketsOrder, AwaitsPredecessor, Before, Live, Located, Ended, ChainResolves, QueueReached
<1>7. NothingBefore'
  BY DEF IInv, TypeOK, TicketsOrder, NothingBefore, Before, Located, Ended, ChainResolves, QueueReached
<1>8. QueuesTight'
  BY DEF IInv, TypeOK, TicketsOrder, KeyKnown, QueuesTight, Located, Ended, ChainResolves, QueueReached
<1> QED
  BY <1>1, <1>2, <1>3, <1>4, <1>5, <1>6, <1>7, <1>8 DEF IInv
\* The invariant of the queue.
LEMMA Invariant == Spec => []IInv
<1>1. IInv /\ [Next]_vars => IInv'
  <2> SUFFICES ASSUME IInv, [Next]_vars PROVE IInv'
    OBVIOUS
  <2>1. CASE UNCHANGED vars
    BY <2>1 DEF vars, IInv, TypeOK, TicketsOrder, ChainOrder, RegisteredInOrder, Registered, Live,
                Located, Before, KeyKnown, AwaitsPredecessor, NothingBefore, QueuesTight
  <2>2. CASE \E p \in Paths, k \in Keys : Relink(p, k)
    BY <2>2, RelinkIInv
  <2>3. CASE \E c \in Calls, p \in Paths : Call(c, p)
    BY <2>3, CallIInv
  <2>4. CASE \E c \in Calls : Step(c)
    BY <2>4, ResolveIInv, ResolveFailsIInv, RegisterIInv, RunIInv, FinishIInv, ChainResolvesIInv DEF Step
  <2> QED
    BY <2>1, <2>2, <2>3, <2>4 DEF Next
<1> QED
  BY InitIInv, <1>1, PTL DEF Spec

\* The state of the queue stays in its domains; a call lets the next one in when, and
\* only when, its own mutation has settled.
THEOREM TypeCorrect == Spec => []TypeOK
BY Invariant, PTL DEF IInv

\* Two mutations of one canonical file never overlap, for any number of calls.
THEOREM Exclusion == Spec => []MutualExclusion
<1>1. IInv => MutualExclusion
  <2> SUFFICES ASSUME IInv, NEW c \in Calls, NEW d \in Calls,
                      pc[c] = "running", pc[d] = "running", key[c] = key[d]
               PROVE  c = d
    BY DEF MutualExclusion
  <2>1. ticket[c] \in Nat /\ ticket[d] \in Nat /\ 0 < ticket[c] /\ 0 < ticket[d]
    BY DEF IInv, TypeOK, TicketsOrder
  <2>2. ~(ticket[d] < ticket[c]) /\ ~(ticket[c] < ticket[d])
    BY <2>1 DEF IInv, NothingBefore, Before, Located, Ended
  <2> QED
    BY <2>1, <2>2 DEF IInv, TicketsOrder
<1> QED
  BY <1>1, Invariant, PTL

\* The map of queues has exactly the files with a queued or running mutation.
THEOREM NoLeak == Spec => []QueuesTight
BY Invariant, PTL DEF IInv

\* Mutual exclusion, and a map of queues without leaks or losses, for any number of
\* calls, paths and files.
THEOREM ConsistentQueues == Spec => []Consistent
BY TypeCorrect, Exclusion, NoLeak, PTL DEF Consistent

\* The promise chains implement the lock: a call is let in only when every earlier call
\* of its file is over, and every other step is one of the lock or none.
THEOREM Refinement == Spec => ImplementsFileLock
<1>1. Init => Lock!Init
  <2> SUFFICES ASSUME Init PROVE Lock!Init
    OBVIOUS
  <2>1. \A c \in Calls : Phase(c) = "idle"
    BY DEF Init, Phase, Ended
  <2> QED
    BY <2>1 DEF Init, Lock!Init
<1>2. IInv /\ [Next]_vars => [Lock!Next]_(Lock!vars)
  <2> SUFFICES ASSUME IInv, [Next]_vars PROVE [Lock!Next]_(Lock!vars)
    OBVIOUS
  <2> USE DEF Phase, Ended
  <2>1. CASE UNCHANGED vars
    BY <2>1 DEF vars, Lock!vars
  <2>2. CASE \E p \in Paths, k \in Keys : Relink(p, k)
    BY <2>2 DEF Relink, Lock!vars
  <2>3. ASSUME NEW c \in Calls, NEW p \in Paths, Call(c, p) PROVE Lock!Ask(c)
    <3>1. Phase(c) = "idle" /\ \A d \in Calls : Phase(d)' = IF d = c THEN "pending" ELSE Phase(d)
      BY <2>3 DEF IInv, TypeOK, Call
    <3>2. [d \in Calls |-> Phase(d)]' = [[d \in Calls |-> Phase(d)] EXCEPT ![c] = "pending"]
      BY <3>1
    <3> QED
      BY <2>3, <3>1, <3>2 DEF IInv, TypeOK, KeyKnown, Call, Lock!Ask
  <2>4. ASSUME NEW c \in Calls, Resolve(c) PROVE Lock!Locate(c)
    <3>1. Phase(c) = "pending" /\ \A d \in Calls : Phase(d)' = IF d = c THEN "waiting" ELSE Phase(d)
      BY <2>4 DEF IInv, TypeOK, Resolve
    <3>2. [d \in Calls |-> Phase(d)]' = [[d \in Calls |-> Phase(d)] EXCEPT ![c] = "waiting"]
      BY <3>1
    <3>3. link[path[c]] \in Keys /\ key' = [key EXCEPT ![c] = link[path[c]]]
      BY <2>4 DEF IInv, TypeOK, KeyKnown, Resolve
    <3>4. UNCHANGED <<count, ticket>>
      BY <2>4 DEF Resolve
    <3> QED
      BY <3>1, <3>2, <3>3, <3>4 DEF Lock!Locate
  <2>5. ASSUME NEW c \in Calls, ResolveFails(c) PROVE Lock!Locate(c)
    <3>1. Phase(c) = "pending" /\ \A d \in Calls : Phase(d)' = IF d = c THEN "over" ELSE Phase(d)
      BY <2>5 DEF IInv, TypeOK, ResolveFails
    <3>2. [d \in Calls |-> Phase(d)]' = [[d \in Calls |-> Phase(d)] EXCEPT ![c] = "over"]
      BY <3>1
    <3> QED
      BY <2>5, <3>1, <3>2 DEF IInv, TypeOK, KeyKnown, ResolveFails, Lock!Locate
  <2>6. ASSUME NEW c \in Calls, Register(c) PROVE UNCHANGED Lock!vars
    BY <2>6 DEF IInv, TypeOK, Register, Lock!vars
  <2>7. ASSUME NEW c \in Calls, Run(c) PROVE Lock!Enter(c)
    <3>1. \A d \in Calls : Before(d, c) => pc[d] \in Ended
      BY <2>7, ReachedMeansOver DEF Run
    <3>2. ASSUME NEW d \in Calls, Lock!Earlier(d, c)
          PROVE  Phase(d) = "over" \/ (Phase(d) # "pending" /\ key[d] # key[c])
      BY <2>7, <3>1, <3>2 DEF IInv, RegisteredInOrder, Registered, Before, Located, Run, Lock!Earlier
    <3>3. Phase(c) = "waiting" /\ \A d \in Calls : Phase(d)' = IF d = c THEN "running" ELSE Phase(d)
      BY <2>7 DEF IInv, TypeOK, Run
    <3>4. [d \in Calls |-> Phase(d)]' = [[d \in Calls |-> Phase(d)] EXCEPT ![c] = "running"]
      BY <3>3
    <3>5. UNCHANGED <<count, ticket, key>>
      BY <2>7 DEF Run
    <3> QED
      BY <3>2, <3>3, <3>4, <3>5 DEF Lock!Enter
  <2>8. ASSUME NEW c \in Calls, NEW how \in Ended, Finish(c, how) PROVE Lock!Leave(c)
    <3>1. Phase(c) = "running" /\ \A d \in Calls : Phase(d)' = IF d = c THEN "over" ELSE Phase(d)
      BY <2>8 DEF IInv, TypeOK, Finish
    <3>2. [d \in Calls |-> Phase(d)]' = [[d \in Calls |-> Phase(d)] EXCEPT ![c] = "over"]
      BY <3>1
    <3> QED
      BY <2>8, <3>1, <3>2 DEF IInv, TypeOK, KeyKnown, Finish, Lock!Leave
  <2>9. ASSUME NEW c \in Calls, ChainResolves(c) PROVE UNCHANGED Lock!vars
    BY <2>9 DEF ChainResolves, Lock!vars
  <2> QED
    BY <2>1, <2>2, <2>3, <2>4, <2>5, <2>6, <2>7, <2>8, <2>9 DEF Next, Step, Lock!Next
<1> QED
  BY <1>1, <1>2, Invariant, PTL DEF Spec, ImplementsFileLock, Lock!Spec
=============================================================================
