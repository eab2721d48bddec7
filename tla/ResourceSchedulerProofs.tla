----------------------- MODULE ResourceSchedulerProofs -----------------------
(***************************************************************************)
(* Safety of ResourceScheduler for every set of calls, keys and signals and *)
(* every maxConcurrency.                                                    *)
(***************************************************************************)
EXTENDS ResourceScheduler, FiniteSetTheorems, TLAPS

USE SchedulerAssumption

\* What waiters.splice(i, 1) leaves in the queue.
LEMMA SpliceFacts ==
    ASSUME waiters \in Seq(Calls), NEW i \in 1 .. Len(waiters), Splice(i)
    PROVE  /\ waiters' \in Seq(Calls)
           /\ Len(waiters') = Len(waiters) - 1
           /\ \A j \in 1 .. Len(waiters') :
                 waiters'[j] = IF j < i THEN waiters[j] ELSE waiters[j + 1]
<1> DEFINE n == Len(waiters) - 1
           f == [j \in 1 .. n |-> IF j < i THEN waiters[j] ELSE waiters[j + 1]]
<1>1. n \in Nat /\ \A j \in 1 .. n : j + 1 \in 1 .. Len(waiters) /\ j \in 1 .. Len(waiters)
  OBVIOUS
<1>2. \A j \in 1 .. Len(waiters) : waiters[j] \in Calls
  OBVIOUS
<1>3. f \in [1 .. n -> Calls]
  BY <1>1, <1>2
<1>4. f \in Seq(Calls) /\ Len(f) = n
  BY <1>1, <1>3
<1>5. waiters' = f
  BY DEF Splice
<1> QED
  BY <1>4, <1>5

\* start() only takes capacity away: what could not start before cannot after.
LEMMA StartIsMonotone ==
    ASSUME TypeOK, NEW c \in Calls, NEW q \in Requests, Start(c, q),
           NEW r \in Requests, ~CanStart(r)
    PROVE  ~CanStart(r)'
<1> USE DEF Requests, Modes, TypeOK
<1>1. CASE ~(activeCount < MaxConcurrency)
  BY <1>1 DEF Start, CanStart
<1>2. CASE /\ r.key # NoKey
           /\ activeKeys[r.key] # <<>>
           /\ ~ (/\ ModeOf(r) = "shared"
                 /\ \A i \in DOMAIN activeKeys[r.key] : activeKeys[r.key][i] = "shared")
  <2> DEFINE k == r.key
             s == activeKeys[k]
  <2>1. k \in Keys /\ s \in Seq(Modes) /\ s # <<>> /\ Len(s) \in Nat /\ Len(s) > 0
    BY <1>2
  <2>2. \/ activeKeys'[k] = s
        \/ \E m \in Modes : activeKeys'[k] = Append(s, m)
    BY <2>1 DEF Start, ModeOf
  <2>3. /\ activeKeys'[k] # <<>>
        /\ \A i \in DOMAIN s : i \in DOMAIN activeKeys'[k] /\ activeKeys'[k][i] = s[i]
    <3> HIDE DEF k
    <3>1. CASE activeKeys'[k] = s
      BY <2>1, <3>1
    <3>2. ASSUME NEW m \in Modes, activeKeys'[k] = Append(s, m)
          PROVE  /\ activeKeys'[k] # <<>>
                 /\ \A i \in DOMAIN s : i \in DOMAIN activeKeys'[k] /\ activeKeys'[k][i] = s[i]
      <4> DEFINE t == activeKeys'[k]
      <4> HIDE DEF s, t
      <4>1. Len(t) = Len(s) + 1 /\ DOMAIN t = 1 .. Len(s) + 1 /\ DOMAIN s = 1 .. Len(s)
        BY <2>1, <3>2 DEF t
      <4>2. \A i \in 1 .. Len(s) : t[i] = s[i]
        BY <2>1, <3>2 DEF t
      <4>3. t # <<>>
        BY <2>1, <4>1
      <4> QED
        BY <2>1, <4>1, <4>2, <4>3 DEF t
    <3> QED
      BY <2>2, <3>1, <3>2
  <2> QED
    BY <1>2, <2>1, <2>3 DEF CanStart
<1> QED
  BY <1>1, <1>2 DEF CanStart

\* The leases in use are finitely many, so that they can be counted.
LEMMA HeldFinite ==
    /\ IsFiniteSet(Held)
    /\ \A k \in Keys : IsFiniteSet(HeldOn(k))
BY FS_Subset, SchedulerAssumption DEF Held, HeldOn

\* The sums and the exclusion the leases are subject to.
Accounts == SlotsAccounted /\ ModesAccounted /\ KeyExclusion

\* start() keeps the accounts: the mode it appends is the mode of every lease
\* already on the key, because canStart() held.
LEMMA StartAccounts ==
    ASSUME TypeOK, Accounts, request' \in [Calls -> Requests],
           NEW c \in Calls, NEW r \in Requests, CanStart(r), Start(c, r),
           status[c] # "held", request'[c] = r,
           \A d \in Calls \ {c} : request'[d] = request[d]
    PROVE  Accounts'
<1> USE DEF TypeOK
<1>1. Held' = Held \cup {c} /\ c \notin Held
  BY DEF Held, Start
<1>2. \A k \in Keys : HeldOn(k)' = IF r.key = k THEN HeldOn(k) \cup {c} ELSE HeldOn(k)
  BY <1>1 DEF HeldOn, Held
<1>3. SlotsAccounted'
  <2>1. Cardinality(Held') = Cardinality(Held) + 1
    BY <1>1, HeldFinite, FS_AddElement
  <2> QED
    BY <2>1 DEF Accounts, SlotsAccounted, Start, CanStart
<1>4. \A d \in Held : d # c /\ request'[d] = request[d]
  BY <1>1 DEF Held
<1>5. ASSUME NEW k \in Keys
      PROVE  /\ Len(activeKeys'[k]) = Cardinality(HeldOn(k)')
             /\ \A d \in HeldOn(k)', i \in DOMAIN activeKeys'[k] :
                   activeKeys'[k][i] = ModeOf(request'[d])
             /\ r.key = k => \A d \in HeldOn(k) : ModeOf(r) = "shared" /\ ModeOf(request[d]) = "shared"
  <2> DEFINE s == activeKeys[k]
             H == HeldOn(k)
  <2>1. /\ s \in Seq(Modes) /\ Len(s) = Cardinality(H) /\ IsFiniteSet(H)
        /\ \A d \in H, i \in DOMAIN s : s[i] = ModeOf(request[d])
    BY HeldFinite DEF Accounts, ModesAccounted
  <2>2. CASE r.key # k
    <3>1. activeKeys'[k] = s /\ HeldOn(k)' = H
      BY <2>2, <1>2 DEF Start
    <3>2. \A d \in H : request'[d] = request[d]
      BY <1>4 DEF HeldOn
    <3> QED
      BY <2>1, <2>2, <3>1, <3>2
  <2>3. CASE r.key = k
    <3> DEFINE t == activeKeys'[k]
    <3>1. k # NoKey /\ t = Append(s, ModeOf(r)) /\ HeldOn(k)' = H \cup {c}
      BY <2>3, <1>2 DEF Start
    <3>2. ModeOf(r) \in Modes
      BY DEF ModeOf, Modes, Requests
    <3>3. c \notin H /\ \A d \in H : request'[d] = request[d]
      BY <1>4 DEF HeldOn
    <3>4. Cardinality(HeldOn(k)') = Cardinality(H) + 1
      <4>1. Cardinality(H \cup {c}) = Cardinality(H) + 1
        BY <2>1, <3>3, FS_AddElement
      <4> QED BY <3>1, <4>1
    <3>5. \A d \in H : ModeOf(r) = "shared" /\ ModeOf(request[d]) = "shared"
      <4> SUFFICES ASSUME NEW d \in H
                   PROVE  ModeOf(r) = "shared" /\ ModeOf(request[d]) = "shared"
        OBVIOUS
      <4>1. Cardinality(H) # 0
        BY <2>1, FS_EmptySet
      <4>2. s # <<>> /\ 1 \in DOMAIN s
        BY <2>1, <4>1
      <4> QED
        BY <4>2, <2>1, <2>3, <3>1 DEF CanStart
    <3> HIDE DEF s, H, t
    <3>6. Len(t) = Len(s) + 1 /\ DOMAIN t = 1 .. Len(s) + 1 /\ DOMAIN s = 1 .. Len(s) /\ Len(s) \in Nat
      BY <2>1, <3>1, <3>2
    <3>7. (\A i \in 1 .. Len(s) : t[i] = s[i]) /\ t[Len(s) + 1] = ModeOf(r)
      BY <2>1, <3>1, <3>2
    <3>8. \A d \in H \cup {c}, i \in DOMAIN t : t[i] = ModeOf(request'[d])
      <4>1. ASSUME NEW i \in DOMAIN t PROVE t[i] = ModeOf(r)
        <5>1. CASE i = Len(s) + 1
          BY <5>1, <3>7
        <5>2. CASE i # Len(s) + 1
          <6>1. i \in 1 .. Len(s) /\ Len(s) # 0
            BY <5>2, <3>6
          <6>2. H # {}
            BY <6>1, <2>1, FS_EmptySet
          <6> QED
            BY <6>1, <6>2, <2>1, <3>5, <3>6, <3>7
        <5> QED
          BY <5>1, <5>2
      <4>2. \A d \in H \cup {c} : ModeOf(request'[d]) = ModeOf(r)
        BY <3>3, <3>5
      <4> QED
        BY <4>1, <4>2
    <3> QED
      BY <2>1, <3>1, <3>4, <3>5, <3>6, <3>8 DEF t, H, s
  <2> QED
    BY <2>2, <2>3
<1>6. ModesAccounted'
  BY <1>5 DEF ModesAccounted
<1>7. KeyExclusion'
  <2> SUFFICES ASSUME NEW a \in Held', NEW b \in Held', a # b,
                      request'[a].key # NoKey, request'[a].key = request'[b].key
               PROVE  ModeOf(request'[a]) = "shared" /\ ModeOf(request'[b]) = "shared"
    BY DEF KeyExclusion
  <2>1. a \in Calls /\ b \in Calls /\ request'[a].key \in Keys
    BY DEF Held, Requests
  <2>2. CASE a # c /\ b # c
    BY <2>2, <1>1, <1>4 DEF Accounts, KeyExclusion
  <2>3. CASE a = c
    <3>1. r.key = request'[a].key /\ b \in HeldOn(r.key)
      BY <2>3, <1>1, <1>4 DEF HeldOn
    <3> QED
      BY <2>1, <2>3, <3>1, <1>4, <1>5, <1>1
  <2>4. CASE b = c
    <3>1. r.key = request'[b].key /\ a \in HeldOn(r.key)
      BY <2>4, <1>1, <1>4 DEF HeldOn
    <3> QED
      BY <2>1, <2>4, <3>1, <1>4, <1>5, <1>1
  <2> QED
    BY <2>2, <2>3, <2>4
<1> QED
  BY <1>3, <1>6, <1>7 DEF Accounts

\* release() keeps the accounts, although pop() may take another lease's entry.
LEMMA GiveBackAccounts ==
    ASSUME TypeOK, Accounts, NEW c \in Calls, status[c] = "held", GiveBack(c),
           status' = [status EXCEPT ![c] = "released"], UNCHANGED request
    PROVE  Accounts' /\ activeCount' \in Nat /\ activeKeys' \in [Keys -> Seq(Modes)]
<1> USE DEF TypeOK
<1>1. Held' = Held \ {c} /\ c \in Held
  BY DEF Held
<1>2. \A k \in Keys : HeldOn(k)' = HeldOn(k) \ {c}
  BY <1>1 DEF HeldOn
<1>3. SlotsAccounted' /\ activeCount' \in Nat
  <2>1. Cardinality(Held') = Cardinality(Held) - 1 /\ Cardinality(Held) \in Nat /\ Cardinality(Held) # 0
    BY <1>1, HeldFinite, FS_RemoveElement, FS_EmptySet, FS_CardinalityType
  <2> QED
    BY <2>1 DEF Accounts, SlotsAccounted, GiveBack
<1>4. ASSUME NEW k \in Keys
      PROVE  /\ activeKeys'[k] \in Seq(Modes)
             /\ Len(activeKeys'[k]) = Cardinality(HeldOn(k)')
             /\ \A d \in HeldOn(k)', i \in DOMAIN activeKeys'[k] :
                   activeKeys'[k][i] = ModeOf(request'[d])
  <2> DEFINE s == activeKeys[k]
             H == HeldOn(k)
             t == activeKeys'[k]
  <2>1. /\ s \in Seq(Modes) /\ Len(s) = Cardinality(H) /\ IsFiniteSet(H) /\ Len(s) \in Nat
        /\ \A d \in H, i \in DOMAIN s : s[i] = ModeOf(request[d])
    BY HeldFinite DEF Accounts, ModesAccounted
  <2>2. CASE request[c].key # k
    BY <2>1, <2>2, <1>2 DEF GiveBack, HeldOn
  <2>3. CASE request[c].key = k
    <3>1. t = SubSeq(s, 1, Len(s) - 1) /\ c \in H
      BY <2>3, <1>1 DEF GiveBack, HeldOn
    <3>2. Cardinality(H \ {c}) = Cardinality(H) - 1 /\ Cardinality(H) # 0
      BY <2>1, <3>1, FS_RemoveElement, FS_EmptySet
    <3> HIDE DEF s, t, H
    <3>3. t \in Seq(Modes) /\ Len(t) = Len(s) - 1
      BY <2>1, <3>1, <3>2
    <3>4. \A i \in DOMAIN t : i \in DOMAIN s /\ t[i] = s[i]
      BY <2>1, <3>1, <3>2
    <3> QED
      BY <1>2, <2>1, <3>2, <3>3, <3>4 DEF s, t, H
  <2> QED
    BY <2>2, <2>3
<1>5. activeKeys' \in [Keys -> Seq(Modes)]
  BY <1>4 DEF GiveBack
<1>6. ModesAccounted' /\ KeyExclusion'
  BY <1>1, <1>4 DEF ModesAccounted, KeyExclusion, Accounts
<1> QED
  BY <1>3, <1>5, <1>6 DEF Accounts

\* Taking a waiter out of the queue while its promise settles keeps the two in
\* step.
LEMMA SpliceQueue ==
    ASSUME TypeOK, QueueMatchesPromises, NEW i \in 1 .. Len(waiters), Splice(i),
           NEW v, v # "waiting", status' = [status EXCEPT ![waiters[i]] = v]
    PROVE  QueueMatchesPromises'
<1>1. waiters \in Seq(Calls) /\ Len(waiters) \in Nat /\ waiters[i] \in Calls
  BY DEF TypeOK
<1>2. /\ waiters' \in Seq(Calls)
      /\ Len(waiters') = Len(waiters) - 1
      /\ \A j \in 1 .. Len(waiters') :
            waiters'[j] = IF j < i THEN waiters[j] ELSE waiters[j + 1]
  BY <1>1, SpliceFacts
<1> DEFINE old(j) == IF j < i THEN j ELSE j + 1
<1>3. \A j \in 1 .. Len(waiters') :
         /\ old(j) \in 1 .. Len(waiters) /\ old(j) # i
         /\ waiters'[j] = waiters[old(j)]
  BY <1>1, <1>2
<1>4. \A j \in 1 .. Len(waiters') : status'[waiters'[j]] = "waiting"
  <2> SUFFICES ASSUME NEW j \in 1 .. Len(waiters')
               PROVE  status'[waiters'[j]] = "waiting"
    OBVIOUS
  <2>1. waiters[old(j)] # waiters[i] /\ status[waiters[old(j)]] = "waiting"
        /\ waiters[old(j)] \in Calls
    BY <1>1, <1>3 DEF QueueMatchesPromises
  <2> QED
    BY <2>1, <1>3 DEF TypeOK
<1>5. \A j, k \in 1 .. Len(waiters') : waiters'[j] = waiters'[k] => j = k
  <2> SUFFICES ASSUME NEW j \in 1 .. Len(waiters'), NEW k \in 1 .. Len(waiters'),
                      waiters'[j] = waiters'[k]
               PROVE  j = k
    OBVIOUS
  <2>1. /\ old(j) \in 1 .. Len(waiters) /\ old(k) \in 1 .. Len(waiters)
        /\ waiters[old(j)] = waiters[old(k)]
    BY <1>3
  <2>2. old(j) = old(k)
    <3> HIDE DEF old
    <3> QED BY <2>1 DEF QueueMatchesPromises
  <2> QED
    BY <2>2
<1>6. ASSUME NEW c \in Calls, status'[c] = "waiting"
      PROVE  \E j \in 1 .. Len(waiters') : waiters'[j] = c
  <2>1. c # waiters[i] /\ status[c] = "waiting"
    BY <1>6, <1>1 DEF TypeOK
  <2>2. PICK m \in 1 .. Len(waiters) : waiters[m] = c
    BY <2>1 DEF QueueMatchesPromises
  <2>3. CASE m < i
    <3>1. m \in 1 .. Len(waiters') /\ waiters'[m] = c
      BY <1>1, <1>2, <2>2, <2>3
    <3> QED
      BY <3>1
  <2>4. CASE m > i
    <3>1. m - 1 \in 1 .. Len(waiters') /\ waiters'[m - 1] = c
      BY <1>1, <1>2, <2>2, <2>4
    <3> QED
      BY <3>1
  <2> QED
    BY <2>1, <2>2, <2>3, <2>4
<1> QED
  BY <1>4, <1>5, <1>6 DEF QueueMatchesPromises

\* Taking a waiter out of the queue exposes no startable one, as long as the
\* loop index does not pass a waiter that moved and capacity did not grow.
LEMMA SpliceNoStartable ==
    ASSUME TypeOK, NoStartableWaiter, NEW i \in 1 .. Len(waiters), Splice(i),
           UNCHANGED <<scan, request>>, scan = 0 \/ scan = i,
           \A r \in Requests : ~CanStart(r) => ~CanStart(r)'
    PROVE  NoStartableWaiter'
<1>1. waiters \in Seq(Calls) /\ Len(waiters) \in Nat
  BY DEF TypeOK
<1>2. /\ Len(waiters') = Len(waiters) - 1
      /\ \A j \in 1 .. Len(waiters') :
            waiters'[j] = IF j < i THEN waiters[j] ELSE waiters[j + 1]
  BY <1>1, SpliceFacts
<1> SUFFICES ASSUME NEW j \in 1 .. Len(waiters'), scan' = 0 \/ j < scan'
             PROVE  ~CanStart(request[waiters[j]])'
  BY DEF NoStartableWaiter
<1>3. PICK m \in 1 .. Len(waiters) : waiters'[j] = waiters[m] /\ (scan = 0 \/ m < scan)
  <2>1. CASE j < i
    BY <2>1, <1>1, <1>2
  <2>2. CASE ~(j < i)
    <3>1. scan = 0 /\ j + 1 \in 1 .. Len(waiters) /\ waiters'[j] = waiters[j + 1]
      BY <2>2, <1>1, <1>2 DEF TypeOK
    <3> QED
      BY <3>1
  <2> QED
    BY <2>1, <2>2
<1>4. PICK q \in Requests : q = request[waiters[m]] /\ ~CanStart(q)
  BY <1>1, <1>3 DEF NoStartableWaiter, TypeOK
<1>5. ~CanStart(q)' /\ request'[waiters'[j]] = q
  BY <1>3, <1>4
<1> QED
  BY <1>5 DEF CanStart

\* The inductive invariant: the accounts alone are not inductive, since a lease
\* is granted to whatever call the queue names; the queue must name waiting
\* calls, and only those.
IInv == TypeOK /\ QueueMatchesPromises /\ Accounts /\ NoStartableWaiter

\* A scheduler starts with no lease and no waiter.
LEMMA InitIInv == Init => IInv
<1> SUFFICES ASSUME Init PROVE IInv
  OBVIOUS
<1>1. TypeOK
  BY DEF Init, TypeOK, Requests, Modes
<1>2. Held = {} /\ \A k \in Keys : HeldOn(k) = {}
  BY DEF Init, Held, HeldOn
<1>3. Accounts
  <2>1. Cardinality({}) = 0 /\ activeCount = 0 /\ MaxConcurrency \in Nat
        /\ \A k \in Keys : Len(activeKeys[k]) = 0
    BY FS_EmptySet DEF Init
  <2>2. SlotsAccounted
    BY <1>2, <2>1 DEF SlotsAccounted
  <2>3. ModesAccounted
    BY <1>2, <2>1 DEF ModesAccounted
  <2>4. KeyExclusion
    BY <1>2 DEF KeyExclusion
  <2> QED
    BY <2>2, <2>3, <2>4 DEF Accounts
<1>4. QueueMatchesPromises /\ NoStartableWaiter
  BY DEF Init, QueueMatchesPromises, NoStartableWaiter
<1> QED
  BY <1>1, <1>3, <1>4 DEF IInv

\* Steps that touch neither the leases nor their requests keep the accounts.
LEMMA AccountsFrame ==
    ASSUME TypeOK, Accounts, UNCHANGED <<activeCount, activeKeys>>,
           \A d \in Calls : (status[d] = "held") = (status'[d] = "held"),
           \A d \in Calls : status[d] = "held" => request'[d] = request[d]
    PROVE  Accounts'
<1>1. Held' = Held
  BY DEF Held
<1>2. \A d \in Held : request'[d] = request[d]
  BY DEF Held
<1>3. \A k \in Keys : HeldOn(k)' = HeldOn(k)
  BY <1>1, <1>2 DEF HeldOn
<1> QED
  BY <1>1, <1>2, <1>3 DEF Accounts, SlotsAccounted, ModesAccounted, KeyExclusion, HeldOn

\* The set of aborted signals is not part of the invariant.
LEMMA FrameIInv ==
    ASSUME IInv, aborted' \subseteq Signals,
           UNCHANGED <<activeCount, activeKeys, waiters, scan, status, request, signal>>
    PROVE  IInv'
<1>1. TypeOK' /\ QueueMatchesPromises'
  BY DEF IInv, TypeOK, QueueMatchesPromises
<1>2. Accounts'
  BY AccountsFrame DEF IInv
<1>3. NoStartableWaiter'
  BY DEF IInv, NoStartableWaiter, CanStart
<1> QED
  BY <1>1, <1>2, <1>3 DEF IInv

\* acquire() starts only what canStart() allows and queues only what it does not.
LEMMA AcquireIInv ==
    ASSUME IInv, NEW c \in Calls, NEW r \in Requests, NEW s \in Signals \cup {NoSignal},
           Acquire(c, r, s)
    PROVE  IInv'
<1> USE DEF IInv
<1>1. /\ status \in [Calls -> {"new", "waiting", "held", "released", "undefined"}]
      /\ waiters \in Seq(Calls) /\ Len(waiters) \in Nat
      /\ scan = 0 /\ scan' = 0 /\ aborted' = aborted
      /\ status[c] = "new" /\ request'[c] = r
      /\ request' \in [Calls -> Requests]
      /\ signal' \in [Calls -> Signals \cup {NoSignal}]
      /\ \A d \in Calls \ {c} : request'[d] = request[d]
  BY DEF TypeOK, Acquire
<1>2. \A i \in 1 .. Len(waiters) : waiters[i] \in Calls \ {c} /\ request'[waiters[i]] = request[waiters[i]]
  BY <1>1 DEF QueueMatchesPromises
<1>3. CASE /\ status' = [status EXCEPT ![c] = "undefined"]
           /\ UNCHANGED <<activeCount, activeKeys, waiters>>
  <2>1. TypeOK'
    BY <1>1, <1>3 DEF TypeOK
  <2>2. QueueMatchesPromises'
    BY <1>1, <1>2, <1>3 DEF QueueMatchesPromises
  <2>3. Accounts'
    BY <1>1, <1>3, AccountsFrame
  <2>4. NoStartableWaiter'
    BY <1>1, <1>2, <1>3 DEF NoStartableWaiter, CanStart
  <2> QED
    BY <2>1, <2>2, <2>3, <2>4
<1>4. CASE CanStart(r) /\ Start(c, r) /\ UNCHANGED waiters
  <2>1. TypeOK'
    BY <1>1, <1>4 DEF TypeOK, Start, Modes, Requests, ModeOf
  <2>2. QueueMatchesPromises'
    BY <1>1, <1>2, <1>4 DEF QueueMatchesPromises, Start
  <2>3. Accounts'
    BY <1>1, <1>4, StartAccounts
  <2>4. NoStartableWaiter'
    <3> SUFFICES ASSUME NEW i \in 1 .. Len(waiters)
                 PROVE  ~CanStart(request[waiters[i]])'
      BY <1>4 DEF NoStartableWaiter
    <3>1. PICK q \in Requests : q = request[waiters[i]] /\ ~CanStart(q)
      BY <1>1, <1>2 DEF NoStartableWaiter, TypeOK
    <3>2. ~CanStart(q)' /\ request'[waiters'[i]] = q
      BY <1>2, <1>4, <3>1, StartIsMonotone
    <3> QED
      BY <3>2 DEF CanStart
  <2> QED
    BY <2>1, <2>2, <2>3, <2>4
<1>5. CASE /\ ~CanStart(r)
           /\ waiters' = Append(waiters, c)
           /\ status' = [status EXCEPT ![c] = "waiting"]
           /\ UNCHANGED <<activeCount, activeKeys>>
  <2>1. TypeOK'
    BY <1>1, <1>5 DEF TypeOK
  <2>2. /\ Len(waiters') = Len(waiters) + 1
        /\ waiters'[Len(waiters) + 1] = c
        /\ \A i \in 1 .. Len(waiters) : waiters'[i] = waiters[i]
    BY <1>1, <1>5
  <2>3. \A i \in 1 .. Len(waiters') : i \in 1 .. Len(waiters) \/ i = Len(waiters) + 1
    BY <1>1, <2>2
  <2>4. QueueMatchesPromises'
    <3>1. \A i \in 1 .. Len(waiters') : status'[waiters'[i]] = "waiting"
      BY <1>1, <1>2, <1>5, <2>2, <2>3 DEF QueueMatchesPromises
    <3>2. \A i, j \in 1 .. Len(waiters') : waiters'[i] = waiters'[j] => i = j
      BY <1>1, <1>2, <2>2, <2>3 DEF QueueMatchesPromises
    <3>3. ASSUME NEW d \in Calls, status'[d] = "waiting"
          PROVE  \E i \in 1 .. Len(waiters') : waiters'[i] = d
      <4>1. CASE d = c
        BY <4>1, <1>1, <2>2
      <4>2. CASE d # c
        <5>1. PICK i \in 1 .. Len(waiters) : waiters[i] = d
          BY <4>2, <3>3, <1>1, <1>5 DEF QueueMatchesPromises
        <5>2. i \in 1 .. Len(waiters') /\ waiters'[i] = d
          BY <5>1, <2>2, <1>1
        <5> QED
          BY <5>2
      <4> QED
        BY <4>1, <4>2
    <3> QED
      BY <3>1, <3>2, <3>3 DEF QueueMatchesPromises
  <2>5. Accounts'
    BY <1>1, <1>5, AccountsFrame
  <2>6. NoStartableWaiter'
    <3> SUFFICES ASSUME NEW i \in 1 .. Len(waiters')
                 PROVE  ~CanStart(request[waiters[i]])'
      BY DEF NoStartableWaiter
    <3>1. CASE i \in 1 .. Len(waiters)
      <4>1. ~CanStart(request[waiters[i]]) /\ request'[waiters'[i]] = request[waiters[i]]
        BY <3>1, <1>1, <1>2, <2>2 DEF NoStartableWaiter
      <4> QED
        BY <4>1, <1>5 DEF CanStart
    <3>2. CASE i = Len(waiters) + 1
      <4>1. request'[waiters'[i]] = r
        BY <3>2, <1>1, <2>2
      <4> QED
        BY <4>1, <1>5 DEF CanStart
    <3> QED
      BY <2>3, <3>1, <3>2
  <2> QED
    BY <2>1, <2>4, <2>5, <2>6
<1> QED
  BY <1>3, <1>4, <1>5 DEF Acquire

\* OnAbort and the dropping iteration of schedule() settle one queued promise.
LEMMA DropIInv ==
    ASSUME IInv, NEW i \in 1 .. Len(waiters), scan = 0 \/ scan = i, Splice(i),
           status' = [status EXCEPT ![waiters[i]] = "undefined"],
           UNCHANGED <<activeCount, activeKeys, scan, request, signal, aborted>>
    PROVE  IInv'
<1> USE DEF IInv
<1>1. waiters \in Seq(Calls) /\ waiters[i] \in Calls /\ status[waiters[i]] = "waiting"
  BY DEF TypeOK, QueueMatchesPromises
<1>2. TypeOK'
  BY <1>1, SpliceFacts DEF TypeOK
<1>3. QueueMatchesPromises'
  BY SpliceQueue
<1>4. Accounts'
  BY <1>1, AccountsFrame DEF TypeOK
<1>5. NoStartableWaiter'
  <2>1. \A r \in Requests : ~CanStart(r) => ~CanStart(r)'
    BY DEF CanStart
  <2> QED
    BY <2>1, SpliceNoStartable
<1> QED
  BY <1>2, <1>3, <1>4, <1>5

\* release() gives back one slot and one mode, once per lease, and starts the loop
\* of schedule() at the head of the queue.
LEMMA ReleaseIInv ==
    ASSUME IInv, NEW c \in Calls, Release(c)
    PROVE  IInv'
<1> USE DEF IInv
<1>1. CASE status[c] = "released" /\ UNCHANGED <<activeCount, activeKeys, scan, status>>
  <2>1. UNCHANGED vars
    BY <1>1 DEF Release, vars
  <2> QED
    BY <2>1, FrameIInv DEF vars, TypeOK
<1>2. CASE /\ status[c] = "held" /\ status' = [status EXCEPT ![c] = "released"]
           /\ GiveBack(c) /\ scan' = 1
  <2>1. UNCHANGED <<waiters, request, signal, aborted>>
    BY DEF Release
  <2>2. Accounts' /\ activeCount' \in Nat /\ activeKeys' \in [Keys -> Seq(Modes)]
    BY <1>2, <2>1, GiveBackAccounts
  <2>3. TypeOK'
    BY <1>2, <2>1, <2>2 DEF TypeOK
  <2>4. QueueMatchesPromises'
    BY <1>2, <2>1 DEF QueueMatchesPromises, TypeOK
  <2>5. NoStartableWaiter'
    BY <1>2, <2>1 DEF NoStartableWaiter
  <2> QED
    BY <2>2, <2>3, <2>4, <2>5
<1> QED
  BY <1>1, <1>2 DEF Release

\* An iteration of schedule() drops, skips or starts one waiter; the waiters it has
\* passed cannot start.
LEMMA ScheduleIInv ==
    ASSUME IInv, Schedule
    PROVE  IInv'
<1> USE DEF IInv
<1>1. CASE ScheduleDrop
  BY <1>1, DropIInv DEF ScheduleDrop
<1>2. CASE ScheduleSkip \/ ScheduleEnd
  <2>1. /\ UNCHANGED <<activeCount, activeKeys, waiters, status, request, signal, aborted>>
        /\ scan \in Nat /\ scan' \in Nat /\ Len(waiters) \in Nat
    BY <1>2 DEF ScheduleSkip, ScheduleEnd, TypeOK
  <2>2. TypeOK' /\ QueueMatchesPromises'
    BY <2>1 DEF TypeOK, QueueMatchesPromises
  <2>3. Accounts'
    BY <2>1, AccountsFrame
  <2>4. NoStartableWaiter'
    <3>1. CASE ScheduleSkip
      <4>1. \A i \in 1 .. Len(waiters) : i < scan' => i < scan \/ i = scan
        BY <2>1, <3>1 DEF ScheduleSkip
      <4> QED
        BY <2>1, <3>1, <4>1 DEF NoStartableWaiter, CanStart, ScheduleSkip
    <3>2. CASE ScheduleEnd
      <4>1. \A i \in 1 .. Len(waiters) : i < scan
        BY <2>1, <3>2 DEF ScheduleEnd
      <4> QED
        BY <2>1, <4>1 DEF NoStartableWaiter, CanStart
    <3> QED
      BY <1>2, <3>1, <3>2
  <2> QED
    BY <2>2, <2>3, <2>4
<1>3. CASE ScheduleStart
  <2> DEFINE c == waiters[scan]
             q == request[c]
  <2>1. /\ scan \in 1 .. Len(waiters) /\ c \in Calls /\ q \in Requests
        /\ status[c] = "waiting" /\ waiters \in Seq(Calls)
        /\ CanStart(q) /\ Start(c, q) /\ Splice(scan)
        /\ UNCHANGED <<scan, request, signal, aborted>>
    BY <1>3 DEF ScheduleStart, TypeOK, QueueMatchesPromises
  <2>2. TypeOK'
    <3>1. waiters' \in Seq(Calls)
      BY <2>1, SpliceFacts
    <3> QED
      BY <2>1, <3>1 DEF TypeOK, Start, Modes, Requests, ModeOf
  <2>3. QueueMatchesPromises'
    BY <2>1, SpliceQueue DEF Start
  <2>4. Accounts'
    <3> HIDE DEF c, q
    <3>1. request' \in [Calls -> Requests] /\ request'[c] = q
          /\ \A d \in Calls \ {c} : request'[d] = request[d]
      BY <2>1 DEF TypeOK, q
    <3> QED
      BY <2>1, <3>1, StartAccounts
  <2>5. NoStartableWaiter'
    <3>1. \A r \in Requests : ~CanStart(r) => ~CanStart(r)'
      BY <2>1, StartIsMonotone
    <3> QED
      BY <2>1, <3>1, SpliceNoStartable
  <2> QED
    BY <2>2, <2>3, <2>4, <2>5
<1> QED
  BY <1>1, <1>2, <1>3 DEF Schedule

\* Every step keeps the inductive invariant.
LEMMA NextIInv == IInv /\ [Next]_vars => IInv'
<1> SUFFICES ASSUME IInv, [Next]_vars PROVE IInv'
  OBVIOUS
<1>1. ASSUME NEW c \in Calls, NEW r \in Requests, NEW s \in Signals \cup {NoSignal}, Acquire(c, r, s)
      PROVE  IInv'
  BY <1>1, AcquireIInv
<1>2. ASSUME NEW s \in Signals, Abort(s)
      PROVE  IInv'
  BY <1>2, FrameIInv DEF Abort, IInv, TypeOK
<1>3. ASSUME NEW i \in 1 .. Len(waiters), OnAbort(i)
      PROVE  IInv'
  BY <1>3, DropIInv DEF OnAbort
<1>4. ASSUME NEW c \in Calls, Release(c)
      PROVE  IInv'
  BY <1>4, ReleaseIInv
<1>5. CASE Schedule
  BY <1>5, ScheduleIInv
<1>6. CASE UNCHANGED vars
  BY <1>6, FrameIInv DEF vars, IInv, TypeOK
<1> QED
  BY <1>1, <1>2, <1>3, <1>4, <1>5, <1>6 DEF Next

-----------------------------------------------------------------------------
\* The inductive invariant holds in every reachable state.
THEOREM Inductive == Spec => []IInv
<1>1. Init => IInv
  BY InitIInv
<1>2. IInv /\ [Next]_vars => IInv'
  BY NextIInv
<1> QED
  BY <1>1, <1>2, PTL DEF Spec

\* Type correctness of the scheduler.
THEOREM TypeCorrect == Spec => []TypeOK
BY Inductive, PTL DEF IInv

\* acquire(), release() and schedule() never hand out more than maxConcurrency
\* leases, and activeCount counts them.
THEOREM SlotsSafe == Spec => []SlotsAccounted
BY Inductive, PTL DEF IInv, Accounts

\* The mode list of a key mirrors its leases although pop() is not selective.
THEOREM ModesSafe == Spec => []ModesAccounted
BY Inductive, PTL DEF IInv, Accounts

\* An exclusive lease has its key to itself.
THEOREM Exclusion == Spec => []KeyExclusion
BY Inductive, PTL DEF IInv, Accounts

\* No wake-up is lost: a queued call is one that cannot start.
THEOREM NoLostWakeup == Spec => []NoStartableWaiter
BY Inductive, PTL DEF IInv

\* No promise is dropped from the queue without being settled.
THEOREM QueueSafe == Spec => []QueueMatchesPromises
BY Inductive, PTL DEF IInv

\* The queue, the count and the mode lists of the scheduler agree with its leases, and
\* exclusive leases exclude, for any number of calls, keys, signals and slots.
THEOREM ConsistentBooks == Spec => []Consistent
BY Inductive, PTL DEF IInv, Accounts, Consistent

\* No lease is granted to an aborted call.
THEOREM NoGrantAfterAbortThm == Spec => NoGrantAfterAbort
<1> DEFINE Granted == \A c \in Calls : status[c] # "held" /\ status'[c] = "held"
                         => signal'[c] \notin aborted
<1>1. ASSUME IInv, [Next]_vars
      PROVE  [Granted]_vars
  <2>0. /\ status \in [Calls -> {"new", "waiting", "held", "released", "undefined"}]
        /\ signal \in [Calls -> Signals \cup {NoSignal}]
    BY <1>1 DEF IInv, TypeOK
  <2>1. ASSUME NEW c \in Calls, NEW r \in Requests, NEW s \in Signals \cup {NoSignal}, Acquire(c, r, s)
        PROVE  Granted
    <3>1. \A d \in Calls \ {c} : status'[d] = status[d]
      BY <2>0, <2>1 DEF Acquire, Start
    <3>2. signal'[c] = s /\ (s \notin aborted \/ status'[c] = "undefined" \/ status'[c] = "waiting")
      BY <2>0, <2>1 DEF Acquire, IsAborted
    <3> QED
      BY <3>1, <3>2
  <2>2. ASSUME NEW s \in Signals, Abort(s)
        PROVE  Granted
    BY <2>0, <2>2 DEF Abort
  <2>3. ASSUME NEW i \in 1 .. Len(waiters), OnAbort(i)
        PROVE  Granted
    BY <2>0, <2>3 DEF OnAbort
  <2>4. ASSUME NEW c \in Calls, Release(c)
        PROVE  Granted
    <3>1. \A d \in Calls : status'[d] = status[d] \/ status'[d] = "released"
      BY <2>0, <2>4 DEF Release
    <3> QED
      BY <3>1
  <2>5. CASE Schedule
    <3>1. signal' = signal
      BY <2>5 DEF Schedule, ScheduleDrop, ScheduleSkip, ScheduleStart, ScheduleEnd
    <3>2. CASE ScheduleStart
      BY <3>1, <3>2 DEF ScheduleStart, Start, IsAborted
    <3>3. CASE ScheduleDrop \/ ScheduleSkip \/ ScheduleEnd
      <4>1. \A d \in Calls : status'[d] = status[d] \/ status'[d] = "undefined"
        BY <2>0, <3>3 DEF ScheduleDrop, ScheduleSkip, ScheduleEnd
      <4> QED
        BY <4>1
    <3> QED
      BY <2>5, <3>2, <3>3 DEF Schedule
  <2> QED
    BY <1>1, <2>1, <2>2, <2>3, <2>4, <2>5 DEF Next
<1> QED
  BY <1>1, Inductive, PTL DEF Spec, NoGrantAfterAbort
=============================================================================
