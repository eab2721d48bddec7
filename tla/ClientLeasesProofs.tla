-------------------------- MODULE ClientLeasesProofs --------------------------
(***************************************************************************)
(* Proofs about the client.                                                  *)
(*                                                                           *)
(* The connection: whatever the number of attempts and whatever listeners do  *)
(* inside a handler, no transport leaks, no connect() is left pending and     *)
(* none succeeds without a connection.  The four invariants are inductive     *)
(* together.                                                                  *)
(*                                                                           *)
(* The client as a whole implements its connection: no operation on a lease,  *)
(* no answer of the server and no disposal does anything to the connection    *)
(* that ClientConnection does not allow.  What is proved of the connection    *)
(* alone holds inside the client.                                             *)
(*                                                                           *)
(* The leases: for any number of acquisitions and attempts, and whenever the  *)
(* connection is lost, reservations are counted exactly, an exclusive lease   *)
(* is alone and no holder is detached, in every generation without an orphan. *)
(* A generation with one ends with the next loss that invalidates a           *)
(* reservation; that everything is exact again from there on is part of what  *)
(* is proved.                                                                 *)
(***************************************************************************)
EXTENDS ClientLeases, FiniteSetTheorems, TLAPS

-----------------------------------------------------------------------------
(* The connection *)

\* The initial state satisfies the invariant.
LEMMA InitConsistent == Init => Consistent
BY ConnectionAssumption DEF Init, Consistent, TypeOK, NoLeakedTransport, UsesOwnTransport, NoLostHandshake, Attempts, IsCurrent

\* The end of an attempt, and the one a listener begins at once: given that the transports
\* tr and the promises hs left by it hold nothing that is open or pending.
LEMMA EndStep ==
  ASSUME Consistent, NEW l \in Reactions, NEW tr, NEW hs,
         tr \in [Attempts -> {"none", "opening", "offered", "open", "closed"}],
         hs \in [Attempts -> {"none", "pending", "resolved", "rejected"}],
         \A i \in Attempts : tr[i] # "open" /\ hs[i] # "pending",
         \A i \in Attempts : i > sequence => tr[i] = "none" /\ hs[i] = "none",
         hello' \in [Attempts -> {"none", "sending", "settled"}],
         \A i \in Attempts : i > sequence => hello'[i] = "none",
         EndWith(tr, hs, l)
  PROVE  Consistent'
<1>1. CASE l = "reconnect" /\ BeginWith(tr, hs)
  <2>1. sequence + 1 \in Attempts /\ sequence \in Nat /\ sequence' = sequence + 1 /\ sequence' <= MaxAttempts
    BY <1>1, ConnectionAssumption DEF BeginWith, Consistent, TypeOK, Attempts
  <2>2. TypeOK'
    BY <1>1, <2>1 DEF BeginWith, TypeOK, Attempts
  <2>3. \A i \in Attempts : transport'[i] # "open"
    BY <1>1, <2>1 DEF BeginWith
  <2>4. \A i \in Attempts : handshake'[i] = "pending" => i = sequence + 1
    BY <1>1, <2>1 DEF BeginWith
  <2>5. state' = "connecting" /\ id' = sequence + 1 /\ bound' = 0
    BY <1>1 DEF BeginWith
  <2> QED BY <2>2, <2>3, <2>4, <2>5 DEF Consistent, NoLeakedTransport, UsesOwnTransport, NoLostHandshake
<1>2. CASE /\ state' = "disconnected" /\ id' = 0 /\ bound' = 0
           /\ transport' = tr /\ handshake' = hs /\ sequence' = sequence
  BY <1>2 DEF Consistent, TypeOK, NoLeakedTransport, UsesOwnTransport, NoLostHandshake, Attempts
<1> QED BY <1>1, <1>2 DEF EndWith

\* #fail() rejects the promise of the attempt, and there is no other.
LEMMA RejectedAll ==
  ASSUME Consistent
  PROVE  /\ Rejected \in [Attempts -> {"none", "pending", "resolved", "rejected"}]
         /\ \A i \in Attempts : Rejected[i] # "pending"
         /\ \A i \in Attempts : i > sequence => Rejected[i] = "none"
<1>1. id \in Nat /\ sequence \in Nat /\ id <= sequence
  BY ConnectionAssumption DEF Consistent, TypeOK
<1> QED BY <1>1 DEF Consistent, TypeOK, NoLostHandshake, Rejected, Attempts

\* Closing the transport in use leaves none open.
LEMMA ClosedAll ==
  ASSUME Consistent, NEW tr, tr = IF bound # 0 THEN [transport EXCEPT ![bound] = "closed"] ELSE transport
  PROVE  /\ tr \in [Attempts -> {"none", "opening", "offered", "open", "closed"}]
         /\ \A i \in Attempts : tr[i] # "open"
         /\ \A i \in Attempts : i > sequence => tr[i] = "none"
<1>1. id \in Nat /\ sequence \in Nat /\ id <= sequence
  BY ConnectionAssumption DEF Consistent, TypeOK
<1>2. CASE bound # 0
  <2>1. bound \in Nat /\ bound <= sequence
    BY <1>1 DEF Consistent, TypeOK
  <2>2. tr = [transport EXCEPT ![bound] = "closed"]
    BY <1>2
  <2>3. tr \in [Attempts -> {"none", "opening", "offered", "open", "closed"}]
    BY <2>2 DEF Consistent, TypeOK
  <2>4. \A i \in Attempts : i # bound => tr[i] = transport[i]
    BY <2>2 DEF Consistent, TypeOK
  <2>5. \A i \in Attempts : i = bound => tr[i] = "closed"
    BY <2>2 DEF Consistent, TypeOK
  <2>6. \A i \in Attempts : transport[i] = "open" => i = bound
    BY DEF Consistent, NoLeakedTransport
  <2>7. \A i \in Attempts : i > sequence => transport[i] = "none" /\ i # bound
    BY <1>1, <2>1 DEF Consistent, TypeOK, Attempts
  <2> QED BY <2>3, <2>4, <2>5, <2>6, <2>7
<1>3. CASE bound = 0
  BY <1>1, <1>3 DEF Consistent, TypeOK, NoLeakedTransport, Attempts
<1> QED BY <1>2, <1>3

\* #failAndClose() keeps the invariant.
LEMMA FailAndCloseStep == ASSUME Consistent, NEW l \in Reactions, FailAndClose(l) PROVE Consistent'
<1> DEFINE tr == IF bound # 0 THEN [transport EXCEPT ![bound] = "closed"] ELSE transport
<1>1. EndWith(tr, Rejected, l) /\ hello' = hello
  BY DEF FailAndClose
<1>2. hello' \in [Attempts -> {"none", "sending", "settled"}] /\ \A i \in Attempts : i > sequence => hello'[i] = "none"
  BY <1>1 DEF Consistent, TypeOK
<1> HIDE DEF tr
<1>3. /\ tr \in [Attempts -> {"none", "opening", "offered", "open", "closed"}]
      /\ \A i \in Attempts : tr[i] # "open"
      /\ \A i \in Attempts : i > sequence => tr[i] = "none"
  BY ClosedAll DEF tr
<1> QED BY <1>1, <1>2, <1>3, RejectedAll, EndStep

\* The factory's rejection: no transport was ever open.
LEMMA FactoryStep == ASSUME Consistent, NEW i \in Attempts, NEW l \in Reactions, FactoryRejects(i, l) PROVE Consistent'
<1>0. transport[i] = "opening" /\ sequence \in Nat
  BY ConnectionAssumption DEF FactoryRejects, Consistent, TypeOK
<1> DEFINE tr == [transport EXCEPT ![i] = "closed"]
<1>1. tr \in [Attempts -> {"none", "opening", "offered", "open", "closed"}]
      /\ (\A j \in Attempts : j > sequence => tr[j] = "none")
  BY <1>0 DEF Consistent, TypeOK
<1>2. CASE IsCurrent(i) /\ EndWith(tr, Rejected, l) /\ UNCHANGED hello
  <2>1. bound = 0
    BY <1>0, <1>2 DEF Consistent, UsesOwnTransport, IsCurrent
  <2>2. \A j \in Attempts : tr[j] # "open"
    BY <2>1, <1>0 DEF Consistent, TypeOK, NoLeakedTransport, Attempts
  <2>3. hello' \in [Attempts -> {"none", "sending", "settled"}] /\ \A j \in Attempts : j > sequence => hello'[j] = "none"
    BY <1>2 DEF Consistent, TypeOK
  <2> HIDE DEF tr
  <2> QED BY <1>1, <1>2, <2>2, <2>3, RejectedAll, EndStep
<1>3. CASE ~IsCurrent(i) /\ transport' = tr /\ UNCHANGED <<sequence, state, id, bound, hello, handshake>>
  BY <1>0, <1>1, <1>3 DEF Consistent, TypeOK, NoLeakedTransport, UsesOwnTransport, NoLostHandshake, IsCurrent
<1> QED BY <1>2, <1>3 DEF FactoryRejects

\* The continuation of #openTransport(), and the factory's success.
LEMMA OpenStep == ASSUME Consistent, NEW i \in Attempts, FactoryResolves(i) \/ Opened(i) PROVE Consistent'
<1>0. sequence \in Nat /\ id \in Nat
  BY ConnectionAssumption DEF Consistent, TypeOK
<1>1. CASE FactoryResolves(i)
  BY <1>0, <1>1 DEF FactoryResolves, Consistent, TypeOK, NoLeakedTransport, UsesOwnTransport, NoLostHandshake, IsCurrent
<1>2. CASE /\ transport[i] = "offered" /\ state = "connecting" /\ id = i /\ bound' = i
           /\ transport' = [transport EXCEPT ![i] = "open"] /\ hello' = [hello EXCEPT ![i] = "sending"]
           /\ UNCHANGED <<sequence, state, id, handshake>>
  <2>1. TypeOK'
    BY <1>0, <1>2 DEF Consistent, TypeOK
  <2>2. \A j \in Attempts : transport'[j] = "open" => j = i
    BY <1>2 DEF Consistent, TypeOK, NoLeakedTransport, UsesOwnTransport, IsCurrent
  <2>3. transport'[i] = "open" /\ hello'[i] = "sending"
    BY <1>2 DEF Consistent, TypeOK
  <2>4. id # 0
    BY <1>0, <1>2 DEF Consistent, TypeOK
  <2> QED BY <1>2, <2>1, <2>2, <2>3, <2>4 DEF Consistent, NoLeakedTransport, UsesOwnTransport, NoLostHandshake, IsCurrent
<1>3. CASE /\ transport[i] = "offered" /\ transport' = [transport EXCEPT ![i] = "closed"]
           /\ UNCHANGED <<sequence, state, id, bound, hello, handshake>>
  BY <1>0, <1>3 DEF Consistent, TypeOK, NoLeakedTransport, UsesOwnTransport, NoLostHandshake, IsCurrent
<1> QED BY <1>1, <1>2, <1>3 DEF Opened

\* The client hello is sent or fails.
LEMMA HelloStep == ASSUME Consistent, NEW i \in Attempts, NEW ok \in BOOLEAN, NEW l \in Reactions, HelloSettles(i, ok, l) PROVE Consistent'
<1>0. sequence \in Nat /\ hello[i] = "sending" /\ hello' = [hello EXCEPT ![i] = "settled"]
  BY ConnectionAssumption DEF Consistent, TypeOK, HelloSettles
<1>1. hello' \in [Attempts -> {"none", "sending", "settled"}] /\ \A j \in Attempts : j > sequence => hello'[j] = "none"
  BY <1>0 DEF Consistent, TypeOK
<1> DEFINE tr == IF bound # 0 THEN [transport EXCEPT ![bound] = "closed"] ELSE transport
<1>2. CASE IsCurrent(i) /\ EndWith(tr, Rejected, l)
  <2>1. /\ tr \in [Attempts -> {"none", "opening", "offered", "open", "closed"}]
        /\ \A j \in Attempts : tr[j] # "open"
        /\ \A j \in Attempts : j > sequence => tr[j] = "none"
    BY <1>2, ClosedAll DEF IsCurrent
  <2> HIDE DEF tr
  <2> QED BY <1>1, <1>2, <2>1, RejectedAll, EndStep
<1>3. CASE UNCHANGED <<sequence, state, id, bound, transport, handshake>>
  <2>1. TypeOK'
    BY <1>1, <1>3 DEF Consistent, TypeOK
  <2>2. \A j \in Attempts : hello[j] # "none" => hello'[j] # "none"
    BY <1>0 DEF Consistent, TypeOK
  <2>3. bound # 0 => id \in Attempts
    <3>1. id \in Nat /\ sequence \in Nat /\ id <= sequence /\ sequence <= MaxAttempts
      BY ConnectionAssumption DEF Consistent, TypeOK
    <3> QED BY <3>1, ConnectionAssumption DEF Consistent, UsesOwnTransport, Attempts
  <2> QED BY <1>3, <2>1, <2>2, <2>3 DEF Consistent, NoLeakedTransport, UsesOwnTransport, NoLostHandshake, IsCurrent
<1> QED BY <1>2, <1>3 DEF HelloSettles

\* The server's frames.
LEMMA DataStep == ASSUME Consistent, NEW i \in Attempts, NEW f \in Frames, NEW l \in Reactions, Data(i, f, l) PROVE Consistent'
<1>1. CASE FailAndClose(l)
  BY <1>1, FailAndCloseStep
<1>2. CASE UNCHANGED vars
  BY <1>2 DEF vars, Consistent, TypeOK, NoLeakedTransport, UsesOwnTransport, NoLostHandshake, IsCurrent
<1>3. CASE /\ state = "connecting" /\ bound # 0 /\ state' = "connected"
           /\ handshake' = [handshake EXCEPT ![id] = "resolved"]
           /\ UNCHANGED <<sequence, id, bound, transport, hello>>
  <2>1. id \in Nat /\ sequence \in Nat /\ id <= sequence
    BY ConnectionAssumption DEF Consistent, TypeOK
  <2>2. TypeOK'
    <3>1. handshake' \in [Attempts -> {"none", "pending", "resolved", "rejected"}]
      BY <1>3 DEF Consistent, TypeOK
    <3>2. \A j \in Attempts : j > sequence' => handshake'[j] = "none"
      BY <1>3, <2>1 DEF Consistent, TypeOK
    <3>3. id # 0
      BY <1>3 DEF Consistent, TypeOK
    <3> QED BY <1>3, <3>1, <3>2, <3>3 DEF Consistent, TypeOK
  <2>3. \A j \in Attempts : handshake'[j] # "pending"
    BY <1>3, <2>1 DEF Consistent, TypeOK, NoLostHandshake
  <2> QED BY <1>3, <2>2, <2>3 DEF Consistent, NoLeakedTransport, UsesOwnTransport, NoLostHandshake, IsCurrent
<1>4. FailAndClose(l) \/ UNCHANGED vars
      \/ (/\ state = "connecting" /\ bound # 0 /\ state' = "connected"
          /\ handshake' = [handshake EXCEPT ![id] = "resolved"]
          /\ UNCHANGED <<sequence, id, bound, transport, hello>>)
  BY Zenon DEF Data, HandleData, Handshake
<1> QED BY <1>1, <1>2, <1>3, <1>4

\* The peer closes the transport.
LEMMA CloseStep == ASSUME Consistent, NEW i \in Attempts, NEW l \in Reactions, HandleClose(i, l) PROVE Consistent'
<1> DEFINE tr == IF bound # 0 THEN [transport EXCEPT ![bound] = "closed"] ELSE transport
<1>1. EndWith(tr, Rejected, l) /\ hello' = hello /\ i = id
  BY DEF HandleClose, IsCurrent
<1>2. hello' \in [Attempts -> {"none", "sending", "settled"}] /\ \A j \in Attempts : j > sequence => hello'[j] = "none"
  BY <1>1 DEF Consistent, TypeOK
<1>3. /\ tr \in [Attempts -> {"none", "opening", "offered", "open", "closed"}]
      /\ \A j \in Attempts : tr[j] # "open"
      /\ \A j \in Attempts : j > sequence => tr[j] = "none"
  BY <1>1, ClosedAll
<1> HIDE DEF tr
<1> QED BY <1>1, <1>2, <1>3, RejectedAll, EndStep

\* connect() by the application.
LEMMA ConnectStep == ASSUME Consistent, Connect PROVE Consistent'
<1>1. "reconnect" \in Reactions /\ EndWith(transport, handshake, "reconnect") /\ hello' = hello
  BY DEF Connect, EndWith, Reactions
<1>2. \A i \in Attempts : transport[i] # "open" /\ handshake[i] # "pending"
  BY DEF Connect, Consistent, NoLeakedTransport, NoLostHandshake, IsCurrent
<1> QED BY <1>1, <1>2, EndStep DEF Consistent, TypeOK

\* Every step keeps the invariant.
LEMMA StepConsistent == Consistent /\ [Next]_vars => Consistent'
<1> SUFFICES ASSUME Consistent, [Next]_vars PROVE Consistent'
  OBVIOUS
<1>1. ASSUME NEW i \in Attempts, NEW l \in Reactions, Event(i, l) PROVE Consistent'
  <2>1. CASE FailAndClose(l)
    BY <2>1, FailAndCloseStep
  <2>2. FactoryRejects(i, l) \/ (\E ok \in BOOLEAN : HelloSettles(i, ok, l))
        \/ (\E f \in Frames : Data(i, f, l)) \/ HandleClose(i, l) \/ FailAndClose(l)
    BY <1>1, Zenon DEF Event, HandleError, SendFails
  <2> QED BY <2>1, <2>2, FactoryStep, HelloStep, DataStep, CloseStep
<1>2. ASSUME NEW l \in Reactions, Disconnect(l) PROVE Consistent'
  BY <1>2, FailAndCloseStep DEF Disconnect
<1>3. CASE UNCHANGED vars
  BY <1>3 DEF vars, Consistent, TypeOK, NoLeakedTransport, UsesOwnTransport, NoLostHandshake, IsCurrent
<1> QED BY <1>1, <1>2, <1>3, ConnectStep, OpenStep DEF Next

\* The connection's own books are right for any number of attempts and whatever
\* listeners do inside the handlers: no transport of an abandoned attempt stays open, the
\* current attempt speaks through its own, and no connect() is left pending.
THEOREM ConnectionConsistent == Spec => []Consistent
BY InitConsistent, StepConsistent, PTL DEF Spec

\* The end of an attempt resolves no promise.
LEMMA EndResolvesNone ==
  ASSUME Consistent, NEW l \in Reactions, NEW tr, EndWith(tr, Rejected, l), NEW i \in Attempts, handshake'[i] = "resolved"
  PROVE  handshake[i] = "resolved"
<1>1. id \in Nat /\ sequence \in Nat
  BY ConnectionAssumption DEF Consistent, TypeOK
<1>2. Rejected[i] = "resolved" => handshake[i] = "resolved"
  BY <1>1 DEF Rejected, Consistent, TypeOK
<1>3. CASE handshake' = Rejected
  BY <1>2, <1>3
<1>4. CASE handshake' = [Rejected EXCEPT ![sequence + 1] = "pending"]
  BY <1>1, <1>2, <1>4, RejectedAll
<1> QED BY <1>3, <1>4, Zenon DEF EndWith, BeginWith

\* A promise is resolved by the server's hello alone, with the connection established.
THEOREM ConnectedWhenResolved == Spec => ResolvedIsConnected
<1> DEFINE Good == \A i \in Attempts : handshake[i] # "resolved" /\ handshake'[i] = "resolved" =>
                       state' = "connected" /\ id' = i /\ transport'[i] = "open"
<1>1. Consistent /\ [Next]_vars => Good
  <2> SUFFICES ASSUME Consistent, [Next]_vars, NEW i \in Attempts, handshake[i] # "resolved", handshake'[i] = "resolved"
               PROVE  state' = "connected" /\ id' = i /\ transport'[i] = "open"
    OBVIOUS
  <2>0. id \in Nat /\ sequence \in Nat /\ handshake \in [Attempts -> {"none", "pending", "resolved", "rejected"}]
    BY ConnectionAssumption DEF Consistent, TypeOK
  <2>1. \A l \in Reactions : ~FailAndClose(l)
    BY EndResolvesNone DEF FailAndClose
  <2>2. ASSUME NEW j \in Attempts, NEW l \in Reactions PROVE ~FactoryRejects(j, l) /\ ~HandleClose(j, l) /\ \A ok \in BOOLEAN : ~HelloSettles(j, ok, l)
    BY EndResolvesNone DEF FactoryRejects, HandleClose, HelloSettles
  <2>3. ~UNCHANGED handshake
    OBVIOUS
  <2>4. ~Connect
    <3> SUFFICES ASSUME Connect PROVE FALSE
      OBVIOUS
    <3>1. handshake' = [handshake EXCEPT ![sequence + 1] = "pending"]
      BY DEF Connect, BeginWith
    <3> QED BY <2>0, <3>1
  <2>5. PICK j \in Attempts, f \in Frames, l \in Reactions : Data(j, f, l)
    BY <2>1, <2>2, <2>3, <2>4 DEF Next, Event, Disconnect, HandleError, SendFails, FactoryResolves, Opened, vars
  <2>6. /\ bound # 0 /\ state' = "connected"
        /\ handshake' = [handshake EXCEPT ![id] = "resolved"]
        /\ UNCHANGED <<id, transport>>
    BY <2>1, <2>3, <2>5 DEF Data, HandleData, Handshake, vars
  <2>7. i = id
    BY <2>0, <2>6
  <2> QED BY <2>6, <2>7 DEF Consistent, UsesOwnTransport
<1>2. [Good]_vars <=> Good
  BY DEF vars
<1>3. Spec => [][Good]_vars
  BY <1>1, ConnectionConsistent, PTL DEF Spec
<1> QED BY <1>3 DEF ResolvedIsConnected

-----------------------------------------------------------------------------
(* The client *)

\* Every step of the client is a step of the connection or leaves it alone.
LEMMA ClientStep == [ClientNext]_clientVars => [Next]_vars
<1> SUFFICES ASSUME [ClientNext]_clientVars PROVE [Next]_vars
  OBVIOUS
<1>1. ASSUME NEW a \in Acqs PROVE
        /\ \A m \in {"shared", "exclusive"} : Acquire(a, m) => UNCHANGED vars
        /\ \A g \in BOOLEAN : Release(a, g) => UNCHANGED vars
        /\ Continuation(a) => UNCHANGED vars
        /\ Server(a) => UNCHANGED vars
  BY Zenon DEF Acquire, Release, Continuation, Resume, AttachSettled, ReconcileSettled, DetachSettled,
        Server, Execute, Answer, conn
<1>2. SnapshotEvent => UNCHANGED vars
  BY Zenon DEF SnapshotEvent, conn
<1>3. ConnectionStep => Next
  BY Zenon DEF ConnectionStep
<1>4. Dispose => Next \/ UNCHANGED vars
  BY Zenon DEF Dispose, Next, Reactions
<1>5. UNCHANGED clientVars => UNCHANGED vars
  BY Zenon DEF clientVars, conn
<1> QED BY <1>1, <1>2, <1>3, <1>4, <1>5, Zenon DEF ClientNext

\* The client implements the specification of its connection.
THEOREM ClientImplementsConnection == ClientSpec => Spec
<1>1. ClientInit => Init
  BY DEF ClientInit
<1> QED BY <1>1, ClientStep, PTL DEF ClientSpec, Spec

\* Inside the client, too, no transport leaks, frames go through the attempt's own
\* transport and no connect() is left pending.
THEOREM ClientConsistent == ClientSpec => []Consistent
BY ClientImplementsConnection, ConnectionConsistent, PTL

-----------------------------------------------------------------------------
(* The leases *)

\* The acquisitions that were called.
Begun == {a \in Acqs : at[a] # "idle"}

\* Everyone who attaches shares one promise, and so does everyone who repeats a release.
Promised(kind) == IF kind = "attach" THEN attachment
                  ELSE IF kind = "reconcile" THEN reconciliation ELSE 0

\* A request under way, or settled and not noticed yet, is about one of these promises or
\* a release, and each of them has one.  An orphan may be released beside another lease.
WiredAt(a) ==
    /\ lease[a] # "none" <=> at[a] = "done"
    /\ at[a] # "detach" => awaits[a] = Promised(at[a])
    /\ at[a] \in {"attach", "reconcile"} => awaits[a] # 0
    /\ attachment = a => at[a] = "attach"
    /\ reconciliation = a => at[a] = "reconcile"
    /\ detachment = a => lease[a] = "releasing"
    /\ wire[a] # "none" => /\ outcome[a] = "none"
                           /\ IF wire[a] = "detach" THEN lease[a] = "releasing" ELSE Promised(wire[a]) = a
    /\ outcome[a] # "none" => a \in {attachment, reconciliation} \/ lease[a] = "releasing"
    /\ a \in {attachment, reconciliation} \/ lease[a] = "releasing" => wire[a] # "none" \/ outcome[a] # "none"
    /\ born[a] <= generation

\* Who waits for a release waits for one that is under way.
AwaitsRelease(a) == at[a] = "detach" => awaits[a] \in Acqs /\ lease[awaits[a]] = "releasing"

Wired == executed \subseteq Acqs /\ \A a \in Acqs : WiredAt(a) /\ AwaitsRelease(a)

\* Without a connection nothing is under way and nothing is attached; unless there is an
\* orphan, no lease is left and none is going to be granted.
Offline ==
    /\ ~Up => /\ \A a \in Acqs : wire[a] = "none"
              /\ executed = {} /\ ~attached
    /\ ~Up /\ ~orphaned => \A a \in Acqs : ~Valid(a) /\ ~(outcome[a] = "ok" /\ at[a] = "attach")
    /\ disposed => state = "disconnected"

\* The reservations: never more than calls, and unless there is an orphan never more than
\* are held, and exact with a connection.
Reserved ==
    /\ count <= Cardinality(Begun)
    /\ ~orphaned => count <= Cardinality(Holding)
    /\ ~orphaned /\ Up => count = Cardinality(Holding)
    /\ ~orphaned /\ exclusive # 0 => exclusive \in Holding
    /\ ~orphaned /\ Up => \A a \in Holding : mode[a] = "exclusive" => exclusive = a /\ Holding = {a}

\* While a detach request is under way the others that hold a reservation wait for it; a
\* release that failed is repeated before anything else.
Detaching ==
    ~orphaned /\ Up =>
        /\ \A a \in Acqs : lease[a] = "releasing" => detachment = a
        /\ detachment # 0 => Valid(detachment) /\ \A b \in Holding : b = detachment \/ at[b] = "detach"
        /\ cleanup => \A b \in Holding : at[b] \in {"resumed", "reconcile"}
        /\ reconciliation # 0 => cleanup

LeaseInv == LeaseTypeOK /\ Wired /\ Offline /\ Reserved /\ Detaching

ClientInv == Consistent /\ LeaseInv

\* Sets of acquisitions are finite, and there are at most MaxAcqs.
LEMMA Countable ==
    ASSUME NEW H, H \subseteq Acqs
    PROVE  /\ IsFiniteSet(H) /\ Cardinality(H) \in Nat /\ Cardinality(H) <= MaxAcqs
           /\ MaxAcqs \in Nat /\ Cardinality(Acqs) = MaxAcqs
<1>1. MaxAcqs \in Nat /\ 1 \in Int /\ MaxAcqs \in Int
  BY LeasesAssumption
<1>2. IsFiniteSet(Acqs) /\ Cardinality(Acqs) = MaxAcqs
  BY <1>1, FS_Interval DEF Acqs
<1>3. IsFiniteSet(H) /\ Cardinality(H) <= Cardinality(Acqs)
  BY <1>2, FS_Subset
<1> QED BY <1>1, <1>2, <1>3, FS_CardinalityType

\* What the invariant says of one acquisition.
LEMMA AcqFacts ==
    ASSUME ClientInv, NEW a \in Acqs
    PROVE  /\ a # 0 /\ a \in Nat /\ a \in 0 .. MaxAcqs
           /\ at[a] \in {"idle", "resumed"} => /\ lease[a] = "none" /\ awaits[a] = 0
                                               /\ wire[a] = "none" /\ outcome[a] = "none"
                                               /\ a \notin {attachment, reconciliation, detachment}
           /\ at[a] \in {"idle", "failed"} => a \notin Holding
           /\ at[a] \in {"detach", "resumed", "reconcile", "attach"} => a \in Holding /\ lease[a] = "none"
           /\ detachment = a => at[a] = "done"
           /\ lease[a] = "releasing" => at[a] = "done"
<1>1. a # 0 /\ a \in Nat /\ a \in 0 .. MaxAcqs
  BY LeasesAssumption DEF Acqs
<1>2. at[a] \in {"idle", "resumed"} => lease[a] = "none" /\ awaits[a] = 0
  BY DEF ClientInv, LeaseInv, Wired, WiredAt, Promised
<1>3. at[a] \in {"idle", "resumed"} => a \notin {attachment, reconciliation, detachment}
  BY <1>1, <1>2 DEF ClientInv, LeaseInv, Wired, WiredAt
<1>4. at[a] \in {"idle", "resumed"} => outcome[a] = "none" /\ wire[a] = "none"
  <2>1. wire[a] \in {"none", "attach", "detach", "reconcile"}
    BY DEF ClientInv, LeaseInv, LeaseTypeOK
  <2> QED BY <1>2, <1>3, <2>1 DEF ClientInv, LeaseInv, Wired, WiredAt, Promised
<1>5. at[a] \in {"idle", "failed"} => a \notin Holding
  BY DEF ClientInv, LeaseInv, Wired, WiredAt, Holding, Valid
<1>6. at[a] \in {"detach", "resumed", "reconcile", "attach"} => a \in Holding /\ lease[a] = "none"
  BY DEF ClientInv, LeaseInv, Wired, WiredAt, Holding
<1>7. (detachment = a => at[a] = "done") /\ (lease[a] = "releasing" => at[a] = "done")
  BY DEF ClientInv, LeaseInv, Wired, WiredAt
<1> QED BY <1>1, <1>2, <1>3, <1>4, <1>5, <1>6, <1>7

\* The requests belong to whom LeaseTypeOK says.
LEMMA OwnedRequests ==
    ASSUME Wired', wire' \in [Acqs -> {"none", "attach", "detach", "reconcile"}]
    PROVE  (\A a \in Acqs : (wire[a] # "none" \/ outcome[a] # "none") => lease[a] = "releasing" \/ awaits[a] = a)'
<1> SUFFICES ASSUME NEW a \in Acqs, wire'[a] # "none" \/ outcome'[a] # "none"
             PROVE  lease'[a] = "releasing" \/ awaits'[a] = a
  OBVIOUS
<1>1. a # 0
  BY LeasesAssumption DEF Acqs
<1>2. a \in {attachment', reconciliation'} \/ lease'[a] = "releasing"
  <2>1. CASE outcome'[a] # "none"
    BY <2>1 DEF Wired, WiredAt
  <2>2. CASE wire'[a] # "none"
    BY <1>1, <2>2 DEF Wired, WiredAt, Promised
  <2> QED BY <2>1, <2>2
<1> QED BY <1>1, <1>2 DEF Wired, WiredAt, Promised

\* The acquisitions in A give their reservations back.
LEMMA GivenBack ==
    ASSUME ClientInv, NEW A, A \subseteq Holding, Holding' = Holding \ A,
           count' = CountLess(Cardinality(A)), exclusive' = OwnerLess(A), Begun' = Begun,
           UNCHANGED <<state, mode, orphaned>>
    PROVE  Reserved' /\ count' \in 0 .. Cardinality(Acqs) /\ exclusive' \in 0 .. MaxAcqs
<1>1. count \in 0 .. Cardinality(Acqs) /\ exclusive \in 0 .. MaxAcqs
  BY DEF ClientInv, LeaseInv, LeaseTypeOK
<1>2. /\ Cardinality(Acqs) \in Nat /\ IsFiniteSet(Holding) /\ Cardinality(Holding) \in Nat
      /\ IsFiniteSet(A) /\ Cardinality(A) \in Nat
  <2>1. Holding \subseteq Acqs /\ A \subseteq Acqs
    BY DEF Holding
  <2> QED BY <2>1, Countable
<1>3. Cardinality(Holding') = Cardinality(Holding) - Cardinality(A)
  <2>1. Holding \cap A = A
    OBVIOUS
  <2>2. Cardinality(Holding \ A) = Cardinality(Holding) - Cardinality(Holding \cap A)
    BY <1>2, FS_Difference
  <2> QED BY <2>1, <2>2
<1>4. Cardinality(A) <= Cardinality(Holding)
  BY <1>2, FS_Subset
<1>5. count' = IF count <= Cardinality(A) THEN 0 ELSE count - Cardinality(A)
  BY DEF CountLess
<1>6. exclusive' = IF exclusive \in A THEN 0 ELSE exclusive
  BY DEF OwnerLess
<1>7. Cardinality(Begun) \in Nat /\ count <= Cardinality(Begun)
  <2>1. Begun \subseteq Acqs
    BY DEF Begun
  <2> QED BY <2>1, Countable DEF ClientInv, LeaseInv, Reserved
<1> HIDE DEF Holding, Begun
<1>8. /\ count' \in 0 .. Cardinality(Acqs) /\ exclusive' \in 0 .. MaxAcqs
      /\ count' <= Cardinality(Begun')
  BY <1>1, <1>2, <1>5, <1>6, <1>7, LeasesAssumption
<1>9. ASSUME ~orphaned
      PROVE  /\ count' <= Cardinality(Holding')
             /\ Up' => count' = Cardinality(Holding')
             /\ exclusive' # 0 => exclusive' \in Holding'
             /\ Up' => \A a \in Holding' : mode'[a] = "exclusive" => exclusive' = a /\ Holding' = {a}
  <2>1. /\ count <= Cardinality(Holding)
        /\ Up => count = Cardinality(Holding)
        /\ exclusive # 0 => exclusive \in Holding
        /\ Up => \A a \in Holding : mode[a] = "exclusive" => exclusive = a /\ Holding = {a}
    BY <1>9 DEF ClientInv, LeaseInv, Reserved
  <2>2. count' <= Cardinality(Holding')
    BY <1>1, <1>2, <1>3, <1>4, <1>5, <2>1
  <2>3. Up' => count' = Cardinality(Holding')
    BY <1>1, <1>2, <1>3, <1>4, <1>5, <2>1 DEF Up
  <2>4. exclusive' # 0 => exclusive' \in Holding'
    BY <1>6, <2>1
  <2>5. ASSUME Up', NEW a \in Holding', mode'[a] = "exclusive" PROVE exclusive' = a /\ Holding' = {a}
    BY <1>6, <2>1, <2>5 DEF Up
  <2> QED BY <2>2, <2>3, <2>4, <2>5
<1> QED BY <1>8, <1>9 DEF Reserved

\* Nobody takes or gives back a reservation.
LEMMA ReservationsKept ==
    ASSUME ClientInv, Holding' = Holding, Begun' = Begun, UNCHANGED <<count, exclusive, state, mode, orphaned>>
    PROVE  Reserved' /\ count' \in 0 .. Cardinality(Acqs) /\ exclusive' \in 0 .. MaxAcqs
<1>1. count \in 0 .. Cardinality(Acqs) /\ exclusive \in 0 .. MaxAcqs /\ Reserved
  BY DEF ClientInv, LeaseInv, LeaseTypeOK
<1> HIDE DEF Holding, Begun
<1> QED BY <1>1 DEF Reserved, Up

\* A reservation is taken.
LEMMA ReservationTaken ==
    ASSUME ClientInv, NEW a \in Acqs, NEW m \in {"shared", "exclusive"}, at[a] = "idle", ~disposed, CanReserve(m),
           Holding' = Holding \cup {a}, Begun' = Begun \cup {a}, mode' = [mode EXCEPT ![a] = m], count' = count + 1,
           exclusive' = IF m = "exclusive" THEN a ELSE exclusive, UNCHANGED <<state, orphaned>>
    PROVE  /\ Reserved' /\ count' \in 0 .. Cardinality(Acqs) /\ exclusive' \in 0 .. MaxAcqs
           /\ mode' \in [Acqs -> {"shared", "exclusive"}]
<1>1. /\ count \in 0 .. Cardinality(Acqs) /\ exclusive \in 0 .. MaxAcqs
      /\ mode \in [Acqs -> {"shared", "exclusive"}]
  BY DEF ClientInv, LeaseInv, LeaseTypeOK
<1>2. /\ a \notin Holding /\ a \in 0 .. MaxAcqs /\ a # 0
  BY AcqFacts
<1>3. /\ IsFiniteSet(Holding) /\ Cardinality(Holding) \in Nat /\ Cardinality(Acqs) \in Nat
      /\ IsFiniteSet(Begun) /\ Cardinality(Begun) \in Nat /\ Cardinality(Begun') <= Cardinality(Acqs)
      /\ Holding \subseteq Acqs
  <2>1. Holding \subseteq Acqs /\ Begun \subseteq Acqs /\ Begun' \subseteq Acqs
    BY DEF Holding, Begun
  <2> QED BY <2>1, Countable
<1>4. Cardinality(Holding') = Cardinality(Holding) + 1
  BY <1>2, <1>3, FS_AddElement
<1>5. Cardinality(Begun') = Cardinality(Begun) + 1 /\ count <= Cardinality(Begun)
  <2>1. a \notin Begun
    BY DEF Begun
  <2> QED BY <1>3, <2>1, FS_AddElement DEF ClientInv, LeaseInv, Reserved
<1> HIDE DEF Holding, Begun
<1>6. count' \in 0 .. Cardinality(Acqs) /\ count' <= Cardinality(Begun')
  BY <1>1, <1>3, <1>5
<1>7. exclusive' \in 0 .. MaxAcqs
  BY <1>1, <1>2
<1>8. ASSUME ~orphaned
      PROVE  /\ count' <= Cardinality(Holding')
             /\ Up' => count' = Cardinality(Holding')
             /\ exclusive' # 0 => exclusive' \in Holding'
             /\ Up' => \A b \in Holding' : mode'[b] = "exclusive" => exclusive' = b /\ Holding' = {b}
  <2>1. /\ count <= Cardinality(Holding)
        /\ Up => count = Cardinality(Holding)
        /\ exclusive # 0 => exclusive \in Holding
        /\ Up => \A b \in Holding : mode[b] = "exclusive" => exclusive = b /\ Holding = {b}
    BY <1>8 DEF ClientInv, LeaseInv, Reserved
  <2>2. count' <= Cardinality(Holding')
    BY <1>1, <1>3, <1>4, <2>1
  <2>3. Up' => count' = Cardinality(Holding')
    BY <1>1, <1>3, <1>4, <2>1 DEF Up
  <2>4. exclusive' # 0 => exclusive' \in Holding'
    BY <2>1
  <2>5. ASSUME Up', NEW b \in Holding', mode'[b] = "exclusive" PROVE exclusive' = b /\ Holding' = {b}
    <3>1. CASE m = "exclusive"
      <4>1. count = 0
        BY <3>1 DEF CanReserve
      <4>2. Cardinality(Holding) = 0
        BY <2>1, <2>5, <4>1 DEF Up
      <4>3. Holding = {}
        BY <1>3, <4>2, FS_EmptySet
      <4> QED BY <3>1, <4>3
    <3>2. CASE m = "shared"
      <4>1. exclusive = 0
        BY <3>2 DEF CanReserve
      <4>2. b # a
        BY <1>1, <2>5, <3>2
      <4>3. b \in Holding /\ mode[b] = "exclusive"
        BY <1>1, <1>3, <2>5, <4>2
      <4>4. exclusive = b
        BY <2>1, <2>5, <4>3 DEF Up
      <4>5. b # 0
        BY <1>3, <4>3, AcqFacts
      <4> QED BY <4>1, <4>4, <4>5
    <3> QED BY <3>1, <3>2
  <2> QED BY <2>2, <2>3, <2>4, <2>5
<1>9. mode' \in [Acqs -> {"shared", "exclusive"}]
  BY <1>1
<1> QED BY <1>6, <1>7, <1>8, <1>9 DEF Reserved

\* The types of what acquireSession() and release() write.
CallsTyped ==
    /\ {attachment, detachment, reconciliation} \subseteq 0 .. MaxAcqs
    /\ at \in [Acqs -> {"idle", "detach", "resumed", "reconcile", "attach", "done", "failed"}]
    /\ awaits \in [Acqs -> 0 .. MaxAcqs]
    /\ lease \in [Acqs -> {"none", "active", "releasing", "released", "invalidated"}]
    /\ born \in [Acqs -> Nat] /\ giveUp \in [Acqs -> BOOLEAN]
    /\ wire \in [Acqs -> {"none", "attach", "detach", "reconcile"}]
    /\ outcome \in [Acqs -> {"none", "ok", "error"}]

\* The invariant includes those types.
LEMMA CallsTypedNow == ASSUME ClientInv PROVE CallsTyped /\ generation \in Nat /\ cleanup \in BOOLEAN
BY DEF ClientInv, LeaseInv, LeaseTypeOK, CallsTyped

\* An acquisition that awaits no detachment goes on: it repeats a failed release, attaches
\* the session, or gets its lease at once.
LEMMA ProceedStep ==
    ASSUME ClientInv, NEW a \in Acqs, at[a] \in {"idle", "resumed"}, Proceed(a),
           Up /\ at[a] = "idle" => detachment = 0,
           UNCHANGED <<state, disposed, attached, generation, cleanup, detachment, giveUp, executed, orphaned>>
    PROVE  /\ Wired' /\ Offline' /\ Detaching' /\ CallsTyped'
           /\ Holding' = Holding \cup {a} /\ Begun' = Begun \cup {a}
<1>1. CallsTyped /\ generation \in Nat
  BY CallsTypedNow
<1>2. /\ a # 0 /\ a \in 0 .. MaxAcqs /\ lease[a] = "none" /\ awaits[a] = 0
      /\ wire[a] = "none" /\ outcome[a] = "none" /\ a \notin {attachment, reconciliation, detachment}
  BY AcqFacts
<1>3. Wired /\ Offline /\ Detaching
  BY DEF ClientInv, LeaseInv
<1>4. ~orphaned /\ Up => detachment = 0
  <2>1. ASSUME ~orphaned, Up, at[a] = "resumed", detachment # 0 PROVE FALSE
    BY <1>2, <1>3, <2>1, AcqFacts DEF Detaching
  <2> QED BY <2>1
<1>5. CASE cleanup /\ AwaitReconcile(a) /\ UNCHANGED <<attachment, lease, born>>
  <2> DEFINE w == IF reconciliation = 0 THEN a ELSE reconciliation
  <2>1. /\ at' = [b \in Acqs |-> IF b \in {a} THEN "reconcile" ELSE at[b]]
        /\ awaits' = [b \in Acqs |-> IF b \in {a} THEN w ELSE awaits[b]]
        /\ reconciliation' = w
    BY <1>5 DEF AwaitReconcile, Await
  <2>2. \/ reconciliation = 0 /\ Up /\ wire' = [wire EXCEPT ![a] = "reconcile"] /\ outcome' = outcome
        \/ reconciliation = 0 /\ ~Up /\ wire' = wire /\ outcome' = [outcome EXCEPT ![a] = "error"]
        \/ reconciliation # 0 /\ wire' = wire /\ outcome' = outcome
    BY <1>5 DEF AwaitReconcile, Request
  <2>3. CallsTyped'
    BY <1>1, <1>2, <1>5, <2>1, <2>2 DEF CallsTyped
  <2>4. Holding' = Holding \cup {a} /\ Begun' = Begun \cup {a}
    BY <1>5, <2>1 DEF Holding, Valid, Begun
  <2>5. ASSUME NEW b \in Acqs PROVE WiredAt(b)'
    <3>1. CASE b = a
      BY <1>1, <1>2, <1>3, <1>5, <2>1, <2>2, <3>1 DEF Wired, WiredAt, Promised, CallsTyped
    <3>2. CASE b # a
      BY <1>1, <1>2, <1>3, <1>5, <2>1, <2>2, <3>2 DEF Wired, WiredAt, Promised, CallsTyped
    <3> QED BY <3>1, <3>2
  <2>6. Offline'
    BY <1>1, <1>2, <1>3, <1>5, <2>1, <2>2 DEF Offline, Up, Valid, CallsTyped
  <2>7. Detaching'
    <3>1. ~orphaned /\ Up => \A b \in Holding \cup {a} : at'[b] \in {"resumed", "reconcile"}
      BY <1>3, <1>5, <2>1 DEF Detaching, Holding
    <3>2. ~orphaned /\ Up => \A b \in Acqs : lease'[b] # "releasing"
      BY <1>3, <1>4, <1>5, AcqFacts DEF Detaching
    <3> QED BY <1>4, <1>5, <2>4, <3>1, <3>2 DEF Detaching, Up
  <2>8. Wired'
    <3>1. ASSUME NEW b \in Acqs PROVE AwaitsRelease(b)'
      BY <1>1, <1>2, <1>3, <1>5, <2>1 DEF Wired, AwaitsRelease, CallsTyped
    <3> QED BY <1>3, <2>5, <3>1 DEF Wired
  <2> QED BY <2>3, <2>4, <2>6, <2>7, <2>8
<1>6. CASE ~cleanup /\ AwaitAttach({a}, a) /\ UNCHANGED <<reconciliation, lease, born>>
  <2> DEFINE w == IF attachment = 0 THEN a ELSE attachment
  <2>1. /\ at' = [b \in Acqs |-> IF b \in {a} THEN "attach" ELSE at[b]]
        /\ awaits' = [b \in Acqs |-> IF b \in {a} THEN w ELSE awaits[b]]
        /\ attachment' = w
    BY <1>6 DEF AwaitAttach, Await
  <2>2. \/ attachment = 0 /\ Up /\ wire' = [wire EXCEPT ![a] = "attach"] /\ outcome' = outcome
        \/ attachment = 0 /\ ~Up /\ wire' = wire /\ outcome' = [outcome EXCEPT ![a] = "error"]
        \/ attachment # 0 /\ wire' = wire /\ outcome' = [outcome EXCEPT ![a] = "none"]
    BY <1>6 DEF AwaitAttach, Request
  <2>3. CallsTyped'
    BY <1>1, <1>2, <1>6, <2>1, <2>2 DEF CallsTyped
  <2>4. Holding' = Holding \cup {a} /\ Begun' = Begun \cup {a}
    BY <1>6, <2>1 DEF Holding, Valid, Begun
  <2>5. ASSUME NEW b \in Acqs PROVE WiredAt(b)'
    <3>1. CASE b = a
      BY <1>1, <1>2, <1>3, <1>6, <2>1, <2>2, <3>1 DEF Wired, WiredAt, Promised, CallsTyped
    <3>2. CASE b # a
      BY <1>1, <1>2, <1>3, <1>6, <2>1, <2>2, <3>2 DEF Wired, WiredAt, Promised, CallsTyped
    <3> QED BY <3>1, <3>2
  <2>6. Offline'
    BY <1>1, <1>2, <1>3, <1>6, <2>1, <2>2 DEF Offline, Up, Valid, CallsTyped
  <2>7. Detaching'
    <3>1. ~orphaned /\ Up => \A b \in Acqs : lease'[b] # "releasing"
      BY <1>3, <1>4, <1>6, AcqFacts DEF Detaching
    <3> QED BY <1>3, <1>4, <1>6, <2>1, <2>4, <3>1 DEF Detaching, Up
  <2>8. Wired'
    <3>1. ASSUME NEW b \in Acqs PROVE AwaitsRelease(b)'
      BY <1>1, <1>2, <1>3, <1>6, <2>1 DEF Wired, AwaitsRelease, CallsTyped
    <3> QED BY <1>3, <2>5, <3>1 DEF Wired
  <2> QED BY <2>3, <2>4, <2>6, <2>7, <2>8
<1>7. CASE ~cleanup /\ attached /\ Granted({a}) /\ UNCHANGED <<attachment, reconciliation, wire, outcome>>
  <2>1. /\ at' = [b \in Acqs |-> IF b \in {a} THEN "done" ELSE at[b]]
        /\ awaits' = [b \in Acqs |-> IF b \in {a} THEN 0 ELSE awaits[b]]
        /\ lease' = [b \in Acqs |-> IF b \in {a} THEN "active" ELSE lease[b]]
        /\ born' = [b \in Acqs |-> IF b \in {a} THEN generation ELSE born[b]]
    BY <1>7 DEF Granted
  <2>2. Up
    BY <1>3, <1>7 DEF Offline
  <2>3. CallsTyped'
    BY <1>1, <1>2, <1>7, <2>1 DEF CallsTyped
  <2>4. Holding' = Holding \cup {a} /\ Begun' = Begun \cup {a}
    BY <1>7, <2>1 DEF Holding, Valid, Begun
  <2>5. ASSUME NEW b \in Acqs PROVE WiredAt(b)'
    <3>1. CASE b = a
      BY <1>1, <1>2, <1>3, <1>7, <2>1, <3>1 DEF Wired, WiredAt, Promised, CallsTyped
    <3>2. CASE b # a
      BY <1>1, <1>2, <1>3, <1>7, <2>1, <3>2 DEF Wired, WiredAt, Promised, CallsTyped
    <3> QED BY <3>1, <3>2
  <2>6. Offline'
    BY <1>3, <2>2 DEF Offline, Up
  <2>7. Detaching'
    <3>1. ~orphaned /\ Up => \A b \in Acqs : lease'[b] # "releasing"
      BY <1>3, <1>4, <1>7, <2>1, AcqFacts DEF Detaching
    <3> QED BY <1>3, <1>4, <1>7, <2>2, <3>1 DEF Detaching, Up
  <2>8. Wired'
    <3>1. ASSUME NEW b \in Acqs PROVE AwaitsRelease(b)'
      BY <1>1, <1>2, <1>3, <1>7, <2>1 DEF Wired, AwaitsRelease, CallsTyped
    <3> QED BY <1>3, <2>5, <3>1 DEF Wired
  <2> QED BY <2>3, <2>4, <2>6, <2>7, <2>8
<1> QED BY <1>5, <1>6, <1>7 DEF Proceed

\* The parts of the invariant that most operations leave to the lemmas above.
LEMMA LeaseInvNext ==
    ASSUME ClientInv, Wired', Offline', Detaching', Reserved', CallsTyped',
           count' \in 0 .. Cardinality(Acqs), exclusive' \in 0 .. MaxAcqs,
           mode' \in [Acqs -> {"shared", "exclusive"}],
           disposed' \in BOOLEAN, sync' \in BOOLEAN, attached' \in BOOLEAN, served' \in BOOLEAN,
           cleanup' \in BOOLEAN, orphaned' \in BOOLEAN, generation' \in Nat,
           \A a \in executed' : wire'[a] # "none"
    PROVE  LeaseInv'
BY OwnedRequests DEF LeaseInv, LeaseTypeOK, CallsTyped

\* acquireSession()
LEMMA AcquireKeeps ==
    ASSUME ClientInv, NEW a \in Acqs, NEW m \in {"shared", "exclusive"}, Acquire(a, m)
    PROVE  LeaseInv'
<1>1. /\ at[a] = "idle" /\ ~disposed /\ CanReserve(m) /\ mode' = [mode EXCEPT ![a] = m] /\ count' = count + 1
      /\ exclusive' = IF m = "exclusive" THEN a ELSE exclusive
      /\ UNCHANGED <<state, disposed, sync, attached, served, generation, cleanup, detachment, giveUp, executed,
                     orphaned>>
  BY DEF Acquire, conn, vars
<1>2. /\ Wired' /\ Offline' /\ Detaching' /\ CallsTyped'
      /\ Holding' = Holding \cup {a} /\ Begun' = Begun \cup {a}
      /\ wire[a] = "none" /\ (\A b \in Acqs : b # a => wire'[b] = wire[b])
  <2>1. CASE detachment = 0 /\ Proceed(a)
    <3>1. wire[a] = "none" /\ CallsTyped
      BY <1>1, AcqFacts, CallsTypedNow
    <3>2. \A b \in Acqs : b # a => wire'[b] = wire[b]
      BY <2>1, <3>1 DEF Proceed, AwaitReconcile, AwaitAttach, Request, CallsTyped
    <3> QED BY <1>1, <2>1, <3>1, <3>2, ProceedStep
  <2>2. CASE detachment # 0 /\ Await({a}, "detach", detachment)
             /\ UNCHANGED <<attachment, reconciliation, lease, born, wire, outcome>>
    <3>1. /\ at' = [b \in Acqs |-> IF b \in {a} THEN "detach" ELSE at[b]]
          /\ awaits' = [b \in Acqs |-> IF b \in {a} THEN detachment ELSE awaits[b]]
      BY <2>2 DEF Await
    <3>2. CallsTyped /\ Wired /\ Offline /\ Detaching /\ wire[a] = "none"
      BY <1>1, AcqFacts, CallsTypedNow DEF ClientInv, LeaseInv
    <3>3. /\ a # 0 /\ lease[a] = "none" /\ outcome[a] = "none" /\ a \notin {attachment, reconciliation, detachment}
      BY <1>1, AcqFacts
    <3>4. CallsTyped'
      BY <1>1, <2>2, <3>1, <3>2 DEF CallsTyped
    <3>5. Holding' = Holding \cup {a} /\ Begun' = Begun \cup {a}
      BY <1>1, <2>2, <3>1 DEF Holding, Valid, Begun
    <3>6. ASSUME NEW b \in Acqs PROVE WiredAt(b)'
      <4>1. CASE b = a
        BY <1>1, <2>2, <3>1, <3>2, <3>3, <4>1 DEF Wired, WiredAt, Promised, CallsTyped
      <4>2. CASE b # a
        BY <1>1, <2>2, <3>1, <3>2, <3>3, <4>2 DEF Wired, WiredAt, Promised, CallsTyped
      <4> QED BY <4>1, <4>2
    <3>7. Offline'
      BY <1>1, <2>2, <3>1, <3>2 DEF Offline, Up, Valid
    <3>8. Detaching'
      <4> SUFFICES ASSUME ~orphaned, Up
                   PROVE  /\ \A b \in Acqs : lease'[b] = "releasing" => detachment' = b
                          /\ Valid(detachment)' /\ \A b \in Holding' : b = detachment \/ at'[b] = "detach"
                          /\ ~cleanup' /\ reconciliation' = 0
        BY <1>1, <2>2 DEF Detaching, Up
      <4>1. Valid(detachment) /\ \A b \in Holding : b = detachment \/ at[b] = "detach"
        BY <2>2, <3>2 DEF Detaching
      <4>2. Valid(detachment)'
        BY <1>1, <2>2, <4>1 DEF Valid
      <4>3. ASSUME NEW b \in Holding \cup {a}, b # detachment PROVE at'[b] = "detach"
        BY <3>1, <4>1, <4>3 DEF Holding
      <4>4. ~cleanup /\ reconciliation = 0
        <5>1. detachment \in Acqs
          BY <2>2, <3>2, LeasesAssumption DEF CallsTyped, Acqs
        <5>2. detachment \in Holding
          BY <4>1, <5>1 DEF Holding
        <5>3. at[detachment] = "done"
          BY <5>1, AcqFacts
        <5> QED BY <3>2, <5>2, <5>3 DEF Detaching
      <4>5. \A b \in Acqs : lease'[b] = "releasing" => detachment' = b
        BY <1>1, <2>2, <3>2 DEF Detaching
      <4> QED BY <1>1, <2>2, <3>5, <4>2, <4>3, <4>4, <4>5
    <3>9. Wired'
      <4>1. detachment \in Acqs /\ lease[detachment] = "releasing"
        BY <2>2, <3>2, LeasesAssumption DEF CallsTyped, Acqs, Wired, WiredAt
      <4>2. ASSUME NEW b \in Acqs PROVE AwaitsRelease(b)'
        BY <2>2, <3>1, <3>2, <4>1 DEF Wired, AwaitsRelease
      <4> QED BY <1>1, <3>2, <3>6, <4>2 DEF Wired
    <3> QED BY <2>2, <3>2, <3>4, <3>5, <3>7, <3>8, <3>9
  <2> QED BY <2>1, <2>2 DEF Acquire
<1>3. /\ Reserved' /\ count' \in 0 .. Cardinality(Acqs) /\ exclusive' \in 0 .. MaxAcqs
      /\ mode' \in [Acqs -> {"shared", "exclusive"}]
  BY <1>1, <1>2, ReservationTaken
<1>4. \A b \in executed' : wire'[b] # "none"
  BY <1>1, <1>2 DEF ClientInv, LeaseInv, LeaseTypeOK, Wired
<1>5. /\ disposed' \in BOOLEAN /\ sync' \in BOOLEAN /\ attached' \in BOOLEAN /\ served' \in BOOLEAN
      /\ cleanup' \in BOOLEAN /\ orphaned' \in BOOLEAN /\ generation' \in Nat
  BY <1>1 DEF ClientInv, LeaseInv, LeaseTypeOK
<1> QED BY <1>2, <1>3, <1>4, <1>5, LeaseInvNext

\* A call of acquireSession() goes on after the detachment it awaited.
LEMMA ResumeKeeps ==
    ASSUME ClientInv, NEW a \in Acqs, Resume(a)
    PROVE  LeaseInv'
<1>1. /\ at[a] = "resumed" /\ sync' = FALSE /\ Proceed(a)
      /\ UNCHANGED <<state, disposed, attached, served, count, exclusive, generation, cleanup, detachment, mode,
                     giveUp, executed, orphaned>>
  BY DEF Resume, conn, vars, maps
<1>2. a \in Holding /\ wire[a] = "none" /\ CallsTyped
  BY <1>1, AcqFacts, CallsTypedNow
<1>3. /\ Wired' /\ Offline' /\ Detaching' /\ CallsTyped'
      /\ Holding' = Holding \cup {a} /\ Begun' = Begun \cup {a}
  BY <1>1, ProceedStep
<1>4. \A b \in Acqs : b # a => wire'[b] = wire[b]
  BY <1>1, <1>2 DEF Proceed, AwaitReconcile, AwaitAttach, Request, CallsTyped
<1>5. Holding' = Holding /\ Begun' = Begun
  BY <1>1, <1>2, <1>3 DEF Begun
<1>6. Reserved' /\ count' \in 0 .. Cardinality(Acqs) /\ exclusive' \in 0 .. MaxAcqs
  BY <1>1, <1>5, ReservationsKept
<1>7. /\ disposed' \in BOOLEAN /\ sync' \in BOOLEAN /\ attached' \in BOOLEAN /\ served' \in BOOLEAN
      /\ cleanup' \in BOOLEAN /\ orphaned' \in BOOLEAN /\ generation' \in Nat
      /\ mode' \in [Acqs -> {"shared", "exclusive"}]
      /\ \A b \in executed' : wire'[b] # "none"
  BY <1>1, <1>2, <1>4 DEF ClientInv, LeaseInv, LeaseTypeOK, Wired
<1> QED BY <1>3, <1>6, <1>7, LeaseInvNext

\* An attach request is settled: everyone who awaited it has a lease, or nobody has.
LEMMA AttachSettledKeeps ==
    ASSUME ClientInv, NEW a \in Acqs, AttachSettled(a)
    PROVE  LeaseInv'
<1> DEFINE B == Waiting("attach", a)
<1>1. /\ outcome[a] # "none" /\ at[a] = "attach" /\ awaits[a] = a /\ sync' = FALSE
      /\ outcome' = [outcome EXCEPT ![a] = "none"]
      /\ attachment' = IF attachment = a THEN 0 ELSE attachment
      /\ UNCHANGED <<state, disposed, attached, served, generation, cleanup, detachment, reconciliation, mode,
                     giveUp, wire, executed, orphaned>>
  BY DEF AttachSettled, conn, vars
<1>2. CallsTyped /\ generation \in Nat /\ Wired /\ Offline /\ Detaching
  BY CallsTypedNow DEF ClientInv, LeaseInv
<1>3. attachment = a /\ a # 0 /\ wire[a] = "none" /\ attachment' = 0
  <2>1. attachment = a /\ a # 0
    BY <1>1, <1>2, AcqFacts DEF Wired, WiredAt, Promised
  <2> QED BY <1>1, <1>2, <2>1 DEF Wired, WiredAt, CallsTyped
<1>4. \A b \in Acqs : b \in B <=> at[b] = "attach"
  BY <1>2, <1>3 DEF Wired, WiredAt, Promised, Waiting
<1>5. B \subseteq Acqs /\ a \in B
  BY <1>1, <1>4 DEF Waiting
<1> HIDE DEF B
<1>6. ~orphaned /\ Up => detachment = 0 /\ ~cleanup /\ \A b \in Acqs : lease[b] # "releasing"
  <2>1. a \in Holding /\ (detachment = a => at[a] = "done")
    BY <1>1, AcqFacts
  <2>2. ~orphaned /\ Up => detachment = 0 /\ ~cleanup
    BY <1>1, <1>2, <2>1 DEF Detaching
  <2> QED BY <1>2, <2>2, AcqFacts DEF Detaching
<1>7. /\ disposed' \in BOOLEAN /\ sync' \in BOOLEAN /\ attached' \in BOOLEAN /\ served' \in BOOLEAN
      /\ cleanup' \in BOOLEAN /\ orphaned' \in BOOLEAN /\ generation' \in Nat
      /\ mode' \in [Acqs -> {"shared", "exclusive"}]
      /\ \A b \in executed' : wire'[b] # "none"
  BY <1>1 DEF ClientInv, LeaseInv, LeaseTypeOK
<1>8. CASE outcome[a] = "ok" /\ Granted(B) /\ UNCHANGED <<count, exclusive>>
  <2>1. /\ at' = [b \in Acqs |-> IF b \in B THEN "done" ELSE at[b]]
        /\ awaits' = [b \in Acqs |-> IF b \in B THEN 0 ELSE awaits[b]]
        /\ lease' = [b \in Acqs |-> IF b \in B THEN "active" ELSE lease[b]]
        /\ born' = [b \in Acqs |-> IF b \in B THEN generation ELSE born[b]]
    BY <1>8 DEF Granted
  <2>2. CallsTyped'
    BY <1>1, <1>2, <1>3, <2>1, LeasesAssumption DEF CallsTyped
  <2>3. Holding' = Holding /\ Begun' = Begun
    BY <1>1, <1>4, <2>1 DEF Holding, Valid, Begun
  <2>4. ASSUME NEW b \in Acqs PROVE WiredAt(b)'
    <3>1. /\ at'[b] = (IF b \in B THEN "done" ELSE at[b]) /\ awaits'[b] = (IF b \in B THEN 0 ELSE awaits[b])
          /\ lease'[b] = (IF b \in B THEN "active" ELSE lease[b])
          /\ born'[b] = (IF b \in B THEN generation ELSE born[b])
          /\ outcome'[b] = (IF b = a THEN "none" ELSE outcome[b])
          /\ b \in B <=> at[b] = "attach"
      BY <1>1, <1>2, <1>4, <2>1 DEF CallsTyped
    <3>2. WiredAt(b) /\ b # 0 /\ (lease[b] = "releasing" => at[b] = "done")
      BY <1>2, AcqFacts DEF Wired
    <3>3. UNCHANGED <<detachment, reconciliation, wire, generation>>
      BY <1>1
    <3>4. CASE b \in B
      BY <1>2, <1>3, <3>1, <3>2, <3>3, <3>4 DEF WiredAt, Promised
    <3>5. CASE b \notin B
      BY <1>3, <1>5, <3>1, <3>2, <3>3, <3>5 DEF WiredAt, Promised
    <3> QED BY <3>4, <3>5
  <2>5. Offline'
    <3>1. ~Up => orphaned
      BY <1>1, <1>2, <1>8 DEF Offline
    <3> QED BY <1>1, <1>2, <3>1 DEF Offline, Up
  <2>6. Detaching'
    BY <1>1, <1>2, <1>6, <2>1 DEF Detaching, Up
  <2>7. Reserved' /\ count' \in 0 .. Cardinality(Acqs) /\ exclusive' \in 0 .. MaxAcqs
    BY <1>1, <1>8, <2>3, ReservationsKept
  <2>8. Wired'
    <3>1. ASSUME NEW b \in Acqs PROVE AwaitsRelease(b)'
      <4>1. at'[b] = "detach" => at[b] = "detach" /\ awaits'[b] = awaits[b] /\ AwaitsRelease(b)
        BY <1>2, <1>4, <2>1 DEF Wired
      <4>2. \A c \in Acqs : lease[c] = "releasing" => lease'[c] = "releasing"
        BY <1>4, <2>1, AcqFacts
      <4> QED BY <4>1, <4>2 DEF AwaitsRelease
    <3> QED BY <1>1, <1>2, <2>4, <3>1 DEF Wired
  <2> QED BY <1>7, <2>2, <2>5, <2>6, <2>7, <2>8, LeaseInvNext
<1>9. CASE outcome[a] = "error" /\ Refused(B) /\ UNCHANGED <<lease, born>>
  <2>1. /\ at' = [b \in Acqs |-> IF b \in B THEN "failed" ELSE at[b]]
        /\ awaits' = [b \in Acqs |-> IF b \in B THEN 0 ELSE awaits[b]]
        /\ count' = CountLess(Cardinality(B)) /\ exclusive' = OwnerLess(B)
    BY <1>9 DEF Refused
  <2>2. CallsTyped'
    BY <1>1, <1>2, <1>3, <1>9, <2>1, LeasesAssumption DEF CallsTyped
  <2>3. Holding' = Holding \ B /\ B \subseteq Holding
    BY <1>1, <1>2, <1>4, <1>5, <1>9, <2>1 DEF Holding, Valid, Wired, WiredAt
  <2>10. Begun' = Begun
    BY <1>4, <2>1 DEF Begun
  <2>4. ASSUME NEW b \in Acqs PROVE WiredAt(b)'
    <3>1. /\ at'[b] = (IF b \in B THEN "failed" ELSE at[b]) /\ awaits'[b] = (IF b \in B THEN 0 ELSE awaits[b])
          /\ outcome'[b] = (IF b = a THEN "none" ELSE outcome[b])
          /\ b \in B <=> at[b] = "attach"
      BY <1>1, <1>2, <1>4, <1>9, <2>1 DEF CallsTyped
    <3>2. WiredAt(b) /\ b # 0 /\ (lease[b] = "releasing" => at[b] = "done")
      BY <1>2, AcqFacts DEF Wired
    <3>3. UNCHANGED <<detachment, reconciliation, wire, generation, lease, born>>
      BY <1>1, <1>9
    <3>4. CASE b \in B
      BY <1>1, <1>3, <3>1, <3>2, <3>3, <3>4 DEF WiredAt, Promised
    <3>5. CASE b \notin B
      BY <1>1, <1>3, <1>5, <3>1, <3>2, <3>3, <3>5 DEF WiredAt, Promised
    <3> QED BY <3>4, <3>5
  <2>5. Offline'
    BY <1>1, <1>2, <1>9, <2>1 DEF Offline, Up, Valid, CallsTyped
  <2>6. Detaching'
    BY <1>1, <1>2, <1>6, <1>9 DEF Detaching, Up
  <2>7. Reserved' /\ count' \in 0 .. Cardinality(Acqs) /\ exclusive' \in 0 .. MaxAcqs
    BY <1>1, <2>1, <2>3, <2>10, GivenBack
  <2>8. Wired'
    <3>1. ASSUME NEW b \in Acqs PROVE AwaitsRelease(b)'
      BY <1>2, <1>4, <1>9, <2>1 DEF Wired, AwaitsRelease
    <3> QED BY <1>1, <1>2, <2>4, <3>1 DEF Wired
  <2> QED BY <1>7, <2>2, <2>5, <2>6, <2>7, <2>8, LeaseInvNext
<1> QED BY <1>8, <1>9 DEF AttachSettled, B

\* The repetition of a failed release is settled: everyone who awaited it attaches anew,
\* or fails.
LEMMA ReconcileSettledKeeps ==
    ASSUME ClientInv, NEW a \in Acqs, ReconcileSettled(a)
    PROVE  LeaseInv'
<1> DEFINE B == Waiting("reconcile", a)
           w == IF attachment = 0 THEN a ELSE attachment
<1>1. /\ outcome[a] # "none" /\ at[a] = "reconcile" /\ awaits[a] = a /\ sync' = FALSE /\ reconciliation' = 0
      /\ UNCHANGED <<state, disposed, attached, served, generation, detachment, mode, lease, born, giveUp, executed,
                     orphaned>>
  BY DEF ReconcileSettled, conn, vars
<1>2. CallsTyped /\ generation \in Nat /\ Wired /\ Offline /\ Detaching
  BY CallsTypedNow DEF ClientInv, LeaseInv
<1>3. reconciliation = a /\ a # 0 /\ wire[a] = "none" /\ a \in 0 .. MaxAcqs
  <2>1. reconciliation = a /\ a # 0 /\ a \in 0 .. MaxAcqs
    BY <1>1, <1>2, AcqFacts DEF Wired, WiredAt, Promised
  <2> QED BY <1>1, <1>2, <2>1 DEF Wired, WiredAt, CallsTyped
<1>4. \A b \in Acqs : b \in B <=> at[b] = "reconcile"
  BY <1>2, <1>3 DEF Wired, WiredAt, Promised, Waiting
<1>5. B \subseteq Acqs /\ a \in B
  BY <1>1, <1>4 DEF Waiting
<1> HIDE DEF B
<1>6. ~orphaned /\ Up => detachment = 0 /\ cleanup /\ \A b \in Acqs : lease[b] # "releasing"
  <2>1. a \in Holding /\ (detachment = a => at[a] = "done")
    BY <1>1, AcqFacts
  <2>2. ~orphaned /\ Up => detachment = 0 /\ cleanup
    BY <1>1, <1>2, <1>3, <2>1 DEF Detaching
  <2> QED BY <1>2, <2>2, AcqFacts DEF Detaching
<1>7. /\ disposed' \in BOOLEAN /\ sync' \in BOOLEAN /\ attached' \in BOOLEAN /\ served' \in BOOLEAN
      /\ orphaned' \in BOOLEAN /\ generation' \in Nat /\ mode' \in [Acqs -> {"shared", "exclusive"}]
      /\ \A b \in executed' : wire[b] # "none"
  BY <1>1 DEF ClientInv, LeaseInv, LeaseTypeOK
<1>8. CASE /\ outcome[a] = "ok" /\ cleanup' = FALSE
           /\ Await(B, "attach", w) /\ attachment' = w
           /\ wire' = [wire EXCEPT ![a] = IF attachment = 0 /\ Up THEN "attach" ELSE @]
           /\ outcome' = [outcome EXCEPT ![a] = IF attachment = 0 /\ ~Up THEN "error" ELSE "none"]
           /\ UNCHANGED <<count, exclusive>>
  <2>1. /\ at' = [b \in Acqs |-> IF b \in B THEN "attach" ELSE at[b]]
        /\ awaits' = [b \in Acqs |-> IF b \in B THEN w ELSE awaits[b]]
    BY <1>8 DEF Await
  <2>2. CallsTyped'
    <3>1. w \in 0 .. MaxAcqs /\ 0 \in 0 .. MaxAcqs
      BY <1>2, <1>3, LeasesAssumption DEF CallsTyped
    <3> QED BY <1>1, <1>2, <1>8, <2>1, <3>1 DEF CallsTyped
  <2>3. Holding' = Holding /\ Begun' = Begun
    BY <1>1, <1>4, <2>1 DEF Holding, Valid, Begun
  <2>4. ASSUME NEW b \in Acqs PROVE WiredAt(b)'
    <3>1. /\ at'[b] = (IF b \in B THEN "attach" ELSE at[b]) /\ awaits'[b] = (IF b \in B THEN w ELSE awaits[b])
          /\ wire'[b] = (IF b = a /\ attachment = 0 /\ Up THEN "attach" ELSE wire[b])
          /\ outcome'[b] = (IF b # a THEN outcome[b] ELSE IF attachment = 0 /\ ~Up THEN "error" ELSE "none")
          /\ b \in B <=> at[b] = "reconcile"
      BY <1>1, <1>2, <1>4, <1>8, <2>1 DEF CallsTyped
    <3>2. WiredAt(b) /\ b # 0 /\ (lease[b] = "releasing" => at[b] = "done")
      BY <1>2, AcqFacts DEF Wired
    <3>3. UNCHANGED <<detachment, generation, lease, born>> /\ attachment' = w /\ reconciliation' = 0
      BY <1>1, <1>8
    <3>4. CASE b = a
      BY <1>3, <1>5, <3>1, <3>2, <3>3, <3>4 DEF WiredAt, Promised
    <3>5. CASE b \in B /\ b # a
      BY <1>3, <3>1, <3>2, <3>3, <3>5 DEF WiredAt, Promised
    <3>6. CASE b \notin B
      BY <1>3, <1>5, <3>1, <3>2, <3>3, <3>6 DEF WiredAt, Promised
    <3> QED BY <3>4, <3>5, <3>6
  <2>5. Offline'
    <3>1. \A b \in B : outcome'[b] # "ok"
      BY <1>2, <1>3, <1>4, <1>5, <1>8, AcqFacts DEF Wired, WiredAt, CallsTyped
    <3>2. \A b \in Acqs \ B : outcome'[b] = outcome[b] /\ at'[b] = at[b]
      BY <1>5, <1>8, <2>1, <1>2 DEF CallsTyped
    <3>3. ~Up => \A b \in Acqs : wire'[b] = "none"
      BY <1>2, <1>8 DEF Offline, CallsTyped
    <3> QED BY <1>1, <1>2, <3>1, <3>2, <3>3 DEF Offline, Up, Valid
  <2>6. Detaching'
    BY <1>1, <1>6, <1>8 DEF Detaching, Up
  <2>7. Reserved' /\ count' \in 0 .. Cardinality(Acqs) /\ exclusive' \in 0 .. MaxAcqs
    BY <1>1, <1>8, <2>3, ReservationsKept
  <2>8. Wired'
    <3>1. ASSUME NEW b \in Acqs PROVE AwaitsRelease(b)'
      BY <1>1, <1>2, <1>4, <2>1 DEF Wired, AwaitsRelease
    <3> QED BY <1>1, <1>2, <2>4, <3>1 DEF Wired
  <2>9. cleanup' \in BOOLEAN /\ \A b \in executed' : wire'[b] # "none"
    BY <1>1, <1>2, <1>3, <1>7, <1>8 DEF CallsTyped, Wired
  <2> QED BY <1>7, <2>2, <2>5, <2>6, <2>7, <2>8, <2>9, LeaseInvNext
<1>9. CASE /\ outcome[a] = "error" /\ outcome' = [outcome EXCEPT ![a] = "none"] /\ Refused(B)
           /\ UNCHANGED <<cleanup, attachment, wire>>
  <2>1. /\ at' = [b \in Acqs |-> IF b \in B THEN "failed" ELSE at[b]]
        /\ awaits' = [b \in Acqs |-> IF b \in B THEN 0 ELSE awaits[b]]
        /\ count' = CountLess(Cardinality(B)) /\ exclusive' = OwnerLess(B)
    BY <1>9 DEF Refused
  <2>2. CallsTyped'
    BY <1>1, <1>2, <1>9, <2>1, LeasesAssumption DEF CallsTyped
  <2>3. Holding' = Holding \ B /\ B \subseteq Holding
    BY <1>1, <1>2, <1>4, <1>5, <1>9, <2>1 DEF Holding, Valid, Wired, WiredAt
  <2>10. Begun' = Begun
    BY <1>4, <2>1 DEF Begun
  <2>4. ASSUME NEW b \in Acqs PROVE WiredAt(b)'
    <3>1. /\ at'[b] = (IF b \in B THEN "failed" ELSE at[b]) /\ awaits'[b] = (IF b \in B THEN 0 ELSE awaits[b])
          /\ outcome'[b] = (IF b = a THEN "none" ELSE outcome[b])
          /\ b \in B <=> at[b] = "reconcile"
      BY <1>1, <1>2, <1>4, <1>9, <2>1 DEF CallsTyped
    <3>2. WiredAt(b) /\ b # 0 /\ (lease[b] = "releasing" => at[b] = "done")
      BY <1>2, AcqFacts DEF Wired
    <3>3. UNCHANGED <<detachment, attachment, wire, generation, lease, born>>
      BY <1>1, <1>9
    <3>4. CASE b \in B
      BY <1>1, <1>3, <3>1, <3>2, <3>3, <3>4 DEF WiredAt, Promised
    <3>5. CASE b \notin B
      BY <1>1, <1>3, <1>5, <3>1, <3>2, <3>3, <3>5 DEF WiredAt, Promised
    <3> QED BY <3>4, <3>5
  <2>5. Offline'
    BY <1>1, <1>2, <1>9, <2>1 DEF Offline, Up, Valid, CallsTyped
  <2>6. Detaching'
    <3>1. ~orphaned /\ Up' => \A b \in Holding \ B : at'[b] \in {"resumed", "reconcile"}
      BY <1>1, <1>2, <1>6, <2>1 DEF Detaching, Up, Holding
    <3> QED BY <1>1, <1>6, <2>3, <3>1 DEF Detaching, Up
  <2>7. Reserved' /\ count' \in 0 .. Cardinality(Acqs) /\ exclusive' \in 0 .. MaxAcqs
    BY <1>1, <2>1, <2>3, <2>10, GivenBack
  <2>8. Wired'
    <3>1. ASSUME NEW b \in Acqs PROVE AwaitsRelease(b)'
      BY <1>1, <1>2, <1>4, <2>1 DEF Wired, AwaitsRelease
    <3> QED BY <1>1, <1>2, <2>4, <3>1 DEF Wired
  <2>9. cleanup' \in BOOLEAN /\ \A b \in executed' : wire'[b] # "none"
    BY <1>7, <1>9, CallsTypedNow
  <2> QED BY <1>7, <2>2, <2>5, <2>6, <2>7, <2>8, <2>9, LeaseInvNext
<1> QED BY <1>8, <1>9 DEF ReconcileSettled, B

\* detach() or dispose() of an active lease
LEMMA ReleaseKeeps ==
    ASSUME ClientInv, NEW a \in Acqs, NEW g \in BOOLEAN, Release(a, g)
    PROVE  LeaseInv'
<1>1. /\ lease[a] = "active" /\ born[a] = generation /\ attached /\ Up /\ ~disposed
      /\ giveUp' \in [Acqs -> BOOLEAN]
      /\ UNCHANGED <<state, disposed, sync, attached, served, generation, cleanup, attachment, reconciliation,
                     at, awaits, mode, born, executed, orphaned>>
  BY CallsTypedNow DEF Release, IsActive, conn, vars, CallsTyped
<1>2. CallsTyped /\ generation \in Nat /\ Wired /\ Offline /\ Detaching /\ Reserved
  BY CallsTypedNow DEF ClientInv, LeaseInv
<1>3. a \in Holding /\ at[a] = "done" /\ a # 0 /\ a \in 0 .. MaxAcqs
  BY <1>1, <1>2, AcqFacts DEF Holding, Valid, Wired, WiredAt
<1>4. a \notin {attachment, reconciliation, detachment} /\ wire[a] = "none" /\ outcome[a] = "none" /\ Begun' = Begun
  <2>1. a \notin {attachment, reconciliation, detachment}
    BY <1>1, <1>2, <1>3 DEF Wired, WiredAt
  <2>2. wire[a] \in {"none", "attach", "detach", "reconcile"}
    BY <1>2 DEF CallsTyped
  <2> QED BY <1>1, <1>2, <2>1, <2>2 DEF Wired, WiredAt, Promised, Begun
<1>5. ~orphaned => ~cleanup /\ reconciliation = 0
  BY <1>1, <1>2, <1>3 DEF Detaching
<1>6. /\ disposed' \in BOOLEAN /\ sync' \in BOOLEAN /\ attached' \in BOOLEAN /\ served' \in BOOLEAN
      /\ cleanup' \in BOOLEAN /\ orphaned' \in BOOLEAN /\ generation' \in Nat
      /\ mode' \in [Acqs -> {"shared", "exclusive"}]
      /\ \A b \in executed' : wire[b] # "none"
  BY <1>1 DEF ClientInv, LeaseInv, LeaseTypeOK
<1>7. IsFiniteSet(Holding) /\ Cardinality(Holding) \in Nat /\ Holding \subseteq Acqs
  <2>1. Holding \subseteq Acqs
    BY DEF Holding
  <2> QED BY <2>1, Countable
<1>8. CASE /\ count <= 1 /\ lease' = [lease EXCEPT ![a] = "releasing"] /\ detachment' = a
           /\ Request(a, "detach") /\ UNCHANGED <<count, exclusive>>
  <2>1. ASSUME ~orphaned PROVE Holding = {a}
    <3>1. Cardinality(Holding) <= 1 /\ Cardinality(Holding) # 0
      <4>1. Cardinality(Holding) # 0
        BY <1>3, <1>7, FS_EmptySet
      <4> QED BY <1>1, <1>2, <1>8, <2>1, <4>1 DEF Reserved
    <3>2. Cardinality(Holding) = 1
      BY <1>7, <3>1
    <3>3. PICK x : Holding = {x}
      BY <1>7, <3>2, FS_Singleton
    <3> QED BY <1>3, <3>3
  <2>2. ASSUME ~orphaned PROVE \A b \in Acqs : lease[b] # "releasing"
    <3>1. ASSUME detachment # 0 PROVE FALSE
      <4>1. detachment \in Acqs
        BY <1>2, <3>1, LeasesAssumption DEF CallsTyped, Acqs
      <4>2. detachment \in Holding
        BY <1>1, <1>2, <2>2, <3>1, <4>1 DEF Detaching, Holding
      <4> QED BY <1>4, <2>1, <2>2, <4>2
    <3> QED BY <1>1, <1>2, <2>2, <3>1, AcqFacts DEF Detaching
  <2>3. wire' = [wire EXCEPT ![a] = "detach"] /\ outcome' = outcome
    BY <1>1, <1>8 DEF Request
  <2>4. CallsTyped'
    BY <1>1, <1>2, <1>3, <1>8, <2>3 DEF CallsTyped
  <2>5. Valid(a)' /\ Holding' = Holding
    <3>1. Valid(a)'
      BY <1>1, <1>2, <1>8 DEF Valid, CallsTyped
    <3>2. \A b \in Acqs : b # a => (Valid(b)' <=> Valid(b))
      BY <1>1, <1>2, <1>8 DEF Valid, CallsTyped
    <3> QED BY <1>1, <1>3, <3>1, <3>2 DEF Holding, Valid
  <2>6. ASSUME NEW b \in Acqs PROVE WiredAt(b)'
    <3>1. /\ lease'[b] = (IF b = a THEN "releasing" ELSE lease[b])
          /\ wire'[b] = (IF b = a THEN "detach" ELSE wire[b])
      BY <1>2, <1>8, <2>3 DEF CallsTyped
    <3>2. WiredAt(b) /\ b # 0
      BY <1>2, AcqFacts DEF Wired
    <3>3. /\ UNCHANGED <<attachment, reconciliation, at, awaits, born, generation>>
          /\ detachment' = a /\ outcome' = outcome
      BY <1>1, <1>8, <2>3
    <3>4. CASE b = a
      BY <1>3, <1>4, <3>1, <3>2, <3>3, <3>4 DEF WiredAt, Promised
    <3>5. CASE b # a
      BY <1>3, <1>4, <3>1, <3>2, <3>3, <3>5 DEF WiredAt, Promised
    <3> QED BY <3>4, <3>5
  <2>7. Offline'
    BY <1>1, <1>2 DEF Offline, Up
  <2>8. Detaching'
    <3>1. ~orphaned => \A b \in Acqs : lease'[b] = "releasing" => b = a
      BY <1>2, <1>8, <2>2 DEF CallsTyped
    <3> QED BY <1>1, <1>5, <1>8, <2>1, <2>5, <3>1 DEF Detaching, Up
  <2>9. Reserved' /\ count' \in 0 .. Cardinality(Acqs) /\ exclusive' \in 0 .. MaxAcqs
    BY <1>1, <1>4, <1>8, <2>5, ReservationsKept
  <2>10. Wired' /\ \A b \in executed' : wire'[b] # "none"
    <3>1. ASSUME NEW b \in Acqs PROVE AwaitsRelease(b)'
      BY <1>1, <1>2, <1>8 DEF Wired, AwaitsRelease, CallsTyped
    <3> QED BY <1>1, <1>2, <1>6, <2>3, <2>6, <3>1 DEF Wired, CallsTyped
  <2> QED BY <1>6, <2>4, <2>7, <2>8, <2>9, <2>10, LeaseInvNext
<1>9. CASE /\ count > 1 /\ lease' = [lease EXCEPT ![a] = "released"]
           /\ count' = CountLess(1) /\ exclusive' = OwnerLess({a})
           /\ UNCHANGED <<detachment, wire, outcome>>
  <2>1. CallsTyped'
    BY <1>1, <1>2, <1>9 DEF CallsTyped
  <2>2. Holding' = Holding \ {a} /\ {a} \subseteq Holding
    <3>1. ~Valid(a)'
      BY <1>2, <1>9 DEF Valid, CallsTyped
    <3>2. \A b \in Acqs : b # a => (Valid(b)' <=> Valid(b))
      BY <1>1, <1>2, <1>9 DEF Valid, CallsTyped
    <3> QED BY <1>1, <1>3, <3>1, <3>2 DEF Holding
  <2>3. ASSUME NEW b \in Acqs PROVE WiredAt(b)'
    <3>1. lease'[b] = (IF b = a THEN "released" ELSE lease[b])
      BY <1>2, <1>9 DEF CallsTyped
    <3>2. WiredAt(b)
      BY <1>2 DEF Wired
    <3> QED BY <1>1, <1>3, <1>4, <1>9, <3>1, <3>2 DEF WiredAt, Promised
  <2>4. Offline'
    BY <1>1, <1>2 DEF Offline, Up
  <2>5. Detaching'
    <3>1. ~orphaned /\ detachment # 0 => Valid(detachment)'
      BY <1>1, <1>2, <1>4, <1>9, LeasesAssumption DEF Detaching, Valid, CallsTyped, Acqs
    <3>2. \A b \in Acqs : lease'[b] = "releasing" => lease[b] = "releasing"
      BY <1>2, <1>9 DEF CallsTyped
    <3> QED BY <1>1, <1>2, <1>5, <1>9, <2>2, <3>1, <3>2 DEF Detaching, Up
  <2>6. Reserved' /\ count' \in 0 .. Cardinality(Acqs) /\ exclusive' \in 0 .. MaxAcqs
    <3>1. Cardinality({a}) = 1
      BY FS_Singleton
    <3>2. count' = CountLess(Cardinality({a}))
      BY <1>9, <3>1
    <3> DEFINE A == {a}
    <3>3. A \subseteq Holding /\ Holding' = Holding \ A /\ count' = CountLess(Cardinality(A)) /\ exclusive' = OwnerLess(A)
      BY <1>9, <2>2, <3>2
    <3> HIDE DEF A
    <3> QED BY <1>1, <1>4, <3>3, GivenBack
  <2>7. Wired' /\ \A b \in executed' : wire'[b] # "none"
    <3>1. ASSUME NEW b \in Acqs PROVE AwaitsRelease(b)'
      BY <1>1, <1>2, <1>9 DEF Wired, AwaitsRelease, CallsTyped
    <3> QED BY <1>1, <1>2, <1>6, <1>9, <2>3, <3>1 DEF Wired
  <2> QED BY <1>6, <2>1, <2>4, <2>5, <2>6, <2>7, LeaseInvNext
<1> QED BY <1>8, <1>9 DEF Release

\* A detach request is settled: the lease is released, or as it was, or no longer valid.
LEMMA DetachSettledKeeps ==
    ASSUME ClientInv, NEW a \in Acqs, DetachSettled(a)
    PROVE  LeaseInv'
<1> DEFINE B == Waiting("detach", a)
           gone == outcome[a] = "ok" \/ (Valid(a) /\ giveUp[a])
           x == IF gone THEN "released" ELSE IF Valid(a) THEN "active" ELSE "invalidated"
<1>1. /\ outcome[a] # "none" /\ lease[a] = "releasing" /\ sync' = FALSE
      /\ outcome' = [outcome EXCEPT ![a] = "none"]
      /\ detachment' = IF detachment = a THEN 0 ELSE detachment
      /\ at' = [b \in Acqs |-> IF b \in B THEN "resumed" ELSE at[b]]
      /\ awaits' = [b \in Acqs |-> IF b \in B THEN 0 ELSE awaits[b]]
      /\ lease' = [lease EXCEPT ![a] = x]
      /\ count' = IF gone THEN CountLess(1) ELSE count
      /\ exclusive' = IF gone THEN OwnerLess({a}) ELSE exclusive
      /\ cleanup' = (cleanup \/ (outcome[a] = "error" /\ Valid(a) /\ giveUp[a]))
      /\ UNCHANGED <<state, disposed, attached, served, generation, attachment, reconciliation, mode, born, wire,
                     executed, orphaned>>
      /\ giveUp' = [giveUp EXCEPT ![a] = FALSE]
  BY DEF DetachSettled, conn, vars
<1>2. CallsTyped /\ generation \in Nat /\ cleanup \in BOOLEAN /\ Wired /\ Offline /\ Detaching /\ Reserved
  BY CallsTypedNow DEF ClientInv, LeaseInv
<1>3. /\ a # 0 /\ a \in 0 .. MaxAcqs /\ at[a] = "done" /\ wire[a] = "none" /\ detachment' # a
      /\ attachment # a /\ reconciliation # a
      /\ ~orphaned /\ Up => detachment = a /\ detachment' = 0
  <2>1. a # 0 /\ a \in 0 .. MaxAcqs /\ at[a] = "done"
    BY <1>1, <1>2, AcqFacts DEF Wired, WiredAt
  <2> QED BY <1>1, <1>2, <2>1 DEF Wired, WiredAt, CallsTyped, Detaching
<1>4. \A b \in Acqs : /\ b \in B <=> at[b] = "detach" /\ awaits[b] = a
                      /\ ~orphaned /\ Up /\ at[b] = "detach" => b \in B
  BY <1>2, <1>3 DEF Wired, AwaitsRelease, Detaching, Waiting
<1>5. gone \in BOOLEAN /\ x \in {"active", "released", "invalidated"} /\ (x = "active" => ~gone /\ Valid(a))
  BY DEF gone
<1>6. ~orphaned /\ Up => /\ Valid(a) /\ ~cleanup /\ reconciliation = 0
                         /\ \A b \in Holding : b = a \/ at[b] = "detach"
  <2>1. ~orphaned /\ Up => Valid(a) /\ \A b \in Holding : b = a \/ at[b] = "detach"
    BY <1>2, <1>3 DEF Detaching
  <2>2. ~orphaned /\ Up => a \in Holding
    BY <2>1 DEF Holding
  <2> QED BY <1>2, <1>3, <2>1, <2>2 DEF Detaching
<1>7. /\ disposed' \in BOOLEAN /\ sync' \in BOOLEAN /\ attached' \in BOOLEAN /\ served' \in BOOLEAN
      /\ cleanup' \in BOOLEAN /\ orphaned' \in BOOLEAN /\ generation' \in Nat
      /\ mode' \in [Acqs -> {"shared", "exclusive"}]
      /\ \A b \in executed' : wire'[b] # "none"
  <2>1. cleanup' \in BOOLEAN
    BY <1>1, <1>2
  <2> QED BY <1>1, <2>1 DEF ClientInv, LeaseInv, LeaseTypeOK
<1> HIDE DEF B, gone, x
<1>8. CallsTyped'
  BY <1>1, <1>2, <1>3, <1>5, LeasesAssumption DEF CallsTyped
<1>9. /\ lease'[a] = x /\ \A b \in Acqs : b # a => lease'[b] = lease[b]
      /\ Valid(a)' <=> x = "active"
      /\ \A b \in Acqs : b # a => (Valid(b)' <=> Valid(b))
      /\ Valid(a)' => Valid(a)
  <2>1. lease'[a] = x /\ \A b \in Acqs : b # a => lease'[b] = lease[b]
    BY <1>1, <1>2 DEF CallsTyped
  <2>2. \A b \in Acqs : b # a => (Valid(b)' <=> Valid(b))
    BY <1>1, <2>1 DEF Valid
  <2>3. Valid(a)' <=> x = "active"
    BY <1>1, <1>5, <2>1 DEF Valid
  <2> QED BY <1>5, <2>1, <2>2, <2>3
<1>10. Holding' = Holding \ (IF Valid(a) /\ gone THEN {a} ELSE {})
  <2>1. ASSUME NEW b \in Acqs, b # a PROVE b \in Holding' <=> b \in Holding
    BY <1>1, <1>4, <1>9, <2>1 DEF Holding
  <2>2. a \in Holding' <=> x = "active"
    BY <1>1, <1>3, <1>4, <1>9 DEF Holding
  <2>3. a \in Holding <=> Valid(a)
    BY <1>3 DEF Holding
  <2>4. Valid(a) => (x = "active" <=> ~gone)
    BY DEF x
  <2>5. Holding' \subseteq Acqs /\ Holding \subseteq Acqs
    BY DEF Holding
  <2> HIDE DEF Holding
  <2> QED BY <1>5, <2>1, <2>2, <2>3, <2>4, <2>5
<1>11. ASSUME NEW b \in Acqs PROVE WiredAt(b)'
  <2>1. /\ at'[b] = (IF b \in B THEN "resumed" ELSE at[b]) /\ awaits'[b] = (IF b \in B THEN 0 ELSE awaits[b])
        /\ outcome'[b] = (IF b = a THEN "none" ELSE outcome[b])
        /\ lease'[b] = (IF b = a THEN x ELSE lease[b])
        /\ b \in B => at[b] = "detach"
    BY <1>1, <1>2, <1>4 DEF CallsTyped
  <2>2. WiredAt(b) /\ b # 0
    BY <1>2, AcqFacts DEF Wired
  <2>3. UNCHANGED <<attachment, reconciliation, wire, generation, born>>
    BY <1>1
  <2>4. CASE b = a
    BY <1>3, <1>5, <2>1, <2>2, <2>3, <2>4 DEF WiredAt, Promised
  <2>5. CASE b # a
    BY <1>1, <1>3, <2>1, <2>2, <2>3, <2>5 DEF WiredAt, Promised
  <2> QED BY <2>4, <2>5
<1>12. Wired'
  <2>1. ASSUME NEW b \in Acqs PROVE AwaitsRelease(b)'
    BY <1>1, <1>2, <1>4, <1>9 DEF Wired, AwaitsRelease
  <2> QED BY <1>1, <1>2, <1>11, <2>1 DEF Wired
<1>13. Offline'
  <2>1. ~Up /\ ~orphaned => \A b \in Acqs : ~Valid(b)' /\ ~(outcome'[b] = "ok" /\ at'[b] = "attach")
    BY <1>1, <1>2, <1>4, <1>9 DEF Offline, CallsTyped
  <2> QED BY <1>1, <1>2, <2>1 DEF Offline, Up
<1>14. Detaching'
  <2>1. ASSUME ~orphaned, Up, cleanup' PROVE \A b \in Holding' : at'[b] \in {"resumed", "reconcile"}
    <3>1. gone /\ Valid(a)
      BY <1>1, <1>6, <2>1 DEF gone
    <3>2. \A b \in Holding' : b \in Acqs /\ at[b] = "detach"
      BY <1>6, <1>10, <2>1, <3>1 DEF Holding
    <3> QED BY <1>1, <1>4, <2>1, <3>2
  <2>2. ~orphaned /\ Up => \A b \in Acqs : lease'[b] # "releasing"
    BY <1>2, <1>3, <1>5, <1>9 DEF Detaching
  <2> QED BY <1>1, <1>3, <1>6, <2>1, <2>2 DEF Detaching, Up
<1>15. Begun' = Begun
  BY <1>1, <1>4 DEF Begun
<1>16. Reserved' /\ count' \in 0 .. Cardinality(Acqs) /\ exclusive' \in 0 .. MaxAcqs
  <2>1. CASE ~gone
    BY <1>1, <1>10, <1>15, <2>1, ReservationsKept
  <2>2. CASE gone /\ Valid(a)
    <3> DEFINE A == {a}
    <3>1. A \subseteq Holding /\ Cardinality(A) = 1
      BY <2>2, FS_Singleton DEF Holding
    <3>2. Holding' = Holding \ A /\ count' = CountLess(Cardinality(A)) /\ exclusive' = OwnerLess(A)
      BY <1>1, <1>10, <2>2, <3>1
    <3> HIDE DEF A
    <3> QED BY <1>1, <1>15, <3>1, <3>2, GivenBack
  <2>3. CASE gone /\ ~Valid(a)
    <3>1. /\ count \in 0 .. Cardinality(Acqs) /\ exclusive \in 0 .. MaxAcqs /\ Cardinality(Acqs) \in Nat
          /\ Cardinality(Holding) \in Nat /\ Cardinality(Begun) \in Nat
      <4>1. Holding \subseteq Acqs /\ Begun \subseteq Acqs
        BY DEF Holding, Begun
      <4> QED BY <4>1, Countable DEF ClientInv, LeaseInv, LeaseTypeOK
    <3>2. count' \in 0 .. count /\ exclusive' \in {0, exclusive}
      BY <1>1, <2>3, <3>1 DEF CountLess, OwnerLess
    <3>3. ~orphaned => ~Up
      BY <1>6, <2>3
    <3>4. Holding' = Holding
      BY <1>10, <2>3
    <3> HIDE DEF Holding, Begun
    <3>5. Reserved'
      BY <1>1, <1>2, <1>15, <3>1, <3>2, <3>3, <3>4 DEF Reserved, Up
    <3> QED BY <3>1, <3>2, <3>5, LeasesAssumption
  <2> QED BY <1>5, <2>1, <2>2, <2>3
<1> QED BY <1>7, <1>8, <1>12, <1>13, <1>14, <1>16, LeaseInvNext

\* What a step of the connection does to its state: an attempt ends, perhaps with a new
\* one begun by a listener; one begins; the current one connects; or nothing.
LEMMA ConnectionKinds ==
    ASSUME Next
    PROVE  \/ /\ state # "disconnected"
              /\ \/ state' = "connecting" /\ id' = sequence + 1 /\ sequence' = sequence + 1
                 \/ state' = "disconnected" /\ id' = 0 /\ sequence' = sequence
           \/ state = "disconnected" /\ sequence' = sequence + 1 /\ state' = "connecting"
           \/ state = "connecting" /\ state' = "connected" /\ UNCHANGED <<id, sequence>>
           \/ UNCHANGED <<state, id, sequence>>
<1> DEFINE Ends == \/ state' = "connecting" /\ id' = sequence + 1 /\ sequence' = sequence + 1
                   \/ state' = "disconnected" /\ id' = 0 /\ sequence' = sequence
<1>1. \A tr, hs, l : EndWith(tr, hs, l) => Ends
  BY DEF EndWith, BeginWith
<1>2. \A l : FailAndClose(l) => Ends
  BY <1>1 DEF FailAndClose
<1> HIDE DEF Ends
<1>3. CASE Connect
  BY <1>3 DEF Connect, BeginWith
<1>4. ASSUME NEW l \in Reactions, Disconnect(l) PROVE state # "disconnected" /\ Ends
  BY <1>2, <1>4 DEF Disconnect
<1>5. ASSUME NEW i \in Attempts, FactoryResolves(i) \/ Opened(i) PROVE UNCHANGED <<state, id, sequence>>
  BY <1>5 DEF FactoryResolves, Opened
<1>6. ASSUME NEW i \in Attempts, NEW l \in Reactions, Event(i, l)
      PROVE  \/ state # "disconnected" /\ Ends
             \/ state = "connecting" /\ state' = "connected" /\ UNCHANGED <<id, sequence>>
             \/ UNCHANGED <<state, id, sequence>>
  <2>1. CASE FactoryRejects(i, l)
    BY <1>1, <2>1 DEF FactoryRejects, IsCurrent
  <2>2. ASSUME NEW ok \in BOOLEAN, HelloSettles(i, ok, l)
        PROVE  (state # "disconnected" /\ Ends) \/ UNCHANGED <<state, id, sequence>>
    BY <1>1, <2>2 DEF HelloSettles, IsCurrent
  <2>3. ASSUME NEW f \in Frames, Data(i, f, l)
        PROVE  \/ state # "disconnected" /\ Ends
               \/ state = "connecting" /\ state' = "connected" /\ UNCHANGED <<id, sequence>>
               \/ UNCHANGED <<state, id, sequence>>
    BY <1>2, <2>3 DEF Data, IsCurrent, HandleData, Handshake, vars
  <2>4. CASE HandleClose(i, l) \/ HandleError(i, l) \/ SendFails(i, l)
    BY <1>1, <1>2, <2>4 DEF HandleClose, HandleError, SendFails, IsCurrent
  <2> QED BY <1>6, <2>1, <2>2, <2>3, <2>4 DEF Event
<1> QED BY <1>3, <1>4, <1>5, <1>6 DEF Next, Ends

\* An attempt that ends is not connected any more, and one that does not end stays
\* connected.
LEMMA ConnectionMoves ==
    ASSUME Consistent, Next
    PROVE  /\ Ended => ~Up'
           /\ Up /\ ~Ended => Up'
           /\ ~Up /\ Up' => state = "connecting"
           /\ state = "disconnected" /\ sequence' = sequence => state' = "disconnected"
<1>1. sequence \in Nat /\ id \in Nat /\ id <= sequence /\ (id = 0 <=> state = "disconnected")
  BY ConnectionAssumption DEF Consistent, TypeOK
<1> QED BY <1>1, ConnectionKinds DEF Ended, Up

\* Without continuations to run and without a connection nobody holds anything.
LEMMA NothingHeld ==
    ASSUME ClientInv, ~Pending, ~orphaned, ~Up
    PROVE  /\ Holding = {} /\ detachment = 0 /\ reconciliation = 0 /\ attachment = 0
           /\ \A a \in Acqs : lease[a] # "releasing"
<1>1. CallsTyped /\ Wired /\ Offline
  BY CallsTypedNow DEF ClientInv, LeaseInv
<1>2. ASSUME NEW a \in Acqs PROVE a \notin {attachment, reconciliation, detachment} /\ lease[a] # "releasing"
  BY <1>1 DEF Wired, WiredAt, Offline, Pending
<1>3. detachment = 0 /\ reconciliation = 0 /\ attachment = 0
  BY <1>1, <1>2, LeasesAssumption DEF CallsTyped, Acqs
<1>4. ASSUME NEW a \in Holding PROVE FALSE
  <2>1. a \in Acqs /\ ~Valid(a) /\ at[a] # "resumed" /\ at[a] \in {"detach", "resumed", "reconcile", "attach"}
    BY <1>1 DEF Holding, Offline, Pending
  <2>2. at[a] # "detach"
    BY <1>1, <1>2, <2>1 DEF Wired, AwaitsRelease
  <2> QED BY <1>1, <1>3, <2>1, <2>2 DEF Wired, WiredAt, Promised
<1> QED BY <1>2, <1>3, <1>4

\* The server executes a request; the client knows nothing of it.
LEMMA ExecuteKeeps ==
    ASSUME ClientInv, NEW a \in Acqs, Execute(a)
    PROVE  LeaseInv'
<1>1. /\ wire[a] # "none" /\ executed' = executed \cup {a} /\ served' = (wire[a] = "attach")
      /\ UNCHANGED <<state, disposed, sync, attached, count, exclusive, generation, cleanup, attachment, detachment,
                     reconciliation, at, awaits, mode, lease, born, giveUp, wire, outcome, orphaned>>
  BY DEF Execute, conn, vars, maps, promises, calls
<1>2. CallsTyped /\ Wired /\ Offline /\ Detaching
  BY CallsTypedNow DEF ClientInv, LeaseInv
<1>3. Holding' = Holding /\ Begun' = Begun
  BY <1>1 DEF Holding, Valid, Begun
<1>4. \A b \in Acqs : WiredAt(b)' /\ AwaitsRelease(b)'
  BY <1>1, <1>2 DEF Wired, WiredAt, AwaitsRelease, Promised
<1>5. Wired' /\ CallsTyped'
  BY <1>1, <1>2, <1>4 DEF Wired, CallsTyped
<1>6. Offline'
  BY <1>1, <1>2 DEF Offline, Up, Valid
<1>7. Detaching'
  BY <1>1, <1>2, <1>3 DEF Detaching, Up, Valid
<1>8. Reserved' /\ count' \in 0 .. Cardinality(Acqs) /\ exclusive' \in 0 .. MaxAcqs
  BY <1>1, <1>3, ReservationsKept
<1>9. /\ disposed' \in BOOLEAN /\ sync' \in BOOLEAN /\ attached' \in BOOLEAN /\ served' \in BOOLEAN
      /\ cleanup' \in BOOLEAN /\ orphaned' \in BOOLEAN /\ generation' \in Nat
      /\ mode' \in [Acqs -> {"shared", "exclusive"}]
      /\ \A b \in executed' : wire'[b] # "none"
  BY <1>1 DEF ClientInv, LeaseInv, LeaseTypeOK
<1> QED BY <1>5, <1>6, <1>7, <1>8, <1>9, LeaseInvNext

\* A frame of the server, an answer or a snapshot event, is handled.
LEMMA FrameKeeps ==
    ASSUME ClientInv, SnapshotEvent \/ \E a \in Acqs, result \in {"ok", "error"} : Answer(a, result)
    PROVE  LeaseInv'
<1>1. CallsTyped /\ Wired /\ Offline /\ Detaching
  BY CallsTypedNow DEF ClientInv, LeaseInv
<1>2. /\ Up /\ sync' = TRUE
      /\ UNCHANGED <<state, disposed, served, count, exclusive, generation, cleanup, attachment, detachment,
                     reconciliation, at, awaits, mode, lease, born, giveUp, orphaned>>
  BY DEF SnapshotEvent, Answer, FrameMayCome, conn, vars, maps, promises, calls
<1>3. /\ attached' \in BOOLEAN /\ Wired' /\ CallsTyped' /\ \A b \in executed' : wire'[b] # "none"
  <2>1. CASE SnapshotEvent
    <3>1. attached' = TRUE /\ UNCHANGED <<wire, executed, outcome>>
      BY <2>1 DEF SnapshotEvent
    <3>2. \A b \in Acqs : WiredAt(b)' /\ AwaitsRelease(b)'
      BY <1>1, <1>2, <3>1 DEF Wired, WiredAt, AwaitsRelease, Promised
    <3> QED BY <1>1, <1>2, <3>1, <3>2 DEF Wired, CallsTyped, ClientInv, LeaseInv, LeaseTypeOK
  <2>2. ASSUME NEW a \in Acqs, NEW result \in {"ok", "error"}, Answer(a, result)
        PROVE  /\ attached' \in BOOLEAN /\ Wired' /\ CallsTyped' /\ \A b \in executed' : wire'[b] # "none"
    <3>1. /\ wire[a] # "none" /\ wire' = [wire EXCEPT ![a] = "none"] /\ executed' = executed \ {a}
          /\ outcome' = [outcome EXCEPT ![a] = result]
          /\ attached' = IF result = "ok" THEN wire[a] = "attach" ELSE attached
      BY <2>2 DEF Answer
    <3>2. ASSUME NEW b \in Acqs PROVE WiredAt(b)'
      <4>1. /\ wire'[b] = (IF b = a THEN "none" ELSE wire[b])
            /\ outcome'[b] = (IF b = a THEN result ELSE outcome[b])
        BY <1>1, <3>1 DEF CallsTyped
      <4>2. WiredAt(b)
        BY <1>1 DEF Wired
      <4>3. wire[b] \in {"none", "attach", "detach", "reconcile"} /\ b # 0
        BY <1>1, AcqFacts DEF CallsTyped
      <4> QED BY <1>2, <3>1, <4>1, <4>2, <4>3 DEF WiredAt, Promised
    <3>5. ASSUME NEW b \in Acqs PROVE AwaitsRelease(b)'
      BY <1>1, <1>2 DEF Wired, AwaitsRelease
    <3>3. CallsTyped' /\ attached' \in BOOLEAN
      BY <1>1, <1>2, <3>1 DEF CallsTyped, ClientInv, LeaseInv, LeaseTypeOK
    <3>4. Wired' /\ \A b \in executed' : wire'[b] # "none"
      BY <1>1, <3>1, <3>2, <3>5 DEF Wired, CallsTyped, ClientInv, LeaseInv, LeaseTypeOK
    <3> QED BY <3>3, <3>4
  <2> QED BY <2>1, <2>2
<1>4. Holding' = Holding /\ Begun' = Begun
  BY <1>2 DEF Holding, Valid, Begun
<1>5. Offline'
  BY <1>1, <1>2 DEF Offline, Up
<1>6. Detaching'
  BY <1>1, <1>2, <1>4 DEF Detaching, Up, Valid
<1>7. Reserved' /\ count' \in 0 .. Cardinality(Acqs) /\ exclusive' \in 0 .. MaxAcqs
  BY <1>2, <1>4, ReservationsKept
<1>8. /\ disposed' \in BOOLEAN /\ sync' \in BOOLEAN /\ served' \in BOOLEAN
      /\ cleanup' \in BOOLEAN /\ orphaned' \in BOOLEAN /\ generation' \in Nat
      /\ mode' \in [Acqs -> {"shared", "exclusive"}]
  BY <1>2 DEF ClientInv, LeaseInv, LeaseTypeOK
<1> QED BY <1>3, <1>5, <1>6, <1>7, <1>8, LeaseInvNext

\* The connection is lost or given up, at whatever moment: nothing stays valid but an
\* orphan, and who waits will hear of it.
LEMMA DropKeeps ==
    ASSUME ClientInv, DropConnection, ~Up', sync' \in BOOLEAN, disposed' \in BOOLEAN,
           disposed' => state' = "disconnected"
    PROVE  LeaseInv'
<1>1. /\ ~attached' /\ attached' = FALSE /\ served' = FALSE /\ executed' = {}
      /\ outcome' = [a \in Acqs |-> IF wire[a] # "none" THEN "error" ELSE outcome[a]]
      /\ wire' = [a \in Acqs |-> "none"]
      /\ UNCHANGED <<attachment, detachment, reconciliation, at, awaits, mode, lease, born, giveUp>>
  BY DEF DropConnection, promises, calls
<1>2. CallsTyped /\ generation \in Nat /\ Wired /\ Offline /\ Reserved
      /\ count \in 0 .. Cardinality(Acqs) /\ exclusive \in 0 .. MaxAcqs /\ Cardinality(Acqs) \in Nat
  BY CallsTypedNow, Countable DEF ClientInv, LeaseInv, LeaseTypeOK
<1>3. \/ count > 0 /\ count' = 0 /\ exclusive' = 0 /\ cleanup' = FALSE /\ generation' = generation + 1
      \/ count = 0 /\ count' = 0 /\ exclusive' = exclusive /\ cleanup' = FALSE /\ generation' = generation
  BY <1>2 DEF DropConnection, Invalidate
<1>4. CallsTyped'
  BY <1>1, <1>2 DEF CallsTyped
<1>5. ASSUME NEW a \in Acqs PROVE WiredAt(a)'
  <2>1. WiredAt(a) /\ outcome'[a] = (IF wire[a] # "none" THEN "error" ELSE outcome[a]) /\ wire'[a] = "none"
    BY <1>1, <1>2 DEF Wired
  <2>2. born[a] \in Nat /\ a # 0 /\ wire[a] \in {"none", "attach", "detach", "reconcile"}
    BY <1>2, AcqFacts DEF CallsTyped
  <2>3. born[a] <= generation'
    BY <1>2, <1>3, <2>1, <2>2 DEF WiredAt
  <2> QED BY <1>1, <2>1, <2>2, <2>3 DEF WiredAt, Promised
<1>6. Wired' /\ \A b \in executed' : wire'[b] # "none"
  <2>1. ASSUME NEW b \in Acqs PROVE AwaitsRelease(b)'
    BY <1>1, <1>2 DEF Wired, AwaitsRelease
  <2> QED BY <1>1, <1>5, <2>1 DEF Wired
<1>7. ASSUME ~orphaned, count = 0, NEW a \in Acqs PROVE ~Valid(a)
  <2>1. CASE Up
    <3>1. Cardinality(Holding) = 0
      BY <1>2, <1>7, <2>1 DEF Reserved
    <3>2. IsFiniteSet(Holding)
      <4>1. Holding \subseteq Acqs
        BY DEF Holding
      <4> QED BY <4>1, Countable
    <3>3. Holding = {}
      BY <3>1, <3>2, FS_EmptySet
    <3> QED BY <3>3 DEF Holding
  <2>2. CASE ~Up
    BY <1>2, <1>7, <2>2 DEF Offline
  <2> QED BY <2>1, <2>2
<1>8. ASSUME ~orphaned', NEW a \in Acqs PROVE ~Valid(a)' /\ ~(outcome'[a] = "ok" /\ at'[a] = "attach")
  <2>1. (\A b \in Acqs : ~(outcome[b] = "ok" /\ at[b] = "attach" /\ awaits[b] = b)) /\ (~orphaned \/ count # 0)
    BY <1>8 DEF DropConnection, AboutToBeGranted
  <2>2. ~(outcome'[a] = "ok" /\ at'[a] = "attach")
    <3> SUFFICES ASSUME outcome'[a] = "ok", at'[a] = "attach" PROVE FALSE
      OBVIOUS
    <3>1. outcome[a] = "ok" /\ at[a] = "attach" /\ WiredAt(a)
      BY <1>1, <1>2 DEF Wired
    <3>2. awaits[a] = a
      BY <1>2, <3>1, AcqFacts DEF WiredAt, Promised
    <3> QED BY <2>1, <3>1, <3>2
  <2>3. ~Valid(a)'
    <3>1. CASE count > 0
      <4>1. generation' = generation + 1 /\ born' = born /\ born[a] <= generation /\ born[a] \in Nat
        BY <1>1, <1>2, <1>3, <3>1 DEF Wired, WiredAt, CallsTyped
      <4> QED BY <1>2, <4>1 DEF Valid
    <3>2. CASE count = 0
      <4>1. ~Valid(a) /\ UNCHANGED <<lease, born, generation>>
        BY <1>1, <1>2, <1>3, <1>7, <2>1, <3>2
      <4> QED BY <4>1 DEF Valid
    <3> QED BY <1>2, <3>1, <3>2
  <2> QED BY <2>2, <2>3
<1>9. Offline'
  BY <1>1, <1>8 DEF Offline
<1>10. Detaching'
  BY DEF Detaching
<1>11. Reserved'
  <2>1. Cardinality(Holding') \in Nat /\ Cardinality(Begun') \in Nat
    <3>1. Holding' \subseteq Acqs /\ Begun' \subseteq Acqs
      BY DEF Holding, Begun
    <3> QED BY <3>1, Countable
  <2>2. ASSUME ~orphaned', exclusive' # 0 PROVE exclusive' \in Holding'
    <3>1. count = 0 /\ exclusive' = exclusive /\ ~orphaned
      BY <1>2, <1>3, <2>2 DEF DropConnection
    <3>2. exclusive \in Holding
      BY <1>2, <2>2, <3>1 DEF Reserved
    <3> QED BY <1>1, <1>7, <3>1, <3>2 DEF Holding
  <2> QED BY <1>3, <2>1, <2>2 DEF Reserved
<1>13. orphaned' \in BOOLEAN
  BY Zenon DEF DropConnection
<1>12. /\ count' \in 0 .. Cardinality(Acqs) /\ exclusive' \in 0 .. MaxAcqs
       /\ attached' \in BOOLEAN /\ served' \in BOOLEAN /\ cleanup' \in BOOLEAN /\ generation' \in Nat
       /\ mode' \in [Acqs -> {"shared", "exclusive"}]
  <2>1. mode' \in [Acqs -> {"shared", "exclusive"}]
    BY <1>1 DEF ClientInv, LeaseInv, LeaseTypeOK
  <2>2. attached' \in BOOLEAN /\ served' \in BOOLEAN /\ cleanup' \in BOOLEAN /\ generation' \in Nat
    <3>1. attached' \in BOOLEAN /\ served' \in BOOLEAN
      BY <1>1, Zenon
    <3>2. cleanup' \in BOOLEAN
      BY <1>3, Zenon
    <3>3. generation' \in Nat
      BY <1>2, <1>3
    <3> QED BY <3>1, <3>2, <3>3
  <2>3. count' \in 0 .. Cardinality(Acqs) /\ exclusive' \in 0 .. MaxAcqs
    BY <1>2, <1>3, LeasesAssumption
  <2> QED BY <2>1, <2>2, <2>3
<1> QED BY <1>4, <1>6, <1>9, <1>10, <1>11, <1>12, <1>13, LeaseInvNext

\* A step of the connection that ends no attempt: where it connects, nobody holds
\* anything left over from before.
LEMMA CarriedOn ==
    ASSUME ClientInv, Next, ~Ended, ~Up /\ Up' => ~Pending, disposed => sequence' = sequence, disposed' = disposed,
           sync' \in BOOLEAN,
           UNCHANGED <<attached, served, maps, promises, calls, wire, executed, outcome, orphaned>>
    PROVE  LeaseInv'
<1>1. UNCHANGED <<attached, served, count, exclusive, generation, cleanup, attachment, detachment,
                  reconciliation, at, awaits, mode, lease, born, giveUp, wire, executed, outcome, orphaned>>
  BY DEF maps, promises, calls
<1>2. CallsTyped /\ Wired /\ Offline /\ Detaching /\ Reserved /\ Consistent
  BY CallsTypedNow DEF ClientInv, LeaseInv
<1>3. /\ Up => Up'
      /\ ~Up /\ Up' => ~Pending
      /\ disposed => state' = "disconnected"
  BY <1>2, ConnectionMoves DEF Offline
<1>4. CallsTyped' /\ Holding' = Holding /\ Begun' = Begun /\ \A b \in executed' : wire'[b] # "none"
  BY <1>1, <1>2 DEF CallsTyped, Holding, Valid, Begun, ClientInv, LeaseInv, LeaseTypeOK
<1>5. \A b \in Acqs : WiredAt(b)' /\ AwaitsRelease(b)'
  BY <1>1, <1>2 DEF Wired, WiredAt, AwaitsRelease, Promised
<1>6. Wired'
  BY <1>1, <1>2, <1>5 DEF Wired
<1>7. Offline'
  BY <1>1, <1>2, <1>3 DEF Offline, Valid
<1>8. ~orphaned /\ Up' => Up \/ (/\ Holding = {} /\ detachment = 0 /\ reconciliation = 0
                                 /\ \A b \in Acqs : lease[b] # "releasing")
  BY <1>3, NothingHeld
<1>9. Detaching'
  BY <1>1, <1>2, <1>4, <1>8 DEF Detaching, Valid
<1>10. Reserved'
  <2>1. ASSUME ~orphaned, Up', ~Up PROVE count = Cardinality(Holding) /\ Holding = {}
    <3>1. Holding = {} /\ Cardinality(Holding) = 0
      BY <1>3, <1>8, <2>1, FS_EmptySet
    <3>2. count <= 0 /\ count \in 0 .. Cardinality(Acqs) /\ Cardinality(Acqs) \in Nat
      BY <1>2, <2>1, <3>1, Countable DEF Reserved, ClientInv, LeaseInv, LeaseTypeOK
    <3> QED BY <3>1, <3>2
  <2> HIDE DEF Holding, Begun
  <2> QED BY <1>1, <1>2, <1>4, <2>1 DEF Reserved
<1>11. /\ count' \in 0 .. Cardinality(Acqs) /\ exclusive' \in 0 .. MaxAcqs /\ disposed' \in BOOLEAN
       /\ attached' \in BOOLEAN /\ served' \in BOOLEAN /\ cleanup' \in BOOLEAN /\ orphaned' \in BOOLEAN /\ generation' \in Nat
       /\ mode' \in [Acqs -> {"shared", "exclusive"}]
  BY <1>1 DEF ClientInv, LeaseInv, LeaseTypeOK
<1> QED BY <1>4, <1>6, <1>7, <1>9, <1>10, <1>11, LeaseInvNext

\* Nothing happens to the client.
LEMMA ClientStutters ==
    ASSUME ClientInv, UNCHANGED clientVars
    PROVE  LeaseInv'
BY DEF ClientInv, LeaseInv, LeaseTypeOK, Wired, WiredAt, AwaitsRelease, Promised, Offline, Up, Valid, Reserved, Holding,
       Begun, Detaching, clientVars, conn, vars, maps, promises, calls

\* The client starts without a lease.
LEMMA ClientInitInv == ClientInit => ClientInv
<1> SUFFICES ASSUME ClientInit PROVE ClientInv
  OBVIOUS
<1>1. Consistent
  BY InitConsistent DEF ClientInit
<1>2. /\ Holding = {} /\ Begun = {} /\ Cardinality(Holding) = 0 /\ Cardinality(Begun) = 0
      /\ Cardinality(Acqs) \in Nat /\ MaxAcqs \in Nat
  <2>1. Holding = {} /\ Begun = {}
    BY DEF ClientInit, Holding, Valid, Begun
  <2>2. Cardinality({}) = 0
    BY FS_EmptySet
  <2> QED BY <2>1, <2>2, Countable
<1>3. LeaseTypeOK
  <2>1. /\ disposed \in BOOLEAN /\ sync \in BOOLEAN /\ attached \in BOOLEAN
        /\ served \in BOOLEAN /\ cleanup \in BOOLEAN /\ orphaned \in BOOLEAN
    BY Zenon DEF ClientInit
  <2>2. /\ generation \in Nat /\ count \in 0 .. Cardinality(Acqs) /\ exclusive \in 0 .. MaxAcqs
        /\ {attachment, detachment, reconciliation} \subseteq 0 .. MaxAcqs
    BY <1>2 DEF ClientInit
  <2>3. /\ at \in [Acqs -> {"idle", "detach", "resumed", "reconcile", "attach", "done", "failed"}]
        /\ awaits \in [Acqs -> 0 .. MaxAcqs] /\ mode \in [Acqs -> {"shared", "exclusive"}]
        /\ lease \in [Acqs -> {"none", "active", "releasing", "released", "invalidated"}]
        /\ born \in [Acqs -> Nat] /\ giveUp \in [Acqs -> BOOLEAN]
        /\ wire \in [Acqs -> {"none", "attach", "detach", "reconcile"}]
        /\ outcome \in [Acqs -> {"none", "ok", "error"}]
    BY <1>2 DEF ClientInit
  <2>4. executed = {} /\ \A a \in Acqs : wire[a] = "none" /\ outcome[a] = "none"
    BY DEF ClientInit
  <2> QED BY <2>1, <2>2, <2>3, <2>4 DEF LeaseTypeOK
<1>4. Wired
  BY LeasesAssumption DEF ClientInit, Wired, WiredAt, AwaitsRelease, Promised, Acqs
<1>5. Offline /\ Detaching
  BY DEF ClientInit, Init, Offline, Detaching, Up, Valid
<1>6. Reserved
  BY <1>2 DEF ClientInit, Reserved
<1> QED BY <1>1, <1>3, <1>4, <1>5, <1>6 DEF ClientInv, LeaseInv

\* Every step keeps the invariant.
LEMMA ClientNextInv == ClientInv /\ [ClientNext]_clientVars => ClientInv'
<1> SUFFICES ASSUME ClientInv, [ClientNext]_clientVars PROVE ClientInv'
  OBVIOUS
<1>1. Consistent'
  BY ClientStep, StepConsistent DEF ClientInv
<1>2. LeaseInv'
  <2>1. ASSUME NEW a \in Acqs, NEW m \in {"shared", "exclusive"}, Acquire(a, m) PROVE LeaseInv'
    BY <2>1, AcquireKeeps
  <2>2. ASSUME NEW a \in Acqs, NEW g \in BOOLEAN, Release(a, g) PROVE LeaseInv'
    BY <2>2, ReleaseKeeps
  <2>3. ASSUME NEW a \in Acqs, Continuation(a) PROVE LeaseInv'
    BY <2>3, ResumeKeeps, AttachSettledKeeps, ReconcileSettledKeeps, DetachSettledKeeps DEF Continuation
  <2>4. ASSUME NEW a \in Acqs, Server(a) PROVE LeaseInv'
    BY <2>4, ExecuteKeeps, FrameKeeps DEF Server
  <2>5. CASE SnapshotEvent
    BY <2>5, FrameKeeps
  <2>6. CASE ConnectionStep
    <3>1. Next /\ (disposed => sequence' = sequence) /\ disposed' = disposed /\ Consistent
      BY <2>6 DEF ConnectionStep, LeasesFollow, ClientInv
    <3>2. sync \in BOOLEAN /\ disposed \in BOOLEAN /\ Offline
      BY DEF ClientInv, LeaseInv, LeaseTypeOK
    <3>3. CASE Ended /\ DropConnection /\ UNCHANGED sync
      <4>1. ~Up' /\ (disposed' => state' = "disconnected")
        BY <3>1, <3>2, <3>3, ConnectionMoves DEF Offline
      <4> QED BY <3>1, <3>2, <3>3, <4>1, DropKeeps
    <3>4. CASE /\ ~Ended /\ (~Up /\ Up' => ~Pending) /\ sync' = (sync /\ Up)
               /\ UNCHANGED <<attached, served, maps, promises, calls, wire, executed, outcome, orphaned>>
      <4>1. sync' \in BOOLEAN
        BY <3>2, <3>4 DEF Up
      <4> QED BY <3>1, <3>4, <4>1, CarriedOn
    <3> QED BY <2>6, <3>3, <3>4 DEF ConnectionStep, LeasesFollow
  <2>7. CASE Dispose
    <3>1. state' = "disconnected"
      BY <2>7 DEF Dispose, Disconnect, FailAndClose, EndWith, vars
    <3>2. disposed' = TRUE /\ DropConnection /\ sync' = sync /\ sync \in BOOLEAN
      BY <2>7 DEF Dispose, ClientInv, LeaseInv, LeaseTypeOK
    <3> QED BY <3>1, <3>2, DropKeeps DEF Up
  <2>8. CASE UNCHANGED clientVars
    BY <2>8, ClientStutters
  <2> QED BY <2>1, <2>2, <2>3, <2>4, <2>5, <2>6, <2>7, <2>8 DEF ClientNext
<1> QED BY <1>1, <1>2 DEF ClientInv

\* The bookkeeping of the leases at every step of the client, its connection and the
\* server, whenever the connection is lost: whose request each promise is about, what is
\* left of a lost connection, the reservations, and who may still be active during a
\* detachment; the last three in generations without an orphan, which begin anew with
\* every loss that invalidates a reservation.
THEOREM ClientInvariant == ClientSpec => []ClientInv
<1>1. ClientInit => ClientInv
  BY ClientInitInv
<1>2. ClientInv /\ [ClientNext]_clientVars => ClientInv'
  BY ClientNextInv
<1> QED BY <1>1, <1>2, PTL DEF ClientSpec

\* The count of reservations is exact while there is a connection, and nobody is given a
\* lease of an attachment whose release is still to be repeated, in every generation
\* without an orphan.
THEOREM LeaseBooks == ClientSpec => []LeasesConsistent
<1>1. ClientInv => LeasesConsistent
  <2> SUFFICES ASSUME ClientInv PROVE LeasesConsistent
    OBVIOUS
  <2>1. LeaseTypeOK /\ CountExact
    BY DEF ClientInv, LeaseInv, Reserved, CountExact
  <2>2. CleanupFirst
    <3> SUFFICES ASSUME cleanup, ~orphaned, NEW a \in Acqs, IsActive(a) PROVE FALSE
      BY DEF CleanupFirst
    <3>1. a \in Holding /\ Up /\ at[a] = "done"
      BY DEF IsActive, Holding, Valid, ClientInv, LeaseInv, Offline, Wired, WiredAt
    <3> QED BY <3>1 DEF ClientInv, LeaseInv, Detaching
  <2> QED BY <2>1, <2>2 DEF LeasesConsistent
<1> QED BY <1>1, ClientInvariant, PTL

\* An exclusive lease is the only active one of its session, whoever acquires, releases,
\* loses its connection or comes back meanwhile, in every generation without an orphan.
THEOREM ExclusiveLease == ClientSpec => []ExclusiveAlone
<1>1. ClientInv => ExclusiveAlone
  <2> SUFFICES ASSUME ClientInv, ~orphaned, NEW a \in Acqs, NEW b \in Acqs, a # b, IsActive(a), IsActive(b)
               PROVE  mode[a] = "shared" /\ mode[b] = "shared"
    BY DEF ExclusiveAlone, ExclusiveAlways
  <2>1. a \in Holding /\ b \in Holding /\ Up
    BY DEF IsActive, Holding, Valid, ClientInv, LeaseInv, Offline
  <2>2. mode[a] # "exclusive" /\ mode[b] # "exclusive"
    BY <2>1 DEF ClientInv, LeaseInv, Reserved
  <2> QED BY <2>2 DEF ClientInv, LeaseInv, LeaseTypeOK
<1> QED BY <1>1, ClientInvariant, PTL

\* No detach request is under way while anybody holds an active lease of the session, in
\* every generation without an orphan.
THEOREM DetachmentSafe == ClientSpec => []DetachSparesOthers
<1>1. ClientInv => DetachSparesOthers
  <2> SUFFICES ASSUME ClientInv, ~orphaned, NEW a \in Acqs, NEW b \in Acqs, wire[a] \in {"detach", "reconcile"}, IsActive(b)
               PROVE  FALSE
    BY DEF DetachSparesOthers
  <2>1. b \in Holding /\ Up /\ at[b] = "done" /\ lease[b] = "active"
    BY DEF IsActive, Holding, Valid, ClientInv, LeaseInv, Offline, Wired, WiredAt
  <2>2. a # 0
    BY AcqFacts
  <2>3. CASE wire[a] = "detach"
    <3>1. detachment = a /\ lease[a] = "releasing"
      BY <2>1, <2>3 DEF ClientInv, LeaseInv, Wired, WiredAt, Detaching
    <3> QED BY <2>1, <2>2, <3>1 DEF ClientInv, LeaseInv, Detaching
  <2>4. CASE wire[a] = "reconcile"
    <3>1. reconciliation = a
      BY <2>4 DEF ClientInv, LeaseInv, Wired, WiredAt, Promised
    <3> QED BY <2>1, <2>2, <3>1 DEF ClientInv, LeaseInv, Detaching
  <2> QED BY <2>3, <2>4
<1> QED BY <1>1, ClientInvariant, PTL
=============================================================================
