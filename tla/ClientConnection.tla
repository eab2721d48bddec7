--------------------------- MODULE ClientConnection ---------------------------
(***************************************************************************)
(* The connection of packages/client/src/connection.ts: connect() may be     *)
(* called again as soon as an attempt has failed, so the transport, the       *)
(* frames and the errors of abandoned attempts arrive while a newer attempt   *)
(* is under way.  Listeners are called synchronously in the middle of the     *)
(* handlers and may disconnect or reconnect there; what a listener does is    *)
(* the parameter l of the actions that call one.                              *)
(*                                                                           *)
(* An attempt is named by its #sequence number.  One action is one callback   *)
(* or one continuation; a chunk of several frames is several Data actions.    *)
(***************************************************************************)
EXTENDS Naturals

CONSTANT MaxAttempts \* bound: calls of connect()

ASSUME ConnectionAssumption == MaxAttempts \in Nat

Attempts == 1..MaxAttempts

VARIABLES
    sequence,  \* #sequence
    state,     \* #lifecycle.state
    id,        \* #lifecycle.id, 0 if disconnected
    bound,     \* the attempt whose transport is #lifecycle.transport, 0 if none is set
    transport, \* attempt -> how far its transport is
    hello,     \* attempt -> its client hello: "none", "sending" or "settled"
    handshake  \* attempt -> the promise connect() returned

vars == <<sequence, state, id, bound, transport, hello, handshake>>

\* What a listener may do while it is being called.
Reactions == {"nothing", "disconnect", "reconnect"}

\* What the server may send: its hello, a refusal, anything else, or no frame at all.
Frames == {"hello", "hello_error", "message", "garbage"}

Init ==
    /\ sequence = 0 /\ state = "disconnected" /\ id = 0 /\ bound = 0
    /\ transport = [i \in Attempts |-> "none"]
    /\ hello = [i \in Attempts |-> "none"]
    /\ handshake = [i \in Attempts |-> "none"]

-----------------------------------------------------------------------------
\* #isCurrent()
IsCurrent(i) == state # "disconnected" /\ id = i

\* connect() as a listener or the application calls it, given that nothing is current;
\* tr and hs are transport and handshake after what happened before it.
BeginWith(tr, hs) ==
    /\ sequence < MaxAttempts
    /\ sequence' = sequence + 1
    /\ state' = "connecting" /\ id' = sequence + 1 /\ bound' = 0
    /\ transport' = [tr EXCEPT ![sequence + 1] = "opening"]
    /\ handshake' = [hs EXCEPT ![sequence + 1] = "pending"]

\* #fail(): nothing is current any more, and the listeners of the state change have been called.
EndWith(tr, hs, l) ==
    \/ /\ l = "reconnect"
       /\ BeginWith(tr, hs)
    \/ /\ l # "reconnect"
       /\ state' = "disconnected" /\ id' = 0 /\ bound' = 0
       /\ transport' = tr /\ handshake' = hs
       /\ UNCHANGED sequence

\* The promise of the current attempt, rejected unless it is settled.
Rejected == [handshake EXCEPT ![id] = IF @ = "pending" THEN "rejected" ELSE @]

\* Bug: the transport to close is looked up after the failure, when there is none any more.
FailAndCloseLate(l) ==
    /\ EndWith(transport, Rejected, l)
    /\ UNCHANGED hello

\* #failAndClose(): the transport is closed after the listeners, but is the one from before.
FailAndClose(l) ==
    /\ EndWith(IF bound # 0 THEN [transport EXCEPT ![bound] = "closed"] ELSE transport, Rejected, l)
    /\ UNCHANGED hello

-----------------------------------------------------------------------------
(* The application *)

\* connect(), refused unless disconnected
Connect ==
    /\ state = "disconnected"
    /\ BeginWith(transport, handshake)
    /\ UNCHANGED hello

\* disconnect(), and fail() by the client that found a response it did not ask for
Disconnect(l) ==
    /\ state # "disconnected"
    /\ FailAndClose(l)

-----------------------------------------------------------------------------
(* #openTransport() *)

\* The factory resolves; what follows is a continuation.
FactoryResolves(i) ==
    /\ transport[i] = "opening"
    /\ transport' = [transport EXCEPT ![i] = "offered"]
    /\ UNCHANGED <<sequence, state, id, bound, hello, handshake>>

FactoryRejects(i, l) ==
    /\ transport[i] = "opening"
    /\ \/ /\ IsCurrent(i)
          /\ EndWith([transport EXCEPT ![i] = "closed"], Rejected, l)
          /\ UNCHANGED hello
       \/ /\ ~IsCurrent(i)
          /\ transport' = [transport EXCEPT ![i] = "closed"]
          /\ UNCHANGED <<sequence, state, id, bound, hello, handshake>>

\* Bug: a transport that comes too late is forgotten.
OpenedIgnoringLate(i) ==
    /\ transport[i] = "offered" /\ state = "connecting" /\ id = i
    /\ bound' = i
    /\ transport' = [transport EXCEPT ![i] = "open"]
    /\ hello' = [hello EXCEPT ![i] = "sending"]
    /\ UNCHANGED <<sequence, state, id, handshake>>

\* The attempt takes its transport and sends its hello, or is no longer current and
\* closes it.
Opened(i) ==
    /\ transport[i] = "offered"
    /\ \/ /\ state = "connecting" /\ id = i
          /\ bound' = i
          /\ transport' = [transport EXCEPT ![i] = "open"]
          /\ hello' = [hello EXCEPT ![i] = "sending"]
       \/ /\ ~(state = "connecting" /\ id = i)
          /\ transport' = [transport EXCEPT ![i] = "closed"]
          /\ UNCHANGED <<bound, hello>>
    /\ UNCHANGED <<sequence, state, id, handshake>>

\* The hello is sent, or cannot be.
HelloSettles(i, ok, l) ==
    /\ hello[i] = "sending"
    /\ hello' = [hello EXCEPT ![i] = "settled"]
    /\ \/ /\ ~ok /\ IsCurrent(i)
          /\ EndWith(IF bound # 0 THEN [transport EXCEPT ![bound] = "closed"] ELSE transport, Rejected, l)
       \/ /\ ok \/ ~IsCurrent(i)
          /\ UNCHANGED <<sequence, state, id, bound, transport, handshake>>

-----------------------------------------------------------------------------
(* The transport's callbacks, and send() *)

\* The server's hello: onHandshake() and onStateChange() call listeners before the
\* promise is resolved; one that disconnects or reconnects has the last word.
Handshake(l) ==
    \/ /\ l = "nothing"
       /\ state' = "connected"
       /\ handshake' = [handshake EXCEPT ![id] = "resolved"]
       /\ UNCHANGED <<sequence, id, bound, transport, hello>>
    \/ /\ l # "nothing"
       /\ FailAndClose(l)

\* #handleData() and #handleMessage() of a frame that is not ignored.
HandleData(f, l) ==
    \/ /\ state = "connecting" /\ bound # 0 /\ f = "hello"
       /\ Handshake(l)
    \/ /\ state = "connecting" /\ (bound = 0 \/ f # "hello")
       /\ FailAndClose(l)
    \/ /\ state = "connected" /\ f = "message"
       /\ IF l = "nothing" THEN UNCHANGED vars ELSE FailAndClose(l)
    \/ /\ state = "connected" /\ f # "message"
       /\ FailAndClose(l)

\* onData() of attempt i
Data(i, f, l) ==
    /\ i <= sequence /\ IsCurrent(i)
    /\ HandleData(f, l)

\* onClose(): the peer has closed the transport.
HandleClose(i, l) ==
    /\ i <= sequence /\ IsCurrent(i)
    /\ EndWith(IF bound # 0 THEN [transport EXCEPT ![bound] = "closed"] ELSE transport, Rejected, l)
    /\ UNCHANGED hello

\* onError()
HandleError(i, l) ==
    /\ i <= sequence /\ IsCurrent(i)
    /\ FailAndClose(l)

\* A send() of an earlier moment fails; by now its transport may not be the current one.
SendFails(i, l) ==
    /\ hello[i] # "none"
    /\ state # "disconnected" /\ bound = i
    /\ FailAndClose(l)

-----------------------------------------------------------------------------
Event(i, l) ==
    \/ FactoryRejects(i, l)
    \/ \E ok \in BOOLEAN : HelloSettles(i, ok, l)
    \/ \E f \in Frames : Data(i, f, l)
    \/ HandleClose(i, l) \/ HandleError(i, l) \/ SendFails(i, l)

Next ==
    \/ Connect
    \/ \E l \in Reactions :
         \/ Disconnect(l)
         \/ \E i \in Attempts : Event(i, l)
    \/ \E i \in Attempts : FactoryResolves(i) \/ Opened(i)

Spec == Init /\ [][Next]_vars

-----------------------------------------------------------------------------
\* Types: the fields of #lifecycle agree with its state, and only attempts that were
\* begun have a transport or a promise.
TypeOK ==
    /\ sequence \in 0..MaxAttempts
    /\ state \in {"disconnected", "connecting", "connected"}
    /\ id \in 0..sequence /\ bound \in 0..sequence
    /\ transport \in [Attempts -> {"none", "opening", "offered", "open", "closed"}]
    /\ hello \in [Attempts -> {"none", "sending", "settled"}]
    /\ handshake \in [Attempts -> {"none", "pending", "resolved", "rejected"}]
    /\ (id = 0 <=> state = "disconnected")
    /\ \A i \in Attempts : i > sequence => transport[i] = "none" /\ handshake[i] = "none" /\ hello[i] = "none"

\* A transport that is open is the one in use: the transport of an attempt given up, in
\* whatever order its factory, its listeners and a newer attempt came, is closed.
NoLeakedTransport == \A i \in Attempts : transport[i] = "open" => IsCurrent(i) /\ bound = i

\* Frames are exchanged with the attempt's own open transport, and after its hello.
UsesOwnTransport ==
    /\ bound # 0 => bound = id /\ transport[id] = "open" /\ hello[id] # "none"
    /\ state = "connected" => bound # 0

\* Nobody waits for an attempt that was given up: its connect() has been rejected.
NoLostHandshake ==
    \A i \in Attempts : handshake[i] = "pending" => state = "connecting" /\ id = i

\* What the connection remembers is true after every callback, of whichever attempt:
\* types, the transport in use, no other one open, and nobody waiting in vain.
Consistent == TypeOK /\ UsesOwnTransport /\ NoLeakedTransport /\ NoLostHandshake

\* connect() succeeds only with a connection that is established when it does.
ResolvedIsConnected ==
    [][\A i \in Attempts : handshake[i] # "resolved" /\ handshake'[i] = "resolved" =>
            state' = "connected" /\ id' = i /\ transport'[i] = "open"]_vars
=============================================================================
