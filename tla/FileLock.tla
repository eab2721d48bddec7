------------------------------- MODULE FileLock -------------------------------
(***************************************************************************)
(* What a file mutation queue promises: mutations of one file run one at a   *)
(* time, in the order in which they were asked for, and mutations of         *)
(* different files do not wait for each other once their files are known.    *)
(* Nothing is said here about how the order is kept.                         *)
(***************************************************************************)
EXTENDS Naturals

CONSTANTS Calls, Keys

VARIABLES
    count,   \* the number of calls so far
    ticket,  \* call -> its place in the order of the calls, 0 before it
    file,    \* call -> the canonical file it mutates, or "none"
    phase    \* call -> how far it is

vars == <<count, ticket, file, phase>>

Init ==
    /\ count = 0
    /\ ticket = [c \in Calls |-> 0]
    /\ file = [c \in Calls |-> "none"]
    /\ phase = [c \in Calls |-> "idle"]

Earlier(d, c) == 0 < ticket[d] /\ ticket[d] < ticket[c]

Ask(c) ==
    /\ phase[c] = "idle"
    /\ count' = count + 1
    /\ ticket' = [ticket EXCEPT ![c] = count + 1]
    /\ phase' = [phase EXCEPT ![c] = "pending"]
    /\ UNCHANGED file

\* The file of a call is found out, or cannot be.
Locate(c) ==
    /\ phase[c] = "pending"
    /\ \/ \E k \in Keys : file' = [file EXCEPT ![c] = k] /\ phase' = [phase EXCEPT ![c] = "waiting"]
       \/ file' = file /\ phase' = [phase EXCEPT ![c] = "over"]
    /\ UNCHANGED <<count, ticket>>

\* A mutation runs when every earlier one is over or has another file.
Enter(c) ==
    /\ phase[c] = "waiting"
    /\ \A d \in Calls : Earlier(d, c) =>
          \/ phase[d] = "over"
          \/ phase[d] # "pending" /\ file[d] # file[c]
    /\ phase' = [phase EXCEPT ![c] = "running"]
    /\ UNCHANGED <<count, ticket, file>>

Leave(c) ==
    /\ phase[c] = "running"
    /\ phase' = [phase EXCEPT ![c] = "over"]
    /\ UNCHANGED <<count, ticket, file>>

Next == \E c \in Calls : Ask(c) \/ Locate(c) \/ Enter(c) \/ Leave(c)

Spec == Init /\ [][Next]_vars
=============================================================================
