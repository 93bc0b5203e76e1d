---------------------------- MODULE PingService ----------------------------
(***************************************************************************)
(* What the ping control path promises, without its tasks, locks, channels *)
(* and sockets: PONGs arrive one after another, every client makes Count   *)
(* attempts, and an attempt that succeeds uses up one PONG of the client's *)
(* own destination and source that no attempt of any client has used.      *)
(* PingControl implements this specification.                              *)
(***************************************************************************)
EXTENDS Naturals, Sequences

CONSTANTS Clients,   \* the nhipping processes
          Pairs,     \* the (pinged address, own address) pairs a PONG can name
          Wanted,    \* Wanted[c]: the pair that client c waits for
          Count      \* Count[c]: attempts of client c (--count)

VARIABLES received,  \* the pair of every PONG the daemon has handled, in order
          attempt,   \* attempts that each client has finished
          success,   \* attempts that it has counted as answered
          credited   \* the PONGs (indices of received) each client has counted

vars == <<received, attempt, success, credited>>

Used == UNION {credited[c] : c \in Clients}

Init == /\ received = <<>>
        /\ attempt = [c \in Clients |-> 0]
        /\ success = [c \in Clients |-> 0]
        /\ credited = [c \in Clients |-> {}]

\* The daemon handles a PONG.
Receive == /\ \E p \in Pairs : received' = Append(received, p)
           /\ UNCHANGED <<attempt, success, credited>>

\* An attempt of c succeeds: it counts a PONG that nobody has counted yet.
Succeed(c) ==
  /\ attempt[c] < Count[c]
  /\ \E i \in DOMAIN received \ Used :
        /\ received[i] = Wanted[c]
        /\ credited' = [credited EXCEPT ![c] = @ \cup {i}]
  /\ attempt' = [attempt EXCEPT ![c] = @ + 1]
  /\ success' = [success EXCEPT ![c] = @ + 1]
  /\ UNCHANGED received

\* An attempt of c ends without an answer.
Fail(c) == /\ attempt[c] < Count[c]
           /\ attempt' = [attempt EXCEPT ![c] = @ + 1]
           /\ UNCHANGED <<received, success, credited>>

Next == \/ Receive
        \/ \E c \in Clients : Succeed(c) \/ Fail(c)

Spec == Init /\ [][Next]_vars
=============================================================================
