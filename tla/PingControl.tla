---------------------------- MODULE PingControl ----------------------------
(***************************************************************************)
(* The path of a ping inside one host: the nhipping processes, the task    *)
(* that ctl_listener spawns for each connection, the daemon's single       *)
(* pong_sender slot and the NHIPPONG arm of recv_handler.                  *)
(*                                                                         *)
(*   nhipping --inbox--> connection task --pings--> network                *)
(*   nhipping <-outbox-- connection task <-mail-- recv_handler <-pongs--   *)
(*                                                                         *)
(* A command line on the Unix socket carries no data of its own here:      *)
(* client c always sends the same line, so inbox counts the unread ones.   *)
(* A "PONG a b" line is the index of its PONG in received.  The network    *)
(* between the ping that leaves and the PONG that arrives is external: it  *)
(* loses and duplicates frames, and the pinged station may answer.         *)
(***************************************************************************)
EXTENDS Naturals, Sequences, FiniteSets

CONSTANTS Clients,        \* the nhipping processes, and their connection tasks
          Addresses,      \* address texts as typed or configured
          Dest, Source,   \* expanded_dst and expanded_src of each client
          Canonical,      \* the text the daemon prints for an address: NodeID in decimal
          Count,          \* Count[c]: attempts of client c (--count, 5 by default)
          MaxDuplicates,  \* bound: frames the network duplicates
          NoClient        \* the empty slot (None)

ASSUME AddressAssumption ==
  /\ Dest \in [Clients -> Addresses]
  /\ Source \in [Clients -> Addresses]
  /\ Canonical \in [Addresses -> Addresses]

ASSUME CountAssumption == Count \in [Clients -> Nat \ {0}] /\ MaxDuplicates \in Nat

ASSUME NoClientAssumption == NoClient \notin Clients

\* The pair that nhipping compares with, and the pair that a PONG for it prints.
Wanted == [c \in Clients |-> <<Dest[c], Source[c]>>]
Printed == [c \in Clients |-> <<Canonical[Dest[c]], Canonical[Source[c]]>>]
Pairs == {Printed[c] : c \in Clients}

NoLine == 0

VARIABLES
  cpc, attempt, success,  \* nhipping: "send", "wait" or "done"; its two counters
  response,               \* first line that the running attempt has read
  credited,               \* history: the PONGs counted in success
  inbox, outbox,          \* the connection: unread command lines, unread PONG lines
  tpc, mail,              \* connection task: program counter, its oneshot channel
  slot,                   \* daemon.pong_sender: the task whose sender it holds
  dropped,                \* history: the task's sender was dropped from the slot unused
  pings, pongs, dups,     \* the network
  received,               \* history: PONGs handled, and the task that got each
  up                      \* the daemon process runs

clientVars == <<cpc, attempt, success, response, credited>>
taskVars == <<tpc, mail, slot, dropped>>
netVars == <<pings, pongs, dups>>
vars == <<clientVars, taskVars, netVars, inbox, outbox, received, up>>

\* The receiving end of the task's oneshot channel exists.
Listening(c) == tpc[c] \in {"send", "clear", "await"}

Init == /\ cpc = [c \in Clients |-> "send"]
        /\ attempt = [c \in Clients |-> 0]
        /\ success = [c \in Clients |-> 0]
        /\ response = [c \in Clients |-> NoLine]
        /\ credited = [c \in Clients |-> {}]
        /\ inbox = [c \in Clients |-> 0]
        /\ outbox = [c \in Clients |-> <<>>]
        /\ tpc = [c \in Clients |-> "idle"]
        /\ mail = [c \in Clients |-> NoLine]
        /\ slot = NoClient
        /\ dropped = [c \in Clients |-> FALSE]
        /\ pings = [p \in Pairs |-> 0]
        /\ pongs = [p \in Pairs |-> 0]
        /\ dups = 0
        /\ received = <<>>
        /\ up = TRUE

-----------------------------------------------------------------------------
(* nhipping *)

\* Faulty variants, here and below: what the properties must notice.
Matches_SourceOnly(c, i) == received[i].pair[2] = Wanted[c][2]

\* Line i answers client c: both addresses of the line, compared as text.
Matches(c, i) == received[i].pair = Wanted[c]

EndAttempt_OneTooMany(c) ==
  /\ attempt' = [attempt EXCEPT ![c] = @ + 1]
  /\ response' = [response EXCEPT ![c] = NoLine]
  /\ cpc' = [cpc EXCEPT ![c] = IF attempt[c] + 1 > Count[c] THEN "done" ELSE "send"]

\* An attempt is over; the next one starts with an empty response.
EndAttempt(c) ==
  /\ attempt' = [attempt EXCEPT ![c] = @ + 1]
  /\ response' = [response EXCEPT ![c] = NoLine]
  /\ cpc' = [cpc EXCEPT ![c] = IF attempt[c] + 1 >= Count[c] THEN "done" ELSE "send"]

ClientSend(c) == /\ cpc[c] = "send"
                 /\ up
                 /\ cpc' = [cpc EXCEPT ![c] = "wait"]
                 /\ inbox' = [inbox EXCEPT ![c] = @ + 1]
                 /\ UNCHANGED <<attempt, success, response, credited, taskVars, netVars,
                                outbox, received, up>>

ClientRead_NoBreak(c) ==
  /\ cpc[c] = "wait"
  /\ outbox[c] # <<>>
  /\ outbox' = [outbox EXCEPT ![c] = <<>>]
  /\ Matches(c, Head(outbox[c]))
  /\ success' = [success EXCEPT ![c] = @ + 1]
  /\ credited' = [credited EXCEPT ![c] = @ \cup {Head(outbox[c])}]
  /\ UNCHANGED <<cpc, attempt, response, taskVars, netVars, inbox, received, up>>

ClientRead_Peeks(c) ==
  /\ cpc[c] = "wait"
  /\ outbox[c] # <<>>
  /\ Matches(c, Head(outbox[c]))
  /\ success' = [success EXCEPT ![c] = @ + 1]
  /\ credited' = [credited EXCEPT ![c] = @ \cup {Head(outbox[c])}]
  /\ EndAttempt(c)
  /\ UNCHANGED <<taskVars, netVars, inbox, outbox, received, up>>

\* One read returns every unread line; only the first line of the attempt's
\* response is ever compared.
ClientRead(c) ==
  LET first == IF response[c] = NoLine THEN Head(outbox[c]) ELSE response[c]
  IN /\ cpc[c] = "wait"
     /\ outbox[c] # <<>>
     /\ outbox' = [outbox EXCEPT ![c] = <<>>]
     /\ \/ /\ Matches(c, first)
           /\ success' = [success EXCEPT ![c] = @ + 1]
           /\ credited' = [credited EXCEPT ![c] = @ \cup {first}]
           /\ EndAttempt(c)
        \/ /\ ~Matches(c, first)
           /\ response' = [response EXCEPT ![c] = first]
           /\ UNCHANGED <<cpc, attempt, success, credited>>
     /\ UNCHANGED <<taskVars, netVars, inbox, received, up>>

ClientTimeout_OnlySilent(c) ==
  /\ cpc[c] = "wait"
  /\ up
  /\ outbox[c] = <<>>
  /\ response[c] = NoLine
  /\ EndAttempt(c)
  /\ UNCHANGED <<success, credited, taskVars, netVars, inbox, outbox, received, up>>

\* A read times out when nothing is unread, and two seconds have passed.
ClientTimeout(c) == /\ cpc[c] = "wait"
                    /\ up
                    /\ outbox[c] = <<>>
                    /\ EndAttempt(c)
                    /\ UNCHANGED <<success, credited, taskVars, netVars, inbox, outbox,
                                   received, up>>

\* The daemon is gone: a write fails, and a read fails when the daemon left a
\* command unread (otherwise every read returns 0 bytes and nhipping spins).
ClientFails(c) == /\ ~up
                  /\ \/ cpc[c] = "send"
                     \/ cpc[c] = "wait" /\ outbox[c] = <<>> /\ inbox[c] > 0
                  /\ cpc' = [cpc EXCEPT ![c] = "done"]
                  /\ UNCHANGED <<attempt, success, response, credited, taskVars, netVars,
                                 inbox, outbox, received, up>>

-----------------------------------------------------------------------------
(* The connection task of ctl_listener *)

\* The sender that the slot holds is dropped: its task, if it still listens,
\* will find its channel closed.
DropSender ==
  dropped' = [c \in Clients |-> dropped[c] \/ (slot = c /\ Listening(c))]

TaskRead_Peeks(c) ==
  /\ up
  /\ tpc[c] = "idle"
  /\ inbox[c] > 0
  /\ tpc' = [tpc EXCEPT ![c] = "register"]
  /\ UNCHANGED <<clientVars, mail, slot, dropped, netVars, inbox, outbox, received, up>>

\* One read returns every unread command; only a single command has 5 parts.
TaskRead(c) ==
  /\ up
  /\ tpc[c] = "idle"
  /\ inbox[c] > 0
  /\ tpc' = [tpc EXCEPT ![c] = IF inbox[c] = 1 THEN "register" ELSE "idle"]
  /\ inbox' = [inbox EXCEPT ![c] = 0]
  /\ UNCHANGED <<clientVars, mail, slot, dropped, netVars, outbox, received, up>>

TaskClose(c) ==
  /\ up
  /\ tpc[c] = "idle"
  /\ inbox[c] = 0
  /\ cpc[c] = "done"
  /\ tpc' = [tpc EXCEPT ![c] = "closed"]
  /\ UNCHANGED <<clientVars, mail, slot, dropped, netVars, inbox, outbox, received, up>>

\* A fresh channel; its sender replaces whatever the slot held.
TaskRegister(c) ==
  /\ up
  /\ tpc[c] = "register"
  /\ slot' = c
  /\ mail' = [mail EXCEPT ![c] = NoLine]
  /\ dropped' = [d \in Clients |->
                   d # c /\ (dropped[d] \/ (slot = d /\ Listening(d)))]
  /\ tpc' = [tpc EXCEPT ![c] = "send"]
  /\ UNCHANGED <<clientVars, netVars, inbox, outbox, received, up>>

\* pingpong with oper 1 transmits the ping.
TaskSend(c) ==
  /\ up
  /\ tpc[c] = "send"
  /\ pings' = [pings EXCEPT ![Printed[c]] = @ + 1]
  /\ tpc' = [tpc EXCEPT ![c] = "await"]
  /\ UNCHANGED <<clientVars, mail, slot, dropped, pongs, dups, inbox, outbox,
                 received, up>>

\* pingpong returns an error: an address without NodeID, no MAC, no NodeID for
\* the NHARP request, a failed send.
TaskSendFails(c) ==
  /\ up
  /\ tpc[c] = "send"
  /\ tpc' = [tpc EXCEPT ![c] = "clear"]
  /\ UNCHANGED <<clientVars, mail, slot, dropped, netVars, inbox, outbox, received, up>>

\* After an error the slot is emptied, whoever's sender it holds by now.
TaskClear(c) ==
  /\ up
  /\ tpc[c] = "clear"
  /\ slot' = NoClient
  /\ DropSender
  /\ tpc' = [tpc EXCEPT ![c] = "await"]
  /\ UNCHANGED <<clientVars, mail, netVars, inbox, outbox, received, up>>

TaskReply_KeepsMail(c) ==
  /\ up
  /\ tpc[c] = "await"
  /\ mail[c] # NoLine
  /\ outbox' = [outbox EXCEPT ![c] = IF cpc[c] = "done" THEN @ ELSE Append(@, mail[c])]
  /\ tpc' = [tpc EXCEPT ![c] = "idle"]
  /\ UNCHANGED <<clientVars, mail, slot, dropped, netVars, inbox, received, up>>

\* The PONG line goes to the client (or nowhere, when the client has left).
TaskReply(c) ==
  /\ up
  /\ tpc[c] = "await"
  /\ mail[c] # NoLine
  /\ outbox' = [outbox EXCEPT ![c] = IF cpc[c] = "done" THEN @ ELSE Append(@, mail[c])]
  /\ mail' = [mail EXCEPT ![c] = NoLine]
  /\ tpc' = [tpc EXCEPT ![c] = "idle"]
  /\ UNCHANGED <<clientVars, slot, dropped, netVars, inbox, received, up>>

TaskTimeout_NoTimer(c) ==
  /\ up
  /\ tpc[c] = "await"
  /\ mail[c] = NoLine
  /\ slot # c
  /\ tpc' = [tpc EXCEPT ![c] = "idle"]
  /\ UNCHANGED <<clientVars, mail, slot, dropped, netVars, inbox, outbox, received, up>>

\* The channel is closed, or two seconds have passed.  A sender that stays in
\* the slot is from now on a sender without receiver.
TaskTimeout(c) ==
  /\ up
  /\ tpc[c] = "await"
  /\ mail[c] = NoLine
  /\ tpc' = [tpc EXCEPT ![c] = "idle"]
  /\ UNCHANGED <<clientVars, mail, slot, dropped, netVars, inbox, outbox, received, up>>

-----------------------------------------------------------------------------
(* recv_handler *)

RecvPong_KeepsSlot(p) ==
  LET to == IF slot # NoClient /\ Listening(slot) THEN slot ELSE NoClient
  IN /\ up
     /\ pongs[p] > 0
     /\ pongs' = [pongs EXCEPT ![p] = @ - 1]
     /\ received' = Append(received, [pair |-> p, to |-> to])
     /\ mail' = [c \in Clients |-> IF c = to THEN Len(received) + 1 ELSE mail[c]]
     /\ UNCHANGED <<clientVars, tpc, slot, dropped, pings, dups, inbox, outbox, up>>

\* A PONG takes the sender out of the slot, whichever ping it answers, and
\* sends the line through it; without a listening receiver the line is lost.
RecvPong(p) ==
  LET to == IF slot # NoClient /\ Listening(slot) THEN slot ELSE NoClient
  IN /\ up
     /\ pongs[p] > 0
     /\ pongs' = [pongs EXCEPT ![p] = @ - 1]
     /\ received' = Append(received, [pair |-> p, to |-> to])
     /\ mail' = [c \in Clients |-> IF c = to THEN Len(received) + 1 ELSE mail[c]]
     /\ slot' = NoClient
     /\ UNCHANGED <<clientVars, tpc, dropped, pings, dups, inbox, outbox, up>>

DaemonExit == /\ up
              /\ up' = FALSE
              /\ UNCHANGED <<clientVars, taskVars, netVars, inbox, outbox, received>>

-----------------------------------------------------------------------------
(* The network and the pinged stations: external *)

PeerAnswers(p) == /\ pings[p] > 0
                  /\ pings' = [pings EXCEPT ![p] = @ - 1]
                  /\ pongs' = [pongs EXCEPT ![p] = @ + 1]
                  /\ UNCHANGED <<clientVars, taskVars, dups, inbox, outbox, received, up>>

LosePing(p) == /\ pings[p] > 0
               /\ pings' = [pings EXCEPT ![p] = @ - 1]
               /\ UNCHANGED <<clientVars, taskVars, pongs, dups, inbox, outbox,
                              received, up>>

LosePong(p) == /\ pongs[p] > 0
               /\ pongs' = [pongs EXCEPT ![p] = @ - 1]
               /\ UNCHANGED <<clientVars, taskVars, pings, dups, inbox, outbox,
                              received, up>>

\* A ping sent to the broadcast MAC may reach its destination along two paths.
DuplicatePing(p) == /\ pings[p] > 0
                    /\ dups < MaxDuplicates
                    /\ pings' = [pings EXCEPT ![p] = @ + 1]
                    /\ dups' = dups + 1
                    /\ UNCHANGED <<clientVars, taskVars, pongs, inbox, outbox,
                                   received, up>>

-----------------------------------------------------------------------------
ClientStep(c) ==
  ClientSend(c) \/ ClientRead(c) \/ ClientTimeout(c) \/ ClientFails(c)

TaskStep(c) ==
  \/ TaskRead(c) \/ TaskClose(c) \/ TaskRegister(c)
  \/ TaskSend(c) \/ TaskSendFails(c) \/ TaskClear(c)
  \/ TaskReply(c) \/ TaskTimeout(c)

\* The network is not followed any further once the daemon has gone.
NetworkStep(p) ==
  up /\ (PeerAnswers(p) \/ LosePing(p) \/ LosePong(p) \/ DuplicatePing(p))

Next == \/ \E c \in Clients : ClientStep(c) \/ TaskStep(c)
        \/ \E p \in Pairs : RecvPong(p) \/ NetworkStep(p)
        \/ DaemonExit

Spec == Init /\ [][Next]_vars

\* Processes and tasks are scheduled and their two-second timers fire; nothing
\* is assumed of the network or of recv_handler.
Fairness == \A c \in Clients : WF_vars(ClientStep(c)) /\ WF_vars(TaskStep(c))

FairSpec == Spec /\ Fairness

-----------------------------------------------------------------------------
(* Properties *)

ClientTypes ==
  /\ cpc \in [Clients -> {"send", "wait", "done"}]
  /\ attempt \in [Clients -> Nat]
  /\ \A c \in Clients : attempt[c] <= Count[c]
  /\ success \in [Clients -> Nat]
  /\ response \in [Clients -> Nat]
  /\ credited \in [Clients -> SUBSET Nat]

ConnectionTypes ==
  /\ inbox \in [Clients -> Nat]
  /\ outbox \in [Clients -> Seq(Nat)]

TaskTypes ==
  /\ tpc \in [Clients -> {"idle", "register", "send", "clear", "await", "closed"}]
  /\ mail \in [Clients -> Nat]
  /\ slot \in Clients \cup {NoClient}
  /\ dropped \in [Clients -> BOOLEAN]

NetworkTypes ==
  /\ pings \in [Pairs -> Nat]
  /\ pongs \in [Pairs -> Nat]
  /\ dups \in 0..MaxDuplicates
  /\ received \in Seq([pair : Pairs, to : Clients \cup {NoClient}])
  /\ up \in BOOLEAN

\* Every variable has its type, and nobody makes more than its Count attempts.
TypeOK == ClientTypes /\ ConnectionTypes /\ TaskTypes /\ NetworkTypes

\* The PONGs that went to client c's task, and its unread lines.
Handed(c) == {i \in DOMAIN received : received[i].to = c}
Unread(c) == {outbox[c][k] : k \in DOMAIN outbox[c]}

InOrder(c) ==
  /\ credited[c] \subseteq Handed(c)
  /\ Unread(c) \subseteq Handed(c)
  /\ response[c] \in Handed(c) \cup {NoLine}
  /\ mail[c] \in Handed(c) \cup {NoLine}
  /\ \A i \in credited[c], j \in Unread(c) : i < j
  /\ mail[c] # NoLine => \A i \in credited[c] \cup Unread(c) : i < mail[c]

\* The lines of a client's connection are PONGs handed to its own task, in the
\* order of their arrival: what is counted is older than what is unread, and
\* that is older than what waits in the channel.  A line is never seen twice.
LinesInOrder == \A c \in Clients : InOrder(c)

\* A PONG raises the success count of at most one client, and only of a client
\* that waits for exactly that destination and source, although the slot hands
\* any PONG to whichever task registered last (recv_handler, NHIPPONG arm).
CreditOnce ==
  \A c \in Clients :
     /\ success[c] = Cardinality(credited[c])
     /\ \A i \in credited[c] :
           /\ received[i].pair = Wanted[c]
           /\ \A d \in Clients \ {c} : i \notin credited[d]

\* An attempt counts at most one PONG, so the final "attempt - success_count"
\* of nhipping cannot wrap around.
NoLossUnderflow == \A c \in Clients : success[c] <= attempt[c]

\* A task that listens without mail still owns the slot, unless its sender was
\* dropped by another registration or by the clearing after a failed send; and
\* a task whose sender is in the slot has no mail yet (the slot is emptied by
\* the PONG it passes on).
SenderKept ==
  \A c \in Clients : Listening(c) =>
     /\ (mail[c] = NoLine /\ ~dropped[c]) => slot = c
     /\ slot = c => mail[c] = NoLine

\* The PONGs passed to a client's connection never outnumber the PING commands
\* that the client has issued and the task has taken up: a stale sender or a
\* duplicated PONG never produces an extra line for a later attempt.  (An
\* nhipping that failed because the daemon has gone stops counting attempts.)
OneLinePerCommand ==
  up => \A c \in Clients :
     Cardinality(Handed(c)) + inbox[c]
       <= attempt[c] + (IF cpc[c] = "wait" THEN 1 ELSE 0)

\* A client that has read lines and goes on waiting has read no answer to its ping:
\* no line among them prints a PONG of its own destination for its own source.  The code
\* breaks this in two ways: only the first line of a response is compared, and addresses
\* are compared as they were typed (nhipping, the loop around stream.read).
AnswerCounts ==
  [][\A c \in Clients :
       (outbox[c] # <<>> /\ outbox'[c] = <<>> /\ success'[c] = success[c]) =>
         \A i \in Unread(c) : received[i].pair # Printed[c]]_vars

\* Every command that a task has taken up ends, answered or not, while the
\* daemon runs (the two-second timeout around the oneshot receiver).
CommandEnds ==
  \A c \in Clients :
     tpc[c] \in {"register", "send", "clear", "await"} ~> tpc[c] = "idle" \/ ~up

\* Every nhipping finishes its attempts while the daemon runs, whatever the
\* network does, even when commands are swallowed or answers go astray.
ClientFinishes == \A c \in Clients : <>(cpc[c] = "done" \/ ~up)

Promised == INSTANCE PingService
              WITH received <- [i \in DOMAIN received |-> received[i].pair]

\* The control path implements its promise: every step handles a PONG, ends an
\* attempt with an unused PONG of its own, ends it without, or is invisible.
ImplementsService == Promised!Spec
=============================================================================
