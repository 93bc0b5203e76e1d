------------------------- MODULE PingControl_proofs -------------------------
(***************************************************************************)
(* Proofs about PingControl for any number of clients, attempts, addresses *)
(* and duplicates: its types, and that a PONG is counted at most once.     *)
(***************************************************************************)
EXTENDS PingControl, FiniteSetTheorems, SequenceTheorems, TLAPS

\* An nhipping that is not done has an attempt left.
AttemptsLeft == \A c \in Clients : cpc[c] # "done" => attempt[c] < Count[c]

TypeInv == TypeOK /\ AttemptsLeft

\* What a client waits for is printed as one of the pairs of the network.
LEMMA PrintedInPairs == \A c \in Clients : Printed[c] \in Pairs
  BY DEF Printed, Pairs

\* The initial state is well typed, with all attempts ahead.
LEMMA InitTyped == Init => TypeInv
<1> SUFFICES ASSUME Init PROVE TypeInv
  OBVIOUS
<1>1. ClientTypes /\ AttemptsLeft
  BY CountAssumption DEF Init, ClientTypes, AttemptsLeft, NoLine
<1>2. ConnectionTypes /\ TaskTypes /\ NetworkTypes
  BY CountAssumption DEF Init, ConnectionTypes, TaskTypes, NetworkTypes, NoLine
<1>3. QED BY <1>1, <1>2 DEF TypeInv, TypeOK

\* A step that leaves a group of variables alone leaves their types alone.
LEMMA ClientUnchanged == 
  ASSUME ClientTypes, AttemptsLeft, UNCHANGED clientVars
  PROVE  ClientTypes' /\ AttemptsLeft'
  BY DEF ClientTypes, AttemptsLeft, clientVars

LEMMA ConnectionUnchanged ==
  ASSUME ConnectionTypes, UNCHANGED <<inbox, outbox>>  PROVE ConnectionTypes'
  BY DEF ConnectionTypes

LEMMA TaskUnchanged ==
  ASSUME TaskTypes, UNCHANGED taskVars  PROVE TaskTypes'
  BY DEF TaskTypes, taskVars

LEMMA NetworkUnchanged ==
  ASSUME NetworkTypes, UNCHANGED <<netVars, received, up>>  PROVE NetworkTypes'
  BY DEF NetworkTypes, netVars

\* Ending an attempt keeps the types: the client had an attempt left.
LEMMA EndAttemptTyped ==
  ASSUME ClientTypes, AttemptsLeft, NEW c \in Clients, EndAttempt(c), cpc[c] = "wait",
         success' \in [Clients -> Nat], credited' \in [Clients -> SUBSET Nat]
  PROVE  ClientTypes' /\ AttemptsLeft'
<1>1. attempt[c] < Count[c] /\ \A d \in Clients : attempt[d] \in Nat /\ Count[d] \in Nat
  BY CountAssumption DEF ClientTypes, AttemptsLeft
<1>2. attempt' \in [Clients -> Nat] /\ \A d \in Clients :
        attempt'[d] = IF d = c THEN attempt[c] + 1 ELSE attempt[d]
  BY <1>1 DEF EndAttempt, ClientTypes
<1>3. cpc' \in [Clients -> {"send", "wait", "done"}] /\ \A d \in Clients :
        cpc'[d] = IF d # c THEN cpc[d]
                  ELSE IF attempt[c] + 1 >= Count[c] THEN "done" ELSE "send"
  BY DEF EndAttempt, ClientTypes
<1>4. response' \in [Clients -> Nat]
  BY DEF EndAttempt, ClientTypes, NoLine
<1>5. \A d \in Clients : attempt'[d] <= Count[d]
  BY <1>1, <1>2 DEF ClientTypes
<1>6. AttemptsLeft'
  BY <1>1, <1>2, <1>3 DEF AttemptsLeft
<1>7. QED BY <1>2, <1>3, <1>4, <1>5, <1>6 DEF ClientTypes

\* No step of nhipping, a connection task, recv_handler or the network leaves
\* the types, and no attempt is made beyond Count.
LEMMA NextTyped == TypeInv /\ [Next]_vars => TypeInv'
<1> SUFFICES ASSUME ClientTypes, AttemptsLeft, ConnectionTypes, TaskTypes,
                    NetworkTypes, [Next]_vars
             PROVE  TypeInv'
  BY DEF TypeInv, TypeOK
<1> USE DEF TypeInv, TypeOK
<1>1. ASSUME NEW c \in Clients, ClientStep(c) PROVE TypeInv'
  <2>1. CASE ClientSend(c)
    <3>1. ClientTypes' /\ AttemptsLeft'
      BY <2>1, CountAssumption DEF ClientTypes, AttemptsLeft, ClientSend, NoLine
    <3>2. ConnectionTypes'
      BY <2>1 DEF ConnectionTypes, ClientSend
    <3>3. TaskTypes'
      BY <2>1, TaskUnchanged DEF ClientSend, taskVars
    <3>4. NetworkTypes'
      BY <2>1, NetworkUnchanged DEF ClientSend, netVars
    <3>5. QED BY <3>1, <3>2, <3>3, <3>4
  <2>2. CASE ClientRead(c)
    <3> DEFINE first == IF response[c] = NoLine THEN Head(outbox[c]) ELSE response[c]
    <3>1. first \in Nat /\ ConnectionTypes'
      BY <2>2 DEF ClientRead, ClientTypes, ConnectionTypes
    <3>2. ClientTypes' /\ AttemptsLeft'
      <4> HIDE DEF first
      <4>1. CASE Matches(c, first)
        <5>1. /\ success' = [success EXCEPT ![c] = @ + 1]
              /\ credited' = [credited EXCEPT ![c] = @ \cup {first}]
              /\ cpc[c] = "wait" /\ EndAttempt(c)
          BY <2>2, <4>1 DEF first, ClientRead
        <5>2. QED BY <3>1, <5>1, EndAttemptTyped DEF ClientTypes
      <4>2. CASE ~Matches(c, first)
        BY <2>2, <3>1, <4>2 DEF first, ClientRead, ClientTypes, AttemptsLeft
      <4>3. QED BY <4>1, <4>2
    <3>3. TaskTypes'
      BY <2>2, TaskUnchanged DEF ClientRead, taskVars
    <3>4. NetworkTypes'
      BY <2>2, NetworkUnchanged DEF ClientRead, netVars
    <3>5. QED BY <3>1, <3>2, <3>3, <3>4
  <2>3. CASE ClientTimeout(c)
    <3>1. ClientTypes' /\ AttemptsLeft'
      BY <2>3, EndAttemptTyped DEF ClientTypes, ClientTimeout
    <3>2. ConnectionTypes'
      BY <2>3, ConnectionUnchanged DEF ClientTimeout, EndAttempt
    <3>3. TaskTypes'
      BY <2>3, TaskUnchanged DEF ClientTimeout, EndAttempt, taskVars
    <3>4. NetworkTypes'
      BY <2>3, NetworkUnchanged DEF ClientTimeout, EndAttempt, netVars
    <3>5. QED BY <3>1, <3>2, <3>3, <3>4
  <2>4. CASE ClientFails(c)
    <3>1. ClientTypes' /\ AttemptsLeft'
      BY <2>4, CountAssumption DEF ClientTypes, AttemptsLeft, ClientFails, NoLine
    <3>2. ConnectionTypes'
      BY <2>4, ConnectionUnchanged DEF ClientFails
    <3>3. TaskTypes'
      BY <2>4, TaskUnchanged DEF ClientFails, taskVars
    <3>4. NetworkTypes'
      BY <2>4, NetworkUnchanged DEF ClientFails, netVars
    <3>5. QED BY <3>1, <3>2, <3>3, <3>4
  <2>5. QED BY <1>1, <2>1, <2>2, <2>3, <2>4 DEF ClientStep
<1>2. ASSUME NEW c \in Clients, TaskStep(c) PROVE TypeInv'
  <2>1. CASE TaskRead(c)
    <3>1. ClientTypes' /\ AttemptsLeft'
      BY <2>1, ClientUnchanged DEF TaskRead, clientVars
    <3>2. ConnectionTypes'
      BY <2>1 DEF ConnectionTypes, TaskRead
    <3>3. TaskTypes'
      BY <2>1 DEF TaskTypes, TaskRead, NoLine, Listening
    <3>4. NetworkTypes'
      BY <2>1, NetworkUnchanged DEF TaskRead, netVars
    <3>5. QED BY <3>1, <3>2, <3>3, <3>4
  <2>2. CASE TaskClose(c)
    <3>1. ClientTypes' /\ AttemptsLeft'
      BY <2>2, ClientUnchanged DEF TaskClose, clientVars
    <3>2. ConnectionTypes'
      BY <2>2, ConnectionUnchanged DEF TaskClose
    <3>3. TaskTypes'
      BY <2>2 DEF TaskTypes, TaskClose, NoLine, Listening
    <3>4. NetworkTypes'
      BY <2>2, NetworkUnchanged DEF TaskClose, netVars
    <3>5. QED BY <3>1, <3>2, <3>3, <3>4
  <2>3. CASE TaskRegister(c)
    <3>1. ClientTypes' /\ AttemptsLeft'
      BY <2>3, ClientUnchanged DEF TaskRegister, clientVars
    <3>2. ConnectionTypes'
      BY <2>3, ConnectionUnchanged DEF TaskRegister
    <3>3. TaskTypes'
      BY <2>3 DEF TaskTypes, TaskRegister, NoLine, Listening
    <3>4. NetworkTypes'
      BY <2>3, NetworkUnchanged DEF TaskRegister, netVars
    <3>5. QED BY <3>1, <3>2, <3>3, <3>4
  <2>4. CASE TaskSend(c)
    <3>1. ClientTypes' /\ AttemptsLeft'
      BY <2>4, ClientUnchanged DEF TaskSend, clientVars
    <3>2. ConnectionTypes'
      BY <2>4, ConnectionUnchanged DEF TaskSend
    <3>3. TaskTypes'
      BY <2>4 DEF TaskTypes, TaskSend, NoLine, Listening
    <3>4. NetworkTypes'
      BY <2>4, PrintedInPairs, CountAssumption DEF NetworkTypes, TaskSend
    <3>5. QED BY <3>1, <3>2, <3>3, <3>4
  <2>5. CASE TaskSendFails(c)
    <3>1. ClientTypes' /\ AttemptsLeft'
      BY <2>5, ClientUnchanged DEF TaskSendFails, clientVars
    <3>2. ConnectionTypes'
      BY <2>5, ConnectionUnchanged DEF TaskSendFails
    <3>3. TaskTypes'
      BY <2>5 DEF TaskTypes, TaskSendFails, NoLine, Listening
    <3>4. NetworkTypes'
      BY <2>5, NetworkUnchanged DEF TaskSendFails, netVars
    <3>5. QED BY <3>1, <3>2, <3>3, <3>4
  <2>6. CASE TaskClear(c)
    <3>1. ClientTypes' /\ AttemptsLeft'
      BY <2>6, ClientUnchanged DEF TaskClear, DropSender, clientVars
    <3>2. ConnectionTypes'
      BY <2>6, ConnectionUnchanged DEF TaskClear, DropSender
    <3>3. TaskTypes'
      BY <2>6 DEF TaskTypes, TaskClear, DropSender, NoLine, Listening
    <3>4. NetworkTypes'
      BY <2>6, NetworkUnchanged DEF TaskClear, DropSender, netVars
    <3>5. QED BY <3>1, <3>2, <3>3, <3>4
  <2>7. CASE TaskReply(c)
    <3>1. ClientTypes' /\ AttemptsLeft'
      BY <2>7, ClientUnchanged DEF TaskReply, clientVars
    <3>2. ConnectionTypes'
      BY <2>7 DEF ConnectionTypes, TaskTypes, TaskReply
    <3>3. TaskTypes'
      BY <2>7 DEF TaskTypes, TaskReply, NoLine, Listening
    <3>4. NetworkTypes'
      BY <2>7, NetworkUnchanged DEF TaskReply, netVars
    <3>5. QED BY <3>1, <3>2, <3>3, <3>4
  <2>8. CASE TaskTimeout(c)
    <3>1. ClientTypes' /\ AttemptsLeft'
      BY <2>8, ClientUnchanged DEF TaskTimeout, clientVars
    <3>2. ConnectionTypes'
      BY <2>8, ConnectionUnchanged DEF TaskTimeout
    <3>3. TaskTypes'
      BY <2>8 DEF TaskTypes, TaskTimeout, NoLine, Listening
    <3>4. NetworkTypes'
      BY <2>8, NetworkUnchanged DEF TaskTimeout, netVars
    <3>5. QED BY <3>1, <3>2, <3>3, <3>4
  <2>9. QED BY <1>2, <2>1, <2>2, <2>3, <2>4, <2>5, <2>6, <2>7, <2>8 DEF TaskStep
<1>3. ASSUME NEW p \in Pairs, RecvPong(p) PROVE TypeInv'
  <2>1. ClientTypes' /\ AttemptsLeft'
    BY <1>3, ClientUnchanged DEF RecvPong, clientVars
  <2>2. ConnectionTypes'
    BY <1>3, ConnectionUnchanged DEF RecvPong
  <2>3. TaskTypes'
    BY <1>3 DEF RecvPong, TaskTypes, NetworkTypes
  <2>4. NetworkTypes'
    <3> DEFINE to == IF slot # NoClient /\ Listening(slot) THEN slot ELSE NoClient
    <3>1. [pair |-> p, to |-> to] \in [pair : Pairs, to : Clients \cup {NoClient}]
      BY DEF TaskTypes
    <3>2. received' = Append(received, [pair |-> p, to |-> to])
      BY <1>3 DEF RecvPong
    <3>3. received' \in Seq([pair : Pairs, to : Clients \cup {NoClient}])
      <4> HIDE DEF to
      <4>1. QED BY <3>1, <3>2 DEF NetworkTypes
    <3>4. pongs' \in [Pairs -> Nat] /\ UNCHANGED <<pings, dups, up>>
      BY <1>3 DEF RecvPong, NetworkTypes
    <3>5. QED BY <3>3, <3>4 DEF NetworkTypes
  <2>5. QED BY <2>1, <2>2, <2>3, <2>4
<1>4. ASSUME NEW p \in Pairs, NetworkStep(p) PROVE TypeInv'
  <2>1. UNCHANGED <<clientVars, taskVars, inbox, outbox, received, up>>
    BY <1>4 DEF NetworkStep, PeerAnswers, LosePing, LosePong, DuplicatePing
  <2>2. NetworkTypes'
    <3>1. CASE PeerAnswers(p)
      BY <3>1, <2>1 DEF PeerAnswers, NetworkTypes
    <3>2. CASE LosePing(p)
      BY <3>2, <2>1 DEF LosePing, NetworkTypes
    <3>3. CASE LosePong(p)
      BY <3>3, <2>1 DEF LosePong, NetworkTypes
    <3>4. CASE DuplicatePing(p)
      BY <3>4, <2>1, CountAssumption DEF DuplicatePing, NetworkTypes
    <3>5. QED BY <1>4, <3>1, <3>2, <3>3, <3>4 DEF NetworkStep
  <2>3. QED BY <2>1, <2>2, ClientUnchanged, ConnectionUnchanged, TaskUnchanged
<1>5. CASE DaemonExit
  <2>1. NetworkTypes'
    BY <1>5 DEF DaemonExit, NetworkTypes, netVars
  <2>2. QED
    BY <1>5, <2>1, ClientUnchanged, ConnectionUnchanged, TaskUnchanged DEF DaemonExit
<1>6. CASE UNCHANGED vars
  BY <1>6, ClientUnchanged, ConnectionUnchanged, TaskUnchanged, NetworkUnchanged DEF vars
<1>7. QED BY <1>1, <1>2, <1>3, <1>4, <1>5, <1>6 DEF Next

\* The types hold in every state of every behaviour of the control path.
THEOREM TypeCorrect == Spec => []TypeOK
<1>1. TypeInv => TypeOK
  BY DEF TypeInv
<1>2. QED BY <1>1, InitTyped, NextTyped, PTL DEF Spec

-----------------------------------------------------------------------------
(* The loss that nhipping prints at the end *)

\* Only a client's own step changes its counters, and a counted PONG ends the
\* attempt.
LEMMA NextLoss == TypeInv /\ NoLossUnderflow /\ [Next]_vars => NoLossUnderflow'
<1> SUFFICES ASSUME TypeInv, NoLossUnderflow, [Next]_vars PROVE NoLossUnderflow'
  OBVIOUS
<1>1. attempt \in [Clients -> Nat] /\ success \in [Clients -> Nat]
  BY DEF TypeInv, TypeOK, ClientTypes
<1>2. CASE UNCHANGED <<attempt, success>>
  BY <1>2 DEF NoLossUnderflow
<1>3. ASSUME NEW c \in Clients, EndAttempt(c),
             success' \in {success, [success EXCEPT ![c] = @ + 1]}
      PROVE  NoLossUnderflow'
  <2>1. attempt' = [attempt EXCEPT ![c] = @ + 1]
    BY <1>3 DEF EndAttempt
  <2>2. ASSUME NEW d \in Clients PROVE success'[d] <= attempt'[d]
    <3>1. success[d] <= attempt[d] /\ success[d] \in Nat /\ attempt[d] \in Nat
      BY <1>1 DEF NoLossUnderflow
    <3>2. attempt'[d] = IF d = c THEN attempt[d] + 1 ELSE attempt[d]
      BY <1>1, <2>1
    <3>3. success'[d] \in {success[d], IF d = c THEN success[d] + 1 ELSE success[d]}
      BY <1>1, <1>3
    <3>4. QED BY <3>1, <3>2, <3>3
  <2>3. QED BY <2>2 DEF NoLossUnderflow
<1>4. ASSUME NEW c \in Clients, ClientStep(c) PROVE NoLossUnderflow'
  <2>1. CASE ClientSend(c) \/ ClientFails(c)
    BY <1>2, <2>1 DEF ClientSend, ClientFails
  <2>2. CASE ClientRead(c)
    BY <1>2, <1>3, <2>2 DEF ClientRead
  <2>3. CASE ClientTimeout(c)
    BY <1>3, <2>3 DEF ClientTimeout
  <2>4. QED BY <1>4, <2>1, <2>2, <2>3 DEF ClientStep
<1>5. ASSUME NEW c \in Clients, TaskStep(c) PROVE NoLossUnderflow'
  BY <1>2, <1>5 DEF TaskStep, TaskRead, TaskClose, TaskRegister, TaskSend, TaskSendFails,
                    TaskClear, TaskReply, TaskTimeout, clientVars
<1>6. ASSUME NEW p \in Pairs, RecvPong(p) \/ NetworkStep(p) PROVE NoLossUnderflow'
  BY <1>2, <1>6 DEF RecvPong, NetworkStep, PeerAnswers, LosePing, LosePong,
                    DuplicatePing, clientVars
<1>7. CASE DaemonExit \/ UNCHANGED vars
  BY <1>2, <1>7 DEF DaemonExit, vars, clientVars
<1>8. QED BY <1>4, <1>5, <1>6, <1>7 DEF Next

\* "attempt - success_count" never wraps around, for any number of attempts.
THEOREM LossNeverUnderflows == Spec => []NoLossUnderflow
<1>1. Init => NoLossUnderflow
  BY DEF Init, NoLossUnderflow
<1>2. QED BY <1>1, InitTyped, NextTyped, NextLoss, PTL DEF Spec

-----------------------------------------------------------------------------
(***************************************************************************)
(* A PONG is counted at most once.  Every line keeps the task it was       *)
(* handed to, and a client's lines move from the channel to the socket to  *)
(* the count in the order of arrival, so a counted PONG is never met again *)
(* by its own client, and never by another.                                *)
(***************************************************************************)

\* What success counts, and why a line kept in response is never counted later.
Counted(c) ==
  /\ IsFiniteSet(credited[c]) /\ success[c] = Cardinality(credited[c])
  /\ \A i \in credited[c] : received[i].pair = Wanted[c]
  /\ response[c] # NoLine => received[response[c]].pair # Wanted[c]

PongInv == TypeInv /\ \A c \in Clients : InOrder(c) /\ Counted(c)

LEMMA InitPongs == Init => PongInv
<1> SUFFICES ASSUME Init PROVE PongInv
  OBVIOUS
<1>1. TypeInv
  BY InitTyped
<1>2. ASSUME NEW c \in Clients PROVE InOrder(c) /\ Counted(c)
  <2>1. credited[c] = {} /\ Unread(c) = {} /\ response[c] = NoLine /\ mail[c] = NoLine
    BY DEF Init, Unread
  <2>2. success[c] = Cardinality({}) /\ IsFiniteSet({})
    BY FS_EmptySet DEF Init
  <2>3. QED BY <2>1, <2>2 DEF InOrder, Counted
<1>3. QED BY <1>1, <1>2 DEF PongInv

\* A client whose lines do not change keeps its invariant; so does one whose
\* response or channel becomes empty.
LEMMA LinesKept ==
  ASSUME NEW c \in Clients, InOrder(c), Counted(c), received' = received,
         credited'[c] = credited[c], success'[c] = success[c], outbox'[c] = outbox[c],
         response'[c] \in {response[c], NoLine}, mail'[c] \in {mail[c], NoLine}
  PROVE  InOrder(c)' /\ Counted(c)'
<1>1. Unread(c)' = Unread(c) /\ Handed(c)' = Handed(c)
  BY DEF Unread, Handed
<1>2. InOrder(c)'
  BY <1>1 DEF InOrder
<1>3. Counted(c)'
  BY DEF Counted
<1>4. QED BY <1>2, <1>3

\* A read counts the oldest unread line or none, and forgets the others.
LEMMA ReadKeeps ==
  ASSUME NEW c \in Clients, TypeInv, InOrder(c), Counted(c), ClientRead(c)
  PROVE  InOrder(c)' /\ Counted(c)'
<1> DEFINE first == IF response[c] = NoLine THEN Head(outbox[c]) ELSE response[c]
<1> USE DEF TypeInv, TypeOK
<1>1. outbox'[c] = <<>> /\ UNCHANGED <<received, mail>>
  BY DEF ClientRead, ConnectionTypes, taskVars
<1>2. Unread(c)' = {} /\ Handed(c)' = Handed(c)
  BY <1>1 DEF Unread, Handed
<1>3. Head(outbox[c]) \in Unread(c)
  BY DEF ClientRead, ConnectionTypes, Unread
<1>4. first \in Handed(c)
  BY <1>3 DEF InOrder
<1>5. CASE Matches(c, first)
  <2>1. response[c] = NoLine
    BY <1>5 DEF Counted, Matches
  <2>2. first \in Unread(c)
    BY <1>3, <2>1
  <2>3. /\ credited'[c] = credited[c] \cup {first}
        /\ success'[c] = success[c] + 1
        /\ response'[c] = NoLine
    BY <1>5 DEF ClientRead, EndAttempt, ClientTypes
  <2> HIDE DEF first
  <2>4. first \notin credited[c]
    <3>1. \A j \in Unread(c) : j \in Nat
      BY DEF Unread, ConnectionTypes
    <3>2. first \in Nat /\ ~(first < first)
      BY <2>2, <3>1
    <3>3. QED BY <2>2, <3>2 DEF InOrder
  <2>5. InOrder(c)'
    <3>1. mail[c] # NoLine => first < mail[c]
      BY <2>2 DEF InOrder
    <3>2. QED BY <1>1, <1>2, <1>4, <2>3, <3>1 DEF InOrder
  <2>6. IsFiniteSet(credited[c] \cup {first})
        /\ Cardinality(credited[c] \cup {first}) = Cardinality(credited[c]) + 1
    BY <2>4, FS_AddElement DEF Counted
  <2>7. Counted(c)'
    BY <1>1, <1>5, <2>3, <2>6 DEF Counted, Matches
  <2>8. QED BY <2>5, <2>7
<1>6. CASE ~Matches(c, first)
  <2>1. /\ UNCHANGED <<credited, success>>
        /\ response'[c] = first
    BY <1>6 DEF ClientRead, ClientTypes
  <2> HIDE DEF first
  <2>2. InOrder(c)'
    BY <1>1, <1>2, <1>4, <2>1 DEF InOrder
  <2>3. Counted(c)'
    BY <1>1, <1>6, <2>1 DEF Counted, Matches
  <2>4. QED BY <2>2, <2>3
<1>7. QED BY <1>5, <1>6

\* A reply moves the line from the channel behind the unread lines.
LEMMA ReplyKeeps ==
  ASSUME NEW c \in Clients, TypeInv, InOrder(c), Counted(c), TaskReply(c)
  PROVE  InOrder(c)' /\ Counted(c)'
<1> USE DEF TypeInv, TypeOK
<1>1. /\ UNCHANGED <<received, credited, success, response>>
      /\ mail'[c] = NoLine /\ mail[c] # NoLine /\ mail[c] \in Nat
      /\ outbox'[c] \in {outbox[c], Append(outbox[c], mail[c])}
  BY DEF TaskReply, clientVars, TaskTypes, ConnectionTypes
<1>2. Unread(c)' \subseteq Unread(c) \cup {mail[c]}
  <2>1. CASE outbox'[c] = outbox[c]
    BY <2>1 DEF Unread
  <2>2. CASE outbox'[c] = Append(outbox[c], mail[c])
    <3>1. outbox[c] \in Seq(Nat)
      BY DEF ConnectionTypes
    <3>2. /\ DOMAIN outbox'[c] = 1..(Len(outbox[c]) + 1)
          /\ outbox'[c][Len(outbox[c]) + 1] = mail[c]
          /\ \A k \in DOMAIN outbox[c] : outbox'[c][k] = outbox[c][k]
      BY <1>1, <2>2, <3>1
    <3>3. DOMAIN outbox[c] = 1..Len(outbox[c]) /\ Len(outbox[c]) \in Nat
      BY <3>1
    <3>4. ASSUME NEW k \in DOMAIN outbox'[c] PROVE outbox'[c][k] \in Unread(c) \cup {mail[c]}
      <4>1. k = Len(outbox[c]) + 1 \/ k \in DOMAIN outbox[c]
        BY <3>2, <3>3
      <4>2. QED BY <3>2, <4>1 DEF Unread
    <3>5. QED BY <3>4 DEF Unread
  <2>3. QED BY <1>1, <2>1, <2>2
<1>3. Handed(c)' = Handed(c)
  BY <1>1 DEF Handed
<1>4. InOrder(c)'
  BY <1>1, <1>2, <1>3 DEF InOrder
<1>5. Counted(c)'
  BY <1>1 DEF Counted
<1>6. QED BY <1>4, <1>5

\* A PONG that arrives is younger than every line of every client.
LEMMA ArrivalKeeps ==
  ASSUME NEW c \in Clients, NEW p \in Pairs, TypeInv, InOrder(c), Counted(c), RecvPong(p)
  PROVE  InOrder(c)' /\ Counted(c)'
<1> DEFINE to == IF slot # NoClient /\ Listening(slot) THEN slot ELSE NoClient
           new == Len(received) + 1
<1> USE DEF TypeInv, TypeOK
<1>1. /\ received' = Append(received, [pair |-> p, to |-> to])
      /\ mail'[c] = IF c = to THEN new ELSE mail[c]
      /\ UNCHANGED <<credited, success, response, outbox>>
  BY DEF RecvPong, clientVars
<1> HIDE DEF to
<1>2. /\ Len(received) \in Nat
      /\ DOMAIN received = 1..Len(received)
      /\ DOMAIN received' = 1..new
      /\ \A i \in DOMAIN received : received'[i] = received[i]
      /\ received'[new].to = to
  BY <1>1 DEF NetworkTypes
<1>3. Handed(c) \subseteq Handed(c)' /\ (c = to => new \in Handed(c)')
  BY <1>2 DEF Handed
<1>4. \A i \in Handed(c) : i < new /\ i # NoLine /\ received'[i] = received[i]
  BY <1>2 DEF Handed, NoLine
<1>5. Unread(c)' = Unread(c)
  BY <1>1 DEF Unread
<1>6. InOrder(c)'
  <2> HIDE DEF new
  <2>1. QED BY <1>1, <1>3, <1>4, <1>5 DEF InOrder
<1>7. Counted(c)'
  BY <1>1, <1>4 DEF Counted, InOrder
<1>8. QED BY <1>6, <1>7

\* No step makes a client meet a PONG that was counted before.
LEMMA NextPongs == PongInv /\ [Next]_vars => PongInv'
<1> SUFFICES ASSUME PongInv, [Next]_vars,
                    NEW c \in Clients
             PROVE  InOrder(c)' /\ Counted(c)'
  BY NextTyped DEF PongInv
<1>1. TypeInv /\ InOrder(c) /\ Counted(c)
  BY DEF PongInv
<1>2. ASSUME NEW d \in Clients, ClientStep(d) PROVE InOrder(c)' /\ Counted(c)'
  <2>1. CASE ClientSend(d)
    BY <1>1, <2>1, LinesKept DEF ClientSend, taskVars
  <2>2. CASE ClientRead(d)
    <3>1. CASE d = c
      BY <1>1, <2>2, <3>1, ReadKeeps
    <3>2. CASE d # c
      BY <1>1, <2>2, <3>2, LinesKept
         DEF ClientRead, EndAttempt, taskVars, TypeInv, TypeOK, ClientTypes, ConnectionTypes
    <3>3. QED BY <3>1, <3>2
  <2>3. CASE ClientTimeout(d)
    BY <1>1, <2>3, LinesKept
       DEF ClientTimeout, EndAttempt, taskVars, TypeInv, TypeOK, ClientTypes
  <2>4. CASE ClientFails(d)
    BY <1>1, <2>4, LinesKept DEF ClientFails, taskVars
  <2>5. QED BY <1>2, <2>1, <2>2, <2>3, <2>4 DEF ClientStep
<1>3. ASSUME NEW d \in Clients, TaskStep(d) PROVE InOrder(c)' /\ Counted(c)'
  <2>1. CASE TaskReply(d)
    <3>1. CASE d = c
      BY <1>1, <2>1, <3>1, ReplyKeeps
    <3>2. CASE d # c
      BY <1>1, <2>1, <3>2, LinesKept
         DEF TaskReply, clientVars, TypeInv, TypeOK, TaskTypes, ConnectionTypes
    <3>3. QED BY <3>1, <3>2
  <2>2. CASE TaskRegister(d)
    BY <1>1, <2>2, LinesKept
       DEF TaskRegister, clientVars, TypeInv, TypeOK, TaskTypes
  <2>3. CASE \/ TaskRead(d) \/ TaskClose(d) \/ TaskSend(d) \/ TaskSendFails(d)
             \/ TaskClear(d) \/ TaskTimeout(d)
    <3>1. UNCHANGED <<clientVars, mail, outbox, received>>
      BY <2>3 DEF TaskRead, TaskClose, TaskSend, TaskSendFails, TaskClear, TaskTimeout
    <3>2. QED BY <1>1, <3>1, LinesKept DEF clientVars
  <2>4. QED BY <1>3, <2>1, <2>2, <2>3 DEF TaskStep
<1>4. ASSUME NEW p \in Pairs, RecvPong(p) PROVE InOrder(c)' /\ Counted(c)'
  BY <1>1, <1>4, ArrivalKeeps
<1>5. CASE \/ \E p \in Pairs : NetworkStep(p)
           \/ DaemonExit
           \/ UNCHANGED vars
  <2>1. UNCHANGED <<clientVars, mail, outbox, received>>
    BY <1>5 DEF NetworkStep, PeerAnswers, LosePing, LosePong, DuplicatePing,
                DaemonExit, taskVars, vars
  <2>2. QED BY <1>1, <2>1, LinesKept DEF clientVars
<1>6. QED BY <1>2, <1>3, <1>4, <1>5 DEF Next

LEMMA PongInvariance == Spec => []PongInv
  BY InitPongs, NextPongs, PTL DEF Spec

\* The order of lines, for every number of clients, attempts and duplicates.
THEOREM LinesStayInOrder == Spec => []LinesInOrder
<1>1. PongInv => LinesInOrder
  BY DEF PongInv, LinesInOrder
<1>2. QED BY <1>1, PongInvariance, PTL

\* No PONG is counted by two clients, or by one that does not wait for it, or
\* twice: success is the number of different PONGs counted.
THEOREM PongsCountedOnce == Spec => []CreditOnce
<1>1. PongInv => CreditOnce
  BY DEF PongInv, CreditOnce, Counted, InOrder, Handed
<1>2. QED BY <1>1, PongInvariance, PTL

-----------------------------------------------------------------------------
(* The slot: the only way to lose a sender is that another task drops it.   *)

Kept(c) == Listening(c) => /\ (mail[c] = NoLine /\ ~dropped[c]) => slot = c
                           /\ slot = c => mail[c] = NoLine

LEMMA NextKept == TypeInv /\ SenderKept /\ [Next]_vars => SenderKept'
<1> SUFFICES ASSUME TaskTypes, NetworkTypes, SenderKept, [Next]_vars, NEW c \in Clients
             PROVE  Kept(c)'
  BY DEF SenderKept, Kept, TypeInv, TypeOK
<1>1. Kept(c)
  BY DEF SenderKept, Kept
<1>2. ASSUME NEW d \in Clients, ClientStep(d) PROVE Kept(c)'
  <2>1. UNCHANGED taskVars
    BY <1>2 DEF ClientStep, ClientSend, ClientRead, ClientTimeout, ClientFails
  <2>2. QED BY <1>1, <2>1 DEF Kept, Listening, taskVars
<1>3. ASSUME NEW d \in Clients, TaskStep(d) PROVE Kept(c)'
  <2>1. CASE TaskRead(d) \/ TaskClose(d)
    BY <1>1, <2>1 DEF TaskRead, TaskClose, Kept, Listening, TaskTypes
  <2>2. CASE TaskRegister(d)
    BY <1>1, <2>2, NoClientAssumption DEF TaskRegister, Kept, Listening, TaskTypes
  <2>3. CASE TaskSend(d) \/ TaskSendFails(d)
    BY <1>1, <2>3 DEF TaskSend, TaskSendFails, Kept, Listening, TaskTypes
  <2>4. CASE TaskClear(d)
    BY <1>1, <2>4, NoClientAssumption DEF TaskClear, DropSender, Kept, Listening, TaskTypes
  <2>5. CASE TaskReply(d) \/ TaskTimeout(d)
    BY <1>1, <2>5 DEF TaskReply, TaskTimeout, Kept, Listening, TaskTypes
  <2>6. QED BY <1>3, <2>1, <2>2, <2>3, <2>4, <2>5 DEF TaskStep
<1>4. ASSUME NEW p \in Pairs, RecvPong(p) PROVE Kept(c)'
  <2>1. slot' = NoClient /\ slot' # c /\ UNCHANGED <<tpc, dropped>>
    BY <1>4, NoClientAssumption DEF RecvPong
  <2>2. CASE slot = c /\ Listening(c)
    <3>1. mail'[c] = Len(received) + 1
      BY <1>4, <2>2, NoClientAssumption DEF RecvPong
    <3>2. mail'[c] # NoLine
      BY <3>1 DEF NoLine, NetworkTypes
    <3>3. QED BY <1>1, <2>1, <2>2, <3>1, <3>2 DEF Kept, Listening
  <2>3. CASE slot # c \/ ~Listening(c)
    <3>1. mail'[c] = mail[c]
      BY <1>4, <2>3, NoClientAssumption DEF RecvPong, TaskTypes
    <3>2. QED BY <1>1, <2>1, <2>3, <3>1 DEF Kept, Listening
  <2>4. QED BY <2>2, <2>3
<1>5. CASE (\E p \in Pairs : NetworkStep(p)) \/ DaemonExit \/ UNCHANGED vars
  <2>1. UNCHANGED taskVars
    BY <1>5 DEF NetworkStep, PeerAnswers, LosePing, LosePong, DuplicatePing, DaemonExit, vars
  <2>2. QED BY <1>1, <2>1 DEF Kept, Listening, taskVars
<1>6. QED BY <1>2, <1>3, <1>4, <1>5 DEF Next

\* A listening task without mail keeps its sender in the slot until another
\* registration or a failed send drops it.
THEOREM SenderNeverLost == Spec => []SenderKept
<1>1. Init => SenderKept
  BY DEF Init, SenderKept, Listening
<1>2. []TypeInv /\ [][Next]_vars /\ SenderKept => []SenderKept
  BY NextKept, PTL
<1>3. QED BY <1>1, <1>2, InitTyped, NextTyped, PTL DEF Spec

-----------------------------------------------------------------------------
(***************************************************************************)
(* Lines and commands.  A command is unread, or taken up and not answered  *)
(* yet (Owed), or it has cost the client an attempt or the present wait.   *)
(***************************************************************************)

IsOwed(c) == tpc[c] = "register" \/ (Listening(c) /\ mail[c] = NoLine)
Owed(c) == IF IsOwed(c) THEN 1 ELSE 0
Begun(c) == attempt[c] + (IF cpc[c] = "wait" THEN 1 ELSE 0)
Lines(c) == Cardinality(Handed(c))

Balance(c) == Lines(c) + inbox[c] + Owed(c) <= Begun(c)

BalanceInv == TypeInv /\ SenderKept /\ (up => \A c \in Clients : Balance(c))

LEMMA HandedFinite ==
  ASSUME NetworkTypes, NEW c
  PROVE  IsFiniteSet(Handed(c)) /\ Lines(c) \in Nat
<1>1. Len(received) \in Nat /\ DOMAIN received = 1..Len(received)
  BY DEF NetworkTypes
<1>2. IsFiniteSet(Handed(c))
  <2>1. IsFiniteSet(1..Len(received))
    BY <1>1, FS_Interval
  <2>2. Handed(c) \subseteq 1..Len(received)
    BY <1>1 DEF Handed
  <2>3. QED BY <2>1, <2>2, FS_Subset
<1>3. QED BY <1>2, FS_CardinalityType DEF Lines

LEMMA NumbersTyped ==
  ASSUME TypeInv, NEW c \in Clients
  PROVE  /\ Lines(c) \in Nat /\ inbox[c] \in Nat /\ Owed(c) \in 0..1
         /\ Begun(c) \in Nat /\ attempt[c] \in Nat
<1>1. Lines(c) \in Nat
  BY HandedFinite DEF TypeInv, TypeOK
<1>2. inbox[c] \in Nat /\ attempt[c] \in Nat
  BY DEF TypeInv, TypeOK, ConnectionTypes, ClientTypes
<1>3. Owed(c) \in 0..1
  BY DEF Owed
<1>4. QED BY <1>1, <1>2, <1>3 DEF Begun

\* What a step does to the four numbers of a client.
LEMMA BalanceKept ==
  ASSUME TypeInv, NEW c \in Clients, Balance(c),
         NEW n \in Nat, NEW i \in Nat, NEW o \in 0..1, NEW b \in Nat,
         Lines(c)' = n, inbox'[c] = i, Owed(c)' = o, Begun(c)' = b,
         n + i + o - b <= Lines(c) + inbox[c] + Owed(c) - Begun(c)
  PROVE  Balance(c)'
<1>1. n + i + o <= b
  BY NumbersTyped DEF Balance
<1>2. QED BY <1>1 DEF Balance

LEMMA ClientBalance ==
  ASSUME TypeInv, NEW c \in Clients, Balance(c), NEW d \in Clients, ClientStep(d), up
  PROVE  Balance(c)'
<1> DEFINE waits == IF cpc[c] = "wait" THEN 1 ELSE 0
<1>1. Lines(c)' = Lines(c) /\ Owed(c)' = Owed(c)
  BY DEF ClientStep, ClientSend, ClientRead, ClientTimeout, ClientFails, taskVars,
         Lines, Handed, Owed, IsOwed, Listening
<1>2. CASE ClientSend(c)
  <2>1. inbox'[c] = inbox[c] + 1 /\ attempt' = attempt /\ cpc[c] = "send" /\ cpc'[c] = "wait"
    BY <1>2 DEF ClientSend, TypeInv, TypeOK, ConnectionTypes, ClientTypes
  <2>2. Begun(c) = attempt[c] + 0 /\ Begun(c)' = attempt[c] + 1
    BY <2>1 DEF Begun
  <2>3. /\ inbox[c] + 1 \in Nat /\ attempt[c] + 1 \in Nat
        /\ Lines(c) + (inbox[c] + 1) + Owed(c) - (attempt[c] + 1)
             <= Lines(c) + inbox[c] + Owed(c) - Begun(c)
    BY <2>2, NumbersTyped
  <2>4. QED BY <1>1, <2>1, <2>2, <2>3, NumbersTyped, BalanceKept
<1>3. CASE inbox'[c] = inbox[c] /\ cpc[c] = "wait" /\ EndAttempt(c)
  <2>1. attempt'[c] = attempt[c] + 1 /\ cpc'[c] # "wait"
    BY <1>3 DEF EndAttempt, TypeInv, TypeOK, ClientTypes
  <2>2. Begun(c) = attempt[c] + 1 /\ Begun(c)' = attempt[c] + 1 + 0
    BY <1>3, <2>1 DEF Begun
  <2>3. attempt[c] + 1 + 0 \in Nat /\ attempt[c] + 1 + 0 = Begun(c)
    BY <2>2, NumbersTyped
  <2>4. Lines(c) + inbox[c] + Owed(c) - (attempt[c] + 1 + 0)
          <= Lines(c) + inbox[c] + Owed(c) - Begun(c)
    BY <2>3, NumbersTyped
  <2>5. QED BY <1>1, <1>3, <2>2, <2>3, <2>4, NumbersTyped, BalanceKept
<1>4. CASE inbox'[c] = inbox[c] /\ attempt'[c] = attempt[c] /\ cpc'[c] = cpc[c]
  <2>1. Begun(c)' = Begun(c)
    BY <1>4 DEF Begun
  <2>2. Lines(c) + inbox[c] + Owed(c) - Begun(c) <= Lines(c) + inbox[c] + Owed(c) - Begun(c)
    BY NumbersTyped
  <2>3. QED BY <1>1, <1>4, <2>1, <2>2, NumbersTyped, BalanceKept
<1>5. CASE c = d
  <2>1. CASE ClientRead(c) \/ ClientTimeout(c)
    BY <1>3, <1>4, <2>1 DEF ClientRead, ClientTimeout
  <2>2. QED BY <1>2, <1>5, <2>1 DEF ClientStep, ClientFails
<1>6. CASE c # d
  BY <1>4, <1>6 DEF ClientStep, ClientSend, ClientRead, ClientTimeout, ClientFails, EndAttempt,
                    TypeInv, TypeOK, ClientTypes, ConnectionTypes
<1>7. QED BY <1>5, <1>6

LEMMA TaskBalance ==
  ASSUME TypeInv, NEW c \in Clients, Balance(c), NEW d \in Clients, TaskStep(d)
  PROVE  Balance(c)'
<1> USE DEF TypeInv, TypeOK
<1>1. Lines(c)' = Lines(c) /\ Begun(c)' = Begun(c)
  BY DEF TaskStep, TaskRead, TaskClose, TaskRegister, TaskSend, TaskSendFails, TaskClear,
         TaskReply, TaskTimeout, clientVars, Lines, Handed, Begun
<1>2. CASE TaskRead(c)
  <2>1. ~IsOwed(c) /\ inbox[c] > 0 /\ inbox'[c] = 0 /\ (inbox[c] = 1 \/ ~IsOwed(c)')
    BY <1>2 DEF TaskRead, IsOwed, Listening, TaskTypes, ConnectionTypes
  <2>2. Owed(c) = 0 /\ Owed(c)' \in 0..1
    BY <2>1 DEF Owed
  <2>3. 0 + Owed(c)' <= inbox[c] + Owed(c)
    BY <2>1, <2>2, NumbersTyped
  <2>4. Lines(c) + 0 + Owed(c)' - Begun(c) <= Lines(c) + inbox[c] + Owed(c) - Begun(c)
    BY <2>2, <2>3, NumbersTyped
  <2>5. QED BY <1>1, <2>1, <2>2, <2>4, NumbersTyped, BalanceKept
<1>3. CASE inbox'[c] = inbox[c] /\ (IsOwed(c)' => IsOwed(c))
  <2>1. Owed(c)' \in 0..1 /\ Owed(c)' <= Owed(c)
    BY <1>3 DEF Owed
  <2>2. Lines(c) + inbox[c] + Owed(c)' - Begun(c) <= Lines(c) + inbox[c] + Owed(c) - Begun(c)
    BY <2>1, NumbersTyped
  <2>3. QED BY <1>1, <1>3, <2>1, <2>2, NumbersTyped, BalanceKept
<1>4. CASE c = d
  <2>1. CASE TaskClose(c) \/ TaskRegister(c) \/ TaskSend(c) \/ TaskSendFails(c) \/ TaskClear(c)
             \/ TaskReply(c) \/ TaskTimeout(c)
    BY <1>3, <2>1 DEF TaskClose, TaskRegister, TaskSend, TaskSendFails, TaskClear, TaskReply,
                      TaskTimeout, IsOwed, Listening, TaskTypes, ConnectionTypes
  <2>2. QED BY <1>2, <1>4, <2>1 DEF TaskStep
<1>5. CASE c # d
  <2>1. inbox'[c] = inbox[c] /\ tpc'[c] = tpc[c] /\ mail'[c] = mail[c]
    BY <1>5 DEF TaskStep, TaskRead, TaskClose, TaskRegister, TaskSend, TaskSendFails, TaskClear,
                TaskReply, TaskTimeout, TaskTypes, ConnectionTypes
  <2>2. QED BY <1>3, <2>1 DEF IsOwed, Listening
<1>6. QED BY <1>4, <1>5

\* A line that is handed over ends what its task was owed.
LEMMA ArrivalBalance ==
  ASSUME TypeInv, SenderKept, NEW c \in Clients, Balance(c), NEW p \in Pairs, RecvPong(p)
  PROVE  Balance(c)'
<1> DEFINE to == IF slot # NoClient /\ Listening(slot) THEN slot ELSE NoClient
           n == Len(received)
<1> USE DEF TypeInv, TypeOK
<1>1. n \in Nat /\ DOMAIN received = 1..n
  BY DEF NetworkTypes
<1>2. Begun(c)' = Begun(c) /\ inbox' = inbox /\ tpc' = tpc
  BY DEF RecvPong, clientVars, Begun
<1>3. /\ DOMAIN received' = 1..(n + 1)
      /\ \A i \in 1..n : received'[i] = received[i]
      /\ received'[n + 1].to = to
  BY DEF RecvPong, NetworkTypes
<1>4. CASE to = c
  <2>1. slot = c /\ Listening(c) /\ mail[c] = NoLine
    BY <1>4, NoClientAssumption DEF SenderKept
  <2>2. mail'[c] = n + 1 /\ n + 1 # NoLine
    BY <1>1, <1>4 DEF RecvPong, NoLine
  <2>3. IsOwed(c) /\ ~IsOwed(c)'
    BY <1>2, <2>1, <2>2 DEF IsOwed, Listening
  <2>4. Owed(c) = 1 /\ Owed(c)' = 0
    BY <2>3 DEF Owed
  <2>5. Handed(c)' = Handed(c) \cup {n + 1} /\ n + 1 \notin Handed(c)
    BY <1>1, <1>3, <1>4 DEF Handed
  <2>6. Lines(c)' = Lines(c) + 1
    BY <2>5, HandedFinite, FS_AddElement DEF Lines
  <2>7. QED BY <1>2, <2>4, <2>6, NumbersTyped, BalanceKept
<1>5. CASE to # c
  <2>1. mail'[c] = mail[c]
    BY <1>5 DEF RecvPong
  <2>2. Owed(c)' = Owed(c)
    BY <1>2, <2>1 DEF Owed, IsOwed, Listening
  <2>3. Handed(c)' = Handed(c)
    BY <1>1, <1>3, <1>5 DEF Handed
  <2>4. Lines(c)' = Lines(c)
    BY <2>3 DEF Lines
  <2>5. QED BY <1>2, <2>2, <2>4, NumbersTyped, BalanceKept
<1>6. QED BY <1>4, <1>5

LEMMA NextBalance == BalanceInv /\ [Next]_vars => BalanceInv'
<1> SUFFICES ASSUME BalanceInv, [Next]_vars, up' PROVE \A c \in Clients : Balance(c)'
  BY NextTyped, NextKept DEF BalanceInv
<1> SUFFICES ASSUME NEW c \in Clients PROVE Balance(c)'
  OBVIOUS
<1>1. up
  BY DEF Next, vars, ClientStep, ClientSend, ClientRead, ClientTimeout, ClientFails, TaskStep,
         TaskRead, TaskClose, TaskRegister, TaskSend, TaskSendFails, TaskClear, TaskReply,
         TaskTimeout, RecvPong, NetworkStep, DaemonExit
<1>2. TypeInv /\ SenderKept /\ Balance(c)
  BY <1>1 DEF BalanceInv
<1>3. CASE (\E p \in Pairs : NetworkStep(p)) \/ DaemonExit \/ UNCHANGED vars
  BY <1>2, <1>3 DEF NetworkStep, PeerAnswers, LosePing, LosePong, DuplicatePing, DaemonExit, vars,
                    clientVars, taskVars, Balance, Lines, Handed, Owed, IsOwed, Listening, Begun
<1>4. QED BY <1>1, <1>2, <1>3, ClientBalance, TaskBalance, ArrivalBalance DEF Next

\* The PONGs passed to a client's connection never outnumber the commands that
\* the client has issued: no stale sender and no duplicate makes a line for a
\* later attempt (nhipd/src/ctl.rs, nhipd/src/daemon.rs NHIPPONG arm).
THEOREM LinesNeverOutnumberCommands == Spec => []OneLinePerCommand
<1>1. Init => BalanceInv
  <2> SUFFICES ASSUME Init PROVE BalanceInv
    OBVIOUS
  <2>1. ASSUME NEW c \in Clients PROVE Balance(c)
    <3>1. Handed(c) = {} /\ inbox[c] = 0 /\ ~IsOwed(c) /\ attempt[c] = 0 /\ cpc[c] # "wait"
      BY DEF Init, Handed, IsOwed, Listening
    <3>2. Lines(c) = 0 /\ Owed(c) = 0 /\ Begun(c) = 0
      BY <3>1, FS_EmptySet DEF Lines, Owed, Begun
    <3>3. QED BY <3>1, <3>2 DEF Balance
  <2>2. SenderKept
    BY DEF Init, SenderKept, Listening
  <2>3. QED BY <2>1, <2>2, InitTyped DEF BalanceInv
<1>2. BalanceInv => OneLinePerCommand
  <2> SUFFICES ASSUME BalanceInv, up, NEW c \in Clients PROVE Lines(c) + inbox[c] <= Begun(c)
    BY DEF OneLinePerCommand, Lines, Begun
  <2>1. Balance(c) /\ TypeInv
    BY DEF BalanceInv
  <2>2. QED BY <2>1, NumbersTyped DEF Balance
<1>3. QED BY <1>1, <1>2, NextBalance, PTL DEF Spec

\* An address that the daemon prints in another way, as it does with every NodeID that is
\* typed with letters: nhipping never counts an answer for it, however often and by
\* whomever it is answered, and reports a loss of 100 % (nhipping/src/main.rs:159).
UnprintedNeverCounts == \A c \in Clients : Wanted[c] \notin Pairs => success[c] = 0

THEOREM UnprintedAddressesLose == Spec => []UnprintedNeverCounts
<1>1. PongInv => UnprintedNeverCounts
  <2> SUFFICES ASSUME PongInv, NEW c \in Clients, Wanted[c] \notin Pairs
               PROVE  success[c] = 0
    BY DEF UnprintedNeverCounts
  <2>1. received \in Seq([pair : Pairs, to : Clients \cup {NoClient}])
    BY DEF PongInv, TypeInv, TypeOK, NetworkTypes
  <2>2. \A n \in credited[c] : n \in DOMAIN received /\ received[n].pair = Wanted[c]
    BY DEF PongInv, InOrder, Handed, Counted
  <2>3. ASSUME NEW n \in DOMAIN received PROVE received[n].pair \in Pairs
    <3> DEFINE Handling == [pair : Pairs, to : Clients \cup {NoClient}]
    <3>1. received \in Seq(Handling) /\ n \in 1..Len(received)
      BY <2>1
    <3> HIDE DEF Handling
    <3>2. received[n] \in Handling
      BY <3>1, ElementOfSeq
    <3>3. QED BY <3>2 DEF Handling
  <2>4. credited[c] = {}
    BY <2>2, <2>3
  <2>5. QED BY <2>4, FS_EmptySet DEF PongInv, Counted
<1>2. QED BY <1>1, PongInvariance, PTL

-----------------------------------------------------------------------------
(* PingControl implements PingService. *)

\* The refinement mapping of received, as a sequence of pairs.
PairsReceived == [i \in DOMAIN received |-> received[i].pair]

LEMMA StepImplements == PongInv /\ [Next]_vars => [Promised!Next]_(Promised!vars)
<1> SUFFICES ASSUME PongInv, [Next]_vars PROVE Promised!Next \/ UNCHANGED Promised!vars
  OBVIOUS
<1> USE DEF PongInv, TypeInv, TypeOK
<1>1. ASSUME NEW c \in Clients, ClientRead(c) PROVE Promised!Next \/ UNCHANGED Promised!vars
  <2> DEFINE first == IF response[c] = NoLine THEN Head(outbox[c]) ELSE response[c]
  <2>1. CASE Matches(c, first)
    <3>1. response[c] = NoLine /\ first \in Unread(c)
      BY <1>1, <2>1 DEF ClientRead, Counted, Matches, ConnectionTypes, Unread
    <3>2. /\ credited' = [credited EXCEPT ![c] = @ \cup {first}]
          /\ success' = [success EXCEPT ![c] = @ + 1]
          /\ attempt' = [attempt EXCEPT ![c] = @ + 1]
          /\ UNCHANGED received
          /\ attempt[c] < Count[c]
      BY <1>1, <2>1 DEF ClientRead, EndAttempt, AttemptsLeft
    <3>3. InOrder(c) /\ \A d \in Clients : credited[d] \subseteq Handed(d)
      BY DEF InOrder
    <3> HIDE DEF first
    <3>4. first \in DOMAIN received /\ received[first].to = c /\ received[first].pair = Wanted[c]
      BY <2>1, <3>1, <3>3 DEF InOrder, Handed, Matches
    <3>5. \A d \in Clients : first \notin credited[d]
      <4>1. \A d \in Clients : d # c => first \notin credited[d]
        BY <3>3, <3>4 DEF Handed
      <4>2. first \notin credited[c]
        BY <3>1, <3>3, <3>4 DEF InOrder, NetworkTypes
      <4>3. QED BY <4>1, <4>2
    <3>6. Promised!Succeed(c)
      <4>1. first \in DOMAIN PairsReceived \ Promised!Used
        BY <3>4, <3>5 DEF PairsReceived, Promised!Used
      <4>2. PairsReceived[first] = Wanted[c] /\ UNCHANGED PairsReceived
        BY <3>2, <3>4 DEF PairsReceived
      <4>3. QED BY <3>2, <4>1, <4>2 DEF Promised!Succeed, PairsReceived
    <3>7. QED BY <3>6 DEF Promised!Next
  <2>2. CASE ~Matches(c, first)
    BY <1>1, <2>2 DEF ClientRead, Promised!vars
  <2>3. QED BY <2>1, <2>2
<1>2. ASSUME NEW c \in Clients, ClientTimeout(c) PROVE Promised!Next
  <2>1. Promised!Fail(c)
    BY <1>2 DEF ClientTimeout, EndAttempt, Promised!Fail, AttemptsLeft
  <2>2. QED BY <2>1 DEF Promised!Next
<1>3. ASSUME NEW p \in Pairs, RecvPong(p) PROVE Promised!Next
  <2> DEFINE to == IF slot # NoClient /\ Listening(slot) THEN slot ELSE NoClient
             entry == [pair |-> p, to |-> to]
  <2>1. received' = Append(received, entry) /\ UNCHANGED <<attempt, success, credited>>
    BY <1>3 DEF RecvPong, clientVars
  <2>2. entry.pair = p
    OBVIOUS
  <2> HIDE DEF entry
  <2>3. /\ Len(received) \in Nat
        /\ DOMAIN received = 1..Len(received)
        /\ DOMAIN received' = 1..(Len(received) + 1)
        /\ \A i \in 1..Len(received) : received'[i] = received[i]
        /\ received'[Len(received) + 1] = entry
    BY <2>1 DEF NetworkTypes
  <2> DEFINE n == Len(received)
  <2>4. PairsReceived \in Seq(Pairs) /\ Len(PairsReceived) = n
    <3>1. ASSUME NEW i \in 1..n PROVE received[i].pair \in Pairs
      <4>1. received[i] \in [pair : Pairs, to : Clients \cup {NoClient}]
        BY ElementOfSeq DEF NetworkTypes
      <4>2. QED BY <4>1
    <3>2. PairsReceived \in [1..n -> Pairs]
      BY <2>3, <3>1 DEF PairsReceived
    <3>3. QED BY <2>3, <3>2, SeqDef
  <2>5. PairsReceived' = Append(PairsReceived, p)
    <3> DEFINE appended == Append(PairsReceived, p)
    <3>1. /\ appended \in Seq(Pairs)
          /\ Len(appended) = n + 1
          /\ appended[n + 1] = p
          /\ \A i \in 1..n : appended[i] = received[i].pair
      BY <2>3, <2>4 DEF PairsReceived
    <3> HIDE DEF appended
    <3>2. \A i \in 1..(n + 1) : i \in 1..n \/ i = n + 1
      BY <2>3
    <3>3. \A i \in 1..(n + 1) : received'[i].pair = appended[i]
      BY <2>2, <2>3, <3>1, <3>2
    <3>4. appended \in [1..(n + 1) -> Pairs]
      BY <3>1, LenProperties
    <3>5. PairsReceived' = [i \in 1..(n + 1) |-> appended[i]]
      BY <2>3, <3>3 DEF PairsReceived
    <3>6. QED BY <3>4, <3>5 DEF appended
  <2>6. Promised!Receive
    BY <2>1, <2>5 DEF Promised!Receive, PairsReceived
  <2>7. QED BY <2>6 DEF Promised!Next
<1>4. ASSUME UNCHANGED <<received, attempt, success, credited>>
      PROVE  UNCHANGED Promised!vars
  BY <1>4 DEF Promised!vars
<1>5. ASSUME NEW c \in Clients, ClientStep(c) PROVE Promised!Next \/ UNCHANGED Promised!vars
  BY <1>1, <1>2, <1>4, <1>5 DEF ClientStep, ClientSend, ClientFails
<1>6. ASSUME NEW c \in Clients, TaskStep(c) PROVE UNCHANGED Promised!vars
  BY <1>4, <1>6 DEF TaskStep, TaskRead, TaskClose, TaskRegister, TaskSend, TaskSendFails,
                    TaskClear, TaskReply, TaskTimeout, clientVars
<1>7. CASE (\E p \in Pairs : NetworkStep(p)) \/ DaemonExit \/ UNCHANGED vars
  BY <1>4, <1>7 DEF NetworkStep, PeerAnswers, LosePing, LosePong, DuplicatePing,
                    DaemonExit, vars, clientVars
<1>8. QED BY <1>3, <1>5, <1>6, <1>7 DEF Next

\* The tasks, the slot, the channels and the sockets together keep the promise
\* of PingService.
THEOREM ControlImplementsService == Spec => ImplementsService
<1>1. Init => Promised!Init
  <2>1. ASSUME Init PROVE [i \in DOMAIN received |-> received[i].pair] = <<>>
    BY <2>1 DEF Init
  <2>2. QED BY <2>1 DEF Init, Promised!Init
<1>2. QED BY <1>1, StepImplements, PongInvariance, PTL
          DEF Spec, ImplementsService, Promised!Spec
=============================================================================
