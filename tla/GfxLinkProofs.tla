---------------------------- MODULE GfxLinkProofs ----------------------------
(***************************************************************************)
(* Theorems about GfxLink, for every number of callers, every length of a  *)
(* round of sequence numbers and every bound: type correctness, and whose  *)
(* answer a request can succeed with.                                      *)
(*                                                                         *)
(* AnswerIsOwn says nothing of what is still in the endpoints, so it is    *)
(* not inductive.  Whether an answer can be mistaken is settled when the   *)
(* request is numbered: a packet that counted is as many packets old as    *)
(* the numbers have moved since (Distance), so whatever is still on its    *)
(* way and has the number of a later request is a round old (RoundApart),  *)
(* and submit ids only grow within a session (EchoesGrow).                 *)
(***************************************************************************)
EXTENDS GfxLink, FiniteSetTheorems, TLAPS

Packets == [opcode : Opcodes, sequence : 1 .. SeqLimit, echo : 0 .. MaxRequests,
            answered : BOOLEAN, session : 1 .. MaxSessions]

\* The packets and answers on their way; those that moved the numbers on.
Queued  == Range(outbox) \cup Range(inbox)
Counted == Queued \ unsent

\* How far the numbers have moved on since packet a, within one round.
Moved(a) == IF sequence > requests[a].sequence
            THEN sequence - requests[a].sequence
            ELSE sequence - requests[a].sequence + SeqLimit

Submitted == {n \in DOMAIN requests : /\ requests[n].session = session
                                      /\ requests[n].opcode \in EchoOpcodes}

\* A caller that waits has the lock and sent the last packet.
Locking ==
  \A c \in Callers :
    /\ pc[c] # "idle" => holder = c
    /\ pc[c] = "receive" => /\ call[c] = Len(requests) /\ Len(requests) > 0
                            /\ requests[call[c]].session = session

\* No packet is of a session to come.
Sessions == \A n \in DOMAIN requests : requests[n].session <= session

Distance ==
  \A a \in Counted : requests[a].session = session =>
                       Len(requests) + 1 - a >= Moved(a)

RoundApart ==
  \A a \in Counted, n \in DOMAIN requests :
    /\ a < n /\ requests[a].session = requests[n].session
    /\ requests[a].sequence = requests[n].sequence
    => n - a >= SeqLimit

EchoesGrow ==
  /\ \A n \in Submitted : requests[n].echo <= Cardinality(Submitted)
  /\ \A m, n \in DOMAIN requests :
       /\ m < n /\ requests[m].session = requests[n].session
       /\ requests[m].opcode \in EchoOpcodes
       /\ requests[n].opcode \in EchoOpcodes
       => requests[m].echo < requests[n].echo

\* Only a packet that was sent has an answer.
Answered == \A n \in Numbers : accepted[n] # 0 => n \in DOMAIN requests

Inductive ==
  /\ TypeOK /\ Locking /\ Sessions /\ Distance /\ RoundApart /\ EchoesGrow
  /\ Answered /\ AnswerIsOwn /\ SubmitAnswerIsOwn

------------------------------------------------------------------------------
(* Helpers                                                                 *)

\* The part of TypeOK that is about the packets, and the lengths it implies.
LEMMA PacketTypes ==
  ASSUME TypeOK
  PROVE  /\ Len(requests) \in 0 .. MaxRequests
         /\ DOMAIN requests = 1 .. Len(requests)
         /\ \A n \in DOMAIN requests : requests[n] \in Packets
         /\ Queued \subseteq DOMAIN requests
<1>1. requests \in Seq(Packets)
  BY Zenon DEF TypeOK, Packets
<1>2. /\ Len(requests) \in 0 .. MaxRequests
      /\ DOMAIN requests = 1 .. Len(requests)
  BY <1>1, NumbersAssumption DEF TypeOK
<1>3. \A n \in DOMAIN requests : requests[n] \in Packets
  BY <1>1
<1>4. outbox \in Seq(1 .. Len(requests)) /\ inbox \in Seq(1 .. Len(requests))
  BY Zenon DEF TypeOK
<1>5. /\ Range(outbox) \subseteq 1 .. Len(requests)
      /\ Range(inbox) \subseteq 1 .. Len(requests)
  BY <1>4 DEF Range
<1> QED  BY <1>2, <1>3, <1>4, <1>5 DEF Queued

\* Submissions are counted, and a submit id is never larger than a packet.
LEMMA EchoCounts ==
  ASSUME TypeOK
  PROVE  /\ IsFiniteSet(Submitted)
         /\ Cardinality(Submitted) \in 0 .. Len(requests)
         /\ \A opcode : Echo(opcode) = IF opcode \notin EchoOpcodes THEN 0
                                       ELSE 1 + Cardinality(Submitted)
<1>1. Len(requests) \in Nat /\ DOMAIN requests = 1 .. Len(requests)
  BY PacketTypes
<1>2. /\ IsFiniteSet(1 .. Len(requests))
      /\ Cardinality(1 .. Len(requests)) = Len(requests)
  <2>1. Len(requests) \in Int /\ 1 \in Int
    BY <1>1
  <2>2. /\ IsFiniteSet(1 .. Len(requests))
        /\ Cardinality(1 .. Len(requests)) =
             IF 1 > Len(requests) THEN 0 ELSE Len(requests) - 1 + 1
    BY <2>1, FS_Interval, Zenon
  <2> QED  BY <1>1, <2>2
<1>3. Submitted \in SUBSET (1 .. Len(requests))
  BY <1>1 DEF Submitted
<1>4. IsFiniteSet(Submitted) /\ Cardinality(Submitted) <= Len(requests)
  BY <1>2, <1>3, FS_Subset
<1>5. Cardinality(Submitted) \in Nat
  BY <1>4, FS_CardinalityType
<1>6. \A opcode : Echo(opcode) = IF opcode \notin EchoOpcodes THEN 0
                                 ELSE 1 + Cardinality(Submitted)
  BY DEF Echo, Submitted
<1> QED  BY <1>1, <1>4, <1>5, <1>6

\* What is taken from the head of an endpoint, and what is put at its end.
LEMMA EndpointTake ==
  ASSUME NEW S, NEW q \in Seq(S), q # <<>>
  PROVE  /\ Tail(q) \in Seq(S) /\ Head(q) \in Range(q) /\ Head(q) \in S
         /\ Range(Tail(q)) \subseteq Range(q)
<1>1. Len(q) \in Nat \ {0} /\ DOMAIN q = 1 .. Len(q) /\ Head(q) = q[1]
  OBVIOUS
<1>2. /\ Tail(q) \in Seq(S) /\ DOMAIN Tail(q) = 1 .. Len(q) - 1
      /\ \A i \in DOMAIN Tail(q) : Tail(q)[i] = q[i + 1] /\ i + 1 \in DOMAIN q
  BY <1>1
<1> QED  BY <1>1, <1>2 DEF Range

LEMMA EndpointPut ==
  ASSUME NEW S, NEW q \in Seq(S), NEW x \in S
  PROVE  /\ Append(q, x) \in Seq(S)
         /\ Range(Append(q, x)) \subseteq Range(q) \cup {x}
  BY DEF Range

\* A packet that is sent, or not: the new one is numbered by sequence and is
\* on its way only if that moved, or if the caller thinks it is not sent.
LEMMA TransferSteps ==
  ASSUME TypeOK, NEW c \in Callers, NEW opcode \in Opcodes,
         NEW answered \in BOOLEAN, NEW sent \in BOOLEAN,
         Transfer(c, opcode, answered, sent)
  PROVE  LET new == Len(requests) + 1 IN
         /\ new \in 1 .. MaxRequests /\ Len(requests') = new
         /\ requests' \in Seq(Packets) /\ DOMAIN requests' = 1 .. new
         /\ \A n \in 1 .. Len(requests) : requests'[n] = requests[n]
         /\ requests'[new].opcode = opcode
         /\ requests'[new].sequence = sequence
         /\ requests'[new].echo = Echo(opcode)
         /\ requests'[new].session = session
         /\ outbox' \in Seq(1 .. new) /\ inbox' \in Seq(1 .. new)
         /\ Queued' \subseteq Queued \cup {new}
         /\ unsent \subseteq unsent' /\ unsent' \subseteq unsent \cup {new}
         /\ IF sent THEN Advance
            ELSE sequence' = sequence /\ (new \in Queued' => new \in unsent')
         /\ faults' \in 0 .. MaxFaults /\ quiet' \in Nat
         /\ sequence' \in 1 .. SeqLimit
         /\ UNCHANGED <<session, accepted>>
<1> DEFINE new == Len(requests) + 1
<1> DEFINE packet == [opcode |-> opcode, sequence |-> sequence,
                      echo |-> Echo(opcode), session |-> session,
                      answered |-> answered]
<1>1. new \in 1 .. MaxRequests /\ Len(requests) \in Nat
  <2>1. Len(requests) < MaxRequests
    BY DEF Transfer
  <2> QED  BY <2>1, PacketTypes, NumbersAssumption
<1>2. Echo(opcode) \in 0 .. MaxRequests
  <2>1. Echo(opcode) = IF opcode \notin EchoOpcodes THEN 0
                       ELSE 1 + Cardinality(Submitted)
    BY EchoCounts, Zenon
  <2>2. Cardinality(Submitted) \in 0 .. Len(requests)
    BY EchoCounts
  <2> QED  BY <1>1, <2>1, <2>2, NumbersAssumption
<1>3. packet \in Packets
  BY <1>2 DEF TypeOK, Packets
<1>4. requests' = Append(requests, packet) /\ requests \in Seq(Packets)
  BY DEF Transfer, TypeOK, Packets
<1>5. /\ Len(requests') = new /\ DOMAIN requests' = 1 .. new
      /\ requests' \in Seq(Packets)
      /\ \A n \in 1 .. Len(requests) : requests'[n] = requests[n]
      /\ requests'[new] = packet
  BY <1>3, <1>4
<1>6. /\ inbox \in Seq(1 .. new) /\ outbox \in Seq(1 .. new)
  BY <1>1 DEF TypeOK
<1>7. /\ inbox' = inbox /\ outbox' \in {outbox, Append(outbox, new)}
      /\ outbox' \in Seq(1 .. new)
      /\ Range(outbox') \subseteq Range(outbox) \cup {new}
  <2>1. inbox' = inbox /\ outbox' \in {outbox, Append(outbox, new)}
    BY DEF Transfer
  <2>2. new \in 1 .. new
    BY <1>1
  <2>3. /\ Append(outbox, new) \in Seq(1 .. new)
        /\ Range(Append(outbox, new)) \subseteq Range(outbox) \cup {new}
    BY <1>6, <2>2, EndpointPut
  <2> QED  BY <1>6, <2>1, <2>3
<1>8. Queued' \subseteq Queued \cup {new}
  BY <1>7 DEF Queued
<1>9. IF sent THEN Advance
      ELSE sequence' = sequence /\ (new \in Queued' => new \in unsent')
  <2>1. CASE sent
    BY <2>1 DEF Transfer
  <2>2. CASE ~sent
    <3>1. CASE UNCHANGED <<outbox, unsent>>
      <4>1. Queued' = Queued
        BY <3>1, <1>7 DEF Queued
      <4>2. new \notin Queued
        BY PacketTypes, <1>1
      <4> QED  BY <2>2, <4>1, <4>2 DEF Transfer
    <3>2. CASE unsent' = unsent \cup {new}
      BY <2>2, <3>2 DEF Transfer
    <3> QED  BY <2>2, <3>1, <3>2 DEF Transfer
  <2> QED  BY <2>1, <2>2
<1>10. unsent \subseteq unsent' /\ unsent' \subseteq unsent \cup {new}
  BY DEF Transfer
<1>11. faults' \in 0 .. MaxFaults /\ quiet' \in Nat
  <2>1. \/ quiet' = quiet + 1 /\ faults' = faults
        \/ quiet' = 0 /\ faults < MaxFaults /\ faults' = faults + 1
    BY DEF Transfer, Fault
  <2>2. faults \in 0 .. MaxFaults /\ quiet \in Nat
    BY DEF TypeOK
  <2> QED  BY <2>1, <2>2, NumbersAssumption
<1>12. sequence' \in 1 .. SeqLimit
  BY <1>9, NumbersAssumption DEF Advance, TypeOK
<1> QED  BY <1>1, <1>5, <1>6, <1>7, <1>8, <1>9, <1>10, <1>11, <1>12 DEF Transfer

------------------------------------------------------------------------------
(* Type correctness, step by step                                          *)

LEMMA UnlockTypes ==
  ASSUME TypeOK, NEW c \in Callers, Unlock(c),
         Len(requests') \in Nat, Len(requests) <= Len(requests')
  PROVE  /\ holder' \in Callers \cup {NoCaller}
         /\ pc' \in [Callers -> {"idle", "send", "receive"}]
         /\ call' \in [Callers -> 0 .. Len(requests')]
<1>1. /\ pc \in [Callers -> {"idle", "send", "receive"}]
      /\ call \in [Callers -> 0 .. Len(requests)] /\ Len(requests) \in Nat
  BY PacketTypes DEF TypeOK
<1>2. call \in [Callers -> 0 .. Len(requests')]
  BY <1>1
<1> QED  BY <1>1, <1>2 DEF Unlock

LEMMA TransferTypes ==
  ASSUME TypeOK, NEW c \in Callers, NEW opcode \in Opcodes,
         NEW answered \in BOOLEAN, NEW sent \in BOOLEAN,
         Transfer(c, opcode, answered, sent),
         holder' \in Callers \cup {NoCaller},
         pc' \in [Callers -> {"idle", "send", "receive"}],
         call' \in [Callers -> 0 .. Len(requests')]
  PROVE  TypeOK'
<1> DEFINE new == Len(requests) + 1
<1>1. /\ new \in 1 .. MaxRequests /\ Len(requests') = new
      /\ requests' \in Seq(Packets)
      /\ outbox' \in Seq(1 .. new) /\ inbox' \in Seq(1 .. new)
      /\ unsent' \subseteq unsent \cup {new}
      /\ faults' \in 0 .. MaxFaults /\ quiet' \in Nat
      /\ sequence' \in 1 .. SeqLimit
      /\ UNCHANGED <<session, accepted>>
  BY TransferSteps
<1>2. /\ accepted \in [Numbers -> 0 .. Len(requests)]
      /\ unsent \subseteq 1 .. Len(requests) /\ Len(requests) \in Nat
      /\ session \in 1 .. MaxSessions
  BY PacketTypes, SMTT(20) DEF TypeOK
<1>3. accepted' \in [Numbers -> 0 .. Len(requests')]
  BY <1>1, <1>2
<1>4. unsent' \subseteq 1 .. Len(requests')
  <2>1. Len(requests') = Len(requests) + 1 /\ Len(requests) \in Nat
    BY <1>1, <1>2
  <2>2. unsent' \subseteq unsent \cup {Len(requests) + 1}
    BY <1>1
  <2> QED  BY <1>2, <2>1, <2>2
<1>5. /\ Len(requests') <= MaxRequests /\ session' \in 1 .. MaxSessions
      /\ outbox' \in Seq(1 .. Len(requests'))
      /\ inbox' \in Seq(1 .. Len(requests'))
  BY <1>1, <1>2, NumbersAssumption
<1>6. /\ requests' \in Seq(Packets) /\ sequence' \in 1 .. SeqLimit
      /\ faults' \in 0 .. MaxFaults /\ quiet' \in Nat
  BY <1>1
<1> QED  BY <1>3, <1>4, <1>5, <1>6, Zenon DEF TypeOK, Packets

LEMMA TypeStep ==
  ASSUME TypeOK, [Next]_vars
  PROVE  TypeOK'
<1>0. /\ Len(requests) \in Nat
      /\ outbox \in Seq(1 .. Len(requests))
      /\ inbox \in Seq(1 .. Len(requests))
  <2>1. Len(requests) \in Nat
    BY PacketTypes
  <2> QED  BY <2>1, Zenon DEF TypeOK
<1>1. ASSUME NEW c \in Callers, Lock(c)  PROVE TypeOK'
  BY <1>1 DEF Lock, TypeOK, deviceVars, faultVars
<1>2. ASSUME NEW c \in Callers, NEW opcode \in Opcodes,
             Send(c, opcode) \/ SendFails(c, opcode) \/ SendOneWay(c, opcode)
      PROVE  TypeOK'
  <2>1. PICK answered \in BOOLEAN, sent \in BOOLEAN :
          Transfer(c, opcode, answered, sent)
    BY <1>2 DEF Send, SendFails, SendOneWay
  <2>2. Len(requests') = Len(requests) + 1
    BY <2>1, TransferSteps
  <2>3. CASE Send(c, opcode)
    <3>1. /\ holder' \in Callers \cup {NoCaller}
          /\ pc' \in [Callers -> {"idle", "send", "receive"}]
      BY <2>3 DEF Send, TypeOK
    <3>2. call' \in [Callers -> 0 .. Len(requests')]
      <4>1. /\ call \in [Callers -> 0 .. Len(requests)]
            /\ call' = [call EXCEPT ![c] = Len(requests) + 1]
        BY <2>3 DEF Send, TypeOK
      <4> QED  BY <1>0, <2>2, <4>1
    <3> QED  BY <2>1, <3>1, <3>2, TransferTypes
  <2>4. CASE SendFails(c, opcode) \/ SendOneWay(c, opcode)
    <3>1. Unlock(c)
      BY <2>4 DEF SendFails, SendOneWay
    <3> QED  BY <1>0, <2>1, <2>2, <3>1, UnlockTypes, TransferTypes, SMTT(20)
  <2> QED  BY <1>2, <2>3, <2>4
<1>3. ASSUME NEW c \in Callers,
             Receive(c) \/ ReceiveTimeout(c) \/ ReceiveFails(c)
      PROVE  TypeOK'
  <2>1. /\ holder' \in Callers \cup {NoCaller}
        /\ pc' \in [Callers -> {"idle", "send", "receive"}]
        /\ call' \in [Callers -> 0 .. Len(requests')]
    <3>1. Unlock(c) /\ requests' = requests
      BY <1>3 DEF Receive, ReceiveTimeout, ReceiveFails
    <3> QED  BY <1>0, <3>1, UnlockTypes
  <2>2. /\ UNCHANGED <<sequence, session, requests, unsent, outbox>>
        /\ inbox' \in Seq(1 .. Len(requests))
    BY <1>0, <1>3, EndpointTake
       DEF Receive, ReceiveTimeout, ReceiveFails, deviceVars
  <2>3. accepted' \in [Numbers -> 0 .. Len(requests)]
    <3>1. accepted \in [Numbers -> 0 .. Len(requests)]
      BY DEF TypeOK
    <3>2. \/ accepted' = accepted
          \/ /\ inbox # <<>>
             /\ accepted' = [accepted EXCEPT ![call[c]] = Head(inbox)]
      BY <1>3 DEF Receive, ReceiveTimeout, ReceiveFails
    <3>3. inbox # <<>> => Head(inbox) \in 0 .. Len(requests)
      BY <1>0
    <3> QED  BY <3>1, <3>2, <3>3
  <2>4. faults' \in 0 .. MaxFaults /\ quiet' \in Nat
    <3>1. faults \in 0 .. MaxFaults /\ quiet \in Nat
      BY DEF TypeOK
    <3> QED  BY <1>3, <3>1, NumbersAssumption
             DEF Receive, ReceiveTimeout, ReceiveFails, Fault, faultVars
  <2> QED  BY <2>1, <2>2, <2>3, <2>4 DEF TypeOK
<1>4. CASE Reopen
  <2>1. /\ inbox' \in Seq(1 .. Len(requests))
        /\ outbox' \in Seq(1 .. Len(requests))
    <3>1. <<>> \in Seq(1 .. Len(requests))
      OBVIOUS
    <3> QED  BY <1>0, <1>4, <3>1, Zenon DEF Reopen, deviceVars
  <2>2. /\ sequence' \in 1 .. SeqLimit /\ holder' = NoCaller
        /\ session' \in 1 .. MaxSessions
    BY <1>4, NumbersAssumption DEF Reopen, TypeOK
  <2>3. /\ pc' \in [Callers -> {"idle", "send", "receive"}]
        /\ call' \in [Callers -> 0 .. Len(requests)]
    BY <1>0, <1>4 DEF Reopen
  <2> QED  BY <1>4, <2>1, <2>2, <2>3 DEF Reopen, TypeOK, faultVars
<1>5. CASE Execute
  <2>1. /\ outbox # <<>> /\ outbox' = Tail(outbox)
        /\ inbox' = inbox \/ inbox' = Append(inbox, Head(outbox))
    BY <1>5 DEF Execute
  <2>2. Head(outbox) \in 1 .. Len(requests)
    BY <1>0, <2>1
  <2>3. /\ Tail(outbox) \in Seq(1 .. Len(requests))
        /\ Append(inbox, Head(outbox)) \in Seq(1 .. Len(requests))
    BY <1>0, <2>1, <2>2, EndpointTake, EndpointPut
  <2>4. /\ inbox' \in Seq(1 .. Len(requests))
        /\ outbox' \in Seq(1 .. Len(requests))
    BY <1>0, <2>1, <2>3, Zenon
  <2> QED  BY <1>5, <2>4 DEF Execute, TypeOK, hostVars, faultVars
<1>6. CASE UNCHANGED vars
  BY <1>6 DEF vars, hostVars, deviceVars, faultVars, TypeOK
<1> QED  BY <1>1, <1>2, <1>3, <1>4, <1>5, <1>6 DEF Next, Step

------------------------------------------------------------------------------
(* A packet is numbered                                                    *)

\* What is on its way stays as old as the numbers say, the new packet too.
LEMMA TransferDistance ==
  ASSUME TypeOK, Distance, RoundApart,
         NEW c \in Callers, NEW opcode \in Opcodes,
         NEW answered \in BOOLEAN, NEW sent \in BOOLEAN,
         Transfer(c, opcode, answered, sent)
  PROVE  Distance' /\ RoundApart'
<1> DEFINE new == Len(requests) + 1
<1>1. /\ Len(requests') = new /\ DOMAIN requests' = 1 .. new
      /\ \A n \in 1 .. Len(requests) : requests'[n] = requests[n]
      /\ requests'[new].sequence = sequence /\ requests'[new].session = session
      /\ Queued' \subseteq Queued \cup {new} /\ unsent \subseteq unsent'
      /\ IF sent THEN Advance
         ELSE sequence' = sequence /\ (new \in Queued' => new \in unsent')
      /\ session' = session
  BY TransferSteps
<1>2. /\ Len(requests) \in Nat /\ DOMAIN requests = 1 .. Len(requests)
      /\ \A n \in 1 .. Len(requests) : requests[n].sequence \in 1 .. SeqLimit
      /\ Counted \subseteq 1 .. Len(requests)
  BY PacketTypes DEF Packets, Counted
<1>3. sequence \in 1 .. SeqLimit /\ SeqLimit \in Nat \ {0}
  BY NumbersAssumption DEF TypeOK
<1>4. Counted' \subseteq Counted \cup {new} /\ (new \in Counted' => sent)
  BY <1>1 DEF Counted
<1>5. ASSUME NEW a \in Counted', requests'[a].session = session'
      PROVE  Len(requests') + 1 - a >= Moved(a)'
  <2>1. CASE a \in Counted
    <3>1. /\ a \in 1 .. Len(requests) /\ requests'[a] = requests[a]
          /\ requests[a].sequence \in 1 .. SeqLimit
      BY <1>1, <1>2, <2>1
    <3>2. Len(requests) + 1 - a >= Moved(a)
      BY <1>1, <1>5, <2>1, <3>1 DEF Distance
    <3>3. sequence' = sequence \/ Advance
      BY <1>1
    <3>4. Moved(a)' <= Moved(a) + 1
      BY <1>3, <3>1, <3>3 DEF Moved, Advance
    <3>5. Moved(a) \in Int /\ Moved(a)' \in Int
      BY <1>3, <3>1, <3>3 DEF Moved, Advance
    <3> QED  BY <1>1, <1>2, <3>1, <3>2, <3>4, <3>5
  <2>2. CASE a = new
    <3>1. Advance /\ requests'[a].sequence = sequence
      BY <1>1, <1>4, <1>5, <2>2
    <3>2. Moved(a)' = 1
      BY <1>3, <3>1 DEF Moved, Advance
    <3> QED  BY <1>1, <1>2, <2>2, <3>2
  <2> QED  BY <1>4, <1>5, <2>1, <2>2
<1>6. ASSUME NEW a \in Counted', NEW n \in DOMAIN requests',
             a < n, requests'[a].session = requests'[n].session,
             requests'[a].sequence = requests'[n].sequence
      PROVE  n - a >= SeqLimit
  <2>1. n \in 1 .. new /\ a \in 1 .. Len(requests) /\ a \in Counted
    BY <1>1, <1>2, <1>4, <1>6
  <2>2. requests'[a] = requests[a] /\ requests[a].sequence \in 1 .. SeqLimit
    BY <1>1, <1>2, <2>1
  <2>3. CASE n \in 1 .. Len(requests)
    <3>1. requests'[n] = requests[n]
      BY <1>1, <2>3
    <3> QED  BY <1>2, <1>6, <2>1, <2>2, <2>3, <3>1 DEF RoundApart
  <2>4. CASE n = new
    <3>1. requests[a].session = session /\ requests[a].sequence = sequence
      BY <1>1, <1>6, <2>2, <2>4
    <3>2. Moved(a) = SeqLimit
      BY <1>3, <3>1 DEF Moved
    <3>3. Len(requests) + 1 - a >= Moved(a)
      BY <2>1, <3>1 DEF Distance
    <3> QED  BY <1>2, <1>3, <2>1, <2>4, <3>2, <3>3
  <2> QED  BY <1>2, <2>1, <2>3, <2>4
<1>7. Distance'
  BY <1>5 DEF Distance
<1>8. RoundApart'
  BY <1>6 DEF RoundApart
<1> QED  BY <1>7, <1>8

\* The submit ids of a session grow.
LEMMA TransferEchoes ==
  ASSUME TypeOK, Sessions, EchoesGrow,
         NEW c \in Callers, NEW opcode \in Opcodes,
         NEW answered \in BOOLEAN, NEW sent \in BOOLEAN,
         Transfer(c, opcode, answered, sent)
  PROVE  Sessions' /\ EchoesGrow'
<1> DEFINE new == Len(requests) + 1
<1>1. /\ DOMAIN requests' = 1 .. new
      /\ \A n \in 1 .. Len(requests) : requests'[n] = requests[n]
      /\ requests'[new].opcode = opcode
      /\ requests'[new].echo = Echo(opcode)
      /\ requests'[new].session = session
      /\ session' = session
  BY TransferSteps
<1>2. /\ Len(requests) \in Nat /\ DOMAIN requests = 1 .. Len(requests)
      /\ \A n \in 1 .. Len(requests) : requests[n].echo \in Nat
      /\ session \in Nat
  <2>1. \A n \in 1 .. Len(requests) : requests[n].echo \in 0 .. MaxRequests
    BY PacketTypes DEF Packets
  <2>2. session \in 1 .. MaxSessions
    BY DEF TypeOK
  <2> QED  BY PacketTypes, <2>1, <2>2, NumbersAssumption
<1>3. IsFiniteSet(Submitted) /\ Cardinality(Submitted) \in Nat
  <2>1. Cardinality(Submitted) \in 0 .. Len(requests)
    BY EchoCounts
  <2> QED  BY EchoCounts, <1>2, <2>1
<1>4. Submitted' = IF opcode \in EchoOpcodes THEN Submitted \cup {new}
                   ELSE Submitted
  BY <1>1, <1>2 DEF Submitted
<1>5. new \notin Submitted
  BY <1>2 DEF Submitted
<1>6. Cardinality(Submitted') = IF opcode \in EchoOpcodes
                                THEN Cardinality(Submitted) + 1
                                ELSE Cardinality(Submitted)
  <2>1. Cardinality(Submitted \cup {new}) = Cardinality(Submitted) + 1
    BY <1>3, <1>5, FS_AddElement
  <2> QED  BY <1>4, <2>1
<1>7. opcode \in EchoOpcodes =>
        requests'[new].echo = Cardinality(Submitted) + 1
  <2>1. Echo(opcode) = IF opcode \notin EchoOpcodes THEN 0
                       ELSE 1 + Cardinality(Submitted)
    BY EchoCounts, Zenon
  <2> QED  BY <1>1, <1>3, <2>1
<1>8. Sessions'
  BY <1>1, <1>2 DEF Sessions
<1>9. ASSUME NEW n \in Submitted'
      PROVE  requests'[n].echo <= Cardinality(Submitted')
  <2>1. CASE n \in Submitted
    <3>1. n \in 1 .. Len(requests) /\ requests[n].echo <= Cardinality(Submitted)
      BY <1>2, <2>1 DEF EchoesGrow, Submitted
    <3> QED  BY <1>1, <1>2, <1>3, <1>6, <3>1
  <2>2. CASE n = new /\ opcode \in EchoOpcodes
    BY <1>3, <1>6, <1>7, <2>2
  <2> QED  BY <1>4, <2>1, <2>2
<1>10. ASSUME NEW m \in DOMAIN requests', NEW n \in DOMAIN requests', m < n,
              requests'[m].session = requests'[n].session,
              requests'[m].opcode \in EchoOpcodes,
              requests'[n].opcode \in EchoOpcodes
       PROVE  requests'[m].echo < requests'[n].echo
  <2>1. m \in 1 .. Len(requests) /\ requests'[m] = requests[m]
    BY <1>1, <1>2, <1>10
  <2>2. CASE n \in 1 .. Len(requests)
    BY <1>1, <1>2, <1>10, <2>1, <2>2 DEF EchoesGrow
  <2>3. CASE n = new
    <3>1. m \in Submitted
      BY <1>1, <1>2, <1>10, <2>1, <2>3 DEF Submitted
    <3>2. requests[m].echo <= Cardinality(Submitted)
      BY <3>1 DEF EchoesGrow
    <3> QED  BY <1>1, <1>2, <1>3, <1>7, <1>10, <2>1, <2>3, <3>2
  <2> QED  BY <1>1, <1>2, <2>2, <2>3
<1>11. EchoesGrow'
  BY <1>9, <1>10 DEF EchoesGrow
<1> QED  BY <1>8, <1>11

\* What was answered before stays whose it was.
LEMMA TransferAnswers ==
  ASSUME TypeOK, Answered, AnswerIsOwn, SubmitAnswerIsOwn,
         NEW c \in Callers, NEW opcode \in Opcodes,
         NEW answered \in BOOLEAN, NEW sent \in BOOLEAN,
         Transfer(c, opcode, answered, sent)
  PROVE  Answered' /\ AnswerIsOwn' /\ SubmitAnswerIsOwn'
<1>1. /\ DOMAIN requests' = 1 .. Len(requests) + 1
      /\ \A n \in 1 .. Len(requests) : requests'[n] = requests[n]
      /\ unsent \subseteq unsent' /\ accepted' = accepted
  BY TransferSteps
<1>2. /\ Len(requests) \in Nat /\ DOMAIN requests = 1 .. Len(requests)
      /\ accepted \in [Numbers -> 0 .. Len(requests)]
  BY PacketTypes DEF TypeOK
<1>3. \A n \in Numbers : accepted[n] # 0 =>
        /\ n \in DOMAIN requests' /\ requests'[n] = requests[n]
        /\ requests'[accepted[n]] = requests[accepted[n]]
  BY <1>1, <1>2 DEF Answered
<1> QED  BY <1>1, <1>3 DEF Answered, AnswerIsOwn, SubmitAnswerIsOwn

------------------------------------------------------------------------------
(* The other steps                                                         *)

\* Nothing new on its way, in the same session.
LEMMA NothingNew ==
  ASSUME Sessions, Distance, RoundApart, EchoesGrow,
         UNCHANGED <<sequence, session, requests, unsent>>,
         Queued' \subseteq Queued
  PROVE  Sessions' /\ Distance' /\ RoundApart' /\ EchoesGrow'
<1>1. Counted' \subseteq Counted
  BY DEF Counted
<1>2. Submitted' = Submitted
  BY DEF Submitted
<1>3. Sessions' /\ EchoesGrow'
  BY <1>2 DEF Sessions, EchoesGrow
<1>4. RoundApart'
  BY <1>1 DEF RoundApart
<1>5. Distance'
  BY <1>1 DEF Distance, Moved
<1> QED  BY <1>3, <1>4, <1>5

\* An answer is taken by the request that was sent last.
LEMMA ReceiveAnswers ==
  ASSUME Inductive, NEW c \in Callers, Receive(c)
  PROVE  Answered' /\ AnswerIsOwn' /\ SubmitAnswerIsOwn'
<1> DEFINE n == call[c]
           answer == Head(inbox)
<1>0. /\ TypeOK /\ Locking /\ Sessions /\ RoundApart /\ EchoesGrow
      /\ Answered /\ AnswerIsOwn /\ SubmitAnswerIsOwn
  BY DEF Inductive
<1>1. /\ n = Len(requests) /\ n \in DOMAIN requests
      /\ requests[n].session = session
      /\ inbox # <<>> /\ UNCHANGED <<requests, unsent>>
  BY <1>0, PacketTypes DEF Receive, Locking
<1>2. answer \in Queued /\ answer \in 1 .. Len(requests)
  <2>1. inbox \in Seq(1 .. Len(requests))
    BY <1>0, Zenon DEF TypeOK
  <2> QED  BY <1>1, <2>1, EndpointTake DEF Queued
<1>3. /\ accepted \in [Numbers -> 0 .. Len(requests)] /\ Len(requests) \in Nat
      /\ n \in Numbers
      /\ requests[answer] \in Packets /\ requests[n] \in Packets
      /\ requests[answer].session <= session
  <2>1. accepted \in [Numbers -> 0 .. Len(requests)]
    BY <1>0, Zenon DEF TypeOK
  <2>2. /\ Len(requests) \in 0 .. MaxRequests
        /\ DOMAIN requests = 1 .. Len(requests)
        /\ \A m \in DOMAIN requests : requests[m] \in Packets
    BY <1>0, PacketTypes
  <2> QED  BY <1>0, <1>1, <1>2, <2>1, <2>2, NumbersAssumption
           DEF Numbers, Sessions
<1>4. CASE UNCHANGED accepted
  BY <1>0, <1>1, <1>4 DEF Answered, AnswerIsOwn, SubmitAnswerIsOwn
<1>5. CASE Matches(n, answer) /\ accepted' = [accepted EXCEPT ![n] = answer]
  <2>1. ASSUME answer # n, answer \notin unsent,
               ~(requests[answer].session < requests[n].session)
        PROVE  n - answer >= SeqLimit
    <3>1. answer < n /\ answer \in Counted
      BY <1>1, <1>2, <1>3, <2>1 DEF Counted
    <3>2. requests[answer].session = requests[n].session
      BY <1>1, <1>3, <2>1 DEF Packets
    <3> QED  BY <1>0, <1>1, <1>5, <3>1, <3>2 DEF RoundApart, Matches
  <2>2. ASSUME answer # n, requests[n].opcode \in EchoOpcodes
        PROVE  requests[answer].session < requests[n].session
    <3>1. answer < n /\ answer \in DOMAIN requests
      BY <1>1, <1>2, <1>3, <2>2
    <3>2. /\ requests[answer].echo = requests[n].echo
          /\ requests[answer].opcode = requests[n].opcode
      BY <1>5 DEF Matches
    <3>3. requests[answer].session # requests[n].session
      <4>1. requests[n].echo \in Int
        BY <1>3, NumbersAssumption DEF Packets
      <4>2. ~(requests[answer].echo < requests[n].echo)
        BY <3>2, <4>1
      <4> QED  BY <1>0, <1>1, <2>2, <3>1, <3>2, <4>2 DEF EchoesGrow
    <3> QED  BY <1>1, <1>3, <3>3 DEF Packets
  <2>3. \A m \in Numbers : accepted'[m] = IF m = n THEN answer ELSE accepted[m]
    BY <1>3, <1>5
  <2>4. Answered'
    BY <1>0, <1>1, <2>3 DEF Answered
  <2>5. AnswerIsOwn'
    BY <1>0, <1>1, <2>1, <2>3 DEF AnswerIsOwn
  <2>6. SubmitAnswerIsOwn'
    BY <1>0, <1>1, <2>2, <2>3 DEF SubmitAnswerIsOwn
  <2> QED  BY <2>4, <2>5, <2>6
<1> QED  BY <1>4, <1>5 DEF Receive

LEMMA LockingStep ==
  ASSUME TypeOK, Locking, [Next]_vars
  PROVE  Locking'
<1>0. pc \in [Callers -> {"idle", "send", "receive"}]
      /\ call \in [Callers -> 0 .. Len(requests)]
  BY DEF TypeOK
<1>1. ASSUME NEW c \in Callers, Lock(c)  PROVE Locking'
  <2>1. \A d \in Callers : pc[d] = "idle"
    BY <1>1, CallersAssumption DEF Locking, Lock
  <2> QED  BY <1>0, <1>1, <2>1 DEF Locking, Lock
<1>2. ASSUME NEW c \in Callers, Unlock(c), pc[c] # "idle"  PROVE Locking'
  <2>1. \A d \in Callers : pc'[d] = "idle"
    BY <1>0, <1>2 DEF Locking, Unlock
  <2> QED  BY <2>1 DEF Locking
<1>3. ASSUME NEW c \in Callers, NEW opcode \in Opcodes, Send(c, opcode)
      PROVE  Locking'
  <2>1. /\ Len(requests') = Len(requests) + 1 /\ Len(requests) \in Nat
        /\ requests'[Len(requests) + 1].session = session
        /\ session' = session
    <3>1. Transfer(c, opcode, TRUE, TRUE)
      BY <1>3 DEF Send
    <3>2. Len(requests) \in Nat
      BY PacketTypes
    <3> QED  BY <3>1, <3>2, TransferSteps
  <2>2. pc[c] = "send" /\ holder = c /\ holder' = c
    BY <1>3 DEF Send, Transfer, Locking
  <2>3. \A d \in Callers \ {c} : pc[d] = "idle" /\ pc'[d] = "idle"
    BY <1>0, <1>3, <2>2 DEF Send, Locking
  <2>4. call'[c] = Len(requests) + 1
    BY <1>0, <1>3 DEF Send
  <2> QED  BY <2>1, <2>2, <2>3, <2>4 DEF Locking
<1>4. ASSUME NEW c \in Callers, Step(c)  PROVE Locking'
  <2>1. CASE \E opcode \in Opcodes : Send(c, opcode)
    BY <1>3, <2>1
  <2>2. CASE \E opcode \in Opcodes :
               SendFails(c, opcode) \/ SendOneWay(c, opcode)
    <3>1. Unlock(c) /\ pc[c] = "send"
      BY <2>2 DEF SendFails, SendOneWay, Transfer
    <3> QED  BY <1>2, <3>1
  <2>3. CASE Receive(c) \/ ReceiveTimeout(c) \/ ReceiveFails(c)
    <3>1. Unlock(c) /\ pc[c] = "receive"
      BY <2>3 DEF Receive, ReceiveTimeout, ReceiveFails
    <3> QED  BY <1>2, <3>1
  <2> QED  BY <1>4, <2>1, <2>2, <2>3 DEF Step
<1>5. CASE Reopen
  BY <1>5 DEF Reopen, Locking
<1>6. CASE Execute \/ UNCHANGED vars
  BY <1>6 DEF Execute, vars, hostVars, deviceVars, faultVars, Locking
<1> QED  BY <1>1, <1>4, <1>5, <1>6 DEF Next

LEMMA InductiveStep ==
  ASSUME Inductive, [Next]_vars
  PROVE  Inductive'
<1>0. /\ TypeOK /\ Locking /\ Sessions /\ Distance /\ RoundApart /\ EchoesGrow
      /\ Answered /\ AnswerIsOwn /\ SubmitAnswerIsOwn
  BY DEF Inductive
<1> DEFINE Numbering == /\ Sessions /\ Distance /\ RoundApart /\ EchoesGrow
           Answering == Answered /\ AnswerIsOwn /\ SubmitAnswerIsOwn
<1>1. TypeOK' /\ Locking'
  BY <1>0, TypeStep, LockingStep
<1>2. ASSUME UNCHANGED <<requests, unsent, accepted>>
      PROVE  Answering'
  BY <1>0, <1>2 DEF Answered, AnswerIsOwn, SubmitAnswerIsOwn
<1>3. ASSUME NEW c \in Callers, NEW opcode \in Opcodes,
             Send(c, opcode) \/ SendFails(c, opcode) \/ SendOneWay(c, opcode)
      PROVE  Numbering' /\ Answering'
  <2>1. PICK answered \in BOOLEAN, sent \in BOOLEAN :
          Transfer(c, opcode, answered, sent)
    BY <1>3 DEF Send, SendFails, SendOneWay
  <2> QED  BY <1>0, <2>1, TransferDistance, TransferEchoes, TransferAnswers
<1>4. ASSUME NEW c \in Callers,
             Receive(c) \/ ReceiveTimeout(c) \/ ReceiveFails(c)
      PROVE  Numbering' /\ Answering'
  <2>1. /\ UNCHANGED <<sequence, session, requests, unsent, outbox>>
        /\ Range(inbox') \subseteq Range(inbox)
    <3>1. inbox \in Seq(1 .. Len(requests))
      BY <1>0, Zenon DEF TypeOK
    <3>2. inbox # <<>> => Range(Tail(inbox)) \subseteq Range(inbox)
      BY <3>1, EndpointTake
    <3> QED  BY <1>4, <3>2
             DEF Receive, ReceiveTimeout, ReceiveFails, deviceVars
  <2>2. Queued' \subseteq Queued
    BY <2>1 DEF Queued
  <2>3. Numbering'
    BY <1>0, <2>1, <2>2, NothingNew
  <2>4. CASE Receive(c)
    BY <2>3, <2>4, ReceiveAnswers
  <2>5. CASE ReceiveTimeout(c) \/ ReceiveFails(c)
    BY <1>2, <2>3, <2>5 DEF ReceiveTimeout, ReceiveFails
  <2> QED  BY <1>4, <2>4, <2>5
<1>5. ASSUME Reopen  PROVE Numbering' /\ Answering'
  <2>1. Queued' \subseteq Queued
    BY <1>5 DEF Reopen, Queued, Range, deviceVars
  <2>2. /\ UNCHANGED <<requests, unsent, accepted>> /\ session' = session + 1
    BY <1>5 DEF Reopen
  <2>3. /\ \A n \in DOMAIN requests : /\ requests[n].session \in Int
                                      /\ requests[n].session < session'
        /\ Queued \subseteq DOMAIN requests
    <3>1. \A n \in DOMAIN requests : requests[n].session \in 1 .. MaxSessions
      BY <1>0, PacketTypes DEF Packets
    <3>2. session \in 1 .. MaxSessions
      BY <1>0 DEF TypeOK
    <3> QED  BY <1>0, <2>2, <3>1, <3>2, NumbersAssumption, PacketTypes
             DEF Sessions
  <2>4. Sessions' /\ Distance'
    BY <2>1, <2>2, <2>3 DEF Sessions, Distance, Counted
  <2>5. RoundApart'
    BY <1>0, <2>1, <2>2 DEF RoundApart, Counted
  <2>6. EchoesGrow'
    BY <1>0, <2>2, <2>3 DEF EchoesGrow, Submitted
  <2>7. Answering'
    BY <1>2, <2>2
  <2> QED  BY <2>4, <2>5, <2>6, <2>7
<1>6. ASSUME Execute  PROVE Numbering' /\ Answering'
  <2>1. Queued' \subseteq Queued
    <3>1. /\ outbox \in Seq(1 .. Len(requests))
          /\ inbox \in Seq(1 .. Len(requests))
      BY <1>0, Zenon DEF TypeOK
    <3>2. /\ outbox # <<>> /\ outbox' = Tail(outbox)
          /\ inbox' = inbox \/ inbox' = Append(inbox, Head(outbox))
      BY <1>6 DEF Execute
    <3>3. /\ Head(outbox) \in Range(outbox)
          /\ Head(outbox) \in 1 .. Len(requests)
          /\ Range(outbox') \subseteq Range(outbox)
      BY <3>1, <3>2, EndpointTake
    <3>4. Range(inbox') \subseteq Range(inbox) \cup {Head(outbox)}
      <4>1. Range(Append(inbox, Head(outbox)))
              \subseteq Range(inbox) \cup {Head(outbox)}
        BY <3>1, <3>3, EndpointPut
      <4> QED  BY <3>2, <4>1
    <3> QED  BY <3>3, <3>4 DEF Queued
  <2>2. UNCHANGED <<sequence, session, requests, unsent, accepted>>
    BY <1>6 DEF Execute, hostVars
  <2>3. Numbering'
    BY <1>0, <2>1, <2>2, NothingNew
  <2>4. Answering'
    BY <1>2, <2>2
  <2> QED  BY <2>3, <2>4
<1>7. ASSUME (\E c \in Callers : Lock(c)) \/ UNCHANGED vars
      PROVE  Numbering' /\ Answering'
  <2>1. UNCHANGED <<sequence, outbox, inbox, session, requests, unsent,
                    accepted>>
    BY <1>7 DEF Lock, vars, hostVars, deviceVars
  <2>2. Queued' \subseteq Queued
    BY <2>1 DEF Queued
  <2>3. Numbering'
    BY <1>0, <2>1, <2>2, NothingNew
  <2>4. Answering'
    BY <1>2, <2>1
  <2> QED  BY <2>3, <2>4
<1>8. Numbering' /\ Answering'
  BY <1>3, <1>4, <1>5, <1>6, <1>7 DEF Next, Step
<1> QED  BY <1>1, <1>8 DEF Inductive

LEMMA InductiveInit == Init => Inductive
<1> SUFFICES ASSUME Init  PROVE Inductive
  OBVIOUS
<1>1. /\ Queued = {} /\ requests = <<>> /\ DOMAIN requests = {}
      /\ Len(requests) = 0 /\ \A n \in Numbers : accepted[n] = 0
  BY DEF Init, Queued, Range
<1>2. TypeOK
  <2>1. /\ 1 \in 1 .. SeqLimit /\ 1 \in 1 .. MaxSessions
        /\ 0 \in 0 .. MaxFaults /\ 0 <= MaxRequests /\ 0 \in Nat
    BY NumbersAssumption
  <2>2. requests \in Seq(Packets)
    BY <1>1
  <2>3. /\ outbox \in Seq(1 .. Len(requests))
        /\ inbox \in Seq(1 .. Len(requests))
        /\ call \in [Callers -> 0 .. Len(requests)]
        /\ accepted \in [Numbers -> 0 .. Len(requests)]
        /\ pc \in [Callers -> {"idle", "send", "receive"}]
    BY <1>1 DEF Init
  <2>4. /\ sequence = 1 /\ session = 1 /\ faults = 0 /\ quiet = 0
        /\ holder = NoCaller /\ unsent = {}
    BY DEF Init
  <2> QED  BY <1>1, <2>1, <2>2, <2>3, <2>4 DEF TypeOK, Packets
<1>3. Locking
  BY DEF Init, Locking
<1>4. Sessions /\ Distance /\ RoundApart /\ EchoesGrow
  BY <1>1 DEF Sessions, Distance, RoundApart, EchoesGrow, Counted, Submitted
<1>5. Answered /\ AnswerIsOwn /\ SubmitAnswerIsOwn
  BY <1>1 DEF Answered, AnswerIsOwn, SubmitAnswerIsOwn
<1> QED  BY <1>2, <1>3, <1>4, <1>5 DEF Inductive

LEMMA InductiveInvariant == Spec => []Inductive
<1>1. Inductive /\ [Next]_vars => Inductive'
  BY InductiveStep
<1> QED  BY InductiveInit, <1>1, PTL DEF Spec

------------------------------------------------------------------------------
(* The theorems                                                            *)

(* Every variable keeps its type; a sequence number is never zero, however *)
(* often it wraps.                                                         *)
THEOREM TypeCorrect == Spec => []TypeOK
<1>1. Inductive => TypeOK
  BY DEF Inductive
<1> QED  BY <1>1, InductiveInvariant, PTL

(* Whatever transfers fail or are lost: a request succeeds with its own    *)
(* answer, with one to a packet its sender was told is not sent, with one  *)
(* of an earlier session, or with one a whole round of numbers old.        *)
THEOREM AnswersAreOwn == Spec => []AnswerIsOwn
<1>1. Inductive => AnswerIsOwn
  BY DEF Inductive
<1> QED  BY <1>1, InductiveInvariant, PTL

(* For GPU submissions, which repeat a submit id, only the answer of an    *)
(* earlier session can be mistaken.                                        *)
THEOREM SubmitAnswersAreOwn == Spec => []SubmitAnswerIsOwn
<1>1. Inductive => SubmitAnswerIsOwn
  BY DEF Inductive
<1> QED  BY <1>1, InductiveInvariant, PTL

==============================================================================
