------------------------------ MODULE GfxLink ------------------------------
(***************************************************************************)
(* The request/response protocol over the two bulk endpoints, as spoken by *)
(* kernel/grape_drm.c (grape_gfxlink_request, grape_gfxlink_send_parts,    *)
(* many callers under io_lock) and by src/libgrape.c (the same protocol,   *)
(* one caller, a new session for every grape_open).                        *)
(*                                                                         *)
(* A packet is the number of the request it belongs to; requests[n] says   *)
(* what its header carries.  The device answers in order.  Neither side    *)
(* empties an endpoint: what a caller did not wait for stays there.        *)
(***************************************************************************)
EXTENDS Integers, Sequences, FiniteSets, Functions

CONSTANTS Callers,      \* threads and workers; the library has one
          Opcodes,
          EchoOpcodes,  \* GPU_SUBMIT: the answer repeats the submit id
          SeqLimit,     \* the largest sequence number before it wraps to 1
          NoCaller,
          MaxRequests,  \* bound on the packets sent
          MaxFaults,    \* bound on the transfers that go wrong
          MaxSessions   \* bound on how often the device is opened

ASSUME CallersAssumption == NoCaller \notin Callers
ASSUME OpcodesAssumption == EchoOpcodes \subseteq Opcodes
ASSUME NumbersAssumption ==
  /\ SeqLimit \in Nat \ {0} /\ MaxRequests \in Nat
  /\ MaxFaults \in Nat /\ MaxSessions \in Nat \ {0}

VARIABLES
  sequence,  \* device->sequence
  holder,    \* the caller inside io_lock
  pc, call,  \* where each caller is, and the number of its request
  outbox,    \* packets in the OUT endpoint the device has not read
  inbox,     \* answers in the IN endpoint the host has not read
  session,   \* how often the device was opened
  requests,  \* what the header of each packet says
  accepted,  \* the answer a request returned success with
  unsent,    \* delivered, but reported to the caller as not sent
  faults, quiet  \* transfers gone wrong; packets sent since the last one

hostVars   == <<sequence, holder, pc, call>>
deviceVars == <<outbox, inbox>>
faultVars  == <<faults, quiet>>
vars == <<hostVars, deviceVars, session, requests, accepted, unsent,
          faultVars>>

Numbers  == 1 .. MaxRequests

Init ==
  /\ sequence = 1 /\ holder = NoCaller
  /\ pc = [c \in Callers |-> "idle"] /\ call = [c \in Callers |-> 0]
  /\ outbox = <<>> /\ inbox = <<>>
  /\ session = 1 /\ requests = <<>>
  /\ accepted = [n \in Numbers |-> 0] /\ unsent = {}
  /\ faults = 0 /\ quiet = 0

\* One more transfer that goes wrong.
Fault == faults < MaxFaults /\ faults' = faults + 1 /\ quiet' = 0

\* The submit id a packet repeats: submissions are counted from 1 in each
\* session; other packets carry none.
Echo(opcode) ==
  IF opcode \notin EchoOpcodes THEN 0
  ELSE 1 + Cardinality({n \in DOMAIN requests :
                          /\ requests[n].session = session
                          /\ requests[n].opcode \in EchoOpcodes})

Unlock(c) ==
  /\ holder' = NoCaller
  /\ pc' = [pc EXCEPT ![c] = "idle"] /\ call' = [call EXCEPT ![c] = 0]

------------------------------------------------------------------------------
(* Seeded defects.  None is part of Next: each is a plausible slip in one  *)
(* of the definitions below, and shows that a property would notice it.    *)

\* The wrap is forgotten.
Advance_NoWrap == sequence' = sequence + 1

\* The sequence number is not looked at.
Matches_OpcodeOnly(n, answer) ==
  /\ requests[answer].opcode = requests[n].opcode
  /\ requests[answer].echo = requests[n].echo

\* The submit id of the answer is not looked at.
Matches_NoEcho(n, answer) ==
  /\ requests[answer].opcode = requests[n].opcode
  /\ requests[answer].sequence = requests[n].sequence

\* The answer is compared with the number of the next packet.
Matches_AfterAdvance(n, answer) ==
  /\ requests[answer].opcode = requests[n].opcode
  /\ requests[answer].sequence = sequence

\* The lock covers each transfer, not the request.
Lock_PerTransfer(c) ==
  /\ pc[c] = "idle"
  /\ holder' = c
  /\ pc' = [pc EXCEPT ![c] = "send"]
  /\ UNCHANGED <<sequence, call, deviceVars, session, requests, accepted,
                 unsent, faultVars>>

------------------------------------------------------------------------------
(* The host                                                                *)

\* advance_sequence: zero is never used.
Advance == sequence' = IF sequence = SeqLimit THEN 1 ELSE sequence + 1

\* What the caller compares of an answer with its own request.
Matches(n, answer) ==
  /\ requests[answer].opcode = requests[n].opcode
  /\ requests[answer].sequence = requests[n].sequence
  /\ requests[answer].echo = requests[n].echo

\* mutex_lock(&io_lock) by a caller on a device that is not disconnected.
Lock(c) ==
  /\ pc[c] = "idle" /\ holder = NoCaller
  /\ holder' = c
  /\ pc' = [pc EXCEPT ![c] = "send"]
  /\ UNCHANGED <<sequence, call, deviceVars, session, requests, accepted,
                 unsent, faultVars>>

\* The OUT transfer of a packet: done, not done, or done and reported as not.
Transfer(c, opcode, answered, sent) ==
  /\ pc[c] = "send" /\ Len(requests) < MaxRequests
  /\ requests' = Append(requests, [opcode |-> opcode, sequence |-> sequence,
                                   echo |-> Echo(opcode), session |-> session,
                                   answered |-> answered])
  /\ LET n == Len(requests) + 1
     IN  \/ /\ sent
            /\ outbox' = Append(outbox, n) /\ Advance
            /\ quiet' = quiet + 1
            /\ UNCHANGED <<unsent, faults>>
         \/ /\ ~sent /\ Fault
            /\ \/ UNCHANGED <<outbox, unsent>>
               \/ outbox' = Append(outbox, n) /\ unsent' = unsent \cup {n}
            /\ UNCHANGED sequence
  /\ UNCHANGED <<inbox, session, accepted>>

\* grape_gfxlink_request: the caller keeps the lock and waits for its answer.
Send(c, opcode) ==
  /\ Transfer(c, opcode, TRUE, TRUE)
  /\ pc' = [pc EXCEPT ![c] = "receive"]
  /\ call' = [call EXCEPT ![c] = Len(requests) + 1]
  /\ UNCHANGED holder

SendFails(c, opcode) ==
  /\ Transfer(c, opcode, TRUE, FALSE)
  /\ Unlock(c)

\* grape_gfxlink_send_parts with GFXLINK_FLAG_NO_RESPONSE.
SendOneWay(c, opcode) ==
  /\ \E sent \in BOOLEAN : Transfer(c, opcode, FALSE, sent)
  /\ Unlock(c)

\* The IN transfer returns the oldest answer, whoever it was meant for.
Receive(c) ==
  /\ pc[c] = "receive" /\ inbox # <<>>
  /\ inbox' = Tail(inbox)
  /\ IF Matches(call[c], Head(inbox))
     THEN accepted' = [accepted EXCEPT ![call[c]] = Head(inbox)]
     ELSE UNCHANGED accepted
  /\ Unlock(c)
  /\ UNCHANGED <<sequence, outbox, session, requests, unsent, faultVars>>

\* The IN transfer times out; the answer may still arrive.
ReceiveTimeout(c) ==
  /\ pc[c] = "receive" /\ inbox = <<>>
  /\ Fault
  /\ Unlock(c)
  /\ UNCHANGED <<sequence, deviceVars, session, requests, accepted, unsent>>

\* The IN transfer fails and the answer is gone.
ReceiveFails(c) ==
  /\ pc[c] = "receive" /\ inbox # <<>>
  /\ inbox' = Tail(inbox)
  /\ Fault
  /\ Unlock(c)
  /\ UNCHANGED <<sequence, outbox, session, requests, accepted, unsent>>

\* A process ends or the driver is unbound, and the interface is claimed again:
\* grape_open and probe start from 1.  The endpoints may keep their packets.
Reopen ==
  /\ session < MaxSessions
  /\ session' = session + 1
  /\ sequence' = 1 /\ holder' = NoCaller
  /\ pc' = [c \in Callers |-> "idle"] /\ call' = [c \in Callers |-> 0]
  /\ \/ UNCHANGED deviceVars
     \/ outbox' = <<>> /\ inbox' = <<>>
  /\ UNCHANGED <<requests, accepted, unsent, faultVars>>

------------------------------------------------------------------------------
(* The device executes a packet and answers it if an answer was asked for  *)

Execute ==
  /\ outbox # <<>>
  /\ outbox' = Tail(outbox)
  /\ inbox' = IF requests[Head(outbox)].answered
              THEN Append(inbox, Head(outbox)) ELSE inbox
  /\ UNCHANGED <<hostVars, session, requests, accepted, unsent, faultVars>>

Step(c) ==
  \/ \E opcode \in Opcodes :
       Send(c, opcode) \/ SendFails(c, opcode) \/ SendOneWay(c, opcode)
  \/ Receive(c) \/ ReceiveTimeout(c) \/ ReceiveFails(c)

Next == Reopen \/ Execute \/ \E c \in Callers : Lock(c) \/ Step(c)

Spec == Init /\ [][Next]_vars

\* The device answers and a caller takes its steps.
FairSpec == Spec /\ WF_vars(Execute) /\ \A c \in Callers : WF_vars(Step(c))

------------------------------------------------------------------------------
(* Properties                                                              *)

(* Type correctness. *)
TypeOK ==
  /\ sequence \in 1 .. SeqLimit /\ holder \in Callers \cup {NoCaller}
  /\ pc \in [Callers -> {"idle", "send", "receive"}]
  /\ call \in [Callers -> 0 .. Len(requests)]
  /\ requests \in Seq([opcode : Opcodes, sequence : 1 .. SeqLimit,
                       echo : 0 .. MaxRequests,
                       answered : BOOLEAN, session : 1 .. MaxSessions])
  /\ Len(requests) <= MaxRequests
  /\ outbox \in Seq(1 .. Len(requests)) /\ inbox \in Seq(1 .. Len(requests))
  /\ session \in 1 .. MaxSessions
  /\ accepted \in [Numbers -> 0 .. Len(requests)]
  /\ unsent \subseteq 1 .. Len(requests)
  /\ faults \in 0 .. MaxFaults /\ quiet \in Nat

(* A request succeeds with its own answer.  The exceptions are the ones    *)
(* the protocol cannot tell apart: an answer to a packet that was reported *)
(* as not sent and whose number was used again, one left in the endpoint   *)
(* by an earlier session, or one that is a whole round of numbers old.     *)
AnswerIsOwn ==
  \A n \in Numbers : LET answer == accepted[n] IN
    answer \notin {0, n} =>
      \/ answer \in unsent
      \/ requests[answer].session < requests[n].session
      \/ n - answer >= SeqLimit

(* Within a session a GPU submission succeeds with its own answer only,    *)
(* even where a number was used again.                                     *)
SubmitAnswerIsOwn ==
  \A n \in Numbers : LET answer == accepted[n] IN
    /\ answer \notin {0, n}
    /\ requests[n].opcode \in EchoOpcodes
    => requests[answer].session < requests[n].session

(* A request that finds nothing of others in the endpoints is answered     *)
(* once transfers stop failing.                                            *)
InStep(n) == \A m \in Range(outbox) \cup Range(inbox) :
               m = n \/ (~requests[m].answered /\ m \notin Range(inbox))
AnsweredWhenInStep ==
  \A n \in Numbers, c \in Callers :
    /\ pc[c] = "receive" /\ call[c] = n /\ InStep(n)
    /\ faults = MaxFaults /\ session = MaxSessions
    ~> accepted[n] = n

(* The transport promised as reliable is usable again after a transfer     *)
(* went wrong: some requests later, requests are answered.                 *)
LinkRecovers ==
  \A n \in Numbers, c \in Callers :
    /\ pc[c] = "receive" /\ call[c] = n /\ quiet >= 3
    /\ faults = MaxFaults /\ session = MaxSessions
    ~> accepted[n] = n

=============================================================================
