--------------------------- MODULE ResourceUpload ---------------------------
(***************************************************************************)
(* One upload of a resource: grape_resource_upload_ex of src/libgrape.c;   *)
(* grape_resource_upload of kernel/grape_drm.c is the same but for one     *)
(* outcome (CommitCutOff).  The resource is created, its chunks are sent   *)
(* without acknowledgement, and a commit asks the device to check them;    *)
(* what it reports as bad is sent again, up to MaxAttempts commits.  Every *)
(* failure destroys the resource.  Module GrapeClient makes the uploads.   *)
(*                                                                         *)
(* On the device a chunk is "missing", "corrupt" (its own CRC fails),      *)
(* "wrong" (its CRC fits, the CRC of the whole does not) or "good".        *)
(***************************************************************************)
EXTENDS Integers, FiniteSets, FiniteSetsExt

CONSTANTS ChunkCount, MaxAttempts,
          MaxDamage,  \* bound on the chunks damaged on their way
          MaxFaults   \* bound on the requests that go wrong

ASSUME CountsAssumption ==
  /\ ChunkCount \in Nat \ {0} /\ MaxAttempts \in Nat \ {0}
  /\ MaxDamage \in Nat /\ MaxFaults \in Nat

Chunks == 1 .. ChunkCount

VARIABLES
  pc,        \* the request the upload makes next, "idle" outside of one
  left,      \* chunks of the current round still to be sent
  attempt,   \* commits made so far
  result,    \* what the upload returns
  resource,  \* the resource on the device
  chunk,     \* the chunks on the device
  damage, faults,
  unknown    \* a create or a destroy whose effect the host never learned

counters == <<damage, faults>>
call == <<left, attempt, result, resource, chunk, unknown>>
vars == <<pc, call, counters>>

Init ==
  /\ pc = "idle" /\ left = Chunks /\ attempt = 0 /\ result = "none"
  /\ resource = "none" /\ chunk = [c \in Chunks |-> "missing"]
  /\ damage = 0 /\ faults = 0 /\ unknown = FALSE

Fault == faults < MaxFaults /\ faults' = faults + 1 /\ UNCHANGED damage

\* The upload gives up with an error and destroys what it created.
GiveUp(error) == pc' = "destroy" /\ result' = error

\* The chunks a commit reports: those missing and those with a bad CRC.
Reported == {c \in Chunks : chunk[c] \in {"missing", "corrupt"}}

\* What the device says to a commit.
CommitStatus ==
  IF Reported # {} THEN "incomplete"
  ELSE IF \E c \in Chunks : chunk[c] = "wrong" THEN "mismatch" ELSE "ok"

\* Another round follows whatever the number of the attempt; a round after
\* the last attempt is sent for nothing.
NextRound(resend) == left' = resend /\ pc' = "send" /\ UNCHANGED result

------------------------------------------------------------------------------
(* Seeded defects.  None is part of Next: each is a plausible slip in one  *)
(* of the actions below, and shows that a property would notice it.        *)

\* A chunk that could not be sent leaves without destroying the resource.
SendFails_NoDestroy ==
  /\ pc = "send" /\ left # {}
  /\ Fault
  /\ pc' = "done" /\ result' = "usb"
  /\ UNCHANGED <<left, attempt, resource, chunk, unknown>>

\* Only the missing chunks are sent again, not the corrupt ones.
CommitIncomplete_MissingOnly ==
  /\ pc = "commit" /\ attempt < MaxAttempts
  /\ CommitStatus = "incomplete"
  /\ attempt' = attempt + 1
  /\ NextRound({c \in Chunks : chunk[c] = "missing"})
  /\ UNCHANGED <<resource, chunk, counters, unknown>>

\* A mismatch of the whole is taken for a success.
CommitMismatch_Accepted ==
  /\ pc = "commit" /\ attempt < MaxAttempts
  /\ CommitStatus = "mismatch"
  /\ attempt' = attempt + 1
  /\ pc' = "done" /\ result' = "ok"
  /\ UNCHANGED <<left, resource, chunk, counters, unknown>>

\* The resource is given up but the error is dropped on the way.
SendFails_NoResult ==
  /\ pc = "send" /\ left # {}
  /\ Fault
  /\ pc' = "destroy"
  /\ UNCHANGED <<left, attempt, result, resource, chunk, unknown>>

------------------------------------------------------------------------------
\* grape_resource_create: the device may also answer with a chunk size or a
\* handle the host refuses, or with a count that does not fit the size.
Create ==
  /\ pc = "create" /\ UNCHANGED counters
  /\ resource' = "open"
  /\ pc' = "send"
  /\ UNCHANGED <<left, attempt, result, chunk, unknown>>

CreateFails ==
  /\ pc = "create" /\ Fault
  /\ pc' = "done" /\ result' \in {"usb", "remote"}
  /\ \/ UNCHANGED <<resource, unknown>>
     \/ resource' = "open" /\ unknown' = TRUE /\ result' = "usb"
  /\ UNCHANGED <<left, attempt, chunk>>

\* The answer is refused inside grape_resource_create, which returns without
\* destroying the resource the device has just created.
CreateRefused ==
  /\ pc = "create" /\ Fault
  /\ resource' = "open" /\ unknown' = TRUE
  /\ pc' = "done" /\ result' = "protocol"
  /\ UNCHANGED <<left, attempt, chunk>>

CreateWrongCount ==
  /\ pc = "create" /\ Fault
  /\ resource' = "open"
  /\ GiveUp("protocol")
  /\ UNCHANGED <<left, attempt, chunk, unknown>>

\* One chunk in ascending order; nobody is told if it is damaged.
SendChunk ==
  /\ pc = "send" /\ left # {}
  /\ LET c == Min(left) IN
       /\ \/ chunk' = [chunk EXCEPT ![c] = "good"] /\ UNCHANGED damage
          \/ /\ damage < MaxDamage /\ damage' = damage + 1
             /\ \/ UNCHANGED chunk  \* lost: the old state stays
                \/ \E bad \in {"corrupt", "wrong"} :
                     chunk' = [chunk EXCEPT ![c] = bad]
       /\ left' = left \ {c}
  /\ UNCHANGED <<pc, attempt, result, resource, faults, unknown>>

\* The OUT transfer of a chunk fails.
SendFails ==
  /\ pc = "send" /\ left # {}
  /\ Fault
  /\ GiveUp("usb")
  /\ UNCHANGED <<left, attempt, resource, chunk, unknown>>

\* A round is through: another commit, or the attempts are used up.
SendDone ==
  /\ pc = "send" /\ left = {}
  /\ IF attempt < MaxAttempts THEN pc' = "commit" /\ UNCHANGED result
                              ELSE GiveUp("retry_limit")
  /\ UNCHANGED <<left, attempt, resource, chunk, counters, unknown>>

CommitOk ==
  /\ pc = "commit" /\ CommitStatus = "ok"
  /\ attempt' = attempt + 1
  /\ resource' = "committed"
  /\ pc' = "done" /\ result' = "ok"
  /\ UNCHANGED <<left, chunk, counters, unknown>>

\* grape_resource_resend_reported
CommitIncomplete ==
  /\ pc = "commit" /\ CommitStatus = "incomplete"
  /\ attempt' = attempt + 1
  /\ NextRound(Reported)
  /\ UNCHANGED <<resource, chunk, counters, unknown>>

\* grape_resource_resend_all
CommitMismatch ==
  /\ pc = "commit" /\ CommitStatus = "mismatch"
  /\ attempt' = attempt + 1
  /\ NextRound(Chunks)
  /\ UNCHANGED <<resource, chunk, counters, unknown>>

\* The commit gets no answer, executed or not.  The library compares
\* the chunk count of a report it never filled in; the driver returns "usb".
CommitCutOff ==
  /\ pc = "commit" /\ Fault
  /\ attempt' = attempt + 1
  /\ resource' \in {resource, IF CommitStatus = "ok" THEN "committed"
                                                     ELSE resource}
  /\ \/ GiveUp("usb")
     \/ GiveUp("protocol")
  /\ UNCHANGED <<left, chunk, unknown>>

\* The answer has a count, a CRC or a status the host does not expect.
CommitRefused ==
  /\ pc = "commit" /\ Fault
  /\ attempt' = attempt + 1
  /\ resource' \in {resource, IF CommitStatus = "ok" THEN "committed"
                                                     ELSE resource}
  /\ \E error \in {"protocol", "remote"} : GiveUp(error)
  /\ UNCHANGED <<left, chunk, unknown>>

\* The result of the destroy is not looked at.
Destroy ==
  /\ pc = "destroy"
  /\ \/ resource' = "destroyed" /\ UNCHANGED <<counters, unknown>>
     \/ Fault /\ unknown' = TRUE /\ resource' \in {"destroyed", resource}
  /\ pc' = "done"
  /\ UNCHANGED <<left, attempt, result, chunk>>

Step ==
  \/ Create \/ CreateFails \/ CreateRefused \/ CreateWrongCount
  \/ SendChunk \/ SendFails \/ SendDone
  \/ CommitOk \/ CommitIncomplete \/ CommitMismatch \/ CommitCutOff
  \/ CommitRefused
  \/ Destroy

\* The caller enters, and leaves with the result.
Start == pc = "idle" /\ pc' = "create" /\ UNCHANGED <<call, counters>>

Finish ==
  /\ pc = "done" /\ pc' = "idle"
  /\ left' = Chunks /\ attempt' = 0 /\ result' = "none"
  /\ resource' = "none" /\ chunk' = [c \in Chunks |-> "missing"]
  /\ unknown' = FALSE
  /\ UNCHANGED counters

------------------------------------------------------------------------------
(* Properties                                                              *)

Results == {"ok", "usb", "protocol", "remote", "retry_limit"}

(* Type correctness, with the number of commits bounded as the code says.  *)
TypeOK ==
  /\ pc \in {"idle", "create", "send", "commit", "destroy", "done"}
  /\ left \subseteq Chunks /\ attempt \in 0 .. MaxAttempts
  /\ result \in Results \cup {"none"} /\ (pc = "done" => result # "none")
  /\ resource \in {"none", "open", "committed", "destroyed"}
  /\ chunk \in [Chunks -> {"missing", "corrupt", "wrong", "good"}]
  /\ damage \in 0 .. MaxDamage /\ faults \in 0 .. MaxFaults
  /\ unknown \in BOOLEAN

(* An upload that succeeds left the device with every chunk intact.        *)
UploadedIsExact ==
  result = "ok" => resource = "committed" /\ \A c \in Chunks : chunk[c] = "good"

(* The retries go as far as promised: it takes at least one damaged chunk  *)
(* for every commit allowed to use them up.                                *)
RetriesCoverDamage == result = "retry_limit" => damage >= MaxAttempts

=============================================================================
