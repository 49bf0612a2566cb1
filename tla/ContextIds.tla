------------------------------ MODULE ContextIds ------------------------------
(***************************************************************************)
(* How a file of the render node numbers its contexts:                     *)
(* grape_file_store_context of kernel/grape_drm.c, called by CONTEXT_CREATE *)
(* under gfile->lock, and the erasing by CONTEXT_DESTROY.  The counter is  *)
(* an unsigned number of Bits bits, 32 in the code; it wraps, 0 is never   *)
(* an id, and ids still in use are skipped.                                *)
(***************************************************************************)
EXTENDS Integers, FiniteSets

CONSTANTS Threads,   \* threads creating contexts on one file
          NoThread,
          Bits

\* 2^Bits \in Nat \ {0, 1} says of Bits what Bits # 0 does.
ASSUME BitsAssumption   == Bits \in Nat /\ 2^Bits \in Nat \ {0, 1}
ASSUME ThreadAssumption == NoThread \notin Threads

Numbers == 0 .. 2^Bits - 1
Ids     == Numbers \ {0}

VARIABLES
  next,     \* gfile->next_context_id
  used,     \* ids with an entry in gfile->contexts
  lock,     \* holder of gfile->lock
  pc,       \* where each thread is in grape_file_store_context
  start,    \* the counter when the search began
  given,    \* ghost: ids handed out so far
  wrapped   \* ghost: the counter has passed its end

vars == <<next, used, lock, pc, start, given, wrapped>>

Init ==
  /\ next = 0 /\ used = {} /\ lock = NoThread
  /\ pc = [t \in Threads |-> "idle"] /\ start = 0
  /\ given = {} /\ wrapped = FALSE

Candidate == (next + 1) % 2^Bits

Goto(t, place) == pc' = [pc EXCEPT ![t] = place]

\* The counter moves to the candidate.
Advance == next' = Candidate /\ wrapped' = (wrapped \/ Candidate = 0)

------------------------------------------------------------------------------
(* Seeded defects.  None is part of Next: each is a plausible slip in one  *)
(* of the definitions below, and shows that a property would notice it.    *)

\* Zero is an id like the others.
Free_Zero(id) == id \notin used

\* The search ends before the id it started from.
Exhausted_Early == (Candidate + 1) % 2^Bits = start

\* The end of the round is only noticed at zero.
Exhausted_AtZero == Candidate = 0 /\ start = 0

\* A search begins with the lowest id.
Begin_Lowest(t) ==
  /\ pc[t] = "idle" /\ lock = NoThread
  /\ lock' = t /\ start' = 0 /\ next' = 0
  /\ Goto(t, "search")
  /\ UNCHANGED <<used, given, wrapped>>

------------------------------------------------------------------------------
Free(id) == id # 0 /\ id \notin used

\* The counter is back where the search began.
Exhausted == Candidate = start

Begin(t) ==
  /\ pc[t] = "idle" /\ lock = NoThread
  /\ lock' = t /\ start' = next
  /\ Goto(t, "search")
  /\ UNCHANGED <<next, used, given, wrapped>>

\* The candidate is zero or in use.
Skip(t) ==
  /\ pc[t] = "search" /\ ~Free(Candidate)
  /\ Advance
  /\ Goto(t, IF Exhausted THEN "full" ELSE "search")
  /\ UNCHANGED <<used, lock, start, given>>

Store(t) ==
  /\ pc[t] = "search" /\ Free(Candidate)
  /\ Advance
  /\ used' = used \cup {Candidate} /\ given' = given \cup {Candidate}
  /\ Goto(t, "stored")
  /\ UNCHANGED <<lock, start>>

\* xa_store has no memory.
StoreFails(t) ==
  /\ pc[t] = "search" /\ Free(Candidate)
  /\ Advance
  /\ Goto(t, "failed")
  /\ UNCHANGED <<used, lock, start, given>>

Unlock(t) ==
  /\ pc[t] \in {"stored", "failed", "full"}
  /\ lock' = NoThread /\ Goto(t, "idle")
  /\ UNCHANGED <<next, used, start, given, wrapped>>

\* grape_context_destroy_ioctl, by any thread of the file.
Destroy(id) ==
  /\ lock = NoThread /\ id \in used
  /\ used' = used \ {id}
  /\ UNCHANGED <<next, lock, pc, start, given, wrapped>>

Search(t) == Skip(t) \/ Store(t) \/ StoreFails(t) \/ Unlock(t)

Next == \/ \E t \in Threads : Begin(t) \/ Search(t)
        \/ \E id \in used : Destroy(id)

Spec     == Init /\ [][Next]_vars
\* A thread that runs the loop goes on running it.
FairSpec == Spec /\ \A t \in Threads : WF_vars(Search(t))

------------------------------------------------------------------------------
(* Properties                                                              *)

(* Type correctness; zero, which the ioctls refuse, is never an id.        *)
TypeOK ==
  /\ next \in Numbers /\ used \subseteq Ids /\ start \in Numbers
  /\ lock \in Threads \cup {NoThread}
  /\ pc \in [Threads -> {"idle", "search", "stored", "failed", "full"}]
  /\ given \subseteq Ids /\ wrapped \in BOOLEAN

(* A create is refused with -ENOSPC only when every id is in use.          *)
RefusedOnlyWhenFull == \A t \in Threads : pc[t] = "full" => used = Ids

(* An id in use is not given to a second context, which would overwrite    *)
(* the entry of the first; and until the counter wraps no id is handed out *)
(* twice: a client's stale id does not reach a later context.              *)
IdsNotReused ==
  [][\A t \in Threads : pc[t] = "search" /\ pc'[t] = "stored" =>
       next' \notin used /\ (wrapped' \/ next' \notin given)]_vars

(* Every search ends, whichever ids are in use. *)
SearchEnds == \A t \in Threads : pc[t] = "search" ~> pc[t] = "idle"

=============================================================================
