--------------------------- MODULE ContextIdsProofs ---------------------------
(***************************************************************************)
(* Theorems about ContextIds, for every number of threads and every width  *)
(* of the counter: when a create is refused, and that an id is not handed  *)
(* out twice.                                                              *)
(*                                                                         *)
(* RefusedOnlyWhenFull says nothing while the search runs, so it is not    *)
(* inductive: what makes the refusal right is that every id the counter    *)
(* has passed since the search began is still in use (Searched), which     *)
(* needs that nobody else is inside gfile->lock (Locking).                 *)
(***************************************************************************)
EXTENDS ContextIds, TLAPS

Locking == \A t \in Threads : pc[t] # "idle" => lock = t

\* The counter has passed n since the search began.
Passed(n) == IF start <= next THEN start < n /\ n <= next
                              ELSE start < n \/ n <= next

Searched == (\E t \in Threads : pc[t] = "search") =>
              \A n \in Ids : Passed(n) => n \in used

\* Until the counter wraps the ids handed out lie behind it.
Behind == ~wrapped => \A id \in given : id <= next

Inductive == /\ TypeOK /\ Locking /\ Searched /\ RefusedOnlyWhenFull
             /\ Behind

------------------------------------------------------------------------------
\* The counter runs through the numbers and wraps to zero.
LEMMA CandidateIs ==
  ASSUME next \in Numbers
  PROVE  /\ Candidate = IF next = 2^Bits - 1 THEN 0 ELSE next + 1
         /\ Candidate \in Numbers
<1> DEFINE M == 2^Bits
<1>1. M \in Nat \ {0, 1} /\ next \in 0 .. M - 1
  BY BitsAssumption DEF Numbers
<1>2. \A m \in Nat \ {0} : \A n \in 0 .. m - 1 :
        (n + 1) % m = IF n = m - 1 THEN 0 ELSE n + 1
  OBVIOUS
<1>3. Candidate = IF next = M - 1 THEN 0 ELSE next + 1
  BY <1>1, <1>2 DEF Candidate
<1> HIDE DEF M
<1>4. Candidate \in 0 .. M - 1
  BY <1>1, <1>3
<1> QED  BY <1>3, <1>4 DEF M, Numbers

LEMMA TypeStep ==
  ASSUME TypeOK, [Next]_vars
  PROVE  TypeOK'
<1>0. Candidate \in Numbers /\ next \in Numbers
  BY CandidateIs DEF TypeOK
<1>1. ASSUME NEW t \in Threads, Begin(t) \/ Unlock(t)  PROVE TypeOK'
  BY <1>1 DEF TypeOK, Begin, Unlock, Goto
<1>2. ASSUME NEW t \in Threads, Skip(t) \/ Store(t) \/ StoreFails(t)
      PROVE  TypeOK'
  <2>1. next' \in Numbers /\ wrapped' \in BOOLEAN
    BY <1>0, <1>2 DEF TypeOK, Skip, Store, StoreFails, Advance
  <2>2. used' \subseteq Ids /\ given' \subseteq Ids
    BY <1>0, <1>2 DEF TypeOK, Skip, Store, StoreFails, Free, Ids
  <2>3. pc' \in [Threads -> {"idle", "search", "stored", "failed", "full"}]
    BY <1>2 DEF TypeOK, Skip, Store, StoreFails, Goto
  <2> QED  BY <1>2, <2>1, <2>2, <2>3 DEF TypeOK, Skip, Store, StoreFails
<1>3. ASSUME NEW id \in used, Destroy(id)  PROVE TypeOK'
  BY <1>3 DEF TypeOK, Destroy
<1>4. CASE UNCHANGED vars
  BY <1>4 DEF TypeOK, vars
<1> QED  BY <1>1, <1>2, <1>3, <1>4 DEF Next, Search

LEMMA LockingStep ==
  ASSUME TypeOK, Locking, [Next]_vars
  PROVE  Locking'
<1>1. ASSUME NEW t \in Threads, Begin(t) \/ Search(t)
      PROVE  \A u \in Threads : pc'[u] # "idle" => lock' = u
  BY <1>1, ThreadAssumption
     DEF Locking, TypeOK, Begin, Search, Skip, Store, StoreFails, Unlock, Goto
<1>2. ASSUME NEW id \in used, Destroy(id)  PROVE Locking'
  BY <1>2 DEF Locking, Destroy
<1>3. CASE UNCHANGED vars
  BY <1>3 DEF Locking, vars
<1> QED  BY <1>1, <1>2, <1>3 DEF Next, Locking

\* The search moves on by one number that is no free id.
LEMMA SkipStep ==
  ASSUME Inductive, NEW t \in Threads, Skip(t)
  PROVE  Searched' /\ RefusedOnlyWhenFull'
<1> DEFINE M == 2^Bits
<1>1. /\ M \in Nat \ {0, 1} /\ next \in 0 .. M - 1 /\ start \in 0 .. M - 1
      /\ used \subseteq Ids /\ Ids = 1 .. M - 1
      /\ start' = start /\ used' = used
  BY BitsAssumption DEF Inductive, TypeOK, Numbers, Ids, Skip
<1>2. /\ next' = IF next = M - 1 THEN 0 ELSE next + 1
      /\ next' \in Ids => next' \in used
      /\ next' = Candidate
  BY <1>1, CandidateIs DEF Skip, Advance, Free, Inductive, TypeOK, Numbers
<1> HIDE DEF M
<1>3. \A n \in Ids : Passed(n) => n \in used
  BY DEF Inductive, Searched, Skip
<1>4. ASSUME NEW n \in Ids, next' # start, Passed(n)'
      PROVE  n \in used'
  <2>1. n = next' \/ Passed(n)
    BY <1>1, <1>2, <1>4 DEF Passed
  <2> QED  BY <1>1, <1>2, <1>3, <2>1
<1>5. ASSUME next' = start, NEW n \in Ids
      PROVE  n \in used
  <2>1. n = next' \/ Passed(n)
    BY <1>1, <1>2, <1>5 DEF Passed
  <2> QED  BY <1>2, <1>3, <2>1
<1>6. pc' = [pc EXCEPT ![t] = IF next' = start THEN "full" ELSE "search"]
  BY <1>2 DEF Skip, Exhausted, Goto
<1>7. \A u \in Threads \ {t} : pc[u] = "idle"
  BY DEF Inductive, Locking, Skip
<1>8. pc \in [Threads -> {"idle", "search", "stored", "failed", "full"}]
  BY DEF Inductive, TypeOK
<1>9. Searched'
  <2>1. CASE next' = start
    BY <1>6, <1>7, <1>8, <2>1 DEF Searched
  <2>2. CASE next' # start
    BY <1>4, <2>2 DEF Searched, Ids, Numbers
  <2> QED  BY <2>1, <2>2
<1>10. RefusedOnlyWhenFull'
  <2>1. CASE next' = start
    <3>1. used' = Ids
      BY <1>1, <1>5, <2>1
    <3> QED  BY <3>1 DEF RefusedOnlyWhenFull, Ids, Numbers
  <2>2. CASE next' # start
    BY <1>6, <1>7, <1>8, <2>2 DEF RefusedOnlyWhenFull
  <2> QED  BY <2>1, <2>2
<1> QED  BY <1>9, <1>10

LEMMA SearchedStep ==
  ASSUME Inductive, [Next]_vars
  PROVE  Searched' /\ RefusedOnlyWhenFull'
<1>0. /\ pc \in [Threads -> {"idle", "search", "stored", "failed", "full"}]
      /\ Locking /\ Searched /\ RefusedOnlyWhenFull /\ next \in Int
  BY BitsAssumption DEF Inductive, TypeOK, Numbers
<1>1. ASSUME NEW t \in Threads, Begin(t)
      PROVE  Searched' /\ RefusedOnlyWhenFull'
  <2>1. next' = start' /\ used' = used /\ next' \in Int
    BY <1>0, <1>1 DEF Begin
  <2>2. \A n \in Ids : ~Passed(n)'
    <3>1. \A n \in Ids : n \in Int
      BY BitsAssumption DEF Ids, Numbers
    <3> QED  BY <2>1, <3>1 DEF Passed
  <2>3. \A u \in Threads : pc'[u] = "full" => pc[u] = "full"
    BY <1>0, <1>1 DEF Begin, Goto
  <2> QED  BY <1>0, <2>1, <2>2, <2>3
           DEF Searched, RefusedOnlyWhenFull, Ids, Numbers
<1>2. ASSUME NEW t \in Threads, Store(t) \/ StoreFails(t) \/ Unlock(t)
      PROVE  Searched' /\ RefusedOnlyWhenFull'
  <2>1. \A u \in Threads \ {t} : pc[u] = "idle" /\ pc'[u] = "idle"
    BY <1>0, <1>2 DEF Locking, Store, StoreFails, Unlock, Goto
  <2>2. pc'[t] \notin {"search", "full"}
    BY <1>0, <1>2 DEF Store, StoreFails, Unlock, Goto
  <2> QED  BY <2>1, <2>2 DEF Searched, RefusedOnlyWhenFull
<1>3. ASSUME NEW id \in used, Destroy(id)
      PROVE  Searched' /\ RefusedOnlyWhenFull'
  <2>1. \A u \in Threads : pc[u] = "idle" /\ pc'[u] = "idle"
    BY <1>0, <1>3, ThreadAssumption DEF Locking, Destroy
  <2> QED  BY <2>1 DEF Searched, RefusedOnlyWhenFull
<1>4. CASE UNCHANGED vars
  BY <1>0, <1>4 DEF Searched, RefusedOnlyWhenFull, vars, Passed
<1> QED  BY <1>1, <1>2, <1>3, <1>4, SkipStep DEF Next, Search

\* While the counter has not wrapped it only grows.
LEMMA AdvanceGrows ==
  ASSUME TypeOK, Advance, ~wrapped'
  PROVE  ~wrapped /\ next \in Int /\ next' = next + 1 /\ next' = Candidate
<1>1. next \in Int /\ next \in Numbers
  BY BitsAssumption DEF TypeOK, Numbers
<1>2. ~wrapped /\ Candidate # 0
  BY Zenon DEF Advance, TypeOK
<1> QED  BY <1>1, <1>2, CandidateIs DEF Advance

LEMMA BehindStep ==
  ASSUME TypeOK, Behind, [Next]_vars
  PROVE  Behind'
<1>0. \A id \in given : id \in Int
  BY BitsAssumption DEF TypeOK, Ids, Numbers
<1>1. ASSUME NEW t \in Threads, Skip(t) \/ Store(t) \/ StoreFails(t), ~wrapped',
             NEW id \in given'
      PROVE  id <= next'
  <2>1. ~wrapped /\ next \in Int /\ next' = next + 1 /\ next' = Candidate
    BY <1>1, AdvanceGrows DEF Skip, Store, StoreFails
  <2>2. id \in given \/ id = Candidate
    BY <1>1 DEF Skip, Store, StoreFails
  <2> QED  BY <1>0, <2>1, <2>2 DEF Behind
<1>2. CASE \E t \in Threads : Begin(t) \/ Unlock(t)
  BY <1>2 DEF Behind, Begin, Unlock
<1>3. CASE (\E id \in used : Destroy(id)) \/ UNCHANGED vars
  BY <1>3 DEF Behind, Destroy, vars
<1> QED  BY <1>1, <1>2, <1>3 DEF Next, Search, Behind

LEMMA InductiveInvariant == Spec => []Inductive
<1>1. ASSUME Init  PROVE Inductive
  <2>1. 0 \in Numbers
    BY BitsAssumption DEF Numbers
  <2>2. /\ \A t \in Threads : pc[t] = "idle"
        /\ pc \in [Threads -> {"idle", "search", "stored", "failed", "full"}]
    BY <1>1 DEF Init
  <2>3. TypeOK
    BY <1>1, <2>1, <2>2, Zenon DEF Init, TypeOK
  <2>4. Locking /\ Searched /\ RefusedOnlyWhenFull
    BY <2>2 DEF Locking, Searched, RefusedOnlyWhenFull
  <2>5. Behind
    BY <1>1 DEF Init, Behind
  <2> QED  BY <2>3, <2>4, <2>5 DEF Inductive
<1>2. Inductive /\ [Next]_vars => Inductive'
  BY TypeStep, LockingStep, SearchedStep, BehindStep DEF Inductive
<1> QED  BY <1>1, <1>2, PTL DEF Spec

------------------------------------------------------------------------------
(* The theorems                                                            *)

(* Type correctness: zero is never an id.                                  *)
THEOREM TypeCorrect == Spec => []TypeOK
<1>1. Inductive => TypeOK
  BY DEF Inductive
<1> QED  BY <1>1, InductiveInvariant, PTL

(* CONTEXT_CREATE returns -ENOSPC only when every id of the file is in     *)
(* use, whatever was created and destroyed before, and however wide the    *)
(* counter is.                                                             *)
THEOREM RefusalMeansFull == Spec => []RefusedOnlyWhenFull
<1>1. Inductive => RefusedOnlyWhenFull
  BY DEF Inductive
<1> QED  BY <1>1, InductiveInvariant, PTL

(* No step stores a context under an id in use, or under one handed out    *)
(* before while the counter has not wrapped.                               *)
THEOREM NoIdReused == Spec => IdsNotReused
<1> DEFINE NotReused ==
      \A t \in Threads : pc[t] = "search" /\ pc'[t] = "stored" =>
        next' \notin used /\ (wrapped' \/ next' \notin given)
<1>1. ASSUME Inductive, [Next]_vars  PROVE NotReused
  <2>1. SUFFICES ASSUME NEW t \in Threads, pc[t] = "search", pc'[t] = "stored"
                 PROVE  next' \notin used /\ (wrapped' \/ next' \notin given)
    OBVIOUS
  <2>2. Store(t)
    BY <1>1, <2>1
       DEF Next, Search, Begin, Skip, Store, StoreFails, Unlock, Destroy, Goto,
           vars, Inductive, TypeOK
  <2>3. next' = Candidate /\ Candidate \notin used
    BY <2>2 DEF Store, Advance, Free
  <2>4. ASSUME ~wrapped'  PROVE next' \notin given
    <3>1. ~wrapped /\ next \in Int /\ next' = next + 1
      BY <1>1, <2>2, <2>4, AdvanceGrows DEF Inductive, Store
    <3>2. \A id \in given : id \in Int /\ id <= next
      BY <1>1, <3>1, BitsAssumption DEF Inductive, Behind, TypeOK, Ids, Numbers
    <3> QED  BY <3>1, <3>2
  <2> QED  BY <2>3, <2>4
<1> QED  BY <1>1, InductiveInvariant, PTL DEF Spec, IdsNotReused

===============================================================================
