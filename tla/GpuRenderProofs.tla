--------------------------- MODULE GpuRenderProofs ---------------------------
(***************************************************************************)
(* Theorems about GpuRender, for every number of files, threads, contexts  *)
(* and submissions: type correctness, the reference counts, that the       *)
(* worker only sends to a context the device still has, that no submission *)
(* is freed that work, a waiter or a table still reaches, and the safety   *)
(* part of what GpuFence promises.                                         *)
(*                                                                         *)
(* RefsMatchHolders is not inductive alone: a step that hands a reference  *)
(* on must not meet a second owner under the same name, so the invariant   *)
(* also says that ioctls and queued work name distinct submissions         *)
(* (IoctlOwnership, WorkOwnership), and that a context with references is  *)
(* one the device has (AllocatedIsLive).                                   *)
(*                                                                         *)
(* On top of that, Allocation follows a submission from the thread that    *)
(* prepares it into the table of its file and out again: what lets         *)
(* postclose free the table is that no ioctl is in flight on the file and  *)
(* that the flush waits for all of it that is pending (FlushCovers).       *)
(* Completion says what is signalled: neither queued work, nor what the    *)
(* worker has in hand, nor what a SUBMIT still prepares.  Publication adds *)
(* that only numbers already taken have a result, so that a SUBMIT resets  *)
(* none.                                                                   *)
(***************************************************************************)
EXTENDS GpuRender, FiniteSetTheorems, TLAPS

Submitting(t) == pc[t] \in {"insert", "queue"}

\* What a thread inside an ioctl holds; the submission it prepares is its own.
IoctlOwnership ==
  \A t \in Threads :
    /\ pc[t] \in HoldingPcs => tctx[t] \in Contexts
    /\ pc[t] = "store" => refs[tctx[t]] = 1
    /\ pc[t] # "idle" => tfile[t] \in Files
    /\ Submitting(t) => /\ tseq[t] \in Seqnos
                        /\ tseq[t] <= nextSeqno
                        /\ subContext[tseq[t]] = NoContext
    /\ \A u \in Threads \ {t} :
         Submitting(t) /\ Submitting(u) => tseq[t] # tseq[u]

\* What gpu_wq holds: distinct submissions, each owning a context reference.
WorkOwnership ==
  /\ \A s \in Pending : subContext[s] \in Contexts
  /\ \A i, j \in DOMAIN queue : queue[i] = queue[j] => i = j
  /\ wpc # "idle" => wseq \notin InQueue
  /\ \A s \in Seqnos : s > nextSeqno => subContext[s] = NoContext

AllocatedIsLive == \A c \in Contexts : refs[c] > 0 => remote[c] = "live"

Inductive == /\ TypeOK
             /\ RefsMatchHolders
             /\ IoctlOwnership
             /\ WorkOwnership
             /\ AllocatedIsLive

------------------------------------------------------------------------------
(* Counting the owners of a reference                                      *)

\* The owners of a context are finitely many.
LEMMA HoldersFinite ==
  ASSUME TypeOK, NEW c
  PROVE  /\ IsFiniteSet(FilesHolding(c)) /\ Cardinality(FilesHolding(c)) \in Nat
         /\ IsFiniteSet(ThreadsHolding(c))
         /\ Cardinality(ThreadsHolding(c)) \in Nat
         /\ IsFiniteSet(WorkHolding(c)) /\ Cardinality(WorkHolding(c)) \in Nat
<1>1. IsFiniteSet(Files) /\ IsFiniteSet(Threads)
  BY ActorsFinite
<1>2. IsFiniteSet(Seqnos)
  BY MaxSeqnoAssumption, FS_Interval DEF Seqnos
<1>3. /\ FilesHolding(c) \in SUBSET Files
      /\ ThreadsHolding(c) \in SUBSET Threads
      /\ WorkHolding(c) \in SUBSET Seqnos
  BY DEF FilesHolding, ThreadsHolding, WorkHolding
<1>4. /\ IsFiniteSet(FilesHolding(c)) /\ IsFiniteSet(ThreadsHolding(c))
      /\ IsFiniteSet(WorkHolding(c))
  BY <1>1, <1>2, <1>3, FS_Subset
<1> QED  BY <1>4, FS_CardinalityType

\* A finite set with a member has a positive cardinality.
LEMMA NonEmptyCount ==
  ASSUME NEW S, IsFiniteSet(S), NEW x \in S
  PROVE  Cardinality(S) \in Nat /\ Cardinality(S) >= 1
<1>1. Cardinality(S) \in Nat
  BY FS_CardinalityType
<1>2. Cardinality(S) # 0
  BY FS_EmptySet
<1> QED  BY <1>1, <1>2

\* Whoever owns a reference finds the context allocated.
LEMMA OwnersKeepAllocated ==
  ASSUME TypeOK, RefsMatchHolders, NEW c \in Contexts,
         FilesHolding(c) # {} \/ ThreadsHolding(c) # {} \/ WorkHolding(c) # {}
  PROVE  refs[c] > 0
<1>1. /\ FilesHolding(c) # {} => Cardinality(FilesHolding(c)) >= 1
      /\ ThreadsHolding(c) # {} => Cardinality(ThreadsHolding(c)) >= 1
      /\ WorkHolding(c) # {} => Cardinality(WorkHolding(c)) >= 1
  BY HoldersFinite, NonEmptyCount
<1> QED  BY <1>1, HoldersFinite DEF RefsMatchHolders

\* How a move of thread t changes the ioctls that own a reference on d.
LEMMA ThreadsAfterAt ==
  ASSUME TypeOK, NEW t \in Threads, NEW f, NEW place, NEW c, NEW s,
         At(t, f, place, c, s), NEW d
  PROVE  ThreadsHolding(d)' = IF place \in HoldingPcs /\ c = d
                              THEN ThreadsHolding(d) \cup {t}
                              ELSE ThreadsHolding(d) \ {t}
  BY DEF TypeOK, At, ThreadsHolding

\* Adding and removing one owner.
LEMMA AddOwner ==
  ASSUME NEW S, IsFiniteSet(S), NEW x, x \notin S
  PROVE  Cardinality(S \cup {x}) = Cardinality(S) + 1
  BY FS_AddElement

LEMMA RemoveOwner ==
  ASSUME NEW S, IsFiniteSet(S), NEW x \in S
  PROVE  Cardinality(S \ {x}) = Cardinality(S) - 1
  BY FS_RemoveElement

------------------------------------------------------------------------------
(* Type correctness                                                        *)

ThreadsTyped == /\ pc \in [Threads -> ThreadPcs]
                /\ tfile \in [Threads -> Files \cup {NoFile}]
                /\ tctx \in [Threads -> Contexts \cup {NoContext}]
                /\ tseq \in [Threads -> Seqnos \cup {0}]

LEMMA AtType ==
  ASSUME TypeOK, NEW t \in Threads, NEW f \in Files \cup {NoFile},
         NEW place \in ThreadPcs, NEW c \in Contexts \cup {NoContext},
         NEW s \in Seqnos \cup {0}, At(t, f, place, c, s)
  PROVE  ThreadsTyped'
  BY DEF TypeOK, At, ThreadsTyped

\* A put by an owner keeps the counts natural numbers.
LEMMA PutContextType ==
  ASSUME TypeOK, NEW c \in Contexts, refs[c] > 0, PutContext(c)
  PROVE  /\ refs' \in [Contexts -> Nat]
         /\ remote' \in [Contexts -> {"none", "live", "destroyed"}]
<1>1. refs[c] \in Nat /\ refs[c] - 1 \in Nat
  BY DEF TypeOK
<1> QED  BY <1>1 DEF TypeOK, PutContext

LEMMA TypeStep ==
  ASSUME Inductive, [Next]_vars
  PROVE  TypeOK'
<1> USE DEF ThreadPcs, HoldingPcs
<1> TypeOK
  BY DEF Inductive
<1>1. ASSUME NEW t \in Threads, ThreadStep(t)  PROVE TypeOK'
  <2>1. CASE CreateStore(t)
    <3>1. tctx[t] \in Contexts /\ tfile[t] \in Files
      BY <2>1 DEF Inductive, IoctlOwnership, CreateStore
    <3>2. ThreadsTyped'
      BY <2>1, <3>1, AtType DEF CreateStore, Goto
    <3> QED  BY <2>1, <3>1, <3>2
             DEF TypeOK, CreateStore, ThreadsTyped, ctxVars, subVars, fenceVars,
                 workerVars, devVars
  <2>2. CASE CreateStoreFail(t)
    <3>1. ThreadsTyped'
      BY <2>2, AtType DEF CreateStoreFail, Return
    <3>2. PICK outcome \in Outcomes :
            remote' = [remote EXCEPT
                         ![tctx[t]] = IF outcome = "failed" THEN @
                                      ELSE "destroyed"]
      BY <2>2 DEF CreateStoreFail
    <3>3. remote' \in [Contexts -> {"none", "live", "destroyed"}]
      BY <3>2 DEF TypeOK
    <3> QED  BY <2>2, <3>1, <3>3
             DEF TypeOK, CreateStoreFail, ThreadsTyped, fileVars, subVars,
                 fenceVars, workerVars, devVars
  <2>3. CASE CreateReport(t) \/ WaitReturn(t) \/ WaitGiveUp(t)
    <3>1. ThreadsTyped'
      BY <2>3, AtType DEF CreateReport, WaitReturn, WaitGiveUp, Return
    <3> QED  BY <2>3, <3>1
             DEF TypeOK, CreateReport, WaitReturn, WaitGiveUp, ThreadsTyped,
                 fileVars, ctxVars, subVars, fenceVars, workerVars, devVars
  <2>4. CASE PutAndReturn(t)
    <3>1. tctx[t] \in Contexts /\ t \in ThreadsHolding(tctx[t])
      BY <2>4 DEF Inductive, IoctlOwnership, PutAndReturn, ThreadsHolding
    <3>2. refs[tctx[t]] > 0
      BY <3>1, OwnersKeepAllocated DEF Inductive
    <3>3. ThreadsTyped'
      BY <2>4, AtType DEF PutAndReturn, Return
    <3> QED  BY <2>4, <3>1, <3>2, <3>3, PutContextType
             DEF TypeOK, PutAndReturn, ThreadsTyped, fileVars, subVars,
                 fenceVars, workerVars, devVars
  <2>5. CASE SubmitAllocFail(t)
    <3>1. tctx[t] \in Contexts /\ tfile[t] \in Files
      BY <2>5 DEF Inductive, IoctlOwnership, SubmitAllocFail
    <3>2. ThreadsTyped'
      BY <2>5, <3>1, AtType DEF SubmitAllocFail, Goto
    <3> QED  BY <2>5, <3>2
             DEF TypeOK, SubmitAllocFail, ThreadsTyped, fileVars, ctxVars,
                 subVars, fenceVars, workerVars, devVars
  <2>6. CASE SubmitSeqno(t)
    <3>1. tctx[t] \in Contexts /\ tfile[t] \in Files
      BY <2>6 DEF Inductive, IoctlOwnership, SubmitSeqno
    <3>2. nextSeqno + 1 \in Seqnos /\ nextSeqno + 1 \in 0 .. MaxSeqno
      BY <2>6, MaxSeqnoAssumption DEF TypeOK, SubmitSeqno, Seqnos
    <3>3. ThreadsTyped'
      BY <2>6, <3>1, <3>2, AtType DEF SubmitSeqno, Goto
    <3> QED  BY <2>6, <3>2, <3>3
             DEF TypeOK, SubmitSeqno, ThreadsTyped, fileVars, ctxVars,
                 workerVars, devVars
  <2>7. CASE SubmitInsert(t) \/ SubmitInsertFail(t)
    <3>1. tctx[t] \in Contexts /\ tfile[t] \in Files /\ tseq[t] \in Seqnos
      BY <2>7 DEF Inductive, IoctlOwnership, SubmitInsert, SubmitInsertFail,
                  Submitting
    <3>2. ThreadsTyped'
      BY <2>7, <3>1, AtType DEF SubmitInsert, SubmitInsertFail, Goto
    <3>3. CASE SubmitInsert(t)
      BY <3>1, <3>2, <3>3 DEF TypeOK, SubmitInsert, ThreadsTyped, ctxVars,
                              subVars, fenceVars, workerVars, devVars
    <3>4. CASE SubmitInsertFail(t)
      BY <3>2, <3>4 DEF TypeOK, SubmitInsertFail, ThreadsTyped, fileVars,
                        ctxVars, fenceVars, workerVars, devVars
    <3> QED  BY <2>7, <3>3, <3>4
  <2>8. CASE SubmitQueue(t)
    <3>1. tctx[t] \in Contexts /\ tseq[t] \in Seqnos
      BY <2>8 DEF Inductive, IoctlOwnership, SubmitQueue, Submitting
    <3>2. ThreadsTyped'
      BY <2>8, AtType DEF SubmitQueue, Return
    <3>3. queue' \in Seq(Seqnos)
      BY <2>8, <3>1 DEF TypeOK, SubmitQueue
    <3> QED  BY <2>8, <3>1, <3>2, <3>3
             DEF TypeOK, SubmitQueue, ThreadsTyped, fileVars, ctxVars,
                 fenceVars, workerVars, devVars
  <2> QED  BY <1>1, <2>1, <2>2, <2>3, <2>4, <2>5, <2>6, <2>7, <2>8
           DEF ThreadStep
<1>2. ASSUME NEW t \in Threads, NEW f \in Files, Ioctl(t, f)  PROVE TypeOK'
  <2>1. ASSUME NEW c \in Contexts, CreateContext(t, f, c)  PROVE TypeOK'
    <3>1. ThreadsTyped'
      BY <2>1, AtType DEF CreateContext, TypeOK, ThreadsTyped, threadVars
    <3>2. /\ remote' \in [Contexts -> {"none", "live", "destroyed"}]
          /\ refs' = refs \/ refs' = [refs EXCEPT ![c] = 1]
      BY <2>1 DEF TypeOK, CreateContext
    <3>3. refs \in [Contexts -> Nat] /\ 1 \in Nat
      BY DEF TypeOK
    <3>4. refs' \in [Contexts -> Nat]
      BY <3>2, <3>3
    <3> QED  BY <2>1, <3>1, <3>2, <3>4
             DEF TypeOK, CreateContext, ThreadsTyped, fileVars, subVars,
                 fenceVars, workerVars, devVars
  <2>2. ASSUME NEW c \in Contexts, DestroyContext(t, f, c)  PROVE TypeOK'
    <3>1. ThreadsTyped'
      BY <2>2, AtType DEF DestroyContext
    <3> QED  BY <2>2, <3>1
             DEF TypeOK, DestroyContext, ThreadsTyped, ctxVars, subVars,
                 fenceVars, workerVars, devVars
  <2>3. ASSUME NEW c \in Contexts, SubmitLookup(t, f, c)  PROVE TypeOK'
    <3>1. ThreadsTyped'
      BY <2>3, AtType DEF SubmitLookup
    <3> QED  BY <2>3, <3>1
             DEF TypeOK, SubmitLookup, ThreadsTyped, fileVars, subVars,
                 fenceVars, workerVars, devVars
  <2>4. ASSUME NEW s \in Seqnos, WaitLookup(t, f, s)  PROVE TypeOK'
    <3>1. ThreadsTyped'
      BY <2>4, AtType DEF WaitLookup
    <3> QED  BY <2>4, <3>1
             DEF TypeOK, WaitLookup, ThreadsTyped, fileVars, ctxVars, subVars,
                 fenceVars, workerVars, devVars
  <2> QED  BY <1>2, <2>1, <2>2, <2>3, <2>4 DEF Ioctl
<1>3. CASE Worker
  <2>1. CASE WorkStart
    <3>1. Head(queue) \in Seqnos /\ Tail(queue) \in Seq(Seqnos)
      BY <2>1 DEF TypeOK, WorkStart
    <3>2. 0 \notin Seqnos
      BY MaxSeqnoAssumption DEF Seqnos
    <3> QED  BY <2>1, <3>1, <3>2
             DEF TypeOK, WorkStart, WorkerPcs, Final, fileVars, ctxVars,
                 subVars, fenceVars, threadVars, devVars
  <2>2. CASE WorkSend
    BY <2>2 DEF TypeOK, WorkSend, WorkerPcs, Final, fileVars, ctxVars, subVars,
                fenceVars, threadVars, devVars
  <2>3. CASE WorkPublish \/ WorkComplete
    <3>1. wseq \in Seqnos /\ wseq \in 0 .. MaxSeqno
      BY <2>3 DEF TypeOK, WorkPublish, WorkComplete, Seqnos
    <3>2. CASE WorkPublish
      BY <3>1, <3>2 DEF TypeOK, WorkPublish, WorkerPcs, fileVars, ctxVars,
                        subVars, threadVars, devVars
    <3>3. CASE WorkComplete
      BY <3>1, <3>3 DEF TypeOK, WorkComplete, WorkerPcs, fileVars, ctxVars,
                        subVars, threadVars, devVars
    <3> QED  BY <2>3, <3>2, <3>3
  <2>4. CASE WorkPut
    <3>1. /\ wseq \in Seqnos /\ subContext[wseq] \in Contexts
          /\ wseq \in WorkHolding(subContext[wseq])
      BY <2>4 DEF Inductive, WorkOwnership, TypeOK, WorkPut, WorkHolding,
                  Pending, Running
    <3>2. refs[subContext[wseq]] > 0
      BY <3>1, OwnersKeepAllocated DEF Inductive
    <3> QED  BY <2>4, <3>1, <3>2, PutContextType
             DEF TypeOK, WorkPut, WorkerPcs, Final, fileVars, fenceVars,
                 threadVars, devVars
  <2> QED  BY <1>3, <2>1, <2>2, <2>3, <2>4 DEF Worker
<1>4. ASSUME NEW f \in Files, Open(f) \/ Close(f) \/ CloseStep(f)
      PROVE  TypeOK'
  <2>1. CASE Open(f) \/ Close(f)
    BY <2>1 DEF TypeOK, Open, Close, FilePhases, ctxVars, subVars, fenceVars,
                workerVars, threadVars, devVars
  <2>2. ASSUME NEW c \in Contexts, CloseContext(f, c)  PROVE TypeOK'
    <3>1. f \in FilesHolding(c)
      BY <2>2 DEF CloseContext, FilesHolding
    <3>2. refs[c] > 0
      BY <3>1, OwnersKeepAllocated DEF Inductive
    <3> QED  BY <2>2, <3>2, PutContextType
             DEF TypeOK, CloseContext, subVars, fenceVars, workerVars,
                 threadVars, devVars
  <2>3. CASE CloseFlush(f)
    <3>1. Pending \subseteq Seqnos
      BY DEF TypeOK, Pending, InQueue, Running
    <3> QED  BY <2>3, <3>1
             DEF TypeOK, CloseFlush, FilePhases, ctxVars, subVars, fenceVars,
                 workerVars, threadVars, devVars
  <2>4. CASE CloseFree(f)
    BY <2>4 DEF TypeOK, CloseFree, FilePhases, ctxVars, fenceVars, workerVars,
                threadVars, devVars
  <2> QED  BY <1>4, <2>1, <2>2, <2>3, <2>4 DEF CloseStep
<1>5. CASE Disconnect \/ DisconnectStep
  <2>1. Pending \subseteq Seqnos
    BY DEF TypeOK, Pending, InQueue, Running
  <2> QED  BY <1>5, <2>1
           DEF TypeOK, Disconnect, DisconnectStep, Unplug, DisconnectFlush,
               DisconnectDone, DestroyWorkqueue, Unbind, DevStep, DevPhases,
               fileVars, ctxVars, subVars, fenceVars, workerVars, threadVars
<1>6. CASE UNCHANGED vars
  BY <1>6 DEF TypeOK, vars, fileVars, ctxVars, subVars, fenceVars, workerVars,
              threadVars, devVars
<1> QED  BY <1>1, <1>2, <1>3, <1>4, <1>5, <1>6 DEF Next

------------------------------------------------------------------------------
(* The reference counts                                                    *)

Counted(c) == refs[c] = Cardinality(FilesHolding(c))
                          + Cardinality(ThreadsHolding(c))
                          + Cardinality(WorkHolding(c))

\* A step that moves no reference keeps the counts.
LEMMA SameOwners ==
  ASSUME RefsMatchHolders, UNCHANGED <<refs, contexts, subContext>>,
         \A c \in Contexts : ThreadsHolding(c)' = ThreadsHolding(c)
  PROVE  RefsMatchHolders'
  BY DEF RefsMatchHolders, FilesHolding, WorkHolding

\* A move between places that both own tctx[t], or own nothing.
LEMMA SameHolding ==
  ASSUME TypeOK, NEW t \in Threads, NEW f, NEW place, NEW c, NEW s,
         At(t, f, place, c, s),
         \/ pc[t] \notin HoldingPcs /\ place \notin HoldingPcs
         \/ pc[t] \in HoldingPcs /\ place \in HoldingPcs /\ c = tctx[t]
  PROVE  \A d \in Contexts : ThreadsHolding(d)' = ThreadsHolding(d)
<1> SUFFICES ASSUME NEW d \in Contexts
             PROVE  ThreadsHolding(d)' = ThreadsHolding(d)
  OBVIOUS
<1>1. t \in ThreadsHolding(d) <=> pc[t] \in HoldingPcs /\ tctx[t] = d
  BY DEF ThreadsHolding
<1>2. ThreadsHolding(d)' = IF place \in HoldingPcs /\ c = d
                           THEN ThreadsHolding(d) \cup {t}
                           ELSE ThreadsHolding(d) \ {t}
  BY ThreadsAfterAt
<1> QED  BY <1>1, <1>2

\* A thread that stops owning c and puts it.
LEMMA ThreadPutCount ==
  ASSUME TypeOK, RefsMatchHolders, NEW t \in Threads, NEW c \in Contexts,
         t \in ThreadsHolding(c),
         \A d \in Contexts : ThreadsHolding(d)' = ThreadsHolding(d) \ {t},
         PutContext(c), UNCHANGED <<contexts, subContext>>
  PROVE  RefsMatchHolders'
<1> SUFFICES ASSUME NEW d \in Contexts  PROVE Counted(d)'
  BY DEF RefsMatchHolders, Counted
<1>1. Counted(d)
  BY DEF RefsMatchHolders, Counted
<1>2. FilesHolding(d)' = FilesHolding(d) /\ WorkHolding(d)' = WorkHolding(d)
  BY DEF FilesHolding, WorkHolding
<1>3. refs'[d] = IF d = c THEN refs[d] - 1 ELSE refs[d]
  BY DEF TypeOK, PutContext
<1>4. CASE d = c
  <2>1. Cardinality(ThreadsHolding(d)') = Cardinality(ThreadsHolding(d)) - 1
    BY <1>4, HoldersFinite, RemoveOwner
  <2> QED  BY <2>1, <1>1, <1>2, <1>3, <1>4, HoldersFinite DEF Counted
<1>5. CASE d # c
  <2>1. ThreadsHolding(d)' = ThreadsHolding(d)
    BY <1>5 DEF ThreadsHolding
  <2> QED  BY <2>1, <1>1, <1>2, <1>3, <1>5 DEF Counted
<1> QED  BY <1>4, <1>5

LEMMA ThreadCountStep ==
  ASSUME Inductive, NEW t \in Threads, ThreadStep(t)
  PROVE  RefsMatchHolders'
<1> USE DEF HoldingPcs
<1>0. TypeOK /\ RefsMatchHolders /\ IoctlOwnership
  BY DEF Inductive
<1>1. CASE CreateStore(t)
  <2> DEFINE c == tctx[t]  f == tfile[t]
  <2>1. /\ c \in Contexts /\ f \in Files /\ refs[c] = 1
        /\ t \in ThreadsHolding(c)
    BY <1>0, <1>1 DEF IoctlOwnership, CreateStore, ThreadsHolding
  <2>2. Cardinality(ThreadsHolding(c)) >= 1
    BY <1>0, <2>1, HoldersFinite, NonEmptyCount
  <2>3. /\ Cardinality(FilesHolding(c)) = 0
        /\ Cardinality(ThreadsHolding(c)) = 1
        /\ Cardinality(WorkHolding(c)) = 0
    BY <1>0, <2>1, <2>2, HoldersFinite DEF RefsMatchHolders
  <2>4. f \notin FilesHolding(c)
    BY <1>0, <2>3, HoldersFinite, NonEmptyCount
  <2> SUFFICES ASSUME NEW d \in Contexts  PROVE Counted(d)'
    BY DEF RefsMatchHolders, Counted
  <2>5. ThreadsHolding(d)' = ThreadsHolding(d) \ {t}
    BY <1>0, <1>1, ThreadsAfterAt DEF CreateStore, Goto
  <2>6. /\ WorkHolding(d)' = WorkHolding(d) /\ refs' = refs
        /\ FilesHolding(d)' = IF d = c THEN FilesHolding(d) \cup {f}
                              ELSE FilesHolding(d)
    BY <1>0, <1>1, <2>1 DEF CreateStore, WorkHolding, FilesHolding, TypeOK,
                            ctxVars, subVars
  <2>7. CASE d = c
    <3>1. Cardinality(ThreadsHolding(d)') = 0
      BY <1>0, <2>1, <2>3, <2>5, <2>7, HoldersFinite, RemoveOwner
    <3>2. Cardinality(FilesHolding(d)') = 1
      BY <1>0, <2>3, <2>4, <2>6, <2>7, HoldersFinite, AddOwner
    <3> QED  BY <2>1, <2>3, <2>6, <2>7, <3>1, <3>2 DEF Counted
  <2>8. CASE d # c
    BY <1>0, <2>5, <2>6, <2>8 DEF Counted, RefsMatchHolders, ThreadsHolding
  <2> QED  BY <2>7, <2>8
<1>2. CASE CreateStoreFail(t)
  <2> DEFINE c == tctx[t]
  <2>1. c \in Contexts /\ refs[c] = 1 /\ t \in ThreadsHolding(c)
    BY <1>0, <1>2 DEF IoctlOwnership, CreateStoreFail, ThreadsHolding
  <2>2. Cardinality(ThreadsHolding(c)) >= 1
    BY <1>0, <2>1, HoldersFinite, NonEmptyCount
  <2>3. /\ Cardinality(FilesHolding(c)) = 0
        /\ Cardinality(ThreadsHolding(c)) = 1
        /\ Cardinality(WorkHolding(c)) = 0
    BY <1>0, <2>1, <2>2, HoldersFinite DEF RefsMatchHolders
  <2> SUFFICES ASSUME NEW d \in Contexts  PROVE Counted(d)'
    BY DEF RefsMatchHolders, Counted
  <2>4. ThreadsHolding(d)' = ThreadsHolding(d) \ {t}
    BY <1>0, <1>2, ThreadsAfterAt DEF CreateStoreFail, Return
  <2>5. /\ WorkHolding(d)' = WorkHolding(d)
        /\ FilesHolding(d)' = FilesHolding(d)
        /\ refs'[d] = IF d = c THEN 0 ELSE refs[d]
    BY <1>0, <1>2 DEF CreateStoreFail, WorkHolding, FilesHolding, TypeOK,
                      fileVars, subVars
  <2>6. CASE d = c
    <3>1. Cardinality(ThreadsHolding(d)') = 0
      BY <1>0, <2>1, <2>3, <2>4, <2>6, HoldersFinite, RemoveOwner
    <3> QED  BY <2>3, <2>5, <2>6, <3>1 DEF Counted
  <2>7. CASE d # c
    BY <1>0, <2>4, <2>5, <2>7 DEF Counted, RefsMatchHolders, ThreadsHolding
  <2> QED  BY <2>6, <2>7
<1>3. CASE CreateReport(t) \/ WaitReturn(t) \/ WaitGiveUp(t)
  <2>1. \A d \in Contexts : ThreadsHolding(d)' = ThreadsHolding(d)
    BY <1>0, <1>3, SameHolding DEF CreateReport, WaitReturn, WaitGiveUp, Return
  <2> QED  BY <1>0, <1>3, <2>1, SameOwners
           DEF CreateReport, WaitReturn, WaitGiveUp, fileVars, ctxVars, subVars
<1>4. CASE PutAndReturn(t)
  <2>1. tctx[t] \in Contexts /\ t \in ThreadsHolding(tctx[t])
    BY <1>0, <1>4 DEF IoctlOwnership, PutAndReturn, ThreadsHolding
  <2>2. \A d \in Contexts : ThreadsHolding(d)' = ThreadsHolding(d) \ {t}
    BY <1>0, <1>4, ThreadsAfterAt DEF PutAndReturn, Return
  <2> QED  BY <1>0, <1>4, <2>1, <2>2, ThreadPutCount
           DEF PutAndReturn, fileVars, subVars
<1>5. CASE SubmitAllocFail(t) \/ SubmitSeqno(t)
  <2>1. \A d \in Contexts : ThreadsHolding(d)' = ThreadsHolding(d)
    BY <1>0, <1>5, SameHolding DEF SubmitAllocFail, SubmitSeqno, Goto
  <2> QED  BY <1>0, <1>5, <2>1, SameOwners
           DEF SubmitAllocFail, SubmitSeqno, fileVars, ctxVars, subVars
<1>6. CASE SubmitInsert(t) \/ SubmitInsertFail(t)
  <2>1. \A d \in Contexts : ThreadsHolding(d)' = ThreadsHolding(d)
    BY <1>0, <1>6, SameHolding DEF SubmitInsert, SubmitInsertFail, Goto
  <2> QED  BY <1>0, <1>6, <2>1, SameOwners
           DEF SubmitInsert, SubmitInsertFail, fileVars, ctxVars, subVars
<1>7. CASE SubmitQueue(t)
  <2> DEFINE c == tctx[t]  s == tseq[t]
  <2>1. /\ c \in Contexts /\ s \in Seqnos /\ subContext[s] = NoContext
        /\ t \in ThreadsHolding(c)
    BY <1>0, <1>7 DEF IoctlOwnership, SubmitQueue, ThreadsHolding, Submitting
  <2> SUFFICES ASSUME NEW d \in Contexts  PROVE Counted(d)'
    BY DEF RefsMatchHolders, Counted
  <2>2. ThreadsHolding(d)' = ThreadsHolding(d) \ {t}
    BY <1>0, <1>7, ThreadsAfterAt DEF SubmitQueue, Return
  <2>3. FilesHolding(d)' = FilesHolding(d) /\ refs' = refs
    BY <1>7 DEF SubmitQueue, FilesHolding, fileVars, ctxVars
  <2>4. WorkHolding(d)' = IF d = c THEN WorkHolding(d) \cup {s}
                          ELSE WorkHolding(d)
    BY <1>0, <1>7, <2>1, NoContextAssumption
       DEF SubmitQueue, WorkHolding, TypeOK
  <2>5. CASE d = c
    <3>1. Cardinality(ThreadsHolding(d)') = Cardinality(ThreadsHolding(d)) - 1
      BY <1>0, <2>1, <2>2, <2>5, HoldersFinite, RemoveOwner
    <3>2. s \notin WorkHolding(d)
      BY <2>1, NoContextAssumption DEF WorkHolding
    <3>3. Cardinality(WorkHolding(d)') = Cardinality(WorkHolding(d)) + 1
      BY <1>0, <2>4, <2>5, <3>2, HoldersFinite, AddOwner
    <3> QED  BY <1>0, <2>3, <2>5, <3>1, <3>3, HoldersFinite
             DEF Counted, RefsMatchHolders
  <2>6. CASE d # c
    BY <1>0, <2>2, <2>3, <2>4, <2>6
       DEF Counted, RefsMatchHolders, ThreadsHolding
  <2> QED  BY <2>5, <2>6
<1> QED  BY <1>1, <1>2, <1>3, <1>4, <1>5, <1>6, <1>7 DEF ThreadStep

LEMMA IoctlCountStep ==
  ASSUME Inductive, NEW t \in Threads, NEW f \in Files, Ioctl(t, f)
  PROVE  RefsMatchHolders'
<1> USE DEF HoldingPcs
<1>0. TypeOK /\ RefsMatchHolders /\ AllocatedIsLive
  BY DEF Inductive
<1>1. ASSUME NEW c \in Contexts, CreateContext(t, f, c)
      PROVE  RefsMatchHolders'
  <2>1. CASE refs' = [refs EXCEPT ![c] = 1] /\ At(t, f, "store", c, 0)
    <3>0. remote[c] = "none"
      BY <1>1 DEF CreateContext
    <3>1. refs[c] = 0
      <4>1. refs[c] \in Nat
        BY <1>0 DEF TypeOK
      <4>2. ~(refs[c] > 0)
        BY <1>0, <3>0 DEF AllocatedIsLive
      <4> QED  BY <4>1, <4>2
    <3>2. /\ FilesHolding(c) = {} /\ ThreadsHolding(c) = {}
          /\ WorkHolding(c) = {}
      BY <1>0, <3>1, OwnersKeepAllocated
    <3> SUFFICES ASSUME NEW d \in Contexts  PROVE Counted(d)'
      BY DEF RefsMatchHolders, Counted
    <3>3. /\ FilesHolding(d)' = FilesHolding(d)
          /\ WorkHolding(d)' = WorkHolding(d)
      BY <1>1 DEF CreateContext, FilesHolding, WorkHolding, fileVars, subVars
    <3>4. ThreadsHolding(d)' = IF d = c THEN {t} ELSE ThreadsHolding(d) \ {t}
      BY <1>0, <2>1, <3>2, ThreadsAfterAt
    <3>5. t \notin ThreadsHolding(d)
      BY <1>1 DEF CreateContext, MayEnter, ThreadsHolding
    <3>6. CASE d = c
      <4>1. Cardinality({}) = 0 /\ Cardinality({t}) = 1
        BY FS_EmptySet, FS_Singleton
      <4>2. refs'[d] = 1
        BY <1>0, <2>1, <3>6 DEF TypeOK
      <4> QED  BY <3>2, <3>3, <3>4, <3>6, <4>1, <4>2 DEF Counted
    <3>7. CASE d # c
      <4>1. ThreadsHolding(d)' = ThreadsHolding(d) /\ refs'[d] = refs[d]
        BY <1>0, <2>1, <3>4, <3>5, <3>7 DEF TypeOK
      <4> QED  BY <1>0, <3>3, <4>1 DEF Counted, RefsMatchHolders
    <3> QED  BY <3>6, <3>7
  <2>2. CASE UNCHANGED <<refs, threadVars>>
    <3>1. \A d \in Contexts : ThreadsHolding(d)' = ThreadsHolding(d)
      BY <2>2 DEF ThreadsHolding, threadVars
    <3> QED  BY <1>0, <1>1, <2>2, <3>1, SameOwners
             DEF CreateContext, fileVars, subVars
  <2> QED  BY <1>1, <2>1, <2>2 DEF CreateContext
<1>2. ASSUME NEW c \in Contexts, DestroyContext(t, f, c)
      PROVE  RefsMatchHolders'
  <2> SUFFICES ASSUME NEW d \in Contexts  PROVE Counted(d)'
    BY DEF RefsMatchHolders, Counted
  <2>1. /\ WorkHolding(d)' = WorkHolding(d) /\ refs' = refs
        /\ FilesHolding(d)' = IF d = c THEN FilesHolding(d) \ {f}
                              ELSE FilesHolding(d)
    BY <1>0, <1>2 DEF DestroyContext, WorkHolding, FilesHolding, TypeOK,
                      ctxVars, subVars
  <2>2. t \notin ThreadsHolding(d) /\ f \in FilesHolding(c)
    BY <1>2 DEF DestroyContext, MayEnter, ThreadsHolding, FilesHolding
  <2>3. ThreadsHolding(d)' = IF d = c THEN ThreadsHolding(d) \cup {t}
                             ELSE ThreadsHolding(d)
    BY <1>0, <1>2, <2>2, ThreadsAfterAt DEF DestroyContext
  <2>4. CASE d = c
    <3>1. Cardinality(FilesHolding(d)') = Cardinality(FilesHolding(d)) - 1
      BY <1>0, <2>1, <2>2, <2>4, HoldersFinite, RemoveOwner
    <3>2. Cardinality(ThreadsHolding(d)') = Cardinality(ThreadsHolding(d)) + 1
      BY <1>0, <2>2, <2>3, <2>4, HoldersFinite, AddOwner
    <3> QED  BY <1>0, <2>1, <3>1, <3>2, HoldersFinite
             DEF Counted, RefsMatchHolders
  <2>5. CASE d # c
    BY <1>0, <2>1, <2>3, <2>5 DEF Counted, RefsMatchHolders
  <2> QED  BY <2>4, <2>5
<1>3. ASSUME NEW c \in Contexts, SubmitLookup(t, f, c)
      PROVE  RefsMatchHolders'
  <2> SUFFICES ASSUME NEW d \in Contexts  PROVE Counted(d)'
    BY DEF RefsMatchHolders, Counted
  <2>1. /\ WorkHolding(d)' = WorkHolding(d)
        /\ FilesHolding(d)' = FilesHolding(d)
        /\ refs'[d] = IF d = c THEN refs[d] + 1 ELSE refs[d]
    BY <1>0, <1>3 DEF SubmitLookup, WorkHolding, FilesHolding, TypeOK,
                      fileVars, subVars
  <2>2. t \notin ThreadsHolding(d)
    BY <1>3 DEF SubmitLookup, MayEnter, ThreadsHolding
  <2>3. ThreadsHolding(d)' = IF d = c THEN ThreadsHolding(d) \cup {t}
                             ELSE ThreadsHolding(d)
    <3>1. At(t, f, "seqno", c, 0)
      BY <1>3 DEF SubmitLookup
    <3>2. ThreadsHolding(d)' = IF c = d THEN ThreadsHolding(d) \cup {t}
                               ELSE ThreadsHolding(d) \ {t}
      BY <1>0, <3>1, ThreadsAfterAt
    <3> QED  BY <2>2, <3>2
  <2>4. CASE d = c
    <3>1. Cardinality(ThreadsHolding(d)') = Cardinality(ThreadsHolding(d)) + 1
      BY <1>0, <2>2, <2>3, <2>4, HoldersFinite, AddOwner
    <3> QED  BY <1>0, <2>1, <2>4, <3>1, HoldersFinite
             DEF Counted, RefsMatchHolders
  <2>5. CASE d # c
    BY <1>0, <2>1, <2>3, <2>5 DEF Counted, RefsMatchHolders
  <2> QED  BY <2>4, <2>5
<1>4. ASSUME NEW s \in Seqnos, WaitLookup(t, f, s)
      PROVE  RefsMatchHolders'
  <2>1. \A d \in Contexts : ThreadsHolding(d)' = ThreadsHolding(d)
    BY <1>0, <1>4, SameHolding DEF WaitLookup, MayEnter
  <2> QED  BY <1>0, <1>4, <2>1, SameOwners
           DEF WaitLookup, fileVars, ctxVars, subVars
<1> QED  BY <1>1, <1>2, <1>3, <1>4 DEF Ioctl

\* The worker's last step: the work's reference is put.
LEMMA WorkPutCount ==
  ASSUME Inductive, WorkPut
  PROVE  RefsMatchHolders'
<1> DEFINE c == subContext[wseq]
<1>0. TypeOK /\ RefsMatchHolders
  BY DEF Inductive
<1>1. wseq \in Seqnos /\ c \in Contexts /\ wseq \in WorkHolding(c)
  BY <1>0 DEF Inductive, WorkOwnership, TypeOK, WorkPut, WorkHolding, Pending,
              Running
<1> SUFFICES ASSUME NEW d \in Contexts  PROVE Counted(d)'
  BY DEF RefsMatchHolders, Counted
<1>2. /\ FilesHolding(d)' = FilesHolding(d)
      /\ ThreadsHolding(d)' = ThreadsHolding(d)
  BY DEF WorkPut, FilesHolding, ThreadsHolding, fileVars, threadVars
<1>3. refs'[d] = IF d = c THEN refs[d] - 1 ELSE refs[d]
  BY <1>0 DEF TypeOK, WorkPut, PutContext
<1>4. WorkHolding(d)' = IF d = c THEN WorkHolding(d) \ {wseq}
                        ELSE WorkHolding(d)
  BY <1>0, <1>1, NoContextAssumption DEF WorkPut, WorkHolding, TypeOK
<1>5. CASE d = c
  <2>1. Cardinality(WorkHolding(d)') = Cardinality(WorkHolding(d)) - 1
    BY <1>0, <1>1, <1>4, <1>5, HoldersFinite, RemoveOwner
  <2> QED  BY <1>0, <1>2, <1>3, <1>5, <2>1, HoldersFinite
           DEF Counted, RefsMatchHolders
<1>6. CASE d # c
  BY <1>0, <1>2, <1>3, <1>4, <1>6 DEF Counted, RefsMatchHolders
<1> QED  BY <1>5, <1>6

\* One round of postclose's first loop: the table's reference is put.
LEMMA CloseContextCount ==
  ASSUME Inductive, NEW f \in Files, NEW c \in Contexts, CloseContext(f, c)
  PROVE  RefsMatchHolders'
<1>0. TypeOK /\ RefsMatchHolders
  BY DEF Inductive
<1>1. f \in FilesHolding(c)
  BY DEF CloseContext, FilesHolding
<1> SUFFICES ASSUME NEW d \in Contexts  PROVE Counted(d)'
  BY DEF RefsMatchHolders, Counted
<1>2. /\ WorkHolding(d)' = WorkHolding(d)
      /\ ThreadsHolding(d)' = ThreadsHolding(d)
  BY DEF CloseContext, WorkHolding, ThreadsHolding, subVars, threadVars
<1>3. refs'[d] = IF d = c THEN refs[d] - 1 ELSE refs[d]
  BY <1>0 DEF TypeOK, CloseContext, PutContext
<1>4. FilesHolding(d)' = IF d = c THEN FilesHolding(d) \ {f}
                         ELSE FilesHolding(d)
  BY <1>0 DEF CloseContext, FilesHolding, TypeOK
<1>5. CASE d = c
  <2>1. Cardinality(FilesHolding(d)') = Cardinality(FilesHolding(d)) - 1
    BY <1>0, <1>1, <1>4, <1>5, HoldersFinite, RemoveOwner
  <2> QED  BY <1>0, <1>2, <1>3, <1>5, <2>1, HoldersFinite
           DEF Counted, RefsMatchHolders
<1>6. CASE d # c
  BY <1>0, <1>2, <1>3, <1>4, <1>6 DEF Counted, RefsMatchHolders
<1> QED  BY <1>5, <1>6

LEMMA CountStep ==
  ASSUME Inductive, [Next]_vars
  PROVE  RefsMatchHolders'
<1>0. RefsMatchHolders
  BY DEF Inductive
<1>1. ASSUME UNCHANGED <<refs, contexts, subContext, pc, tctx>>
      PROVE  RefsMatchHolders'
  BY <1>0, <1>1, SameOwners DEF ThreadsHolding
<1>2. ASSUME NEW t \in Threads, ThreadStep(t)  PROVE RefsMatchHolders'
  BY <1>2, ThreadCountStep
<1>3. ASSUME NEW t \in Threads, NEW f \in Files, Ioctl(t, f)
      PROVE  RefsMatchHolders'
  BY <1>3, IoctlCountStep
<1>4. CASE WorkStart \/ WorkSend \/ WorkPublish \/ WorkComplete
  BY <1>1, <1>4 DEF WorkStart, WorkSend, WorkPublish, WorkComplete, fileVars,
                    ctxVars, subVars, threadVars
<1>5. ASSUME NEW f \in Files, Open(f) \/ Close(f) \/ CloseFlush(f)
                                \/ CloseFree(f)
      PROVE  RefsMatchHolders'
  BY <1>1, <1>5 DEF Open, Close, CloseFlush, CloseFree, ctxVars, subVars,
                    threadVars
<1>6. CASE Disconnect \/ DisconnectStep \/ UNCHANGED vars
  BY <1>1, <1>6 DEF Disconnect, DisconnectStep, Unplug, DisconnectFlush,
                    DisconnectDone, DestroyWorkqueue, Unbind, vars, fileVars,
                    ctxVars, subVars, threadVars
<1> QED  BY <1>2, <1>3, <1>4, <1>5, <1>6, WorkPutCount, CloseContextCount
         DEF Next, Worker, CloseStep

------------------------------------------------------------------------------
(* Who owns what                                                           *)

\* A thread that has not stored its context yet is the only owner.
LEMMA StoreIsSole ==
  ASSUME Inductive, NEW u \in Threads, pc[u] = "store"
  PROVE  /\ tctx[u] \in Contexts /\ refs[tctx[u]] = 1
         /\ FilesHolding(tctx[u]) = {}
         /\ ThreadsHolding(tctx[u]) = {u}
         /\ WorkHolding(tctx[u]) = {}
<1> DEFINE c == tctx[u]
<1>0. TypeOK /\ RefsMatchHolders
  BY DEF Inductive
<1>1. c \in Contexts /\ refs[c] = 1 /\ u \in ThreadsHolding(c)
  BY DEF Inductive, IoctlOwnership, HoldingPcs, ThreadsHolding
<1>2. Cardinality(ThreadsHolding(c)) >= 1
  BY <1>0, <1>1, HoldersFinite, NonEmptyCount
<1>3. /\ Cardinality(FilesHolding(c)) = 0
      /\ Cardinality(ThreadsHolding(c)) = 1
      /\ Cardinality(WorkHolding(c)) = 0
  BY <1>0, <1>1, <1>2, HoldersFinite DEF RefsMatchHolders
<1>4. /\ FilesHolding(c) = {} /\ WorkHolding(c) = {}
      /\ \E x : ThreadsHolding(c) = {x}
  BY <1>0, <1>3, HoldersFinite, FS_EmptySet, FS_Singleton
<1> QED  BY <1>1, <1>4

LEMMA OwnsStep ==
  ASSUME Inductive, [Next]_vars
  PROVE  \A u \in Threads : /\ pc'[u] \in HoldingPcs => tctx'[u] \in Contexts
                            /\ pc'[u] # "idle" => tfile'[u] \in Files
<1> USE DEF HoldingPcs
<1>0. /\ TypeOK
      /\ \A u \in Threads : /\ pc[u] \in HoldingPcs => tctx[u] \in Contexts
                            /\ pc[u] # "idle" => tfile[u] \in Files
  BY DEF Inductive, IoctlOwnership
<1>1. ASSUME UNCHANGED threadVars
      PROVE  \A u \in Threads :
               /\ pc'[u] \in HoldingPcs => tctx'[u] \in Contexts
               /\ pc'[u] # "idle" => tfile'[u] \in Files
  BY <1>0, <1>1 DEF threadVars
<1>2. ASSUME NEW t \in Threads, NEW f, NEW place, NEW c, NEW s,
             At(t, f, place, c, s),
             place \in HoldingPcs => c \in Contexts,
             place # "idle" => f \in Files
      PROVE  \A u \in Threads :
               /\ pc'[u] \in HoldingPcs => tctx'[u] \in Contexts
               /\ pc'[u] # "idle" => tfile'[u] \in Files
  BY <1>0, <1>2 DEF At, TypeOK
<1>3. ASSUME NEW t \in Threads, ThreadStep(t)
      PROVE  \A u \in Threads :
               /\ pc'[u] \in HoldingPcs => tctx'[u] \in Contexts
               /\ pc'[u] # "idle" => tfile'[u] \in Files
  BY <1>0, <1>2, <1>3
     DEF ThreadStep, CreateStore, CreateStoreFail, CreateReport, PutAndReturn,
         SubmitAllocFail, SubmitSeqno, SubmitInsert, SubmitInsertFail,
         SubmitQueue, WaitReturn, WaitGiveUp, Return, Goto
<1>4. ASSUME NEW t \in Threads, NEW f \in Files, Ioctl(t, f)
      PROVE  \A u \in Threads :
               /\ pc'[u] \in HoldingPcs => tctx'[u] \in Contexts
               /\ pc'[u] # "idle" => tfile'[u] \in Files
  BY <1>1, <1>2, <1>4
     DEF Ioctl, CreateContext, DestroyContext, SubmitLookup, WaitLookup
<1>5. CASE Worker
  BY <1>1, <1>5 DEF Worker, WorkStart, WorkSend, WorkPublish, WorkComplete,
                    WorkPut
<1>6. ASSUME NEW f \in Files, Open(f) \/ Close(f) \/ CloseStep(f)
      PROVE  UNCHANGED threadVars
  BY <1>6 DEF Open, Close, CloseStep, CloseContext, CloseFlush, CloseFree
<1>7. CASE Disconnect \/ DisconnectStep \/ UNCHANGED vars
  BY <1>1, <1>7 DEF Disconnect, DisconnectStep, Unplug, DisconnectFlush,
                    DisconnectDone, DestroyWorkqueue, Unbind, vars
<1> QED  BY <1>1, <1>3, <1>4, <1>5, <1>6, <1>7 DEF Next

\* No step by anyone else touches the count of a context not yet stored.
LEMMA StoreStep ==
  ASSUME Inductive, [Next]_vars, NEW u \in Threads, pc'[u] = "store"
  PROVE  refs'[tctx'[u]] = 1
<1> USE DEF HoldingPcs
<1>0. TypeOK /\ AllocatedIsLive /\ IoctlOwnership /\ WorkOwnership
  BY DEF Inductive
<1>1. ASSUME pc[u] = "store", tctx'[u] = tctx[u], refs'[tctx[u]] = refs[tctx[u]]
      PROVE  refs'[tctx'[u]] = 1
  BY <1>1, StoreIsSole
<1>2. ASSUME UNCHANGED <<pc, tctx, refs>>  PROVE refs'[tctx'[u]] = 1
  BY <1>1, <1>2
<1>3. ASSUME NEW t \in Threads, NEW f, NEW place, NEW c, NEW s,
             At(t, f, place, c, s), place # "store"
      PROVE  t # u /\ pc[u] = "store" /\ tctx'[u] = tctx[u]
  BY <1>0, <1>3 DEF At, TypeOK
<1>4. ASSUME NEW c \in Contexts, PutContext(c), c # tctx[u]
      PROVE  refs'[tctx[u]] = refs[tctx[u]]
  BY <1>0, <1>4 DEF PutContext, TypeOK
<1>5. ASSUME NEW t \in Threads, ThreadStep(t)  PROVE refs'[tctx'[u]] = 1
  <2>1. t # u /\ pc[u] = "store" /\ tctx'[u] = tctx[u]
    BY <1>3, <1>5
       DEF ThreadStep, CreateStore, CreateStoreFail, CreateReport,
           PutAndReturn, SubmitAllocFail, SubmitSeqno, SubmitInsert,
           SubmitInsertFail, SubmitQueue, WaitReturn, WaitGiveUp, Return, Goto
  <2>2. pc[t] \in HoldingPcs => tctx[t] \in Contexts /\ tctx[t] # tctx[u]
    BY <1>0, <2>1, StoreIsSole DEF ThreadsHolding, IoctlOwnership
  <2>3. refs'[tctx[u]] = refs[tctx[u]]
    <3>1. CASE CreateStoreFail(t)
      BY <1>0, <2>2, <3>1 DEF CreateStoreFail, TypeOK
    <3>2. CASE PutAndReturn(t)
      BY <1>4, <2>2, <3>2 DEF PutAndReturn
    <3>3. CASE UNCHANGED refs
      BY <3>3
    <3> QED  BY <1>5, <3>1, <3>2, <3>3
             DEF ThreadStep, CreateStore, CreateReport, SubmitAllocFail,
                 SubmitSeqno, SubmitInsert, SubmitInsertFail, SubmitQueue,
                 WaitReturn, WaitGiveUp, ctxVars
  <2> QED  BY <1>1, <2>1, <2>3
<1>6. ASSUME NEW t \in Threads, NEW f \in Files, Ioctl(t, f)
      PROVE  refs'[tctx'[u]] = 1
  <2>1. ASSUME NEW c \in Contexts, CreateContext(t, f, c)
        PROVE  refs'[tctx'[u]] = 1
    <3>1. CASE refs' = [refs EXCEPT ![c] = 1] /\ At(t, f, "store", c, 0)
      <4>1. CASE t = u
        BY <1>0, <3>1, <4>1 DEF At, TypeOK
      <4>2. CASE t # u
        <5>1. pc[u] = "store" /\ tctx'[u] = tctx[u]
          BY <1>0, <3>1, <4>2 DEF At, TypeOK
        <5>2. remote[tctx[u]] = "live" /\ remote[c] = "none"
          BY <1>0, <2>1, <5>1, StoreIsSole DEF AllocatedIsLive, CreateContext
        <5> QED  BY <1>0, <1>1, <3>1, <5>1, <5>2, StoreIsSole DEF TypeOK
      <4> QED  BY <4>1, <4>2
    <3>2. CASE UNCHANGED <<refs, threadVars>>
      BY <1>2, <3>2 DEF threadVars
    <3> QED  BY <2>1, <3>1, <3>2 DEF CreateContext
  <2>2. ASSUME NEW c \in Contexts, SubmitLookup(t, f, c)
        PROVE  refs'[tctx'[u]] = 1
    <3>1. pc[u] = "store" /\ tctx'[u] = tctx[u]
      BY <1>3, <2>2 DEF SubmitLookup
    <3>2. c # tctx[u]
      BY <2>2, <3>1, StoreIsSole DEF SubmitLookup, FilesHolding
    <3> QED  BY <1>0, <1>1, <2>2, <3>1, <3>2, StoreIsSole
             DEF SubmitLookup, TypeOK
  <2>3. ASSUME NEW c \in Contexts, DestroyContext(t, f, c)
        PROVE  refs'[tctx'[u]] = 1
    BY <1>1, <1>3, <2>3 DEF DestroyContext, ctxVars
  <2>4. ASSUME NEW s \in Seqnos, WaitLookup(t, f, s)
        PROVE  refs'[tctx'[u]] = 1
    BY <1>1, <1>3, <2>4 DEF WaitLookup, ctxVars
  <2> QED  BY <1>6, <2>1, <2>2, <2>3, <2>4 DEF Ioctl
<1>7. CASE Worker
  <2>1. CASE WorkPut
    <3>1. pc[u] = "store" /\ tctx'[u] = tctx[u]
      BY <2>1 DEF WorkPut, threadVars
    <3>2. wseq \in Seqnos /\ subContext[wseq] \in Contexts
      BY <1>0, <2>1 DEF WorkOwnership, TypeOK, WorkPut, Pending, Running
    <3>3. subContext[wseq] # tctx[u]
      BY <3>1, <3>2, StoreIsSole DEF WorkHolding
    <3> QED  BY <1>1, <1>4, <2>1, <3>1, <3>2, <3>3 DEF WorkPut
  <2> QED  BY <1>2, <1>7, <2>1 DEF Worker, WorkStart, WorkSend, WorkPublish,
                                   WorkComplete, threadVars, ctxVars
<1>8. ASSUME NEW f \in Files, Open(f) \/ Close(f) \/ CloseStep(f)
      PROVE  refs'[tctx'[u]] = 1
  <2>1. ASSUME NEW c \in Contexts, CloseContext(f, c)
        PROVE  refs'[tctx'[u]] = 1
    <3>1. pc[u] = "store" /\ tctx'[u] = tctx[u]
      BY <2>1 DEF CloseContext, threadVars
    <3>2. c # tctx[u]
      BY <2>1, <3>1, StoreIsSole DEF CloseContext, FilesHolding
    <3> QED  BY <1>1, <1>4, <2>1, <3>1, <3>2 DEF CloseContext
  <2> QED  BY <1>2, <1>8, <2>1 DEF Open, Close, CloseStep, CloseFlush,
                                   CloseFree, threadVars, ctxVars
<1>9. CASE Disconnect \/ DisconnectStep \/ UNCHANGED vars
  BY <1>2, <1>9 DEF Disconnect, DisconnectStep, Unplug, DisconnectFlush,
                    DisconnectDone, DestroyWorkqueue, Unbind, vars, ctxVars,
                    threadVars
<1> QED  BY <1>5, <1>6, <1>7, <1>8, <1>9 DEF Next

\* The submission a thread prepares is new, unqueued, and its own.
SubmissionOwned ==
  \A t \in Threads :
    /\ Submitting(t) => /\ tseq[t] \in Seqnos
                        /\ tseq[t] <= nextSeqno
                        /\ subContext[tseq[t]] = NoContext
    /\ \A u \in Threads \ {t} :
         Submitting(t) /\ Submitting(u) => tseq[t] # tseq[u]

LEMMA SubmissionStep ==
  ASSUME Inductive, [Next]_vars
  PROVE  SubmissionOwned'
<1>0. TypeOK /\ SubmissionOwned /\ WorkOwnership
  BY DEF Inductive, IoctlOwnership, SubmissionOwned
<1>1. ASSUME UNCHANGED <<pc, tseq, nextSeqno, subContext>>
      PROVE  SubmissionOwned'
  BY <1>0, <1>1 DEF SubmissionOwned, Submitting
<1>2. ASSUME NEW t \in Threads, NEW f, NEW place, NEW c, NEW s,
             At(t, f, place, c, s), UNCHANGED <<nextSeqno, subContext>>,
             \/ place \notin {"insert", "queue"}
             \/ Submitting(t) /\ s = tseq[t]
      PROVE  SubmissionOwned'
  BY <1>0, <1>2 DEF At, TypeOK, SubmissionOwned, Submitting
<1>3. ASSUME NEW t \in Threads, ThreadStep(t)  PROVE SubmissionOwned'
  <2>1. CASE SubmitSeqno(t)
    <3>1. nextSeqno + 1 \in Seqnos /\ nextSeqno \in Nat
      BY <1>0, <2>1, MaxSeqnoAssumption DEF TypeOK, SubmitSeqno, Seqnos
    <3>2. subContext[nextSeqno + 1] = NoContext
      BY <1>0, <3>1 DEF WorkOwnership
    <3>3. \A u \in Threads : Submitting(u) => tseq[u] # nextSeqno + 1
      BY <1>0, <3>1 DEF SubmissionOwned, Seqnos
    <3>4. \A u \in Threads :
            /\ u # t => pc'[u] = pc[u] /\ tseq'[u] = tseq[u]
            /\ u = t => tseq'[u] = nextSeqno + 1
      BY <1>0, <2>1 DEF SubmitSeqno, Goto, At, TypeOK
    <3>5. \A u \in Threads : Submitting(u) => tseq[u] <= nextSeqno + 1
      BY <1>0, <3>1 DEF SubmissionOwned, Seqnos
    <3> QED  BY <1>0, <2>1, <3>1, <3>2, <3>3, <3>4, <3>5
             DEF SubmitSeqno, SubmissionOwned, Submitting
  <2>2. CASE SubmitQueue(t)
    <3>1. tseq[t] \in Seqnos /\ Submitting(t)
      BY <1>0, <2>2 DEF SubmissionOwned, SubmitQueue, Submitting
    <3>2. \A u \in Threads : Submitting(u)' =>
            u # t /\ Submitting(u) /\ tseq'[u] = tseq[u]
      BY <1>0, <2>2 DEF SubmitQueue, Return, At, TypeOK, Submitting
    <3>3. \A u \in Threads : Submitting(u)' =>
            subContext'[tseq[u]] = subContext[tseq[u]]
      BY <1>0, <2>2, <3>1, <3>2 DEF SubmitQueue, SubmissionOwned, TypeOK
    <3> QED  BY <1>0, <2>2, <3>2, <3>3 DEF SubmitQueue, SubmissionOwned
  <2>3. CASE SubmitInsert(t) \/ SubmitInsertFail(t) \/ SubmitAllocFail(t)
    BY <1>2, <2>3 DEF SubmitInsert, SubmitInsertFail, SubmitAllocFail, Goto,
                      Submitting, subVars
  <2>4. CASE CreateStore(t) \/ CreateStoreFail(t) \/ CreateReport(t)
               \/ PutAndReturn(t) \/ WaitReturn(t) \/ WaitGiveUp(t)
    BY <1>2, <2>4 DEF CreateStore, CreateStoreFail, CreateReport,
                      PutAndReturn, WaitReturn, WaitGiveUp, Goto, Return,
                      subVars
  <2> QED  BY <1>3, <2>1, <2>2, <2>3, <2>4 DEF ThreadStep
<1>4. ASSUME NEW t \in Threads, NEW f \in Files, Ioctl(t, f)
      PROVE  SubmissionOwned'
  BY <1>1, <1>2, <1>4
     DEF Ioctl, CreateContext, DestroyContext, SubmitLookup, WaitLookup,
         subVars, threadVars
<1>5. CASE Worker
  <2>1. CASE WorkPut
    <3>1. UNCHANGED <<pc, tseq, nextSeqno>>
      BY <2>1 DEF WorkPut, threadVars
    <3>2. \A s \in Seqnos : subContext[s] = NoContext
                              => subContext'[s] = NoContext
      BY <1>0, <2>1 DEF WorkPut, TypeOK
    <3> QED  BY <1>0, <3>1, <3>2 DEF SubmissionOwned, Submitting
  <2> QED  BY <1>1, <1>5, <2>1 DEF Worker, WorkStart, WorkSend, WorkPublish,
                                   WorkComplete, threadVars, subVars
<1>6. ASSUME NEW f \in Files, Open(f) \/ Close(f) \/ CloseStep(f)
      PROVE  SubmissionOwned'
  BY <1>1, <1>6 DEF Open, Close, CloseStep, CloseContext, CloseFlush,
                    CloseFree, threadVars, subVars
<1>7. CASE Disconnect \/ DisconnectStep \/ UNCHANGED vars
  BY <1>1, <1>7 DEF Disconnect, DisconnectStep, Unplug, DisconnectFlush,
                    DisconnectDone, DestroyWorkqueue, Unbind, vars, subVars,
                    threadVars
<1> QED  BY <1>3, <1>4, <1>5, <1>6, <1>7 DEF Next

LEMMA WorkStep ==
  ASSUME Inductive, [Next]_vars
  PROVE  WorkOwnership'
<1>0. TypeOK /\ WorkOwnership /\ IoctlOwnership /\ nextSeqno \in Nat
  BY MaxSeqnoAssumption DEF Inductive, TypeOK
<1>1. ASSUME UNCHANGED <<queue, wseq, subContext, nextSeqno>>,
             wpc = "idle" <=> wpc' = "idle"
      PROVE  WorkOwnership'
  BY <1>0, <1>1 DEF WorkOwnership, Pending, InQueue, Running
<1>2. ASSUME NEW t \in Threads, ThreadStep(t)  PROVE WorkOwnership'
  <2>1. CASE SubmitSeqno(t)
    BY <1>0, <2>1 DEF SubmitSeqno, WorkOwnership, Pending, InQueue, Running,
                      workerVars, Seqnos
  <2>2. CASE SubmitQueue(t)
    <3> DEFINE s == tseq[t]
    <3>1. /\ s \in Seqnos /\ s <= nextSeqno /\ subContext[s] = NoContext
          /\ tctx[t] \in Contexts
      BY <1>0, <2>2 DEF IoctlOwnership, SubmitQueue, Submitting, HoldingPcs
    <3>2. s \notin Pending
      BY <1>0, <3>1, NoContextAssumption DEF WorkOwnership
    <3>3. \A r \in Seqnos : subContext'[r] = IF r = s THEN tctx[t]
                                             ELSE subContext[r]
      BY <1>0, <2>2 DEF SubmitQueue, TypeOK
    <3>4. UNCHANGED <<wpc, wseq, nextSeqno>>
      BY <2>2 DEF SubmitQueue, workerVars
    <3>5. CASE queue' = queue
      <4>1. Pending' = Pending /\ Pending \subseteq Seqnos /\ InQueue' = InQueue
        BY <1>0, <3>4, <3>5 DEF Pending, InQueue, Running, TypeOK
      <4>2. \A r \in Pending' : subContext'[r] \in Contexts
        BY <1>0, <3>2, <3>3, <4>1 DEF WorkOwnership
      <4>3. \A r \in Seqnos : r > nextSeqno' => subContext'[r] = NoContext
        BY <1>0, <3>1, <3>3, <3>4 DEF WorkOwnership, Seqnos
      <4> QED  BY <1>0, <3>4, <3>5, <4>1, <4>2, <4>3 DEF WorkOwnership
    <3>6. CASE queue' = Append(queue, s)
      <4>1. queue \in Seq(Seqnos)
        BY <1>0 DEF TypeOK
      <4>2. /\ DOMAIN queue' = DOMAIN queue \cup {Len(queue) + 1}
            /\ queue'[Len(queue) + 1] = s
            /\ \A i \in DOMAIN queue : queue'[i] = queue[i]
            /\ Len(queue) + 1 \notin DOMAIN queue
        BY <3>1, <3>6, <4>1
      <4>3. InQueue' = InQueue \cup {s}
        BY <4>2 DEF InQueue
      <4>4. Pending' = Pending \cup {s}
        BY <3>4, <4>3 DEF Pending, Running
      <4>10. Pending \subseteq Seqnos
        BY <1>0, <4>1 DEF Pending, InQueue, Running, TypeOK
      <4>5. \A r \in Pending' : subContext'[r] \in Contexts
        BY <1>0, <3>1, <3>2, <3>3, <4>4, <4>10 DEF WorkOwnership
      <4>6. \A r \in Seqnos : r > nextSeqno' => subContext'[r] = NoContext
        BY <1>0, <3>1, <3>3, <3>4 DEF WorkOwnership, Seqnos
      <4>7. \A i \in DOMAIN queue : queue[i] # s
        BY <3>2 DEF Pending, InQueue
      <4>8. wpc' # "idle" => wseq' \notin InQueue'
        BY <1>0, <3>2, <3>4, <4>3 DEF WorkOwnership, Pending, Running
      <4>9. \A i, j \in DOMAIN queue' : queue'[i] = queue'[j] => i = j
        BY <1>0, <4>2, <4>7 DEF WorkOwnership
      <4> QED  BY <4>5, <4>6, <4>8, <4>9 DEF WorkOwnership
    <3> QED  BY <2>2, <3>5, <3>6 DEF SubmitQueue
  <2>3. CASE CreateStore(t) \/ CreateStoreFail(t) \/ CreateReport(t)
               \/ PutAndReturn(t) \/ WaitReturn(t) \/ WaitGiveUp(t)
               \/ SubmitInsert(t) \/ SubmitInsertFail(t) \/ SubmitAllocFail(t)
    BY <1>1, <2>3 DEF CreateStore, CreateStoreFail, CreateReport,
                      PutAndReturn, WaitReturn, WaitGiveUp, SubmitInsert,
                      SubmitInsertFail, SubmitAllocFail, subVars, workerVars
  <2> QED  BY <1>2, <2>1, <2>2, <2>3 DEF ThreadStep
<1>3. ASSUME NEW t \in Threads, NEW f \in Files, Ioctl(t, f)
      PROVE  WorkOwnership'
  BY <1>1, <1>3 DEF Ioctl, CreateContext, DestroyContext, SubmitLookup,
                    WaitLookup, subVars, workerVars
<1>4. CASE Worker
  <2>1. CASE WorkStart
    <3> DEFINE s == Head(queue)
    <3>1. /\ queue \in Seq(Seqnos) /\ queue # <<>> /\ queue' = Tail(queue)
          /\ wseq' = s /\ wpc' # "idle"
          /\ UNCHANGED <<subContext, nextSeqno>>
      BY <1>0, <2>1 DEF WorkStart, TypeOK, subVars
    <3>2. /\ \A i \in DOMAIN queue' : i + 1 \in DOMAIN queue
                                       /\ queue'[i] = queue[i + 1]
          /\ 1 \in DOMAIN queue /\ s = queue[1]
          /\ DOMAIN queue' \subseteq Nat \ {0}
      BY <3>1
    <3>3. \A i \in DOMAIN queue' : queue'[i] # s
      BY <1>0, <3>2 DEF WorkOwnership
    <3>4. \A i, j \in DOMAIN queue' : queue'[i] = queue'[j] => i = j
      <4> SUFFICES ASSUME NEW i \in DOMAIN queue', NEW j \in DOMAIN queue',
                          queue'[i] = queue'[j]
                   PROVE  i = j
        OBVIOUS
      <4>1. i + 1 = j + 1
        BY <1>0, <3>2 DEF WorkOwnership
      <4> QED  BY <3>2, <4>1
    <3>5. InQueue' \subseteq InQueue /\ s \in InQueue
      BY <3>2 DEF InQueue
    <3>6. Pending' \subseteq Pending
      BY <3>1, <3>5 DEF Pending, Running
    <3>7. \A r \in Pending' : subContext'[r] \in Contexts
      BY <1>0, <3>1, <3>6 DEF WorkOwnership
    <3>8. wseq' \notin InQueue'
      BY <3>1, <3>3 DEF InQueue
    <3> QED  BY <1>0, <3>1, <3>4, <3>7, <3>8 DEF WorkOwnership
  <2>2. CASE WorkPut
    <3>1. /\ UNCHANGED <<queue, nextSeqno>> /\ wpc' = "idle"
          /\ wpc # "idle"
          /\ \A r \in Seqnos : subContext'[r] = IF r = wseq THEN NoContext
                                                ELSE subContext[r]
      BY <1>0, <2>2 DEF WorkPut, TypeOK
    <3>2. Pending' = InQueue /\ InQueue \subseteq Pending
          /\ wseq \notin InQueue /\ InQueue \subseteq Seqnos
      BY <1>0, <3>1 DEF Pending, InQueue, Running, WorkOwnership, TypeOK
    <3>3. \A r \in Pending' : subContext'[r] \in Contexts
      BY <1>0, <3>1, <3>2 DEF WorkOwnership
    <3>4. \A r \in Seqnos : r > nextSeqno' => subContext'[r] = NoContext
      BY <1>0, <3>1 DEF WorkOwnership
    <3> QED  BY <1>0, <3>1, <3>3, <3>4 DEF WorkOwnership
  <2>3. CASE WorkSend \/ WorkPublish \/ WorkComplete
    BY <1>1, <2>3 DEF WorkSend, WorkPublish, WorkComplete, subVars
  <2> QED  BY <1>4, <2>1, <2>2, <2>3 DEF Worker
<1>5. ASSUME NEW f \in Files, Open(f) \/ Close(f) \/ CloseStep(f)
      PROVE  WorkOwnership'
  BY <1>1, <1>5 DEF Open, Close, CloseStep, CloseContext, CloseFlush,
                    CloseFree, workerVars, subVars
<1>6. CASE Disconnect \/ DisconnectStep \/ UNCHANGED vars
  BY <1>1, <1>6 DEF Disconnect, DisconnectStep, Unplug, DisconnectFlush,
                    DisconnectDone, DestroyWorkqueue, Unbind, vars, subVars,
                    workerVars
<1> QED  BY <1>2, <1>3, <1>4, <1>5, <1>6 DEF Next

\* The remote object goes only with the last reference.
LEMMA LiveStep ==
  ASSUME Inductive, [Next]_vars
  PROVE  AllocatedIsLive'
<1>0. TypeOK /\ AllocatedIsLive
  BY DEF Inductive
<1>1. ASSUME UNCHANGED ctxVars  PROVE AllocatedIsLive'
  BY <1>0, <1>1 DEF AllocatedIsLive, ctxVars
<1>2. ASSUME NEW c \in Contexts, PutContext(c)  PROVE AllocatedIsLive'
  <2>1. \A d \in Contexts \ {c} : refs'[d] = refs[d] /\ remote'[d] = remote[d]
    BY <1>0, <1>2 DEF PutContext, TypeOK
  <2>2. refs[c] \in Nat /\ refs'[c] = refs[c] - 1
    BY <1>0, <1>2 DEF PutContext, TypeOK
  <2>3. refs[c] # 1 => remote' = remote
    BY <1>2 DEF PutContext
  <2> QED  BY <1>0, <2>1, <2>2, <2>3 DEF AllocatedIsLive
<1>3. ASSUME NEW t \in Threads, ThreadStep(t)  PROVE AllocatedIsLive'
  <2>1. CASE CreateStoreFail(t)
    <3>1. /\ refs' = [refs EXCEPT ![tctx[t]] = 0]
          /\ \A d \in Contexts \ {tctx[t]} : remote'[d] = remote[d]
      BY <1>0, <2>1 DEF CreateStoreFail, TypeOK
    <3> QED  BY <1>0, <3>1 DEF AllocatedIsLive, TypeOK
  <2>2. CASE PutAndReturn(t)
    <3>1. tctx[t] \in Contexts
      BY <2>2 DEF Inductive, IoctlOwnership, PutAndReturn, HoldingPcs
    <3> QED  BY <1>2, <2>2, <3>1 DEF PutAndReturn
  <2> QED  BY <1>1, <1>3, <2>1, <2>2
           DEF ThreadStep, CreateStore, CreateReport, SubmitAllocFail,
               SubmitSeqno, SubmitInsert, SubmitInsertFail, SubmitQueue,
               WaitReturn, WaitGiveUp
<1>4. ASSUME NEW t \in Threads, NEW f \in Files, Ioctl(t, f)
      PROVE  AllocatedIsLive'
  <2>1. ASSUME NEW c \in Contexts, CreateContext(t, f, c)
        PROVE  AllocatedIsLive'
    <3>1. /\ remote' = [remote EXCEPT ![c] = "live"]
          /\ refs' = refs \/ refs' = [refs EXCEPT ![c] = 1]
      BY <2>1 DEF CreateContext
    <3> QED  BY <1>0, <3>1 DEF AllocatedIsLive, TypeOK
  <2>2. ASSUME NEW c \in Contexts, SubmitLookup(t, f, c)
        PROVE  AllocatedIsLive'
    <3>1. /\ refs[c] > 0 /\ refs' = [refs EXCEPT ![c] = @ + 1]
          /\ remote' = remote
      BY <2>2 DEF SubmitLookup
    <3> QED  BY <1>0, <3>1 DEF AllocatedIsLive, TypeOK
  <2> QED  BY <1>1, <1>4, <2>1, <2>2 DEF Ioctl, DestroyContext, WaitLookup
<1>5. CASE Worker
  <2>1. CASE WorkPut
    <3>1. subContext[wseq] \in Contexts
      BY <2>1 DEF Inductive, WorkOwnership, WorkPut, Pending, Running
    <3> QED  BY <1>2, <2>1, <3>1 DEF WorkPut
  <2> QED  BY <1>1, <1>5, <2>1 DEF Worker, WorkStart, WorkSend, WorkPublish,
                                   WorkComplete
<1>6. ASSUME NEW f \in Files, Open(f) \/ Close(f) \/ CloseStep(f)
      PROVE  AllocatedIsLive'
  BY <1>1, <1>2, <1>6 DEF Open, Close, CloseStep, CloseContext, CloseFlush,
                          CloseFree
<1>7. CASE Disconnect \/ DisconnectStep \/ UNCHANGED vars
  BY <1>1, <1>7 DEF Disconnect, DisconnectStep, Unplug, DisconnectFlush,
                    DisconnectDone, DestroyWorkqueue, Unbind, vars
<1> QED  BY <1>3, <1>4, <1>5, <1>6, <1>7 DEF Next

------------------------------------------------------------------------------
(* The theorems                                                            *)

\* probe leaves no context, no submission and no owner.
LEMMA InitInductive ==
  ASSUME Init
  PROVE  Inductive
<1>1. TypeOK
  <2>1. queue \in Seq(Seqnos) /\ 0 \in 0 .. MaxSeqno
    BY MaxSeqnoAssumption DEF Init
  <2> QED  BY <2>1 DEF Init, TypeOK, FilePhases, WorkerPcs, ThreadPcs,
                       HoldingPcs, DevPhases, Final
<1>2. RefsMatchHolders
  <2>1. \A c \in Contexts : /\ FilesHolding(c) = {} /\ ThreadsHolding(c) = {}
                            /\ WorkHolding(c) = {} /\ refs[c] = 0
    BY NoContextAssumption
       DEF Init, FilesHolding, ThreadsHolding, WorkHolding, HoldingPcs
  <2> QED  BY <2>1, FS_EmptySet DEF RefsMatchHolders
<1>3. IoctlOwnership /\ WorkOwnership /\ AllocatedIsLive
  BY DEF Init, IoctlOwnership, WorkOwnership, AllocatedIsLive, HoldingPcs,
         Submitting, Pending, InQueue, Running
<1> QED  BY <1>1, <1>2, <1>3 DEF Inductive

\* Every step keeps the inductive invariant.
LEMMA StepInductive ==
  ASSUME Inductive, [Next]_vars
  PROVE  Inductive'
<1>1. IoctlOwnership'
  BY OwnsStep, StoreStep, SubmissionStep DEF IoctlOwnership, SubmissionOwned
<1> QED  BY <1>1, TypeStep, CountStep, WorkStep, LiveStep DEF Inductive

\* The inductive invariant of the render node holds in every reachable state.
THEOREM InductiveInvariant == Spec => []Inductive
<1>1. Init => Inductive
  BY InitInductive
<1>2. Inductive /\ [Next]_vars => Inductive'
  BY StepInductive
<1> QED  BY <1>1, <1>2, PTL DEF Spec

\* Type correctness: in particular a reference count never underflows.
THEOREM TypeCorrect == Spec => []TypeOK
<1>1. Inductive => TypeOK
  BY DEF Inductive
<1> QED  BY <1>1, InductiveInvariant, PTL

\* context->refs counts exactly the tables, the ioctls and the queued work that
\* own the context, so grape_gpu_context_put frees it neither early nor late.
THEOREM ReferenceCounts == Spec => []RefsMatchHolders
<1>1. Inductive => RefsMatchHolders
  BY DEF Inductive
<1> QED  BY <1>1, InductiveInvariant, PTL

\* grape_gpu_submit_work sends commands only to a context object the device
\* has: no destroy or close overtakes a submission that was accepted.
THEOREM SubmitsReachLiveContext == Spec => []SubmitOnLiveContext
<1>1. ASSUME Inductive  PROVE SubmitOnLiveContext
  <2> SUFFICES ASSUME wpc = "send"
               PROVE  /\ subContext[wseq] \in Contexts
                      /\ remote[subContext[wseq]] = "live"
    BY DEF SubmitOnLiveContext
  <2>1. /\ wseq \in Seqnos /\ subContext[wseq] \in Contexts
        /\ wseq \in WorkHolding(subContext[wseq])
    BY <1>1 DEF Inductive, WorkOwnership, Pending, Running, TypeOK,
                WorkHolding
  <2>2. refs[subContext[wseq]] > 0
    BY <1>1, <2>1, OwnersKeepAllocated DEF Inductive
  <2> QED  BY <1>1, <2>1, <2>2 DEF Inductive, AllocatedIsLive
<1> QED  BY <1>1, InductiveInvariant, PTL

------------------------------------------------------------------------------
(* The allocation of submissions                                           *)

\* Where the submission a thread names lives: unnamed but in SUBMIT and WAIT,
\* the thread's own until xa_store, in the table of its open file afterwards.
NamedBy(t) ==
  /\ pc[t] # "idle" => fileState[tfile[t]] = "open"
  /\ pc[t] \notin {"insert", "queue", "wait"} => tseq[t] = 0
  /\ pc[t] = "insert" => \A f \in Files : tseq[t] \notin submissions[f]
  /\ pc[t] \in {"queue", "wait"} => tseq[t] \in submissions[tfile[t]]

\* The tables are disjoint and hold numbers already given out.
TablesDisjoint ==
  /\ \A f, g \in Files : f # g => submissions[f] \cap submissions[g] = {}
  /\ \A f \in Files : \A s \in submissions[f] : s <= nextSeqno

\* A running flush waits for every submission of its file that is pending.
FlushCovers ==
  \A f \in Files :
    fileState[f] = "flushing"
      => submissions[f] \cap Pending \subseteq barrier[f]

Allocation == /\ SubmissionsStayAllocated
              /\ \A t \in Threads : NamedBy(t)
              /\ TablesDisjoint
              /\ FlushCovers

\* What a move of thread t leaves to the others.
LEMMA Moves ==
  ASSUME TypeOK, NEW t \in Threads, NEW f, NEW place, NEW c, NEW s,
         At(t, f, place, c, s)
  PROVE  /\ pc'[t] = place /\ tfile'[t] = f /\ tseq'[t] = s
         /\ \A u \in Threads \ {t} : /\ pc'[u] = pc[u] /\ tfile'[u] = tfile[u]
                                     /\ tseq'[u] = tseq[u]
  BY DEF TypeOK, At

\* Work that pends is numbered.
LEMMA PendingNumbered ==
  ASSUME TypeOK
  PROVE  Pending \subseteq Seqnos
  BY DEF TypeOK, Pending, InQueue, Running

\* Only queue_work adds to what the workqueue has.
LEMMA PendingStep ==
  ASSUME Inductive, [Next]_vars,
         ~ Pending' \subseteq Pending
  PROVE  \E t \in Threads : /\ SubmitQueue(t)
                            /\ Pending' \subseteq Pending \cup {tseq[t]}
<1>q. queue \in Seq(Seqnos)
  BY DEF Inductive, TypeOK
<1>1. ASSUME UNCHANGED <<queue, wseq>>, wpc' = "idle" \/ wpc # "idle"
      PROVE  Pending' \subseteq Pending
  BY <1>1 DEF Pending, InQueue, Running
<1>2. ASSUME NEW t \in Threads, ThreadStep(t)
      PROVE  SubmitQueue(t) /\ Pending' \subseteq Pending \cup {tseq[t]}
  <2>1. CASE SubmitQueue(t)
    <3>1. UNCHANGED <<wpc, wseq>> /\ tseq[t] \in Seqnos
      BY <2>1 DEF Inductive, IoctlOwnership, Submitting, SubmitQueue,
                  workerVars
    <3>2. CASE queue' = queue
      BY <2>1, <3>1, <3>2 DEF Pending, InQueue, Running
    <3>3. CASE queue' = Append(queue, tseq[t])
      <4>1. InQueue' \subseteq InQueue \cup {tseq[t]}
        BY <1>q, <3>1, <3>3 DEF InQueue
      <4> QED  BY <2>1, <3>1, <4>1 DEF Pending, Running
    <3> QED  BY <2>1, <3>2, <3>3 DEF SubmitQueue
  <2>2. CASE ~SubmitQueue(t)
    <3>1. UNCHANGED <<queue, workerVars>>
      BY <1>2, <2>2 DEF ThreadStep, CreateStore, CreateStoreFail,
                        CreateReport, PutAndReturn, SubmitAllocFail,
                        SubmitSeqno, SubmitInsert, SubmitInsertFail,
                        WaitReturn, WaitGiveUp
    <3> QED  BY <1>1, <3>1 DEF workerVars
  <2> QED  BY <2>1, <2>2
<1>3. ASSUME NEW t \in Threads, NEW f \in Files, Ioctl(t, f)
      PROVE  FALSE
  BY <1>1, <1>3 DEF Ioctl, CreateContext, DestroyContext, SubmitLookup,
                    WaitLookup, workerVars
<1>4. CASE Worker
  <2>1. CASE WorkStart
    <3>1. queue # <<>> /\ queue' = Tail(queue) /\ wseq' = Head(queue)
      BY <2>1 DEF WorkStart
    <3>2. Head(queue) \in InQueue
      BY <1>q, <3>1 DEF InQueue
    <3>3. \A i \in DOMAIN queue' : /\ i + 1 \in DOMAIN queue
                                   /\ queue'[i] = queue[i + 1]
      BY <1>q, <3>1
    <3>4. InQueue' \subseteq InQueue
      BY <3>3 DEF InQueue
    <3> QED  BY <3>1, <3>2, <3>4 DEF Pending, Running
  <2>2. CASE WorkPut
    BY <2>2 DEF WorkPut, Pending, InQueue, Running
  <2> QED  BY <1>1, <1>4, <2>1, <2>2 DEF Worker, WorkSend, WorkPublish,
                                         WorkComplete
<1>5. ASSUME NEW f \in Files, Open(f) \/ Close(f) \/ CloseStep(f)
      PROVE  FALSE
  BY <1>1, <1>5 DEF Open, Close, CloseStep, CloseContext, CloseFlush,
                    CloseFree, workerVars
<1>6. CASE Disconnect \/ DisconnectStep \/ UNCHANGED vars
  BY <1>1, <1>6 DEF Disconnect, DisconnectStep, Unplug, DisconnectFlush,
                    DisconnectDone, DestroyWorkqueue, Unbind, vars, workerVars
<1> QED  BY <1>2, <1>3, <1>4, <1>5, <1>6 DEF Next

\* A thread names a submission only where its file's table or itself keeps it.
LEMMA NamedStep ==
  ASSUME Inductive, Allocation, [Next]_vars
  PROVE  \A u \in Threads : NamedBy(u)'
<1>0. /\ TypeOK /\ IoctlOwnership
      /\ \A u \in Threads : NamedBy(u)
      /\ TablesDisjoint
      /\ nextSeqno \in Nat
  BY MaxSeqnoAssumption DEF Inductive, Allocation, TypeOK
<1>1. ASSUME UNCHANGED <<threadVars, fileState, submissions>>
      PROVE  \A u \in Threads : NamedBy(u)'
  BY <1>0, <1>1 DEF NamedBy, threadVars
\* A thread that names nothing afterwards.
<1>2. ASSUME NEW t \in Threads, NEW f, NEW place, NEW c, At(t, f, place, c, 0),
             place \notin {"insert", "queue", "wait"},
             place # "idle" => fileState[f] = "open",
             UNCHANGED <<fileState, submissions>>
      PROVE  \A u \in Threads : NamedBy(u)'
  <2>1. NamedBy(t)'
    BY <1>0, <1>2, Moves DEF NamedBy
  <2>2. \A u \in Threads \ {t} : NamedBy(u)'
    BY <1>0, <1>2, Moves DEF NamedBy
  <2> QED  BY <2>1, <2>2
<1>3. ASSUME NEW t \in Threads, ThreadStep(t)
      PROVE  \A u \in Threads : NamedBy(u)'
  <2>0. pc[t] # "idle" => fileState[tfile[t]] = "open" /\ tfile[t] \in Files
    BY <1>0 DEF NamedBy, IoctlOwnership
  <2>1. CASE CreateStore(t) \/ CreateReport(t) \/ CreateStoreFail(t)
               \/ PutAndReturn(t) \/ SubmitAllocFail(t) \/ SubmitInsertFail(t)
               \/ WaitReturn(t) \/ WaitGiveUp(t)
    BY <1>2, <2>0, <2>1 DEF CreateStore, CreateReport, CreateStoreFail,
                            PutAndReturn, SubmitAllocFail, SubmitInsertFail,
                            WaitReturn, WaitGiveUp, Goto, Return, fileVars
  <2>2. CASE SubmitSeqno(t)
    <3>1. /\ At(t, tfile[t], "insert", tctx[t], nextSeqno + 1)
          /\ fileState[tfile[t]] = "open"
          /\ UNCHANGED <<fileState, submissions>>
      BY <2>0, <2>2 DEF SubmitSeqno, Goto, fileVars
    <3>2. \A g \in Files : nextSeqno + 1 \notin submissions[g]
      BY <1>0 DEF TablesDisjoint
    <3>3. NamedBy(t)'
      BY <1>0, <3>1, <3>2, Moves DEF NamedBy
    <3>4. \A u \in Threads \ {t} : NamedBy(u)'
      BY <1>0, <3>1, Moves DEF NamedBy
    <3> QED  BY <3>3, <3>4
  <2>3. CASE SubmitInsert(t)
    <3>1. /\ At(t, tfile[t], "queue", tctx[t], tseq[t])
          /\ pc[t] = "insert"
          /\ fileState[tfile[t]] = "open" /\ tfile[t] \in Files
          /\ UNCHANGED fileState
      BY <2>0, <2>3 DEF SubmitInsert, Goto
    <3>2. \A g \in Files : submissions'[g] = IF g = tfile[t]
                                             THEN submissions[g] \cup {tseq[t]}
                                             ELSE submissions[g]
      BY <1>0, <2>3 DEF SubmitInsert, TypeOK
    <3>3. NamedBy(t)'
      <4>1. /\ pc'[t] = "queue" /\ tfile'[t] = tfile[t] /\ tseq'[t] = tseq[t]
            /\ fileState'[tfile[t]] = "open"
        BY <1>0, <3>1, Moves
      <4>2. tseq[t] \in submissions'[tfile[t]]
        BY <3>1, <3>2
      <4> QED  BY <4>1, <4>2 DEF NamedBy
    <3>4. ASSUME NEW u \in Threads \ {t}  PROVE NamedBy(u)'
      <4>1. pc'[u] = pc[u] /\ tfile'[u] = tfile[u] /\ tseq'[u] = tseq[u]
        BY <1>0, <3>1, Moves
      <4>2. pc[u] = "insert" => tseq[u] # tseq[t]
        BY <1>0, <3>1 DEF IoctlOwnership, Submitting
      <4>3. pc[u] # "idle" => tfile[u] \in Files
        BY <1>0 DEF IoctlOwnership
      <4>4. NamedBy(u) /\ fileState' = fileState
        BY <1>0, <3>1
      <4>5. CASE pc[u] = "insert"
        <5>1. \A g \in Files : tseq[u] \notin submissions'[g]
          BY <3>2, <4>2, <4>4, <4>5 DEF NamedBy
        <5> QED  BY <4>1, <4>4, <4>5, <5>1 DEF NamedBy
      <4>6. CASE pc[u] \in {"queue", "wait"}
        <5>1. tseq[u] \in submissions'[tfile[u]]
          BY <3>2, <4>3, <4>4, <4>6 DEF NamedBy
        <5> QED  BY <4>1, <4>4, <4>6, <5>1 DEF NamedBy
      <4>7. CASE pc[u] \notin {"insert", "queue", "wait"}
        BY <4>1, <4>4, <4>7 DEF NamedBy
      <4> QED  BY <4>5, <4>6, <4>7
    <3> QED  BY <3>3, <3>4
  <2>4. CASE SubmitQueue(t)
    BY <1>2, <2>4 DEF SubmitQueue, Return, fileVars
  <2> QED  BY <1>3, <2>1, <2>2, <2>3, <2>4 DEF ThreadStep
<1>4. ASSUME NEW t \in Threads, NEW f \in Files, Ioctl(t, f)
      PROVE  \A u \in Threads : NamedBy(u)'
  <2>1. ASSUME NEW s \in Seqnos, WaitLookup(t, f, s)
        PROVE  \A u \in Threads : NamedBy(u)'
    <3>1. /\ At(t, f, "wait", NoContext, s)
          /\ fileState[f] = "open" /\ s \in submissions[f]
          /\ UNCHANGED <<fileState, submissions>>
      BY <2>1 DEF WaitLookup, MayEnter, fileVars
    <3>2. NamedBy(t)'
      BY <1>0, <3>1, Moves DEF NamedBy
    <3>3. \A u \in Threads \ {t} : NamedBy(u)'
      BY <1>0, <3>1, Moves DEF NamedBy
    <3> QED  BY <3>2, <3>3
  <2>2. ASSUME NEW c \in Contexts,
               CreateContext(t, f, c) \/ DestroyContext(t, f, c)
                 \/ SubmitLookup(t, f, c)
        PROVE  \A u \in Threads : NamedBy(u)'
    BY <1>1, <1>2, <2>2 DEF CreateContext, DestroyContext, SubmitLookup,
                            MayEnter, fileVars
  <2> QED  BY <1>4, <2>1, <2>2 DEF Ioctl
<1>5. CASE Worker
  BY <1>1, <1>5 DEF Worker, WorkStart, WorkSend, WorkPublish, WorkComplete,
                    WorkPut, fileVars
\* A postclose meets no ioctl in flight on its file.
<1>6. ASSUME NEW f \in Files, Open(f) \/ Close(f) \/ CloseStep(f)
      PROVE  \A u \in Threads : NamedBy(u)'
  <2>1. ASSUME NEW u \in Threads  PROVE NamedBy(u)'
    <3>1. UNCHANGED threadVars
      BY <1>6 DEF Open, Close, CloseStep, CloseContext, CloseFlush, CloseFree
    <3>2. /\ \A g \in Files \ {f} : /\ fileState'[g] = fileState[g]
                                    /\ submissions'[g] = submissions[g]
          /\ submissions'[f] \subseteq submissions[f]
      BY <1>0, <1>6 DEF Open, Close, CloseStep, CloseContext, CloseFlush,
                        CloseFree, TypeOK
    <3>3. pc[u] # "idle" => tfile[u] \in Files
      BY <1>0 DEF IoctlOwnership
    <3>4. pc[u] # "idle" /\ tfile[u] = f => /\ fileState[f] = "open"
                                            /\ InFlight(f) # {}
      BY <1>0 DEF NamedBy, InFlight
    <3>5. fileState[f] = "open" /\ InFlight(f) # {} => FALSE
      BY <1>6 DEF Open, Close, CloseStep, CloseContext, CloseFlush, CloseFree
    <3> QED  BY <1>0, <3>1, <3>2, <3>3, <3>4, <3>5 DEF NamedBy, threadVars
  <2> QED  BY <2>1
<1>7. CASE Disconnect \/ DisconnectStep \/ UNCHANGED vars
  BY <1>1, <1>7 DEF Disconnect, DisconnectStep, Unplug, DisconnectFlush,
                    DisconnectDone, DestroyWorkqueue, Unbind, vars, fileVars
<1> QED  BY <1>3, <1>4, <1>5, <1>6, <1>7 DEF Next

\* xa_store adds a number that is the thread's own, postclose empties a table.
LEMMA TablesStep ==
  ASSUME Inductive, Allocation, [Next]_vars
  PROVE  TablesDisjoint'
<1>0. /\ TypeOK /\ IoctlOwnership /\ TablesDisjoint
      /\ \A u \in Threads : NamedBy(u)
      /\ nextSeqno \in Nat
  BY MaxSeqnoAssumption DEF Inductive, Allocation, TypeOK
<1>1. ASSUME UNCHANGED <<submissions, nextSeqno>>  PROVE TablesDisjoint'
  BY <1>0, <1>1 DEF TablesDisjoint
<1>2. ASSUME NEW t \in Threads, ThreadStep(t)  PROVE TablesDisjoint'
  <2>1. CASE SubmitSeqno(t)
    <3>1. submissions' = submissions /\ nextSeqno' = nextSeqno + 1
      BY <2>1 DEF SubmitSeqno, fileVars
    <3>2. \A f \in Files : \A s \in submissions[f] : s \in Nat
      BY <1>0 DEF TypeOK, Seqnos
    <3> QED  BY <1>0, <3>1, <3>2 DEF TablesDisjoint
  <2>2. CASE SubmitInsert(t)
    <3>1. /\ tseq[t] <= nextSeqno
          /\ \A f \in Files : tseq[t] \notin submissions[f]
          /\ nextSeqno' = nextSeqno
      BY <1>0, <2>2 DEF SubmitInsert, IoctlOwnership, Submitting, NamedBy,
                        subVars
    <3>2. \A g \in Files : submissions'[g] = IF g = tfile[t]
                                             THEN submissions[g] \cup {tseq[t]}
                                             ELSE submissions[g]
      BY <1>0, <2>2 DEF SubmitInsert, TypeOK
    <3>3. \A f \in Files : \A s \in submissions'[f] : s <= nextSeqno'
      <4> SUFFICES ASSUME NEW f \in Files, NEW s \in submissions'[f]
                   PROVE  s <= nextSeqno
        BY <3>1
      <4>1. s \in submissions[f] \/ s = tseq[t]
        BY <3>2
      <4> QED  BY <1>0, <3>1, <4>1 DEF TablesDisjoint
    <3>4. \A f, g \in Files : f # g => submissions'[f] \cap submissions'[g] = {}
      <4> SUFFICES ASSUME NEW f \in Files, NEW g \in Files, f # g,
                          NEW s \in submissions'[f], s \in submissions'[g]
                   PROVE  FALSE
        OBVIOUS
      <4>1. ~ (s \in submissions[f] /\ s \in submissions[g])
        BY <1>0 DEF TablesDisjoint
      <4> QED  BY <3>1, <3>2, <4>1
    <3> QED  BY <3>3, <3>4 DEF TablesDisjoint
  <2> QED  BY <1>1, <1>2, <2>1, <2>2
           DEF ThreadStep, CreateStore, CreateStoreFail, CreateReport,
               PutAndReturn, SubmitAllocFail, SubmitInsertFail, SubmitQueue,
               WaitReturn, WaitGiveUp, fileVars, subVars
<1>3. ASSUME NEW t \in Threads, NEW f \in Files, Ioctl(t, f)
      PROVE  TablesDisjoint'
  BY <1>1, <1>3 DEF Ioctl, CreateContext, DestroyContext, SubmitLookup,
                    WaitLookup, fileVars, subVars
<1>4. CASE Worker
  BY <1>1, <1>4 DEF Worker, WorkStart, WorkSend, WorkPublish, WorkComplete,
                    WorkPut, fileVars, subVars
<1>5. ASSUME NEW f \in Files, Open(f) \/ Close(f) \/ CloseStep(f)
      PROVE  TablesDisjoint'
  <2>1. CASE CloseFree(f)
    <3>1. /\ \A g \in Files : submissions'[g] \subseteq submissions[g]
          /\ nextSeqno' = nextSeqno
      BY <1>0, <2>1 DEF CloseFree, TypeOK
    <3> QED  BY <1>0, <3>1 DEF TablesDisjoint
  <2> QED  BY <1>1, <1>5, <2>1 DEF Open, Close, CloseStep, CloseContext,
                                   CloseFlush, subVars
<1>6. CASE Disconnect \/ DisconnectStep \/ UNCHANGED vars
  BY <1>1, <1>6 DEF Disconnect, DisconnectStep, Unplug, DisconnectFlush,
                    DisconnectDone, DestroyWorkqueue, Unbind, vars, fileVars,
                    subVars
<1> QED  BY <1>2, <1>3, <1>4, <1>5, <1>6 DEF Next

\* A flush that runs waits for what the file has pending: later submissions of
\* other files are not in its table.
LEMMA FlushStep ==
  ASSUME Inductive, Allocation, [Next]_vars
  PROVE  FlushCovers'
<1>0. /\ TypeOK /\ IoctlOwnership /\ TablesDisjoint /\ FlushCovers
      /\ \A u \in Threads : NamedBy(u)
  BY DEF Inductive, Allocation
\* The tables of flushing files and their barriers stay; work pends no longer.
<1>1. ASSUME UNCHANGED <<fileState, submissions, barrier>>  PROVE FlushCovers'
  <2>1. CASE Pending' \subseteq Pending
    BY <1>0, <1>1, <2>1 DEF FlushCovers
  <2>2. CASE ~ Pending' \subseteq Pending
    <3>1. PICK t \in Threads : /\ SubmitQueue(t)
                               /\ Pending' \subseteq Pending \cup {tseq[t]}
      BY <2>2, PendingStep
    <3>2. /\ tfile[t] \in Files /\ fileState[tfile[t]] = "open"
          /\ tseq[t] \in submissions[tfile[t]]
      BY <1>0, <3>1 DEF SubmitQueue, IoctlOwnership, NamedBy
    <3>3. \A f \in Files :
            fileState[f] = "flushing" => tseq[t] \notin submissions[f]
      BY <1>0, <3>2 DEF TablesDisjoint
    <3> QED  BY <1>0, <1>1, <3>1, <3>3 DEF FlushCovers
  <2> QED  BY <2>1, <2>2
<1>2. ASSUME NEW t \in Threads, ThreadStep(t)  PROVE FlushCovers'
  <2>1. CASE SubmitInsert(t)
    <3>1. fileState[tfile[t]] = "open"
      BY <1>0, <2>1 DEF SubmitInsert, NamedBy
    <3>2. \A g \in Files \ {tfile[t]} : submissions'[g] = submissions[g]
      BY <1>0, <2>1 DEF SubmitInsert, TypeOK
    <3>3. UNCHANGED <<fileState, barrier, queue, wpc, wseq>>
      BY <2>1 DEF SubmitInsert, workerVars
    <3>4. Pending' = Pending
      BY <3>3 DEF Pending, InQueue, Running
    <3> QED  BY <1>0, <3>1, <3>2, <3>3, <3>4 DEF FlushCovers
  <2> QED  BY <1>1, <1>2, <2>1
           DEF ThreadStep, CreateStore, CreateStoreFail, CreateReport,
               PutAndReturn, SubmitAllocFail, SubmitSeqno, SubmitInsertFail,
               SubmitQueue, WaitReturn, WaitGiveUp, fileVars
<1>3. ASSUME NEW t \in Threads, NEW f \in Files, Ioctl(t, f)
      PROVE  FlushCovers'
  BY <1>1, <1>3 DEF Ioctl, CreateContext, DestroyContext, SubmitLookup,
                    WaitLookup, fileVars
<1>4. CASE Worker
  BY <1>1, <1>4 DEF Worker, WorkStart, WorkSend, WorkPublish, WorkComplete,
                    WorkPut, fileVars
<1>5. ASSUME NEW f \in Files, Open(f) \/ Close(f) \/ CloseStep(f)
      PROVE  FlushCovers'
  <2>1. UNCHANGED <<queue, wpc, wseq>>
    BY <1>5 DEF Open, Close, CloseStep, CloseContext, CloseFlush, CloseFree,
                workerVars
  <2>2. Pending' = Pending
    BY <2>1 DEF Pending, InQueue, Running
  <2>3. CASE CloseFlush(f)
    <3>1. /\ fileState' = [fileState EXCEPT ![f] = "flushing"]
          /\ barrier' = [barrier EXCEPT ![f] = Pending]
          /\ submissions' = submissions
      BY <2>3 DEF CloseFlush
    <3>2. /\ fileState \in [Files -> FilePhases]
          /\ barrier \in [Files -> SUBSET Seqnos]
      BY <1>0, Zenon DEF TypeOK
    <3>3. ASSUME NEW g \in Files, g # f, fileState'[g] = "flushing"
          PROVE  submissions'[g] \cap Pending' \subseteq barrier'[g]
      BY <1>0, <2>2, <3>1, <3>2, <3>3 DEF FlushCovers
    <3>4. submissions'[f] \cap Pending' \subseteq barrier'[f]
      BY <2>2, <3>1, <3>2
    <3> QED  BY <3>3, <3>4 DEF FlushCovers
  <2>4. CASE Open(f) \/ Close(f) \/ CloseFree(f)
    <3>1. /\ fileState'[f] # "flushing"
          /\ \A g \in Files \ {f} : /\ fileState'[g] = fileState[g]
                                    /\ submissions'[g] = submissions[g]
                                    /\ barrier'[g] = barrier[g]
      BY <1>0, <2>4 DEF Open, Close, CloseFree, TypeOK
    <3> QED  BY <1>0, <2>2, <3>1 DEF FlushCovers
  <2>5. ASSUME NEW c \in Contexts, CloseContext(f, c)  PROVE FlushCovers'
    BY <1>1, <2>5 DEF CloseContext
  <2> QED  BY <1>5, <2>3, <2>4, <2>5 DEF CloseStep
<1>6. CASE Disconnect \/ DisconnectStep \/ UNCHANGED vars
  BY <1>1, <1>6 DEF Disconnect, DisconnectStep, Unplug, DisconnectFlush,
                    DisconnectDone, DestroyWorkqueue, Unbind, vars, fileVars
<1> QED  BY <1>2, <1>3, <1>4, <1>5, <1>6 DEF Next

\* Only an error path of SUBMIT and a postclose free, and neither frees what
\* somebody still reaches.
LEMMA AllocatedStep ==
  ASSUME Inductive, Allocation, [Next]_vars
  PROVE  SubmissionsStayAllocated'
<1>0. /\ TypeOK /\ IoctlOwnership /\ WorkOwnership /\ TablesDisjoint
      /\ FlushCovers /\ SubmissionsStayAllocated
      /\ \A u \in Threads : NamedBy(u)
  BY DEF Inductive, Allocation
\* A step that frees nothing, and names nothing new.
<1>1. ASSUME live \subseteq live', Pending' \subseteq Pending,
             \A u \in Threads : tseq'[u] \in {0, tseq[u]} \cup live',
             \A f \in Files :
               submissions'[f] \subseteq submissions[f] \cup live'
      PROVE  SubmissionsStayAllocated'
  BY <1>0, <1>1 DEF SubmissionsStayAllocated
<1>2. ASSUME NEW t \in Threads, ThreadStep(t)
      PROVE  SubmissionsStayAllocated'
  <2>1. CASE SubmitInsertFail(t)
    <3>1. /\ At(t, tfile[t], "put", tctx[t], 0)
          /\ live' = live \ {tseq[t]} /\ pc[t] = "insert"
          /\ UNCHANGED <<queue, wpc, wseq, submissions>>
      BY <2>1 DEF SubmitInsertFail, Goto, fileVars, workerVars
    <3>2. /\ tseq[t] \notin Pending
          /\ \A f \in Files : tseq[t] \notin submissions[f]
      BY <1>0, <3>1, NoContextAssumption
         DEF IoctlOwnership, WorkOwnership, Submitting, NamedBy
    <3>3. ASSUME NEW u \in Threads \ {t}, tseq[u] = tseq[t]
          PROVE  FALSE
      <4>1. tseq[t] \in Seqnos /\ tseq[t] # 0
        BY <1>0, <3>1 DEF IoctlOwnership, Submitting, Seqnos
      <4>2. pc[u] \in {"insert", "queue", "wait"}
        BY <1>0, <3>3, <4>1 DEF NamedBy
      <4>3. CASE pc[u] = "insert"
        BY <1>0, <3>1, <3>3, <4>3 DEF IoctlOwnership, Submitting
      <4>4. CASE pc[u] \in {"queue", "wait"}
        BY <1>0, <3>2, <3>3, <4>4 DEF NamedBy, IoctlOwnership
      <4> QED  BY <4>2, <4>3, <4>4
    <3>4. Pending' = Pending
      BY <3>1 DEF Pending, InQueue, Running
    <3>5. \A u \in Threads : tseq'[u] # 0 => tseq'[u] \in live'
      BY <1>0, <3>1, <3>3, Moves DEF SubmissionsStayAllocated
    <3> QED  BY <1>0, <3>1, <3>2, <3>4, <3>5 DEF SubmissionsStayAllocated
  <2>2. CASE SubmitSeqno(t)
    <3>1. /\ live' = live \cup {nextSeqno + 1} /\ submissions' = submissions
          /\ At(t, tfile[t], "insert", tctx[t], nextSeqno + 1)
          /\ UNCHANGED <<queue, wpc, wseq>>
      BY <2>2 DEF SubmitSeqno, Goto, fileVars, workerVars
    <3>2. Pending' = Pending
      BY <3>1 DEF Pending, InQueue, Running
    <3> QED  BY <1>0, <1>1, <3>1, <3>2, Moves
  <2>3. CASE SubmitQueue(t)
    <3>1. /\ At(t, NoFile, "idle", NoContext, 0)
          /\ UNCHANGED <<live, submissions>>
          /\ pc[t] = "queue"
      BY <2>3 DEF SubmitQueue, Return, fileVars
    <3>2. tseq[t] \in live
      BY <1>0, <3>1 DEF NamedBy, SubmissionsStayAllocated, IoctlOwnership
    <3>3. Pending' \subseteq live
      <4>1. CASE Pending' \subseteq Pending
        BY <1>0, <4>1 DEF SubmissionsStayAllocated
      <4>2. CASE ~ Pending' \subseteq Pending
        <5>1. PICK u \in Threads : /\ SubmitQueue(u)
                                   /\ Pending' \subseteq Pending \cup {tseq[u]}
          BY <4>2, PendingStep
        <5>2. tseq[u] \in live
          BY <1>0, <5>1 DEF SubmitQueue, NamedBy, SubmissionsStayAllocated,
                            IoctlOwnership
        <5> QED  BY <1>0, <5>1, <5>2 DEF SubmissionsStayAllocated
      <4> QED  BY <4>1, <4>2
    <3>4. \A u \in Threads : tseq'[u] \in {0, tseq[u]}
      BY <1>0, <3>1, Moves
    <3> QED  BY <1>0, <3>1, <3>3, <3>4 DEF SubmissionsStayAllocated
  <2>4. CASE SubmitInsert(t)
    <3>1. /\ At(t, tfile[t], "queue", tctx[t], tseq[t]) /\ pc[t] = "insert"
          /\ UNCHANGED <<live, queue, wpc, wseq>>
      BY <2>4 DEF SubmitInsert, Goto, subVars, workerVars
    <3>2. tseq[t] \in live
      BY <1>0, <3>1 DEF SubmissionsStayAllocated, IoctlOwnership, Submitting,
                        Seqnos
    <3>3. \A f \in Files : submissions'[f] \subseteq submissions[f] \cup live'
      BY <1>0, <2>4, <3>1, <3>2 DEF SubmitInsert, TypeOK
    <3>4. Pending' = Pending
      BY <3>1 DEF Pending, InQueue, Running
    <3> QED  BY <1>0, <1>1, <3>1, <3>3, <3>4, Moves
  <2>5. CASE CreateStore(t) \/ CreateStoreFail(t) \/ CreateReport(t)
               \/ PutAndReturn(t) \/ SubmitAllocFail(t)
               \/ WaitReturn(t) \/ WaitGiveUp(t)
    <3>1. /\ \E f, place, c : At(t, f, place, c, 0)
          /\ UNCHANGED <<live, submissions, queue, wpc, wseq>>
      BY <2>5 DEF CreateStore, CreateStoreFail, CreateReport, PutAndReturn,
                  SubmitAllocFail, WaitReturn, WaitGiveUp, Goto, Return,
                  fileVars, subVars, workerVars
    <3>2. Pending' = Pending
      BY <3>1 DEF Pending, InQueue, Running
    <3>3. \A u \in Threads : tseq'[u] \in {0, tseq[u]}
      BY <1>0, <3>1, Moves
    <3> QED  BY <1>1, <3>1, <3>2, <3>3
  <2> QED  BY <1>2, <2>1, <2>2, <2>3, <2>4, <2>5 DEF ThreadStep
<1>3. ASSUME NEW t \in Threads, NEW f \in Files, Ioctl(t, f)
      PROVE  SubmissionsStayAllocated'
  <2>1. UNCHANGED <<live, submissions, queue, wpc, wseq>>
    BY <1>3 DEF Ioctl, CreateContext, DestroyContext, SubmitLookup,
                WaitLookup, fileVars, subVars, workerVars
  <2>2. Pending' = Pending
    BY <2>1 DEF Pending, InQueue, Running
  <2>3. ASSUME NEW s \in Seqnos, WaitLookup(t, f, s)
        PROVE  SubmissionsStayAllocated'
    <3>1. s \in live /\ At(t, f, "wait", NoContext, s)
      BY <1>0, <2>3 DEF WaitLookup, SubmissionsStayAllocated
    <3> QED  BY <1>0, <1>1, <2>1, <2>2, <3>1, Moves
  <2>4. ASSUME NEW c \in Contexts,
               CreateContext(t, f, c) \/ DestroyContext(t, f, c)
                 \/ SubmitLookup(t, f, c)
        PROVE  SubmissionsStayAllocated'
    <3>1. tseq' = tseq \/ \E place : At(t, f, place, c, 0)
      BY <2>4 DEF CreateContext, DestroyContext, SubmitLookup, threadVars
    <3>2. \A u \in Threads : tseq'[u] \in {0, tseq[u]}
      BY <1>0, <3>1, Moves
    <3> QED  BY <1>1, <2>1, <2>2, <3>2
  <2> QED  BY <1>3, <2>3, <2>4 DEF Ioctl
<1>4. CASE Worker
  <2>1. UNCHANGED <<live, submissions, tseq>>
    BY <1>4 DEF Worker, WorkStart, WorkSend, WorkPublish, WorkComplete,
                WorkPut, fileVars, subVars, threadVars
  <2>2. ASSUME NEW t \in Threads, SubmitQueue(t)  PROVE FALSE
    <3>1. At(t, NoFile, "idle", NoContext, 0) /\ tseq[t] \in Seqnos
      BY <1>0, <2>2 DEF SubmitQueue, Return, IoctlOwnership, Submitting
    <3> QED  BY <1>0, <2>1, <3>1, Moves DEF Seqnos
  <2>3. Pending' \subseteq Pending
    BY <2>2, PendingStep
  <2> QED  BY <1>1, <2>1, <2>3
<1>5. ASSUME NEW f \in Files, Open(f) \/ Close(f) \/ CloseStep(f)
      PROVE  SubmissionsStayAllocated'
  <2>1. UNCHANGED <<queue, wpc, wseq, tseq>>
    BY <1>5 DEF Open, Close, CloseStep, CloseContext, CloseFlush, CloseFree,
                workerVars, threadVars
  <2>2. Pending' = Pending
    BY <2>1 DEF Pending, InQueue, Running
  <2>3. CASE CloseFree(f)
    <3>1. /\ live' = live \ submissions[f] /\ fileState[f] = "flushing"
          /\ submissions' = [submissions EXCEPT ![f] = {}]
          /\ barrier[f] \cap Pending = {}
      BY <2>3 DEF CloseFree
    <3>2. submissions[f] \cap Pending = {}
      BY <1>0, <3>1 DEF FlushCovers
    <3>3. submissions \in [Files -> SUBSET Seqnos]
      BY <1>0, Zenon DEF TypeOK
    <3>4. \A g \in Files :
            submissions'[g] = IF g = f THEN {} ELSE submissions[g]
      BY <3>1, <3>3
    <3>5. \A g \in Files : submissions'[g] \subseteq live'
      BY <1>0, <3>1, <3>4 DEF SubmissionsStayAllocated, TablesDisjoint
    <3>6. ASSUME NEW u \in Threads, tseq[u] # 0
          PROVE  tseq[u] \notin submissions[f]
      <4>1. pc[u] = "insert" => \A g \in Files : tseq[u] \notin submissions[g]
        BY <1>0 DEF NamedBy
      <4>2. pc[u] \in {"queue", "wait"} =>
              /\ tfile[u] \in Files /\ fileState[tfile[u]] = "open"
              /\ tseq[u] \in submissions[tfile[u]]
        BY <1>0 DEF NamedBy, IoctlOwnership
      <4>3. pc[u] \in {"insert", "queue", "wait"}
        BY <1>0, <3>6 DEF NamedBy
      <4> QED  BY <1>0, <3>1, <4>1, <4>2, <4>3 DEF TablesDisjoint
    <3>7. \A u \in Threads : tseq'[u] # 0 => tseq'[u] \in live'
      BY <1>0, <2>1, <3>1, <3>6 DEF SubmissionsStayAllocated
    <3> QED  BY <1>0, <2>2, <3>1, <3>2, <3>5, <3>7 DEF SubmissionsStayAllocated
  <2> QED  BY <1>1, <1>5, <2>1, <2>2, <2>3
           DEF Open, Close, CloseStep, CloseContext, CloseFlush, subVars
<1>6. CASE Disconnect \/ DisconnectStep \/ UNCHANGED vars
  <2>1. UNCHANGED <<live, submissions, queue, wpc, wseq, tseq>>
    BY <1>6 DEF Disconnect, DisconnectStep, Unplug, DisconnectFlush,
                DisconnectDone, DestroyWorkqueue, Unbind, vars, fileVars,
                subVars, workerVars, threadVars
  <2>2. Pending' = Pending
    BY <2>1 DEF Pending, InQueue, Running
  <2> QED  BY <1>1, <2>1, <2>2
<1> QED  BY <1>2, <1>3, <1>4, <1>5, <1>6 DEF Next

LEMMA StepAllocation ==
  ASSUME Inductive, Allocation, [Next]_vars
  PROVE  Allocation'
<1>1. \A u \in Threads : NamedBy(u)'
  BY NamedStep
<1> QED  BY <1>1, TablesStep, FlushStep, AllocatedStep DEF Allocation

\* Work, waiters and tables only reach allocated submissions:
\* grape_drm_postclose frees one only after its flush let go of it.
THEOREM SubmissionsAllocated == Spec => []SubmissionsStayAllocated
<1>1. Init => Allocation
  BY DEF Init, Allocation, SubmissionsStayAllocated, NamedBy, TablesDisjoint,
         FlushCovers, Pending, InQueue, Running
<1>2. Inductive /\ Allocation /\ [Next]_vars => Allocation'
  BY StepAllocation
<1>3. Allocation => SubmissionsStayAllocated
  BY DEF Allocation
<1> QED  BY <1>1, <1>2, <1>3, InductiveInvariant, PTL DEF Spec

------------------------------------------------------------------------------
(* Refinement                                                              *)

\* A submission is signalled only after its work published a final status.
Completion ==
  /\ InQueue \cap done = {}
  /\ wpc \in {"send", "publish", "complete"} => wseq \notin done
  /\ wpc = "complete" => status[wseq] \in Final
  /\ \A t \in Threads : Submitting(t) => tseq[t] \notin done
  /\ \A s \in done : s <= nextSeqno

LEMMA CompletionStep ==
  ASSUME Inductive, Completion, [Next]_vars
  PROVE  Completion'
<1>0. TypeOK /\ IoctlOwnership /\ WorkOwnership /\ nextSeqno \in Nat
  BY MaxSeqnoAssumption DEF Inductive, TypeOK
<1>n. done \subseteq Seqnos /\ queue \in Seq(Seqnos)
  BY <1>0 DEF TypeOK
\* Steps of a thread that is or gets outside the two places that own a number.
<1>1. ASSUME UNCHANGED <<queue, wpc, wseq, done, status, nextSeqno>>,
             \A u \in Threads : Submitting(u)' =>
                                  Submitting(u) /\ tseq'[u] = tseq[u]
      PROVE  Completion'
  BY <1>1 DEF Completion, InQueue
<1>2. ASSUME NEW t \in Threads, ThreadStep(t)  PROVE Completion'
  <2>1. CASE SubmitSeqno(t)
    <3>1. /\ At(t, tfile[t], "insert", tctx[t], nextSeqno + 1)
          /\ nextSeqno' = nextSeqno + 1
          /\ status' = [status EXCEPT ![nextSeqno + 1] = "in_progress"]
          /\ UNCHANGED <<queue, wpc, wseq, done>>
      BY <2>1 DEF SubmitSeqno, Goto, workerVars
    <3>2. nextSeqno + 1 \notin done
      BY <1>0, <1>n DEF Completion, Seqnos
    <3>3. \A u \in Threads : Submitting(u)' => tseq'[u] \notin done'
      BY <1>0, <3>1, <3>2, Moves DEF Completion, Submitting
    <3>4. \A s \in done' : s <= nextSeqno'
      BY <1>0, <1>n, <3>1 DEF Completion, Seqnos
    <3>5. wpc' = "complete" => status'[wseq'] \in Final
      <4>1. wpc = "complete" => /\ wseq # nextSeqno + 1
                                /\ wseq \in Seqnos /\ status[wseq] \in Final
        BY <1>0, NoContextAssumption
           DEF WorkOwnership, Pending, Running, TypeOK, Completion, Seqnos
      <4> QED  BY <1>0, <3>1, <4>1 DEF TypeOK
    <3>6. InQueue' \cap done' = {}
      BY <3>1 DEF InQueue, Completion
    <3> QED  BY <3>1, <3>3, <3>4, <3>5, <3>6 DEF Completion
  <2>2. CASE SubmitQueue(t)
    <3>1. /\ At(t, NoFile, "idle", NoContext, 0) /\ pc[t] = "queue"
          /\ queue' = queue \/ queue' = Append(queue, tseq[t])
          /\ UNCHANGED <<wpc, wseq, done, status, nextSeqno>>
      BY <2>2 DEF SubmitQueue, Return, workerVars, fenceVars
    <3>2. tseq[t] \in Seqnos /\ tseq[t] \notin done
      BY <1>0, <3>1 DEF Completion, Submitting, IoctlOwnership
    <3>3. InQueue' \subseteq InQueue \cup {tseq[t]}
      BY <1>n, <3>1, <3>2 DEF InQueue
    <3>4. \A u \in Threads :
            Submitting(u)' => Submitting(u) /\ tseq'[u] = tseq[u]
      BY <1>0, <3>1, Moves DEF Submitting
    <3> QED  BY <3>1, <3>2, <3>3, <3>4 DEF Completion
  <2>3. CASE SubmitInsert(t)
    <3>1. /\ At(t, tfile[t], "queue", tctx[t], tseq[t]) /\ pc[t] = "insert"
          /\ UNCHANGED <<queue, wpc, wseq, done, status, nextSeqno>>
      BY <2>3 DEF SubmitInsert, Goto, workerVars, fenceVars, subVars
    <3> QED  BY <1>0, <1>1, <3>1, Moves DEF Submitting
  <2>4. CASE CreateStore(t) \/ CreateStoreFail(t) \/ CreateReport(t)
               \/ PutAndReturn(t) \/ SubmitAllocFail(t)
               \/ SubmitInsertFail(t) \/ WaitReturn(t) \/ WaitGiveUp(t)
    <3>1. /\ \E f, c : \E place \in {"report", "idle", "put"} :
               At(t, f, place, c, 0)
          /\ UNCHANGED <<queue, wpc, wseq, done, status, nextSeqno>>
      BY <2>4 DEF CreateStore, CreateStoreFail, CreateReport, PutAndReturn,
                  SubmitAllocFail, SubmitInsertFail, WaitReturn, WaitGiveUp,
                  Goto, Return, workerVars, fenceVars, subVars
    <3> QED  BY <1>0, <1>1, <3>1, Moves DEF Submitting
  <2> QED  BY <1>2, <2>1, <2>2, <2>3, <2>4 DEF ThreadStep
<1>3. ASSUME NEW t \in Threads, NEW f \in Files, Ioctl(t, f)
      PROVE  Completion'
  <2>1. /\ \/ UNCHANGED threadVars
           \/ \E c, s : \E place \in {"store", "put", "seqno", "wait"} :
                At(t, f, place, c, s)
        /\ UNCHANGED <<queue, wpc, wseq, done, status, nextSeqno>>
    BY <1>3 DEF Ioctl, CreateContext, DestroyContext, SubmitLookup,
                WaitLookup, workerVars, fenceVars, subVars
  <2>2. CASE UNCHANGED threadVars
    BY <1>1, <2>1, <2>2 DEF threadVars, Submitting
  <2>3. CASE \E c, s : \E place \in {"store", "put", "seqno", "wait"} :
               At(t, f, place, c, s)
    BY <1>0, <1>1, <2>1, <2>3, Moves DEF Submitting
  <2> QED  BY <2>1, <2>2, <2>3
<1>4. CASE Worker
  <2>0. UNCHANGED <<pc, tseq, nextSeqno>>
    BY <1>4 DEF Worker, WorkStart, WorkSend, WorkPublish, WorkComplete,
                WorkPut, threadVars, subVars
  <2>1. \A u \in Threads : Submitting(u)' <=> Submitting(u)
    BY <2>0 DEF Submitting
  <2>2. CASE WorkStart
    <3>1. /\ queue # <<>> /\ queue' = Tail(queue) /\ wseq' = Head(queue)
          /\ wpc' \in {"publish", "send"}
          /\ UNCHANGED <<status, done>>
      BY <2>2 DEF WorkStart, fenceVars
    <3>2. Head(queue) \in InQueue
      BY <1>n, <3>1 DEF InQueue
    <3>3. \A i \in DOMAIN queue' : /\ i + 1 \in DOMAIN queue
                                   /\ queue'[i] = queue[i + 1]
      BY <1>n, <3>1
    <3>4. InQueue' \subseteq InQueue
      BY <3>3 DEF InQueue
    <3> QED  BY <2>0, <2>1, <3>1, <3>2, <3>4 DEF Completion
  <2>3. CASE WorkSend
    BY <2>0, <2>1, <2>3 DEF WorkSend, Completion, fenceVars, InQueue
  <2>4. CASE WorkPublish
    <3>1. wseq \in Seqnos /\ wret \in Final /\ status'[wseq] = wret
      BY <1>0, <2>4 DEF TypeOK, WorkPublish
    <3> QED  BY <2>0, <2>1, <2>4, <3>1 DEF WorkPublish, Completion, InQueue
  <2>5. CASE WorkComplete
    <3>1. /\ wpc = "complete" /\ wpc' = "put" /\ done' = done \cup {wseq}
          /\ UNCHANGED <<queue, wseq, status>>
      BY <2>5 DEF WorkComplete
    <3>2. /\ wseq \in Pending /\ wseq \notin InQueue /\ wseq \in Seqnos
          /\ subContext[wseq] \in Contexts
      BY <1>0, <3>1 DEF WorkOwnership, Pending, Running, TypeOK
    <3>3. wseq <= nextSeqno
      BY <1>0, <3>2, NoContextAssumption DEF WorkOwnership, Seqnos
    <3>4. \A u \in Threads : Submitting(u) => tseq[u] # wseq
      BY <1>0, <3>2, NoContextAssumption DEF IoctlOwnership
    <3> QED  BY <2>0, <2>1, <3>1, <3>2, <3>3, <3>4 DEF Completion, InQueue
  <2>6. CASE WorkPut
    BY <2>0, <2>1, <2>6 DEF WorkPut, Completion, fenceVars, InQueue
  <2> QED  BY <1>4, <2>2, <2>3, <2>4, <2>5, <2>6 DEF Worker
<1>5. ASSUME NEW f \in Files, Open(f) \/ Close(f) \/ CloseStep(f)
      PROVE  Completion'
  BY <1>1, <1>5 DEF Open, Close, CloseStep, CloseContext, CloseFlush,
                    CloseFree, workerVars, fenceVars, threadVars, subVars,
                    Submitting
<1>6. CASE Disconnect \/ DisconnectStep \/ UNCHANGED vars
  BY <1>1, <1>6 DEF Disconnect, DisconnectStep, Unplug, DisconnectFlush,
                    DisconnectDone, DestroyWorkqueue, Unbind, vars, fenceVars,
                    subVars, workerVars, threadVars, Submitting
<1> QED  BY <1>2, <1>3, <1>4, <1>5, <1>6 DEF Next

\* A step that touches neither the queue, the worker's place nor a result of a
\* finished submission is invisible to the abstract fence.
LEMMA FenceStutter ==
  ASSUME UNCHANGED <<queue, done>>,
         wpc \in {"send", "publish", "complete"}
           <=> wpc' \in {"send", "publish", "complete"},
         wpc \in {"send", "publish", "complete"} => wseq' = wseq,
         \A s \in done : status'[s] = status[s]
  PROVE  UNCHANGED Fence!fenceState
<1> DEFINE Shown == [s \in Seqnos |-> IF s \in done THEN status[s] ELSE "none"]
<1>1. Fifo' = Fifo
  BY DEF Fifo
<1>2. Shown' = Shown
  OBVIOUS
<1> QED  BY <1>1, <1>2 DEF Fence!fenceState

\* Every step of the render node accepts a submission, finishes the oldest one,
\* or leaves the abstract fence alone.
LEMMA FenceStep ==
  ASSUME Inductive, Completion, [Next]_vars
  PROVE  [Fence!Next]_(Fence!fenceState)
<1>0. /\ TypeOK /\ IoctlOwnership /\ WorkOwnership
      /\ queue \in Seq(Seqnos)
  BY DEF Inductive, TypeOK
<1> DEFINE Shown == [s \in Seqnos |-> IF s \in done THEN status[s] ELSE "none"]
<1>1. ASSUME UNCHANGED <<queue, workerVars, fenceVars>>
      PROVE  UNCHANGED Fence!fenceState
  BY <1>1, FenceStutter DEF workerVars, fenceVars
<1>2. ASSUME NEW t \in Threads, ThreadStep(t)
      PROVE  [Fence!Next]_(Fence!fenceState)
  <2>1. CASE SubmitQueue(t)
    <3>1. UNCHANGED <<workerVars, fenceVars>>
      BY <2>1 DEF SubmitQueue
    <3>2. CASE queue' = queue
      BY <1>1, <3>1, <3>2
    <3>3. CASE queue' = Append(queue, tseq[t])
      <4> DEFINE s == tseq[t]
      <4>1. s \in Seqnos /\ s \notin done /\ s \notin Pending
        BY <1>0, <2>1, NoContextAssumption
           DEF SubmitQueue, Submitting, IoctlOwnership, WorkOwnership,
               Completion
      <4>2. Shown[s] = "none"
        BY <4>1
      <4>3. Fifo' = Append(Fifo, s)
        <5>1. wpc \in {"send", "publish", "complete"} => wseq \in Seqnos
          BY <1>0 DEF TypeOK
        <5> QED  BY <1>0, <3>1, <3>3, <4>1, <5>1 DEF Fifo, workerVars
      <4>4. \A i \in DOMAIN Fifo : Fifo[i] # s
        <5>1. CASE wpc \in {"send", "publish", "complete"}
          <6>1. Fifo = <<wseq>> \o queue /\ wseq # s /\ wseq \in Seqnos
            BY <1>0, <4>1, <5>1 DEF Fifo, Pending, Running, TypeOK
          <6>2. \A i \in DOMAIN queue : queue[i] # s
            BY <4>1 DEF Pending, InQueue
          <6> QED  BY <1>0, <6>1, <6>2
        <5>2. CASE wpc \notin {"send", "publish", "complete"}
          <6>1. Fifo = queue
            BY <1>0, <5>2 DEF Fifo
          <6> QED  BY <4>1, <6>1 DEF Pending, InQueue
        <5> QED  BY <5>1, <5>2
      <4>5. Shown' = Shown
        BY <3>1 DEF fenceVars
      <4>6. Fence!Accept(s)
        BY <4>2, <4>3, <4>4, <4>5 DEF Fence!Accept
      <4> QED  BY <4>1, <4>6 DEF Fence!Next
    <3> QED  BY <2>1, <3>2, <3>3 DEF SubmitQueue
  <2>2. CASE SubmitSeqno(t)
    <3>1. /\ nextSeqno + 1 \notin done
          /\ status' = [status EXCEPT ![nextSeqno + 1] = "in_progress"]
          /\ UNCHANGED <<queue, workerVars, done>>
      <4>1. nextSeqno \in Nat
        BY <1>0, MaxSeqnoAssumption DEF TypeOK
      <4> QED  BY <2>2, <4>1 DEF SubmitSeqno, Completion
    <3>2. \A s \in done : status'[s] = status[s]
      BY <1>0, <3>1 DEF TypeOK
    <3> QED  BY <3>1, <3>2, FenceStutter DEF workerVars
  <2> QED  BY <1>1, <1>2, <2>1, <2>2
           DEF ThreadStep, CreateStore, CreateStoreFail, CreateReport,
               PutAndReturn, SubmitAllocFail, SubmitInsert, SubmitInsertFail,
               WaitReturn, WaitGiveUp
<1>3. ASSUME NEW t \in Threads, NEW f \in Files, Ioctl(t, f)
      PROVE  UNCHANGED Fence!fenceState
  BY <1>1, <1>3 DEF Ioctl, CreateContext, DestroyContext, SubmitLookup,
                    WaitLookup
<1>4. CASE Worker
  <2>1. CASE WorkStart
    <3>1. /\ wpc = "idle" /\ wpc' \in {"send", "publish"} /\ queue # <<>>
          /\ wseq' = Head(queue) /\ queue' = Tail(queue)
          /\ UNCHANGED <<status, done>>
      BY <2>1 DEF WorkStart, fenceVars
    <3>2. Fifo = queue /\ Fifo' = <<Head(queue)>> \o Tail(queue)
      BY <1>0, <3>1 DEF Fifo
    <3>3. Fifo' = Fifo
      BY <1>0, <3>1, <3>2
    <3>4. Shown' = Shown
      BY <3>1
    <3> QED  BY <3>3, <3>4 DEF Fence!fenceState
  <2>2. CASE WorkSend
    BY <2>2, FenceStutter DEF WorkSend, fenceVars
  <2>3. CASE WorkPublish
    <3>1. /\ wseq \notin done /\ status' = [status EXCEPT ![wseq] = wret]
          /\ wpc = "publish" /\ wpc' = "complete"
          /\ UNCHANGED <<queue, wseq, done>>
      BY <2>3 DEF WorkPublish, Completion
    <3>2. \A s \in done : status'[s] = status[s]
      BY <1>0, <3>1 DEF TypeOK
    <3> QED  BY <3>1, <3>2, FenceStutter
  <2>4. CASE WorkComplete
    <3>1. /\ wpc = "complete" /\ wpc' = "put" /\ done' = done \cup {wseq}
          /\ UNCHANGED <<queue, wseq, status>>
          /\ wseq \in Seqnos /\ status[wseq] \in Final
      BY <1>0, <2>4 DEF WorkComplete, TypeOK, Completion
    <3>2. Fifo = <<wseq>> \o queue /\ Fifo' = queue
      BY <1>0, <3>1 DEF Fifo
    <3>3. Fifo # <<>> /\ Head(Fifo) = wseq /\ Tail(Fifo) = queue
      BY <1>0, <3>1, <3>2
    <3>4. Shown' = [Shown EXCEPT ![wseq] = status[wseq]]
      BY <3>1
    <3>5. Fence!Finish
      BY <3>1, <3>2, <3>3, <3>4 DEF Fence!Finish
    <3> QED  BY <3>5 DEF Fence!Next
  <2>5. CASE WorkPut
    BY <2>5, FenceStutter DEF WorkPut, fenceVars
  <2> QED  BY <1>4, <2>1, <2>2, <2>3, <2>4, <2>5 DEF Worker
<1>5. ASSUME NEW f \in Files, Open(f) \/ Close(f) \/ CloseStep(f)
      PROVE  UNCHANGED Fence!fenceState
  BY <1>1, <1>5 DEF Open, Close, CloseStep, CloseContext, CloseFlush,
                    CloseFree
<1>6. CASE Disconnect \/ DisconnectStep \/ UNCHANGED vars
  BY <1>1, <1>6 DEF Disconnect, DisconnectStep, Unplug, DisconnectFlush,
                    DisconnectDone, DestroyWorkqueue, Unbind, vars
<1> QED  BY <1>2, <1>3, <1>4, <1>5, <1>6 DEF Next

\* SUBMIT and WAIT keep the safety part of GpuFence's promise: work finishes in
\* the order gpu_wq accepted it, once, and a result WAIT reported stays.
THEOREM FenceImplemented == Spec => Fence!Safety
<1>1. Init => Completion /\ Fence!Init
  <2>1. Init => Fifo = <<>>
    BY DEF Init, Fifo
  <2> QED  BY <2>1 DEF Init, Completion, Fence!Init, InQueue, Submitting
<1>2. Inductive /\ Completion /\ [Next]_vars => Completion'
  BY CompletionStep
<1>3. Inductive /\ Completion /\ [Next]_vars
        => [Fence!Next]_(Fence!fenceState)
  BY FenceStep
<1> QED  BY <1>1, <1>2, <1>3, InductiveInvariant, PTL DEF Spec, Fence!Safety

------------------------------------------------------------------------------
(* What a client sees of a completion                                      *)

Publication ==
  /\ SignalledIsPublished
  /\ \A s \in Published : s <= nextSeqno

LEMMA PublicationStep ==
  ASSUME Inductive, Publication, [Next]_vars
  PROVE  Publication'
<1>0. TypeOK /\ WorkOwnership /\ nextSeqno \in Nat
  BY MaxSeqnoAssumption DEF Inductive, TypeOK
<1>t. status \in [Seqnos -> Final \cup {"none", "in_progress"}]
  BY <1>0 DEF TypeOK
\* What the worker has in hand was numbered by a SUBMIT.
<1>w. wpc # "idle" => wseq \in Seqnos /\ wseq <= nextSeqno
  <2>1. wpc # "idle" => wseq \in Seqnos /\ subContext[wseq] \in Contexts
    BY <1>0 DEF WorkOwnership, Pending, Running, TypeOK, Seqnos
  <2> QED  BY <1>0, <2>1, NoContextAssumption DEF WorkOwnership, Seqnos
\* Steps that are not the worker's and take no number.
<1>1. ASSUME UNCHANGED <<completedSeqno, status, done, wpc, wseq, nextSeqno>>
      PROVE  Publication'
  BY <1>1 DEF Publication, SignalledIsPublished, Published
<1>2. ASSUME NEW t \in Threads, ThreadStep(t)  PROVE Publication'
  <2>1. CASE SubmitSeqno(t)
    <3>1. /\ nextSeqno' = nextSeqno + 1
          /\ status' = [status EXCEPT ![nextSeqno + 1] = "in_progress"]
          /\ UNCHANGED <<completedSeqno, done, wpc, wseq>>
      BY <2>1 DEF SubmitSeqno, workerVars
    <3>2. nextSeqno + 1 \notin Published
      BY <1>0 DEF Publication
    <3>3. \A s \in Seqnos \ {nextSeqno + 1} : status'[s] = status[s]
      BY <1>t, <3>1
    <3>4. nextSeqno + 1 \in Seqnos => status'[nextSeqno + 1] = "in_progress"
      BY <1>t, <3>1
    <3>5. Published' = Published
      BY <3>2, <3>3, <3>4 DEF Published, Final
    <3>6. \A s \in Published : s <= nextSeqno'
      BY <1>0, <3>1 DEF Publication, Published, Seqnos
    <3> QED  BY <3>1, <3>5, <3>6 DEF Publication, SignalledIsPublished
  <2>2. CASE ~SubmitSeqno(t)
    BY <1>1, <1>2, <2>2
       DEF ThreadStep, CreateStore, CreateStoreFail, CreateReport,
           PutAndReturn, SubmitAllocFail, SubmitInsert, SubmitInsertFail,
           SubmitQueue, WaitReturn, WaitGiveUp, fenceVars, workerVars, subVars
  <2> QED  BY <2>1, <2>2
<1>3. ASSUME NEW t \in Threads, NEW f \in Files, Ioctl(t, f)
      PROVE  Publication'
  BY <1>1, <1>3 DEF Ioctl, CreateContext, DestroyContext, SubmitLookup,
                    WaitLookup, fenceVars, workerVars, subVars
<1>4. CASE Worker
  <2>1. CASE WorkStart
    BY <2>1 DEF WorkStart, Publication, SignalledIsPublished, Published,
                fenceVars, subVars
  <2>2. CASE WorkSend
    BY <2>2 DEF WorkSend, Publication, SignalledIsPublished, Published,
                fenceVars, subVars
  <2>3. CASE WorkPublish
    <3>1. /\ wpc = "publish" /\ wpc' = "complete" /\ completedSeqno' = wseq
          /\ status' = [status EXCEPT ![wseq] = wret] /\ wret \in Final
          /\ UNCHANGED <<wseq, done, nextSeqno>>
      BY <1>0, <2>3 DEF WorkPublish, TypeOK, subVars
    <3>2. Published' = Published \cup {wseq}
      BY <1>t, <1>w, <3>1 DEF Published
    <3>3. Published \subseteq done /\ done \subseteq Published
      BY <3>1 DEF Publication, SignalledIsPublished
    <3>4. \A s \in Published' : s <= nextSeqno'
      BY <1>w, <3>1, <3>2 DEF Publication
    <3>5. SignalledIsPublished'
      BY <3>1, <3>2, <3>3 DEF SignalledIsPublished
    <3> QED  BY <3>4, <3>5 DEF Publication
  <2>4. CASE WorkComplete
    <3>1. /\ wpc = "complete" /\ wpc' = "put" /\ done' = done \cup {wseq}
          /\ UNCHANGED <<wseq, completedSeqno, status, nextSeqno>>
      BY <2>4 DEF WorkComplete, subVars
    <3>2. Published' = Published
      BY <3>1 DEF Published
    <3>3. wseq \in Published
      BY <1>w, <3>1 DEF Publication, SignalledIsPublished, Seqnos
    <3> QED  BY <3>1, <3>2, <3>3 DEF Publication, SignalledIsPublished
  <2>5. CASE WorkPut
    BY <2>5 DEF WorkPut, Publication, SignalledIsPublished, Published,
                fenceVars
  <2> QED  BY <1>4, <2>1, <2>2, <2>3, <2>4, <2>5 DEF Worker
<1>5. ASSUME NEW f \in Files, Open(f) \/ Close(f) \/ CloseStep(f)
      PROVE  Publication'
  BY <1>1, <1>5 DEF Open, Close, CloseStep, CloseContext, CloseFlush,
                    CloseFree, fenceVars, workerVars, subVars
<1>6. CASE Disconnect \/ DisconnectStep \/ UNCHANGED vars
  BY <1>1, <1>6 DEF Disconnect, DisconnectStep, Unplug, DisconnectFlush,
                    DisconnectDone, DestroyWorkqueue, Unbind, vars, fenceVars,
                    workerVars, subVars
<1> QED  BY <1>2, <1>3, <1>4, <1>5, <1>6 DEF Next

\* A waiter that is woken, and a client that polls COMPLETED_SEQNO, find a
\* final status: grape_gpu_submit_work stores it before the number and the
\* signal, and no SUBMIT resets it.
THEOREM SignalsArePublished == Spec => []SignalledIsPublished
<1>1. Init => Publication
  BY DEF Init, Publication, SignalledIsPublished, Published, Final
<1>2. Inductive /\ Publication /\ [Next]_vars => Publication'
  BY PublicationStep
<1>3. Publication => SignalledIsPublished
  BY DEF Publication
<1> QED  BY <1>1, <1>2, <1>3, InductiveInvariant, PTL DEF Spec

==============================================================================
