------------------------------ MODULE GpuRender ------------------------------
(***************************************************************************)
(* The render side of kernel/grape_drm.c: GPU contexts, asynchronous       *)
(* submissions on the ordered workqueue gpu_wq, the WAIT ioctl, closing a  *)
(* DRM file, and unbinding the USB interface underneath all of them.       *)
(*                                                                         *)
(* A thread runs at most one ioctl.  pc[t] is where it stands in it; the   *)
(* code between two pc values runs under gfile->lock, is one atomic        *)
(* instruction, or touches only what the thread owns.                      *)
(*                                                                         *)
(* A GFXLINK request is one step with three outcomes: "ok", "lost" (the    *)
(* device executed it, the answer did not arrive) and "failed" (nothing    *)
(* executed).  Once gdev->disconnected is set it can only fail.            *)
(*                                                                         *)
(* From the DRM core (external): ioctls and open are refused once the      *)
(* device is unplugged, postclose runs when no ioctl is in flight on the   *)
(* file, drm_dev_unplug waits for the drm_dev_enter sections.  From the    *)
(* workqueue (external): work runs one at a time in queueing order,        *)
(* flush_workqueue waits for the work queued before it, and a workqueue    *)
(* that drains or is destroyed drops what is queued to it.                 *)
(***************************************************************************)
EXTENDS Integers, Sequences, FiniteSets

CONSTANTS Files,      \* struct grape_file: one per open of the render node
          Threads,    \* user threads calling ioctls
          Contexts,   \* struct grape_gpu_context, each with its remote object
          NoFile, NoContext,
          MaxSeqno    \* bound on gpu_next_seqno

ASSUME ActorsFinite == IsFiniteSet(Files) /\ IsFiniteSet(Threads)
ASSUME NoFileAssumption == NoFile \notin Files
ASSUME NoContextAssumption == NoContext \notin Contexts
ASSUME MaxSeqnoAssumption == MaxSeqno \in Nat

VARIABLES
  fileState,      \* life of a grape_file, through the steps of postclose
  contexts,       \* gfile->contexts
  submissions,    \* gfile->submissions
  barrier,        \* the work a running flush of the file still waits for
  refs,           \* context->refs; a context is allocated iff refs > 0
  remote,         \* the context object in the device
  nextSeqno,      \* gdev->gpu_next_seqno
  completedSeqno, \* gdev->gpu_completed_seqno
  live,           \* submissions whose memory is allocated
  subContext,     \* submission->context, once the work owns that reference
  status,         \* submission->status
  done,           \* submissions whose completion is signalled
  queue,          \* work waiting in gpu_wq
  wpc, wseq, wret,         \* the workqueue's worker, grape_gpu_submit_work
  pc, tfile, tctx, tseq,   \* the threads
  dev,            \* progress of disconnect and of the devres release
  devBarrier,     \* the work disconnect's flush still waits for
  disconnected    \* gdev->disconnected

fileVars   == <<fileState, contexts, submissions, barrier>>
ctxVars    == <<refs, remote>>
subVars    == <<nextSeqno, live, subContext>>
fenceVars  == <<completedSeqno, status, done>>
workerVars == <<wpc, wseq, wret>>
threadVars == <<pc, tfile, tctx, tseq>>
devVars    == <<dev, devBarrier, disconnected>>
vars == <<fileVars, ctxVars, subVars, fenceVars, queue, workerVars,
          threadVars, devVars>>

Seqnos == 1 .. MaxSeqno
Final  == {"ok", "error"}

DevPhases == {"bound", "stopping", "unplugged", "flushing", "disconnected",
              "draining", "unbound"}
FilePhases == {"unopened", "open", "closing", "flushing", "closed"}
WorkerPcs  == {"idle", "send", "publish", "complete", "put"}

\* The ioctl positions at which the thread owns a reference on tctx.
HoldingPcs == {"store", "seqno", "insert", "queue", "put"}
ThreadPcs  == HoldingPcs \cup {"idle", "report", "wait"}

Unplugged      == dev \notin {"bound", "stopping"}
WorkqueueAlive == dev \notin {"draining", "unbound"}

InQueue == {queue[i] : i \in DOMAIN queue}
Running == IF wpc = "idle" THEN {} ELSE {wseq}
Pending == InQueue \cup Running

\* What a request may do: nothing reaches the device once disconnected is set.
Outcomes == IF disconnected THEN {"failed"} ELSE {"ok", "lost", "failed"}

Init ==
  /\ fileState = [f \in Files |-> "unopened"]
  /\ contexts = [f \in Files |-> {}]
  /\ submissions = [f \in Files |-> {}]
  /\ barrier = [f \in Files |-> {}]
  /\ refs = [c \in Contexts |-> 0]
  /\ remote = [c \in Contexts |-> "none"]
  /\ nextSeqno = 0 /\ completedSeqno = 0
  /\ live = {}
  /\ subContext = [s \in Seqnos |-> NoContext]
  /\ status = [s \in Seqnos |-> "none"]
  /\ done = {}
  /\ queue = <<>>
  /\ wpc = "idle" /\ wseq = 0 /\ wret = "ok"
  /\ pc = [t \in Threads |-> "idle"]
  /\ tfile = [t \in Threads |-> NoFile]
  /\ tctx = [t \in Threads |-> NoContext]
  /\ tseq = [t \in Threads |-> 0]
  /\ dev = "bound" /\ devBarrier = {} /\ disconnected = FALSE

------------------------------------------------------------------------------
(* The reference count of a context.                                       *)

\* The last reference destroys the remote object and frees the context.  The
\* caller owns the context, so the request and the kfree are one step.
PutContext(c) ==
  /\ refs' = [refs EXCEPT ![c] = @ - 1]
  /\ IF refs[c] = 1
     THEN \E outcome \in Outcomes :
            remote' = [remote EXCEPT
                         ![c] = IF outcome = "failed" THEN @ ELSE "destroyed"]
     ELSE UNCHANGED remote

\* Thread t moves to a place of an ioctl on f, with a context and a seqno.
At(t, f, place, c, s) ==
  /\ pc' = [pc EXCEPT ![t] = place]
  /\ tfile' = [tfile EXCEPT ![t] = f]
  /\ tctx' = [tctx EXCEPT ![t] = c]
  /\ tseq' = [tseq EXCEPT ![t] = s]

Goto(t, place, c, s) == At(t, tfile[t], place, c, s)
Return(t) == At(t, NoFile, "idle", NoContext, 0)

\* An ioctl is entered: the DRM core refuses it on an unplugged device.
MayEnter(t, f) == pc[t] = "idle" /\ fileState[f] = "open" /\ ~Unplugged

------------------------------------------------------------------------------
(* Seeded defects.  None is part of Next: each is a plausible slip in one  *)
(* of the actions below, and shows that a property would notice it.        *)

\* The error path puts the context itself and still falls into fail_context.
SubmitInsertFail_DoublePut(t) ==
  /\ pc[t] = "insert"
  /\ live' = live \ {tseq[t]}
  /\ PutContext(tctx[t])
  /\ Goto(t, "put", tctx[t], 0)
  /\ UNCHANGED <<nextSeqno, subContext, fileVars, fenceVars, queue,
                 workerVars, devVars>>

\* goto fail_commands where fail_context was needed.
SubmitAllocFail_KeepsRef(t) ==
  /\ pc[t] = "seqno"
  /\ Return(t)
  /\ UNCHANGED <<fileVars, ctxVars, subVars, fenceVars, queue, workerVars,
                 devVars>>

\* xa_load without refcount_inc_not_zero.
SubmitLookup_NoRef(t, f, c) ==
  /\ MayEnter(t, f)
  /\ c \in contexts[f] /\ refs[c] > 0
  /\ At(t, f, "seqno", c, 0)
  /\ UNCHANGED <<fileVars, ctxVars, subVars, fenceVars, queue, workerVars,
                 devVars>>

\* list_add semantics where queue_work appends.
SubmitQueue_Lifo(t) ==
  /\ pc[t] = "queue"
  /\ subContext' = [subContext EXCEPT ![tseq[t]] = tctx[t]]
  /\ queue' = IF WorkqueueAlive THEN <<tseq[t]>> \o queue ELSE queue
  /\ Return(t)
  /\ UNCHANGED <<nextSeqno, live, fileVars, ctxVars, fenceVars, workerVars,
                 devVars>>

\* An unplugged device returns from the work without completing it.
WorkStart_DropsUnplugged ==
  /\ wpc = "idle" /\ queue # <<>>
  /\ queue' = Tail(queue)
  /\ IF Unplugged THEN UNCHANGED <<wpc, wseq>>
                  ELSE wpc' = "send" /\ wseq' = Head(queue)
  /\ UNCHANGED <<wret, fileVars, ctxVars, subVars, fenceVars, threadVars,
                 devVars>>

\* An unplugged device goes past the stores, straight to complete_all.
WorkStart_SkipsPublish ==
  /\ wpc = "idle" /\ queue # <<>>
  /\ wseq' = Head(queue)
  /\ queue' = Tail(queue)
  /\ IF Unplugged THEN wpc' = "complete" /\ wret' = "error"
                  ELSE wpc' = "send" /\ UNCHANGED wret
  /\ UNCHANGED <<fileVars, ctxVars, subVars, fenceVars, threadVars, devVars>>

\* postclose without flush_workqueue.
CloseFlush_NoFlush(f) ==
  /\ fileState[f] = "closing" /\ contexts[f] = {}
  /\ fileState' = [fileState EXCEPT ![f] = "flushing"]
  /\ UNCHANGED <<contexts, submissions, barrier, ctxVars, subVars, fenceVars,
                 queue, workerVars, threadVars, devVars>>

\* postclose waits for the completions of its submissions.
CloseFree_WaitsForDone(f) ==
  /\ fileState[f] = "flushing" /\ submissions[f] \subseteq done
  /\ fileState' = [fileState EXCEPT ![f] = "closed"]
  /\ live' = live \ submissions[f]
  /\ submissions' = [submissions EXCEPT ![f] = {}]
  /\ barrier' = [barrier EXCEPT ![f] = {}]
  /\ UNCHANGED <<contexts, nextSeqno, subContext, ctxVars, fenceVars, queue,
                 workerVars, threadVars, devVars>>

\* disconnect waits until the ioctls in flight have returned.
DisconnectFlush_WaitsForIoctls ==
  /\ dev = "unplugged" /\ dev' = "flushing" /\ wpc # "send"
  /\ \A t \in Threads : pc[t] = "idle"
  /\ devBarrier' = Pending
  /\ UNCHANGED <<disconnected, fileVars, ctxVars, subVars, fenceVars, queue,
                 workerVars, threadVars>>

------------------------------------------------------------------------------
(* DRM_IOCTL_GRAPE_CONTEXT_CREATE and _DESTROY                             *)

CreateContext(t, f, c) ==
  /\ MayEnter(t, f)
  /\ remote[c] = "none"
  /\ \E outcome \in Outcomes \ {"failed"} :
       /\ remote' = [remote EXCEPT ![c] = "live"]
       /\ IF outcome = "ok"
          THEN /\ refs' = [refs EXCEPT ![c] = 1]
               /\ At(t, f, "store", c, 0)
          ELSE UNCHANGED <<refs, threadVars>>
  /\ UNCHANGED <<fileVars, subVars, fenceVars, queue, workerVars, devVars>>

\* grape_file_store_context under gfile->lock: the table takes the reference.
CreateStore(t) ==
  /\ pc[t] = "store"
  /\ contexts' = [contexts EXCEPT ![tfile[t]] = @ \cup {tctx[t]}]
  /\ Goto(t, "report", tctx[t], 0)
  /\ UNCHANGED <<fileState, submissions, barrier, ctxVars, subVars,
                 fenceVars, queue, workerVars, devVars>>

\* fail_remote: the remote object is destroyed and the context freed at once.
CreateStoreFail(t) ==
  /\ pc[t] = "store"
  /\ refs' = [refs EXCEPT ![tctx[t]] = 0]
  /\ \E outcome \in Outcomes :
       remote' = [remote EXCEPT
                    ![tctx[t]] = IF outcome = "failed" THEN @ ELSE "destroyed"]
  /\ Return(t)
  /\ UNCHANGED <<fileVars, subVars, fenceVars, queue, workerVars, devVars>>

\* args->context_id = context->local_id, after gfile->lock is released.
CreateReport(t) ==
  /\ pc[t] = "report"
  /\ Return(t)
  /\ UNCHANGED <<fileVars, ctxVars, subVars, fenceVars, queue, workerVars,
                 devVars>>

\* xa_erase under gfile->lock: the table's reference moves to the thread.
DestroyContext(t, f, c) ==
  /\ MayEnter(t, f)
  /\ c \in contexts[f]
  /\ contexts' = [contexts EXCEPT ![f] = @ \ {c}]
  /\ At(t, f, "put", c, 0)
  /\ UNCHANGED <<fileState, submissions, barrier, ctxVars, subVars,
                 fenceVars, queue, workerVars, devVars>>

\* The ioctl drops its reference on the way out.
PutAndReturn(t) ==
  /\ pc[t] = "put"
  /\ PutContext(tctx[t])
  /\ Return(t)
  /\ UNCHANGED <<fileVars, subVars, fenceVars, queue, workerVars, devVars>>

------------------------------------------------------------------------------
(* DRM_IOCTL_GRAPE_SUBMIT                                                  *)

\* xa_load and refcount_inc_not_zero under gfile->lock.
SubmitLookup(t, f, c) ==
  /\ MayEnter(t, f)
  /\ c \in contexts[f] /\ refs[c] > 0
  /\ refs' = [refs EXCEPT ![c] = @ + 1]
  /\ At(t, f, "seqno", c, 0)
  /\ UNCHANGED <<fileVars, remote, subVars, fenceVars, queue, workerVars,
                 devVars>>

\* kzalloc fails: goto fail_context.
SubmitAllocFail(t) ==
  /\ pc[t] = "seqno"
  /\ Goto(t, "put", tctx[t], 0)
  /\ UNCHANGED <<fileVars, ctxVars, subVars, fenceVars, queue,
                 workerVars, devVars>>

\* atomic64_inc_return outside any lock: submitters race from here on.
SubmitSeqno(t) ==
  /\ pc[t] = "seqno" /\ nextSeqno < MaxSeqno
  /\ nextSeqno' = nextSeqno + 1
  /\ live' = live \cup {nextSeqno + 1}
  /\ status' = [status EXCEPT ![nextSeqno + 1] = "in_progress"]
  /\ Goto(t, "insert", tctx[t], nextSeqno + 1)
  /\ UNCHANGED <<subContext, completedSeqno, done, fileVars, ctxVars,
                 queue, workerVars, devVars>>

SubmitInsert(t) ==
  /\ pc[t] = "insert"
  /\ submissions' = [submissions EXCEPT ![tfile[t]] = @ \cup {tseq[t]}]
  /\ Goto(t, "queue", tctx[t], tseq[t])
  /\ UNCHANGED <<fileState, contexts, barrier, ctxVars, subVars,
                 fenceVars, queue, workerVars, devVars>>

\* xa_store fails: goto fail_submission.
SubmitInsertFail(t) ==
  /\ pc[t] = "insert"
  /\ live' = live \ {tseq[t]}
  /\ Goto(t, "put", tctx[t], 0)
  /\ UNCHANGED <<nextSeqno, subContext, fileVars, ctxVars, fenceVars,
                 queue, workerVars, devVars>>

\* queue_work hands the context reference to the work.  A workqueue that
\* drains or is gone drops the work, and the reference with it.
SubmitQueue(t) ==
  /\ pc[t] = "queue"
  /\ subContext' = [subContext EXCEPT ![tseq[t]] = tctx[t]]
  /\ queue' = IF WorkqueueAlive THEN Append(queue, tseq[t]) ELSE queue
  /\ Return(t)
  /\ UNCHANGED <<nextSeqno, live, fileVars, ctxVars, fenceVars, workerVars,
                 devVars>>

------------------------------------------------------------------------------
(* DRM_IOCTL_GRAPE_WAIT                                                    *)

WaitLookup(t, f, s) ==
  /\ MayEnter(t, f)
  /\ s \in submissions[f]
  /\ At(t, f, "wait", NoContext, s)
  /\ UNCHANGED <<fileVars, ctxVars, subVars, fenceVars, queue, workerVars,
                 devVars>>

WaitReturn(t) ==
  /\ pc[t] = "wait" /\ tseq[t] \in done
  /\ Return(t)
  /\ UNCHANGED <<fileVars, ctxVars, subVars, fenceVars, queue, workerVars,
                 devVars>>

\* -ETIME from a poll or a timeout, or a signal.
WaitGiveUp(t) ==
  /\ pc[t] = "wait"
  /\ Return(t)
  /\ UNCHANGED <<fileVars, ctxVars, subVars, fenceVars, queue, workerVars,
                 devVars>>

------------------------------------------------------------------------------
(* grape_gpu_submit_work, on the ordered workqueue                         *)

\* drm_dev_enter: an unplugged device fails the submission without I/O.
WorkStart ==
  /\ wpc = "idle" /\ queue # <<>>
  /\ wseq' = Head(queue)
  /\ queue' = Tail(queue)
  /\ IF Unplugged THEN wpc' = "publish" /\ wret' = "error"
                  ELSE wpc' = "send" /\ UNCHANGED wret
  /\ UNCHANGED <<fileVars, ctxVars, subVars, fenceVars, threadVars, devVars>>

\* grape_remote_gpu_submit and drm_dev_exit.  An executed-count mismatch, a
\* device status and a transport failure all end as an error status; a request
\* already in flight when disconnected is set may still succeed.
WorkSend ==
  /\ wpc = "send"
  /\ wpc' = "publish"
  /\ wret' \in Final
  /\ UNCHANGED <<wseq, fileVars, ctxVars, subVars, fenceVars, queue,
                 threadVars, devVars>>

WorkPublish ==
  /\ wpc = "publish"
  /\ wpc' = "complete"
  /\ status' = [status EXCEPT ![wseq] = wret]
  /\ completedSeqno' = wseq
  /\ UNCHANGED <<wseq, wret, done, fileVars, ctxVars, subVars, queue,
                 threadVars, devVars>>

\* complete_all
WorkComplete ==
  /\ wpc = "complete"
  /\ wpc' = "put"
  /\ done' = done \cup {wseq}
  /\ UNCHANGED <<wseq, wret, completedSeqno, status, fileVars, ctxVars,
                 subVars, queue, threadVars, devVars>>

\* grape_gpu_context_put, then submission->context = NULL and the work ends.
WorkPut ==
  /\ wpc = "put"
  /\ PutContext(subContext[wseq])
  /\ subContext' = [subContext EXCEPT ![wseq] = NoContext]
  /\ wpc' = "idle" /\ wseq' = 0 /\ wret' = "ok"
  /\ UNCHANGED <<nextSeqno, live, fileVars, fenceVars, queue, threadVars,
                 devVars>>

------------------------------------------------------------------------------
(* grape_drm_open and grape_drm_postclose                                  *)

Open(f) ==
  /\ fileState[f] = "unopened" /\ ~Unplugged
  /\ fileState' = [fileState EXCEPT ![f] = "open"]
  /\ UNCHANGED <<contexts, submissions, barrier, ctxVars, subVars, fenceVars,
                 queue, workerVars, threadVars, devVars>>

InFlight(f) == {t \in Threads : pc[t] # "idle" /\ tfile[t] = f}

Close(f) ==
  /\ fileState[f] = "open" /\ InFlight(f) = {}
  /\ fileState' = [fileState EXCEPT ![f] = "closing"]
  /\ UNCHANGED <<contexts, submissions, barrier, ctxVars, subVars, fenceVars,
                 queue, workerVars, threadVars, devVars>>

\* One round of the first xa_for_each: erase and put.
CloseContext(f, c) ==
  /\ fileState[f] = "closing" /\ c \in contexts[f]
  /\ contexts' = [contexts EXCEPT ![f] = @ \ {c}]
  /\ PutContext(c)
  /\ UNCHANGED <<fileState, submissions, barrier, subVars, fenceVars, queue,
                 workerVars, threadVars, devVars>>

\* flush_workqueue is called: gpu_wq is never reset, so it always is.
CloseFlush(f) ==
  /\ fileState[f] = "closing" /\ contexts[f] = {}
  /\ fileState' = [fileState EXCEPT ![f] = "flushing"]
  /\ barrier' = [barrier EXCEPT ![f] = Pending]
  /\ UNCHANGED <<contexts, submissions, ctxVars, subVars, fenceVars, queue,
                 workerVars, threadVars, devVars>>

\* The flush returned: every submission of the file is freed.
CloseFree(f) ==
  /\ fileState[f] = "flushing" /\ barrier[f] \cap Pending = {}
  /\ fileState' = [fileState EXCEPT ![f] = "closed"]
  /\ live' = live \ submissions[f]
  /\ submissions' = [submissions EXCEPT ![f] = {}]
  /\ barrier' = [barrier EXCEPT ![f] = {}]
  /\ UNCHANGED <<contexts, nextSeqno, subContext, ctxVars, fenceVars, queue,
                 workerVars, threadVars, devVars>>

------------------------------------------------------------------------------
(* grape_usb_disconnect, then the devres actions of the interface          *)

DevStep(from, to) == dev = from /\ dev' = to

\* physically_gone is read; a device that is gone is marked disconnected.
Disconnect ==
  /\ DevStep("bound", "stopping")
  /\ disconnected' \in BOOLEAN
  /\ UNCHANGED <<devBarrier, fileVars, ctxVars, subVars, fenceVars, queue,
                 workerVars, threadVars>>

\* drm_dev_unplug raises the flag ...
Unplug ==
  /\ DevStep("stopping", "unplugged")
  /\ UNCHANGED <<devBarrier, disconnected, fileVars, ctxVars, subVars,
                 fenceVars, queue, workerVars, threadVars>>

\* ... and waits for the drm_dev_enter section; then gpu_wq is flushed.
DisconnectFlush ==
  /\ DevStep("unplugged", "flushing") /\ wpc # "send"
  /\ devBarrier' = Pending
  /\ UNCHANGED <<disconnected, fileVars, ctxVars, subVars, fenceVars, queue,
                 workerVars, threadVars>>

DisconnectDone ==
  /\ DevStep("flushing", "disconnected") /\ devBarrier \cap Pending = {}
  /\ devBarrier' = {}
  /\ disconnected' = TRUE
  /\ UNCHANGED <<fileVars, ctxVars, subVars, fenceVars, queue, workerVars,
                 threadVars>>

\* grape_gpu_workqueue_destroy_action: destroy_workqueue drains first.
DestroyWorkqueue ==
  /\ DevStep("disconnected", "draining")
  /\ UNCHANGED <<devBarrier, disconnected, fileVars, ctxVars, subVars,
                 fenceVars, queue, workerVars, threadVars>>

Unbind ==
  /\ DevStep("draining", "unbound") /\ Pending = {}
  /\ UNCHANGED <<devBarrier, disconnected, fileVars, ctxVars, subVars,
                 fenceVars, queue, workerVars, threadVars>>

------------------------------------------------------------------------------
\* The steps of an ioctl that has been entered.
ThreadStep(t) ==
  \/ CreateStore(t) \/ CreateStoreFail(t) \/ CreateReport(t)
  \/ PutAndReturn(t)
  \/ SubmitAllocFail(t) \/ SubmitSeqno(t)
  \/ SubmitInsert(t) \/ SubmitInsertFail(t) \/ SubmitQueue(t)
  \/ WaitReturn(t) \/ WaitGiveUp(t)

Ioctl(t, f) ==
  \/ \E c \in Contexts : CreateContext(t, f, c) \/ DestroyContext(t, f, c)
                           \/ SubmitLookup(t, f, c)
  \/ \E s \in Seqnos : WaitLookup(t, f, s)

Worker == WorkStart \/ WorkSend \/ WorkPublish \/ WorkComplete \/ WorkPut

CloseStep(f) ==
  (\E c \in Contexts : CloseContext(f, c)) \/ CloseFlush(f) \/ CloseFree(f)

DisconnectStep ==
  Unplug \/ DisconnectFlush \/ DisconnectDone \/ DestroyWorkqueue \/ Unbind

Next ==
  \/ \E t \in Threads : ThreadStep(t) \/ \E f \in Files : Ioctl(t, f)
  \/ Worker
  \/ \E f \in Files : Open(f) \/ Close(f) \/ CloseStep(f)
  \/ Disconnect \/ DisconnectStep

Spec == Init /\ [][Next]_vars

(* The kernel keeps running what it started: the worker (each transfer ends *)
(* within its timeout), a postclose and a disconnect.                       *)
FairSpec ==
  /\ Spec
  /\ WF_vars(Worker) /\ WF_vars(DisconnectStep)
  /\ \A f \in Files : WF_vars(CloseStep(f))

------------------------------------------------------------------------------
(* Properties                                                              *)

\* Type correctness of the driver's render state; a reference count never
\* underflows (refcount_dec_and_test on a freed context).
TypeOK ==
  /\ fileState \in [Files -> FilePhases]
  /\ contexts \in [Files -> SUBSET Contexts]
  /\ submissions \in [Files -> SUBSET Seqnos]
  /\ barrier \in [Files -> SUBSET Seqnos]
  /\ refs \in [Contexts -> Nat]
  /\ remote \in [Contexts -> {"none", "live", "destroyed"}]
  /\ nextSeqno \in 0 .. MaxSeqno /\ completedSeqno \in 0 .. MaxSeqno
  /\ live \subseteq Seqnos /\ done \subseteq Seqnos
  /\ subContext \in [Seqnos -> Contexts \cup {NoContext}]
  /\ status \in [Seqnos -> Final \cup {"none", "in_progress"}]
  /\ queue \in Seq(Seqnos)
  /\ wpc \in WorkerPcs /\ wret \in Final
  /\ wseq \in Seqnos \cup {0} /\ (wpc # "idle" => wseq # 0)
  /\ pc \in [Threads -> ThreadPcs]
  /\ tfile \in [Threads -> Files \cup {NoFile}]
  /\ tctx \in [Threads -> Contexts \cup {NoContext}]
  /\ tseq \in [Threads -> Seqnos \cup {0}]
  /\ dev \in DevPhases /\ devBarrier \subseteq Seqnos
  /\ disconnected \in BOOLEAN

\* The owners of references on c: file tables, ioctls in flight, queued work.
FilesHolding(c)   == {f \in Files : c \in contexts[f]}
ThreadsHolding(c) == {t \in Threads : pc[t] \in HoldingPcs /\ tctx[t] = c}
WorkHolding(c)    == {s \in Seqnos : subContext[s] = c}

\* context->refs counts exactly its owners, through create, destroy, submit,
\* every error path, the worker and postclose: freed neither early nor late.
RefsMatchHolders ==
  \A c \in Contexts : refs[c] = Cardinality(FilesHolding(c))
                               + Cardinality(ThreadsHolding(c))
                               + Cardinality(WorkHolding(c))

\* grape_gpu_submit_work sends to a context the device still has: a destroy
\* ioctl or a close that overtakes queued work does not destroy it first.
SubmitOnLiveContext ==
  wpc = "send" => subContext[wseq] \in Contexts
                    /\ remote[subContext[wseq]] = "live"

\* Work, waiters and the file's table only reach allocated submissions:
\* postclose frees none that the workqueue still has.
SubmissionsStayAllocated ==
  /\ Pending \subseteq live
  /\ \A t \in Threads : tseq[t] # 0 => tseq[t] \in live
  /\ \A f \in Files : submissions[f] \subseteq live

\* What a client may see of a completion before its last step: a WAIT that is
\* woken reads a final status, COMPLETED_SEQNO names a submission that has one,
\* and only the one the worker is about to signal has it without its signal,
\* however SUBMITs with earlier or later numbers and an unplug interleave.
Published == {s \in Seqnos : status[s] \in Final}
SignalledIsPublished ==
  /\ done \subseteq Published
  /\ Published \ done \subseteq IF wpc = "complete" THEN {wseq} ELSE {}
  /\ completedSeqno \in Published \cup {0}
  /\ wpc \in {"complete", "put"} => completedSeqno = wseq

\* GRAPE_DRM_PARAM_COMPLETED_SEQNO as grape_get_param_ioctl returns it.
CompletedParam == completedSeqno

\* kernel/README.md:15-16: submissions run in order and their numbers increase
\* monotonically, so COMPLETED_SEQNO, which clients poll, never goes back.
CompletedNeverRegresses == [][CompletedParam' >= CompletedParam]_vars

\* grape_drm_postclose flushes gpu_wq only while the workqueue exists; the test
\* of gdev->gpu_wq before the flush is meant to say so.
FlushOnLiveWorkqueue ==
  [][\A f \in Files : (fileState[f] # "flushing" /\ fileState'[f] = "flushing")
                          => dev # "unbound"]_vars

\* Work accepted by gpu_wq completes, bound or unplugged: no WAIT on it hangs.
AcceptedWorkCompletes == \A s \in Seqnos : s \in Pending ~> s \in done

\* A postclose ends, whatever the device does meanwhile.
CloseCompletes ==
  \A f \in Files : fileState[f] = "closing" ~> fileState[f] = "closed"

\* A disconnect ends while clients still hold files, contexts and waits.
DisconnectCompletes == dev = "stopping" ~> dev = "unbound"

\* The refinement: the worker's submission heads the fifo until complete_all.
Fifo == (IF wpc \in {"send", "publish", "complete"} THEN <<wseq>> ELSE <<>>)
          \o queue
Fence == INSTANCE GpuFence
           WITH Results <- Final, fifo <- Fifo,
                result <- [s \in Seqnos |->
                             IF s \in done THEN status[s] ELSE "none"]

\* SUBMIT and WAIT keep the promise of GpuFence: in order, exactly once, with a
\* result that stays, and for every submission that was accepted.
ImplementsFence == Fence!Spec

==============================================================================
