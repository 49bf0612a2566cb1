--------------------------- MODULE DriverLifecycle ---------------------------
(***************************************************************************)
(* One binding of kernel/grape_drm.c to the board, from grape_usb_probe to *)
(* the release of what it acquired, and everybody who uses those things:   *)
(* the scanout worker, the commits, the GPU work, the ioctls and the       *)
(* closing of files.  What probe allocates is managed: the driver core     *)
(* releases it in reverse order after probe failed or disconnect returned. *)
(* The reference on the USB device is not.                                 *)
(*                                                                         *)
(* Every request takes io_lock, looks at disconnected and uses the USB     *)
(* device and one pair of buffers.  drm_dev_unplug waits for the sections  *)
(* of the workers and the commits, but not for ioctls.  What a request is  *)
(* for is left to GpuRender and Scanout.                                   *)
(***************************************************************************)
EXTENDS Integers, Sequences, FiniteSets, SequencesExt

CONSTANTS Callers,   \* files of user space, each used by one thread
          MaxWorks   \* bound on the GPU work that is queued

Nobody == "nobody"
Actors == {"core", "worker", "gpu"} \cup Callers

ASSUME CallersAssumption ==
  {Nobody, "core", "worker", "gpu"} \cap Callers = {}
ASSUME WorksAssumption == MaxWorks \in Nat

\* What probe does, in this order.
ProbeSteps ==
  <<"match", "drm", "io_buffers", "udev", "hello", "info", "capabilities",
    "gpu_wq", "sizes", "pending", "upload", "displayed", "rect", "tiles",
    "sync", "modeset", "register">>

FrameBuffers == {"pending", "upload", "displayed", "rect", "tiles"}
Requests     == {"hello", "info"}
Checks       == {"match", "capabilities", "sizes", "modeset"}
Managed      == {"drm", "tx", "rx", "gpu_wq"} \cup FrameBuffers

\* A failure of the first steps returns, one of the others goes to err_clear.
Early == {"match", "drm", "io_buffers"}

VARIABLES
  pc,         \* where probe, disconnect and the driver core are
  at,         \* the step of probe
  managed,    \* the managed resources, in the order they were acquired
  usb,        \* references of the driver on the USB device
  intfdata,   \* the interface knows the driver's device
  sync,       \* scanout_sync_initialized
  gone,       \* the board has been pulled out
  physically, \* physically_gone of disconnect
  stopping, disconnected,
  unplugged,
  io,         \* who holds io_lock
  pending,    \* scanout_pending
  queued, wpc,  \* scanout_work is queued, and where the worker is
  ppc,        \* where the commit is
  works, gpc, \* GPU work queued, and where the one that runs is
  call,       \* what each caller is doing with its file
  remote,     \* remote objects the driver knows: texture, then surface
  late, straggler, lost  \* ghost: the callers in an ioctl at the unplug; who
                         \* held io_lock when disconnected was set; whose
                         \* GPU work met a destroyed workqueue

binding == <<at, managed, usb, intfdata, sync>>
flags   == <<physically, stopping, disconnected, unplugged>>
scanout == <<pending, queued, wpc, ppc>>
gpu     == <<works, gpc>>
ghosts  == <<late, straggler, lost>>
vars == <<pc, binding, gone, flags, io, scanout, gpu, call, remote, ghosts>>

Init ==
  /\ pc = "probe" /\ at = 1 /\ managed = <<>> /\ usb = 0 /\ intfdata = FALSE
  /\ sync = FALSE /\ gone = FALSE /\ physically = FALSE
  /\ stopping = FALSE /\ disconnected = FALSE /\ unplugged = FALSE
  /\ io = Nobody
  /\ pending = FALSE /\ queued = FALSE /\ wpc = "idle" /\ ppc = "idle"
  /\ works = 0 /\ gpc = "idle"
  /\ call = [c \in Callers |-> "none"] /\ remote = 0
  /\ late = {} /\ straggler = Nobody /\ lost = {}

Live == ToSet(managed)
Step == ProbeSteps[at]

\* drm_dev_register has shown the device to user space.
Visible == pc \in {"bound", "stopped"}

\* What drm_dev_unplug waits for.
InSection == wpc # "idle" \/ ppc # "idle" \/ gpc = "section"

\* The three steps of a request: the lock, the answer -ENODEV, the transfer.
Locked(actor)      == io = Nobody /\ ~disconnected /\ io' = actor
Refused            == io = Nobody /\ disconnected /\ UNCHANGED io
Transferred(actor) == io = actor /\ io' = Nobody

------------------------------------------------------------------------------
(* Seeded defects.  None is part of Next: each is a plausible slip in one  *)
(* of the actions below, and shows that a property would notice it.        *)

\* A step that fails early goes to err_clear like the others.
ProbeFails_AlwaysClears ==
  /\ pc = "probe" /\ io = Nobody /\ Step \notin {"udev", "sync"}
  /\ pc' = "clear"
  /\ UNCHANGED <<binding, gone, flags, io, scanout, gpu, call, remote, ghosts>>

\* Only the unplugged board counts as disconnected.
LastStep_KeepsConnected ==
  /\ pc = "last" /\ pc' = "release"
  /\ straggler' = io
  /\ usb' = usb - 1
  /\ UNCHANGED <<at, managed, intfdata, sync, gone, flags, io, scanout, gpu,
                 call, remote, late, lost>>

\* The work is left to the flag that stops it.
CancelWork_Skipped ==
  /\ pc = "cancel" /\ pc' = "flush"
  /\ UNCHANGED <<binding, gone, flags, io, scanout, gpu, call, remote, ghosts>>

\* The worker tries again whatever the error is.
WorkRefused_Retries ==
  /\ wpc = "upload" /\ Refused
  /\ UNCHANGED <<pc, binding, gone, flags, scanout, gpu, call, remote, ghosts>>

------------------------------------------------------------------------------
(* Probe                                                                   *)

ProbeCheck ==
  /\ pc = "probe" /\ Step \in Checks
  /\ at' = at + 1
  /\ UNCHANGED <<pc, managed, usb, intfdata, sync, gone, flags, io, scanout,
                 gpu, call, remote, ghosts>>

ProbeAcquires ==
  /\ pc = "probe" /\ Step \in Managed \cup {"io_buffers"}
  /\ managed' = managed \o IF Step = "io_buffers" THEN <<"tx", "rx">>
                                                 ELSE <<Step>>
  /\ at' = at + 1
  /\ UNCHANGED <<pc, usb, intfdata, sync, gone, flags, io, scanout, gpu, call,
                 remote, ghosts>>

\* usb_get_dev, io_lock and the interface data
ProbeTakesDevice ==
  /\ pc = "probe" /\ Step = "udev"
  /\ usb' = usb + 1 /\ intfdata' = TRUE
  /\ at' = at + 1
  /\ UNCHANGED <<pc, managed, sync, gone, flags, io, scanout, gpu, call, remote,
                 ghosts>>

ProbeRequest ==
  /\ pc = "probe" /\ Step \in Requests /\ Locked("core")
  /\ UNCHANGED <<pc, binding, gone, flags, scanout, gpu, call, remote, ghosts>>

ProbeAnswered ==
  /\ pc = "probe" /\ Transferred("core")
  /\ \/ ~gone /\ at' = at + 1 /\ UNCHANGED pc
     \/ pc' = "clear" /\ UNCHANGED at
  /\ UNCHANGED <<managed, usb, intfdata, sync, gone, flags, scanout, gpu, call,
                 remote, ghosts>>

\* scanout_lock and scanout_work
ProbeSync ==
  /\ pc = "probe" /\ Step = "sync"
  /\ sync' = TRUE
  /\ at' = at + 1
  /\ UNCHANGED <<pc, managed, usb, intfdata, gone, flags, io, scanout, gpu,
                 call, remote, ghosts>>

ProbeBinds ==
  /\ pc = "probe" /\ Step = "register"
  /\ pc' = "bound"
  /\ UNCHANGED <<binding, gone, flags, io, scanout, gpu, call, remote, ghosts>>

\* A check, an allocation or a registration fails.  A resource whose release
\* cannot be registered is released at once, and one of the two buffers of
\* io_lock may be there when the other is not.
ProbeFails ==
  /\ pc = "probe" /\ Step \notin Requests \cup {"udev", "sync"}
  /\ pc' = IF Step \in Early THEN "release" ELSE "clear"
  /\ managed' \in {managed} \cup
       IF Step = "io_buffers"
       THEN {Append(managed, "tx"), Append(managed, "rx")} ELSE {}
  /\ UNCHANGED <<at, usb, intfdata, sync, gone, flags, io, scanout, gpu, call,
                 remote, ghosts>>

\* err_clear: the worker is stopped only if it was set up.
ClearProbe ==
  /\ pc = "clear" /\ wpc = "idle"
  /\ intfdata' = FALSE
  /\ stopping' = sync /\ queued' = (queued /\ ~sync)
  /\ usb' = usb - 1
  /\ pc' = "release"
  /\ UNCHANGED <<at, managed, sync, gone, physically, disconnected, unplugged,
                 io, pending, wpc, ppc, gpu, call, remote, ghosts>>

------------------------------------------------------------------------------
(* Disconnect, and the driver core after it                                *)

PulledOut ==
  /\ ~gone /\ gone' = TRUE
  /\ UNCHANGED <<pc, binding, flags, io, scanout, gpu, call, remote, ghosts>>

Disconnect ==
  /\ pc = "bound" /\ intfdata
  /\ intfdata' = FALSE /\ physically' = gone
  /\ stopping' = TRUE /\ pending' = FALSE
  /\ disconnected' = gone
  /\ straggler' = IF gone THEN io ELSE straggler
  /\ pc' = "stopped"
  /\ UNCHANGED <<at, managed, usb, sync, gone, unplugged, io, queued, wpc, ppc,
                 gpu, call, remote, late, lost>>

\* drm_dev_unplug: nobody new comes in, and those in a section come out.
Unplug ==
  /\ pc = "stopped"
  /\ unplugged' = TRUE /\ late' = {c \in Callers : call[c] = "ioctl"}
  /\ pc' = "drain"
  /\ UNCHANGED <<binding, gone, physically, stopping, disconnected, io, scanout,
                 gpu, call, remote, straggler, lost>>

Drained ==
  /\ pc = "drain" /\ ~InSection
  /\ pc' = "cancel"
  /\ UNCHANGED <<binding, gone, flags, io, scanout, gpu, call, remote, ghosts>>

CancelWork ==
  /\ pc = "cancel" /\ wpc = "idle"
  /\ queued' = FALSE
  /\ pc' = "flush"
  /\ UNCHANGED <<binding, gone, flags, io, pending, wpc, ppc, gpu, call, remote,
                 ghosts>>

FlushGpu ==
  /\ pc = "flush" /\ works = 0 /\ gpc = "idle"
  /\ pc' = "cleanup"
  /\ UNCHANGED <<binding, gone, flags, io, scanout, gpu, call, remote, ghosts>>

\* grape_scanout_cleanup_remote: the surface and the texture, if they exist.
CleanupRequest ==
  /\ pc = "cleanup" /\ ~physically /\ remote > 0 /\ Locked("core")
  /\ UNCHANGED <<pc, binding, gone, flags, scanout, gpu, call, remote, ghosts>>

\* The handle is forgotten whether the object was destroyed or not.
CleanupAnswered ==
  /\ pc = "cleanup" /\ Transferred("core")
  /\ remote' = remote - 1
  /\ UNCHANGED <<pc, binding, gone, flags, scanout, gpu, call, ghosts>>

CleanupDone ==
  /\ pc = "cleanup" /\ (physically \/ remote = 0)
  /\ pc' = "last"
  /\ UNCHANGED <<binding, gone, flags, io, scanout, gpu, call, remote, ghosts>>

\* disconnected is set without io_lock, whoever holds it.
LastStep ==
  /\ pc = "last" /\ pc' = "release"
  /\ disconnected' = TRUE
  /\ straggler' = IF disconnected THEN straggler ELSE io
  /\ usb' = usb - 1
  /\ UNCHANGED <<at, managed, intfdata, sync, gone, physically, stopping,
                 unplugged, io, scanout, gpu, call, remote, late, lost>>

\* devres, last acquired first; the workqueue is drained before it goes.
Release ==
  /\ pc = "release" /\ managed # <<>>
  /\ Last(managed) = "gpu_wq" => works = 0 /\ gpc = "idle"
  /\ managed' = Front(managed)
  /\ UNCHANGED <<pc, at, usb, intfdata, sync, gone, flags, io, scanout, gpu,
                 call, remote, ghosts>>

Unbound ==
  /\ pc = "release" /\ managed = <<>>
  /\ pc' = "unbound"
  /\ UNCHANGED <<binding, gone, flags, io, scanout, gpu, call, remote, ghosts>>

------------------------------------------------------------------------------
(* Commits and the scanout worker                                          *)

\* grape_plane_atomic_update: a section, in which a frame is put into the
\* pending buffer and the work is queued unless the driver is stopping.
CommitEnter ==
  /\ Visible /\ ~unplugged /\ ppc = "idle"
  /\ ppc' = "section"
  /\ UNCHANGED <<pc, binding, gone, flags, io, pending, queued, wpc, gpu, call,
                 remote, ghosts>>

CommitEnds ==
  /\ ppc = "section"
  /\ pending' = (pending \/ ~stopping) /\ queued' = (queued \/ ~stopping)
  /\ ppc' = "idle"
  /\ UNCHANGED <<pc, binding, gone, flags, io, wpc, gpu, call, remote, ghosts>>

WorkBegin ==
  /\ queued /\ wpc = "idle"
  /\ queued' = FALSE
  /\ wpc' = IF unplugged THEN "idle" ELSE "section"
  /\ UNCHANGED <<pc, binding, gone, flags, io, pending, ppc, gpu, call, remote,
                 ghosts>>

WorkTakes ==
  /\ wpc = "section"
  /\ IF stopping \/ ~pending
     THEN wpc' = "idle" /\ UNCHANGED pending
     ELSE wpc' = "upload" /\ pending' = FALSE
  /\ UNCHANGED <<pc, binding, gone, flags, io, queued, ppc, gpu, call, remote,
                 ghosts>>

\* The requests of one frame are one; the first makes the remote objects.
WorkRequest ==
  /\ wpc = "upload" /\ Locked("worker")
  /\ UNCHANGED <<pc, binding, gone, flags, scanout, gpu, call, remote, ghosts>>

WorkRefused ==
  /\ wpc = "upload" /\ Refused
  /\ wpc' = "idle" /\ pending' = FALSE
  /\ UNCHANGED <<pc, binding, gone, flags, queued, ppc, gpu, call, remote,
                 ghosts>>

WorkAnswered ==
  /\ wpc = "upload" /\ Transferred("worker")
  /\ \/ ~gone /\ wpc' = "section" /\ remote' = 2 /\ UNCHANGED pending
     \/ wpc' = "idle" /\ pending' = FALSE /\ remote' \in {remote, 2}
  /\ UNCHANGED <<pc, binding, gone, flags, queued, ppc, gpu, call, ghosts>>

------------------------------------------------------------------------------
(* Files and GPU work                                                      *)

OpenFile(c) ==
  /\ Visible /\ ~unplugged /\ call[c] = "none"
  /\ call' = [call EXCEPT ![c] = "open"]
  /\ UNCHANGED <<pc, binding, gone, flags, io, scanout, gpu, remote, ghosts>>

\* drm_ioctl refuses an unplugged device; a file is closed at any time.
EnterCall(c) ==
  /\ call[c] = "open"
  /\ call' \in {[call EXCEPT ![c] = "close"]} \cup
       IF unplugged THEN {} ELSE {[call EXCEPT ![c] = "ioctl"]}
  /\ UNCHANGED <<pc, binding, gone, flags, io, scanout, gpu, remote, ghosts>>

\* GPU_CONTEXT_CREATE and GPU_CONTEXT_DESTROY
CallRequest(c) ==
  /\ call[c] \in {"ioctl", "close"} /\ Locked(c)
  /\ UNCHANGED <<pc, binding, gone, flags, scanout, gpu, call, remote, ghosts>>

CallAnswered(c) ==
  /\ Transferred(c)
  /\ UNCHANGED <<pc, binding, gone, flags, scanout, gpu, call, remote, ghosts>>

\* The end of SUBMIT.  Nothing is run by a workqueue that is gone.
CallQueues(c) ==
  /\ call[c] = "ioctl" /\ io # c
  /\ IF "gpu_wq" \in Live
     THEN works < MaxWorks /\ works' = works + 1 /\ UNCHANGED lost
     ELSE lost' = lost \cup {c} /\ UNCHANGED works
  /\ call' = [call EXCEPT ![c] = "open"]
  /\ UNCHANGED <<pc, binding, gone, flags, io, scanout, gpc, remote, late,
                 straggler>>

CallReturns(c) ==
  /\ call[c] \in {"ioctl", "close"} /\ io # c
  /\ call' = [call EXCEPT ![c] = IF call[c] = "close" THEN "none" ELSE "open"]
  /\ UNCHANGED <<pc, binding, gone, flags, io, scanout, gpu, remote, ghosts>>

\* grape_gpu_submit_work: the request in a section, then the context is put.
GpuBegin ==
  /\ works > 0 /\ gpc = "idle"
  /\ works' = works - 1
  /\ gpc' = IF unplugged THEN "put" ELSE "section"
  /\ UNCHANGED <<pc, binding, gone, flags, io, scanout, call, remote, ghosts>>

GpuRequest ==
  /\ gpc \in {"section", "put"} /\ Locked("gpu")
  /\ UNCHANGED <<pc, binding, gone, flags, scanout, gpu, call, remote, ghosts>>

\* The last reference on the context costs a request, another one does not.
GpuMoves ==
  /\ \/ gpc \in {"section", "put"} /\ (Refused \/ Transferred("gpu"))
     \/ gpc = "put" /\ io # "gpu" /\ UNCHANGED io
  /\ gpc' = IF gpc = "section" THEN "put" ELSE "idle"
  /\ UNCHANGED <<pc, binding, gone, flags, scanout, works, call, remote,
                 ghosts>>

------------------------------------------------------------------------------
Probing ==
  \/ ProbeCheck \/ ProbeAcquires \/ ProbeTakesDevice \/ ProbeRequest
  \/ ProbeAnswered \/ ProbeSync \/ ProbeBinds \/ ProbeFails \/ ClearProbe

Unbinding ==
  \/ Unplug \/ Drained \/ CancelWork \/ FlushGpu \/ CleanupRequest
  \/ CleanupAnswered \/ CleanupDone \/ LastStep \/ Release \/ Unbound

Worker == WorkBegin \/ WorkTakes \/ WorkRequest \/ WorkRefused \/ WorkAnswered
Gpu    == GpuBegin \/ GpuRequest \/ GpuMoves

Caller(c) ==
  \/ OpenFile(c) \/ EnterCall(c) \/ CallRequest(c) \/ CallAnswered(c)
  \/ CallQueues(c) \/ CallReturns(c)

Next ==
  \/ Probing \/ PulledOut \/ Disconnect \/ Unbinding
  \/ CommitEnter \/ CommitEnds \/ Worker \/ Gpu
  \/ \E c \in Callers : Caller(c)

Spec == Init /\ [][Next]_vars

\* The kernel runs what it has begun, a transfer ends by its timeout, a mutex
\* goes to everybody who waits for it, and the USB core disconnects a board
\* that was pulled out.  Nobody has to call, to commit or to close a file.
Fairness ==
  /\ WF_vars(Probing) /\ SF_vars(Unbinding) /\ WF_vars(gone /\ Disconnect)
  /\ WF_vars(CommitEnds) /\ SF_vars(Worker) /\ SF_vars(Gpu)
  /\ \A c \in Callers : WF_vars(CallAnswered(c))

FairSpec == Spec /\ Fairness

------------------------------------------------------------------------------
(* Properties                                                              *)

(* Type correctness; the USB device is never put more often than taken.    *)
TypeOK ==
  /\ pc \in {"probe", "clear", "bound", "stopped", "drain", "cancel", "flush",
             "cleanup", "last", "release", "unbound"}
  /\ at \in DOMAIN ProbeSteps /\ managed \in Seq(Managed) /\ usb \in 0 .. 1
  /\ {intfdata, sync, gone, physically, stopping, disconnected, unplugged,
      pending, queued} \subseteq BOOLEAN
  /\ io \in Actors \cup {Nobody} /\ straggler \in Actors \cup {Nobody}
  /\ wpc \in {"idle", "section", "upload"}
  /\ ppc \in {"idle", "section"}
  /\ works \in 0 .. MaxWorks /\ gpc \in {"idle", "section", "put"}
  /\ call \in [Callers -> {"none", "open", "ioctl", "close"}]
  /\ remote \in 0 .. 2 /\ late \subseteq Callers /\ lost \subseteq Callers

(* Nobody uses what is released.  The worker, the commits and the GPU work *)
(* never use memory that is; a request of an ioctl or a closing file does  *)
(* only if it had io_lock already when disconnected was set.  A SUBMIT can *)
(* meet the destroyed workqueue, or its work a USB device that was put,    *)
(* only if it was called before the device was unplugged.                  *)
NoUseAfterRelease ==
  /\ wpc # "idle" => sync /\ FrameBuffers \subseteq Live
  /\ ppc # "idle" => "pending" \in Live
  /\ works > 0 \/ gpc # "idle" => {"drm", "gpu_wq"} \subseteq Live
  /\ io # Nobody => \/ {"tx", "rx"} \subseteq Live /\ usb > 0
                    \/ io = straggler /\ io \in Callers
                    \/ /\ io = straggler /\ io = "gpu" /\ late # {}
                       /\ {"tx", "rx"} \subseteq Live
  /\ lost \subseteq late

(* At the end nothing is left of the binding, and nothing is on its way    *)
(* that would still look for it: no managed memory, no reference, no       *)
(* interface data, no work, no caller but the one straggler; and the       *)
(* remote objects of a board that was there are asked to be destroyed.     *)
EverythingReleased ==
  pc = "unbound" =>
    /\ managed = <<>> /\ usb = 0 /\ ~intfdata
    /\ ~queued /\ wpc = "idle" /\ ppc = "idle" /\ works = 0 /\ gpc = "idle"
    /\ io \in Callers \cup {Nobody}
    /\ ~physically => remote = 0

(* A board that is pulled out at any time, and a disconnect that has begun *)
(* or a probe that has failed, end with the release of everything.         *)
BindingEnds ==
  gone \/ pc \notin {"probe", "bound"} ~> pc = "unbound"

=============================================================================
