------------------------------ MODULE Scanout ------------------------------
(***************************************************************************)
(* The scanout path of kernel/grape_drm.c.  grape_plane_atomic_update puts *)
(* the newest frame into a one-place mailbox and queues scanout_work; the  *)
(* worker swaps the mailbox buffer for its own, compares it with what it   *)
(* believes the device shows, writes the damaged tiles into the remote     *)
(* texture without waiting for answers and asks for one PRESENT.           *)
(* grape_usb_disconnect stops both and destroys the remote objects.        *)
(*                                                                         *)
(* A frame gives every 32x32 tile a colour.  The reduction of damage to    *)
(* rectangles is here any set of tiles that covers the changed ones        *)
(* (module DamageSet has the algorithm).  A request has three outcomes:    *)
(* "ok", "lost" (executed, reported as failed) and "failed".               *)
(***************************************************************************)
EXTENDS Integers, Sequences

CONSTANTS Tiles,       \* the 32x32 tiles of the display
          Colors,      \* what a tile may show
          Black,       \* the colour of a zeroed buffer
          Blank,       \* the screen without a surface
          Drawn,       \* bound on the frames: what the compositor may hand over
          MaxFrames,   \* bound on how many frames it hands over
          MaxFaults    \* bound on the transfers that go wrong

Frames == [Tiles -> Colors]

ASSUME BlankAssumption == Blank \notin Frames
ASSUME BoundsAssumption == MaxFrames \in Nat /\ MaxFaults \in Nat
ASSUME BlackAssumption == Black \in Colors

VARIABLES
  buffers,    \* two frame buffers; the mailbox is one, the worker's the other
  mailbox,    \* index of scanout_pending_buf; the other is scanout_upload_buf
  pending,    \* scanout_pending
  displayed,  \* scanout_displayed_buf
  valid,      \* scanout_displayed_valid
  stopping,   \* scanout_stopping
  handles,    \* scanout_texture and scanout_surface are set
  ppc,        \* the commit inside grape_plane_atomic_update
  queued,     \* scanout_work is queued on system_long_wq
  wpc,        \* the worker inside grape_scanout_work
  damage,     \* the worker's damage set
  todo,       \* tiles of damage still to be written
  texture,    \* contents of the remote texture
  devTextures, devSurfaces,   \* objects the device has created for us
  screen,     \* what the device shows
  dev,        \* progress of disconnect
  disconnected,
  faults,     \* transfers that went wrong so far
  orphaned,   \* some create or destroy ended without us knowing its effect
  submitted, bufferNo, shown  \* ghost: frames in order, which one is where

boxVars    == <<buffers, mailbox, pending, bufferNo>>
workVars   == <<wpc, damage, todo>>
believed   == <<displayed, valid, handles>>
deviceVars == <<texture, devTextures, devSurfaces, screen, shown>>
devVars    == <<dev, disconnected, stopping>>
faultVars  == <<faults, orphaned>>
vars == <<boxVars, ppc, queued, workVars, believed, deviceVars, devVars,
          faultVars, submitted>>

upload   == 3 - mailbox          \* index of scanout_upload_buf
current  == buffers[upload]      \* the frame the worker is sending
Unplugged == dev \notin {"bound", "stopping"}

Fault == faults' = faults + 1 /\ faults < MaxFaults

\* A request: its outcome, counted when it goes wrong.
Request(outcome) ==
  \/ outcome = "ok" /\ ~disconnected /\ UNCHANGED faults
  \/ outcome = "lost" /\ ~disconnected /\ Fault
  \/ outcome = "failed" /\ IF disconnected THEN UNCHANGED faults ELSE Fault

Init ==
  /\ displayed = [t \in Tiles |-> Black]
  /\ buffers = [i \in 1 .. 2 |-> displayed] /\ mailbox = 1 /\ pending = FALSE
  /\ valid = FALSE /\ stopping = FALSE /\ handles = FALSE
  /\ ppc = "idle" /\ queued = FALSE
  /\ wpc = "idle" /\ damage = {} /\ todo = {}
  /\ texture = displayed /\ devTextures = 0 /\ devSurfaces = 0
  /\ screen = Blank
  /\ dev = "bound" /\ disconnected = FALSE
  /\ faults = 0 /\ orphaned = FALSE
  /\ submitted = <<>> /\ bufferNo = [i \in 1 .. 2 |-> 0] /\ shown = 0

------------------------------------------------------------------------------
(* Seeded defects.  None is part of Next: each is a plausible slip in one  *)
(* of the definitions below, and shows that a property would notice it.    *)

\* The worker keeps using its own buffer instead of the mailbox's.
WorkTake_NoSwap ==
  /\ wpc = "take" /\ pending /\ ~stopping
  /\ pending' = FALSE
  /\ wpc' = "diff"
  /\ UNCHANGED <<buffers, mailbox, bufferNo, damage, todo, ppc, queued,
                 believed, deviceVars, devVars, faultVars, submitted>>

\* The diff compares with the reference buffer whether it is valid or not;
\* an equal frame is skipped although the screen may show something else.
WorkUnchanged_AnyReference ==
  /\ wpc = "diff" /\ \A t \in Tiles : current[t] = displayed[t]
  /\ wpc' = "take"
  /\ shown' = IF valid THEN bufferNo[upload] ELSE shown
  /\ UNCHANGED <<damage, todo, boxVars, ppc, queued, believed, texture,
                 devTextures, devSurfaces, screen, devVars, faultVars,
                 submitted>>

\* The surface's error path destroys the texture and falls into a second one.
WorkCreateSurface_DoubleDestroy ==
  /\ wpc = "surface"
  /\ \E outcome \in {"ok", "failed"} :
       /\ Request(outcome)
       /\ devSurfaces' = devSurfaces + IF outcome = "ok" THEN 1 ELSE 0
       /\ devTextures' = devTextures - IF outcome = "ok" THEN 0 ELSE 1
       /\ handles' = (outcome = "ok")
       /\ wpc' = IF outcome = "ok" THEN "write" ELSE "undo"
  /\ UNCHANGED <<displayed, valid, texture, screen, shown, orphaned, damage,
                 todo, boxVars, ppc, queued, devVars, submitted>>

\* The surface's error path returns without destroying the texture.
WorkCreateSurface_NoUndo ==
  /\ wpc = "surface"
  /\ \E outcome \in {"ok", "failed"} :
       /\ Request(outcome)
       /\ devSurfaces' = devSurfaces + IF outcome = "ok" THEN 1 ELSE 0
       /\ handles' = (outcome = "ok")
       /\ wpc' = IF outcome = "ok" THEN "write" ELSE "fail"
  /\ UNCHANGED <<displayed, valid, texture, devTextures, screen, shown,
                 orphaned, damage, todo, boxVars, ppc, queued, devVars,
                 submitted>>

\* The result of PRESENT is not looked at.
WorkPresent_Unchecked ==
  /\ wpc = "write" /\ todo = {}
  /\ \E outcome \in {"ok", "lost", "failed"} :
       /\ Request(outcome)
       /\ IF outcome = "failed"
          THEN UNCHANGED <<screen, shown>>
          ELSE screen' = texture /\ shown' = bufferNo[upload]
  /\ wpc' = "commit"
  /\ UNCHANGED <<orphaned, texture, devTextures, devSurfaces, damage, todo,
                 boxVars, ppc, queued, believed, devVars, submitted>>

\* pending is cleared when the frame is through, not when it is taken.
WorkCommit_ClearsPending ==
  /\ wpc = "commit"
  /\ displayed' = current /\ valid' = TRUE
  /\ pending' = FALSE
  /\ wpc' = "take" /\ damage' = {}
  /\ UNCHANGED <<todo, handles, buffers, mailbox, bufferNo, ppc, queued,
                 deviceVars, devVars, faultVars, submitted>>

\* The error path leaves the reference valid.
WorkFail_KeepsValid ==
  /\ wpc = "fail"
  /\ pending' = FALSE
  /\ wpc' = "idle" /\ damage' = {} /\ todo' = {}
  /\ UNCHANGED <<believed, buffers, mailbox, bufferNo, ppc, queued,
                 deviceVars, devVars, faultVars, submitted>>

\* The plane update leaves its drm_dev_enter section before queue_work.
InSection_ExitBeforeKick == ppc = "copy" \/ wpc # "idle"

------------------------------------------------------------------------------
(* The producer: grape_plane_atomic_update, one commit at a time           *)

\* drm_dev_enter
UpdateEnter ==
  /\ ppc = "idle" /\ ~Unplugged /\ Len(submitted) < MaxFrames
  /\ ppc' = "copy"
  /\ UNCHANGED <<boxVars, queued, workVars, believed, deviceVars, devVars,
                 faultVars, submitted>>

\* Under scanout_lock: the frame overwrites whatever the mailbox holds.
UpdateCopy(frame) ==
  /\ ppc = "copy" /\ ~stopping /\ frame \in Drawn
  /\ buffers' = [buffers EXCEPT ![mailbox] = frame]
  /\ bufferNo' = [bufferNo EXCEPT ![mailbox] = Len(submitted) + 1]
  /\ submitted' = Append(submitted, frame)
  /\ pending' = TRUE
  /\ ppc' = "kick"
  /\ UNCHANGED <<mailbox, queued, workVars, believed, deviceVars, devVars,
                 faultVars>>

\* scanout_stopping, or a framebuffer that cannot be read or converted.
UpdateSkip ==
  /\ ppc = "copy"
  /\ ppc' = "idle"
  /\ UNCHANGED <<boxVars, queued, workVars, believed, deviceVars, devVars,
                 faultVars, submitted>>

\* queue_work outside the lock, then drm_dev_exit.
UpdateKick ==
  /\ ppc = "kick"
  /\ queued' = TRUE
  /\ ppc' = "idle"
  /\ UNCHANGED <<boxVars, workVars, believed, deviceVars, devVars, faultVars,
                 submitted>>

------------------------------------------------------------------------------
(* The consumer: grape_scanout_work                                        *)

\* Leaves the loop and drm_dev_exit; what the run worked on is forgotten.
WorkEnd == wpc' = "idle" /\ damage' = {} /\ todo' = {}

\* The work item starts; an unplugged device returns at once.
WorkBegin ==
  /\ wpc = "idle" /\ queued
  /\ queued' = FALSE
  /\ wpc' = IF Unplugged THEN "idle" ELSE "take"
  /\ UNCHANGED <<damage, todo, boxVars, ppc, believed, deviceVars, devVars,
                 faultVars, submitted>>

\* Under scanout_lock: the two buffers change places.
WorkTake ==
  /\ wpc = "take" /\ pending /\ ~stopping
  /\ mailbox' = upload
  /\ pending' = FALSE
  /\ wpc' = "diff"
  /\ UNCHANGED <<buffers, bufferNo, damage, todo, ppc, queued, believed,
                 deviceVars, devVars, faultVars, submitted>>

WorkDone ==
  /\ wpc = "take" /\ (stopping \/ ~pending)
  /\ WorkEnd
  /\ UNCHANGED <<boxVars, ppc, queued, believed, deviceVars, devVars,
                 faultVars, submitted>>

Changed == {t \in Tiles : current[t] # displayed[t]}

\* grape_scanout_diff finds nothing to do: the frame is on the screen already.
WorkUnchanged ==
  /\ wpc = "diff" /\ valid /\ Changed = {}
  /\ wpc' = "take"
  /\ shown' = bufferNo[upload]
  /\ UNCHANGED <<damage, todo, boxVars, ppc, queued, believed, texture,
                 devTextures, devSurfaces, screen, devVars, faultVars,
                 submitted>>

\* Any cover of the changed tiles; the whole frame without a valid reference.
WorkDiff ==
  /\ wpc = "diff"
  /\ damage' \in SUBSET Tiles
  /\ IF valid THEN Changed # {} /\ Changed \subseteq damage'
              ELSE damage' = Tiles
  /\ todo' = damage'
  /\ wpc' = IF handles THEN "write" ELSE "texture"
  /\ UNCHANGED <<boxVars, ppc, queued, believed, deviceVars, devVars,
                 faultVars, submitted>>

\* grape_scanout_ensure, first request.  A new texture holds anything.
WorkCreateTexture ==
  /\ wpc = "texture"
  /\ \E outcome \in {"ok", "lost", "failed"} :
       /\ Request(outcome)
       /\ IF outcome = "failed"
          THEN UNCHANGED <<texture, devTextures>>
          ELSE texture' \in Frames /\ devTextures' = devTextures + 1
       /\ orphaned' = (orphaned \/ outcome = "lost")
       /\ wpc' = IF outcome = "ok" THEN "surface" ELSE "fail"
  /\ UNCHANGED <<devSurfaces, screen, shown, damage, todo, boxVars, ppc,
                 queued, believed, devVars, submitted>>

\* Second request; when it fails the texture is destroyed again.
WorkCreateSurface ==
  /\ wpc = "surface"
  /\ \E outcome \in {"ok", "lost", "failed"} :
       /\ Request(outcome)
       /\ devSurfaces' = IF outcome = "failed" THEN devSurfaces
                                               ELSE devSurfaces + 1
       /\ orphaned' = (orphaned \/ outcome = "lost")
       /\ handles' = (outcome = "ok")
       /\ wpc' = IF outcome = "ok" THEN "write" ELSE "undo"
  /\ UNCHANGED <<displayed, valid, texture, devTextures, screen, shown,
                 damage, todo, boxVars, ppc, queued, devVars, submitted>>

WorkUndoTexture ==
  /\ wpc = "undo"
  /\ \E outcome \in {"ok", "lost", "failed"} :
       /\ Request(outcome)
       /\ devTextures' = IF outcome = "failed" THEN devTextures
                                               ELSE devTextures - 1
       /\ orphaned' = (orphaned \/ outcome = "failed")
  /\ wpc' = "fail"
  /\ UNCHANGED <<texture, devSurfaces, screen, shown, damage, todo, boxVars,
                 ppc, queued, believed, devVars, submitted>>

\* TEXTURE_WRITE_RECT of one tile, sent without asking for an answer.
WorkWrite(t) ==
  /\ wpc = "write" /\ t \in todo
  /\ \E outcome \in {"ok", "lost", "failed"} :
       /\ Request(outcome)
       /\ texture' = IF outcome = "failed" THEN texture
                     ELSE [texture EXCEPT ![t] = current[t]]
       /\ IF outcome = "ok" THEN todo' = todo \ {t} /\ UNCHANGED wpc
                            ELSE wpc' = "fail" /\ UNCHANGED todo
  /\ UNCHANGED <<orphaned, devTextures, devSurfaces, screen, shown, damage,
                 boxVars, ppc, queued, believed, devVars, submitted>>

\* PRESENT puts the texture on the screen.
WorkPresent ==
  /\ wpc = "write" /\ todo = {}
  /\ \E outcome \in {"ok", "lost", "failed"} :
       /\ Request(outcome)
       /\ IF outcome = "failed"
          THEN UNCHANGED <<screen, shown>>
          ELSE screen' = texture /\ shown' = bufferNo[upload]
       /\ wpc' = IF outcome = "ok" THEN "commit" ELSE "fail"
  /\ UNCHANGED <<orphaned, texture, devTextures, devSurfaces, damage, todo,
                 boxVars, ppc, queued, believed, devVars, submitted>>

\* grape_scanout_commit_displayed copies the damaged tiles only.
WorkCommit ==
  /\ wpc = "commit"
  /\ displayed' = [t \in Tiles |-> IF t \in damage THEN current[t]
                                                   ELSE displayed[t]]
  /\ valid' = TRUE
  /\ wpc' = "take" /\ damage' = {}
  /\ UNCHANGED <<todo, handles, boxVars, ppc, queued, deviceVars, devVars,
                 faultVars, submitted>>

\* The error path: the reference is void, a waiting frame is dropped.
WorkFail ==
  /\ wpc = "fail"
  /\ valid' = FALSE
  /\ pending' = FALSE
  /\ WorkEnd
  /\ UNCHANGED <<displayed, handles, buffers, mailbox, bufferNo, ppc, queued,
                 deviceVars, devVars, faultVars, submitted>>

------------------------------------------------------------------------------
(* grape_usb_disconnect and the release of the buffers                     *)

DevStep(from, to) == dev = from /\ dev' = to

Disconnect ==
  /\ DevStep("bound", "stopping")
  /\ stopping' = TRUE /\ pending' = FALSE
  /\ disconnected' \in BOOLEAN
  /\ UNCHANGED <<buffers, mailbox, bufferNo, ppc, queued, workVars, believed,
                 deviceVars, faultVars, submitted>>

Unplug ==
  /\ DevStep("stopping", "unplugged")
  /\ UNCHANGED <<disconnected, stopping, boxVars, ppc, queued, workVars,
                 believed, deviceVars, faultVars, submitted>>

\* The drm_dev_enter sections that drm_dev_unplug waits for.
InSection == ppc # "idle" \/ wpc # "idle"

\* drm_dev_unplug returns, cancel_work_sync takes the work off its queue.
CancelWork ==
  /\ DevStep("unplugged", "cancelled") /\ ~InSection
  /\ queued' = FALSE
  /\ UNCHANGED <<disconnected, stopping, boxVars, ppc, workVars, believed,
                 deviceVars, faultVars, submitted>>

\* grape_scanout_cleanup_remote, unless the device is physically gone.  The
\* answers are ignored.
Cleanup ==
  /\ DevStep("cancelled", "released")
  /\ \E surface, tex \in {"ok", "failed"} :
       LET attempt == handles /\ ~disconnected
           gone(outcome) == IF attempt /\ outcome = "ok" THEN 1 ELSE 0
       IN  /\ devSurfaces' = devSurfaces - gone(surface)
           /\ devTextures' = devTextures - gone(tex)
           /\ screen' = IF gone(surface) = 1 THEN Blank ELSE screen
           /\ orphaned' = (orphaned \/ (handles /\ (gone(surface) = 0
                                                      \/ gone(tex) = 0)))
           /\ handles' = (handles /\ disconnected)
  /\ disconnected' = TRUE
  /\ UNCHANGED <<stopping, boxVars, ppc, queued, workVars, displayed, valid,
                 texture, shown, faults, submitted>>

------------------------------------------------------------------------------
Producer == UpdateEnter \/ UpdateSkip \/ UpdateKick
              \/ \E frame \in Frames : UpdateCopy(frame)

Worker ==
  \/ WorkBegin \/ WorkTake \/ WorkDone \/ WorkUnchanged \/ WorkDiff
  \/ WorkCreateTexture \/ WorkCreateSurface \/ WorkUndoTexture
  \/ \E t \in Tiles : WorkWrite(t)
  \/ WorkPresent \/ WorkCommit \/ WorkFail

Teardown == Unplug \/ CancelWork \/ Cleanup

Next == Producer \/ Worker \/ Disconnect \/ Teardown

Spec == Init /\ [][Next]_vars

(* The workqueue runs queued work, every transfer ends within its timeout,  *)
(* a commit that entered the update leaves it, and a disconnect goes on.    *)
FairSpec ==
  /\ Spec
  /\ WF_vars(Worker) /\ WF_vars(UpdateSkip \/ UpdateKick) /\ WF_vars(Teardown)

------------------------------------------------------------------------------
(* Properties                                                              *)

(* Type correctness of every variable. *)
TypeOK ==
  /\ buffers \in [1 .. 2 -> Frames] /\ mailbox \in 1 .. 2 /\ pending \in BOOLEAN
  /\ displayed \in Frames /\ valid \in BOOLEAN
  /\ stopping \in BOOLEAN /\ handles \in BOOLEAN
  /\ ppc \in {"idle", "copy", "kick"} /\ queued \in BOOLEAN
  /\ wpc \in {"idle", "take", "diff", "texture", "surface", "undo", "write",
              "commit", "fail"}
  /\ damage \subseteq Tiles /\ todo \subseteq Tiles
  /\ texture \in Frames /\ devTextures \in Nat /\ devSurfaces \in Nat
  /\ screen \in Frames \cup {Blank}
  /\ dev \in {"bound", "stopping", "unplugged", "cancelled", "released"}
  /\ disconnected \in BOOLEAN
  /\ faults \in 0 .. MaxFaults /\ orphaned \in BOOLEAN
  /\ submitted \in Seq(Frames)
  /\ bufferNo \in [1 .. 2 -> Nat] /\ shown \in Nat

(* No torn frame: when the worker asks for a PRESENT the remote texture is *)
(* the frame it took, although it wrote only the damaged tiles of it.      *)
PresentWhole == wpc = "write" /\ todo = {} => texture = current

(* Whenever the diff may use the reference buffer, that buffer is what the *)
(* texture holds and the screen shows, whatever failed before.             *)
ReferenceIsScreen ==
  valid /\ wpc \in {"idle", "take", "diff"} /\ dev # "released"
    => handles /\ texture = displayed /\ screen = displayed

(* A frame in the mailbox always has a worker on its way: one running, one *)
(* queued, or a producer about to queue it.                                *)
NoLostWakeup ==
  pending => queued \/ wpc # "idle" \/ ppc = "kick"

(* A scanout at rest with a valid reference shows the newest frame: frames *)
(* are only ever skipped in favour of newer ones, or after a failure.      *)
RestsOnNewest ==
  /\ valid /\ ~pending /\ ~stopping
  /\ wpc \in {"idle", "take"}
  => shown = Len(submitted)

(* cancel_work_sync is final: nothing queues or runs the worker afterwards, *)
(* when its buffers are about to be released.                               *)
WorkerGoneAfterCancel ==
  dev \in {"cancelled", "released"} => ~queued /\ wpc = "idle" /\ ppc = "idle"

(* The worker runs when it is needed and never after its buffers may go.    *)
WorkerScheduled == NoLostWakeup /\ WorkerGoneAfterCancel

(* Unless an answer was lost, the device holds exactly the objects whose   *)
(* handles the driver keeps, and none after an orderly disconnect.         *)
RemoteObjectsAccounted ==
  ~orphaned /\ wpc \notin {"surface", "undo"}
    => LET kept == IF handles THEN 1 ELSE 0
       IN  devTextures = kept /\ devSurfaces = kept

(* Scanout implements FrameMailbox: the screen shows whole submitted       *)
(* frames, none twice and none older than what it showed before.           *)
Abstract == INSTANCE FrameMailbox
ImplementsMailbox == Abstract!Spec

(* Once transfers stop failing, a frame in the mailbox, or a newer one,    *)
(* reaches the screen unless the device is taken away.                     *)
FrameReachesScreen ==
  \A n \in 1 .. MaxFrames :
    /\ pending /\ bufferNo[mailbox] = n
    /\ faults = MaxFaults /\ wpc \notin {"undo", "fail"}
    ~> shown >= n \/ stopping

==============================================================================
