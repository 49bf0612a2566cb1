---------------------------- MODULE ScanoutProofs ----------------------------
(***************************************************************************)
(* Theorems about Scanout, for every set of tiles and colours and all      *)
(* bounds: type correctness, no torn frame, the reference buffer, the      *)
(* wake-up of the worker, the accounting of remote objects, and that the   *)
(* scanout path implements FrameMailbox.                                   *)
(*                                                                         *)
(* PresentWhole is not inductive: that the tiles outside the damage are    *)
(* right follows from what the texture held before the frame was taken,    *)
(* so Belief says, for every place of the worker, how texture, screen and  *)
(* reference buffer are related.  Order does the same for the numbers of   *)
(* the frames in the two buffers and on the screen.                        *)
(***************************************************************************)
EXTENDS Scanout, TLAPS

\* What the device holds and what the driver believes it holds.
Belief ==
  /\ valid /\ wpc \in {"idle", "take", "diff"} /\ dev # "released"
       => handles /\ texture = displayed /\ screen = displayed
  /\ wpc \in {"texture", "surface", "undo"}
       => ~valid /\ ~handles /\ damage = Tiles /\ todo = Tiles
  /\ wpc \in {"write", "commit"} =>
       /\ handles
       /\ todo \subseteq damage
       /\ \A t \in Tiles \ todo : texture[t] = current[t]
       /\ valid => \A t \in Tiles \ damage : displayed[t] = current[t]
       /\ ~valid => damage = Tiles
  /\ wpc = "write" /\ valid => screen = displayed
  /\ wpc = "commit" => todo = {} /\ screen = texture

\* Where the submitted frames are, and how far the screen has got.
Order ==
  /\ \A i \in 1 .. 2 :
       /\ bufferNo[i] \in 0 .. Len(submitted)
       /\ bufferNo[i] > 0 => submitted[bufferNo[i]] = buffers[i]
  /\ shown <= bufferNo[upload]
  /\ screen = Blank \/ (shown > 0 /\ screen = submitted[shown])
  /\ pending => /\ bufferNo[mailbox] = Len(submitted)
                /\ bufferNo[upload] < bufferNo[mailbox]
  /\ wpc \in {"diff", "texture", "surface", "undo", "write"}
       => shown < bufferNo[upload]
  /\ wpc = "commit" => shown = bufferNo[upload]

\* Without a frame in the mailbox, the newest one is with the worker or shown.
Newest ==
  ~pending /\ ~stopping =>
    /\ wpc \in {"diff", "texture", "surface", "undo", "write", "commit"}
         => bufferNo[upload] = Len(submitted)
    /\ valid /\ wpc \in {"idle", "take"} => shown = Len(submitted)

Phases ==
  /\ stopping <=> dev # "bound"
  /\ stopping => ~pending
  /\ NoLostWakeup
  /\ WorkerGoneAfterCancel

Objects ==
  /\ handles => devTextures >= 1 /\ devSurfaces >= 1
  /\ wpc \in {"surface", "undo"} => devTextures >= 1
  /\ ~orphaned => IF wpc \in {"surface", "undo"}
                  THEN devTextures = 1 /\ devSurfaces = 0
                  ELSE LET kept == IF handles THEN 1 ELSE 0
                       IN  devTextures = kept /\ devSurfaces = kept

Inductive ==
  TypeOK /\ Belief /\ Order /\ Newest /\ Phases /\ Objects

------------------------------------------------------------------------------
\* The mailbox and the worker never use the same buffer.
LEMMA TwoBuffers ==
  ASSUME TypeOK
  PROVE  /\ mailbox \in 1 .. 2 /\ upload \in 1 .. 2 /\ upload # mailbox
         /\ mailbox' = mailbox => upload' = upload
         /\ mailbox' = upload => upload' = mailbox
  BY DEF TypeOK, upload

(* Type correctness                                                        *)

\* Every step keeps the types; the objects bound the destroys.
LEMMA TypeStep ==
  ASSUME Inductive, [Next]_vars
  PROVE  TypeOK'
<1> USE DEF TypeOK, boxVars, workVars, believed, deviceVars, devVars, faultVars,
            Request, Fault, WorkEnd, DevStep
<1> TypeOK
  BY DEF Inductive
<1> /\ handles => devTextures >= 1 /\ devSurfaces >= 1
    /\ wpc \in {"surface", "undo"} => devTextures >= 1
  BY DEF Inductive, Objects
<1> current \in Frames
  BY TwoBuffers DEF current
<1> upload \in 1 .. 2
  BY TwoBuffers
<1> \A outcome : Request(outcome) => faults' \in 0 .. MaxFaults
  BY BoundsAssumption
<1>1. CASE UpdateEnter
  BY <1>1 DEF UpdateEnter
<1>2. CASE UpdateSkip
  BY <1>2 DEF UpdateSkip
<1>3. CASE UpdateKick
  BY <1>3 DEF UpdateKick
<1>4. ASSUME NEW frame \in Frames, UpdateCopy(frame)  PROVE TypeOK'
  BY <1>4 DEF UpdateCopy
<1>5. CASE WorkBegin
  <2>1. /\ queued' \in BOOLEAN /\ wpc' \in {"idle", "take"}
        /\ UNCHANGED <<damage, todo, boxVars, ppc, believed, deviceVars,
                       devVars, faultVars, submitted>>
    BY <1>5, Zenon DEF WorkBegin
  <2> QED  BY <2>1
<1>6. CASE WorkTake
  <2>1. /\ mailbox' \in 1 .. 2 /\ pending' = FALSE /\ wpc' = "diff"
        /\ UNCHANGED <<buffers, bufferNo, damage, todo, ppc, queued, believed,
                       deviceVars, devVars, faultVars, submitted>>
    BY <1>6 DEF WorkTake
  <2> QED  BY <2>1, ZenonT(20)
<1>7. CASE WorkDone
  BY <1>7 DEF WorkDone
<1>8. CASE WorkUnchanged
  BY <1>8 DEF WorkUnchanged
<1>9. CASE WorkDiff
  BY <1>9 DEF WorkDiff
<1>10. CASE WorkCreateTexture
  BY <1>10 DEF WorkCreateTexture
<1>11. CASE WorkCreateSurface
  BY <1>11 DEF WorkCreateSurface
<1>12. CASE WorkUndoTexture
  BY <1>12 DEF WorkUndoTexture
<1>13. ASSUME NEW t \in Tiles, WorkWrite(t)  PROVE TypeOK'
  <2>1. texture' \in Frames
    BY <1>13 DEF WorkWrite, Frames
  <2> QED  BY <1>13, <2>1 DEF WorkWrite
<1>14. CASE WorkPresent
  BY <1>14 DEF WorkPresent
<1>15. CASE WorkCommit
  <2>1. displayed' \in Frames
    BY <1>15 DEF WorkCommit, Frames
  <2> QED  BY <1>15, <2>1 DEF WorkCommit
<1>16. CASE WorkFail
  BY <1>16 DEF WorkFail
<1>17. CASE Disconnect
  BY <1>17 DEF Disconnect
<1>18. CASE Unplug
  BY <1>18 DEF Unplug
<1>19. CASE CancelWork
  BY <1>19 DEF CancelWork, InSection
<1>20. CASE Cleanup
  <2>1. PICK surface, tex \in {"ok", "failed"} :
          LET attempt == handles /\ ~disconnected
              gone(outcome) == IF attempt /\ outcome = "ok" THEN 1 ELSE 0
          IN  /\ devSurfaces' = devSurfaces - gone(surface)
              /\ devTextures' = devTextures - gone(tex)
    BY <1>20 DEF Cleanup
  <2>2. devSurfaces' \in Nat /\ devTextures' \in Nat
    BY <2>1
  <2>3. screen' \in Frames \cup {Blank}
    BY <1>20 DEF Cleanup
  <2> QED  BY <1>20, <2>2, <2>3 DEF Cleanup
<1>21. CASE UNCHANGED vars
  BY <1>21 DEF vars
<1> QED  BY <1>1, <1>2, <1>3, <1>4, <1>5, <1>6, <1>7, <1>8, <1>9, <1>10,
            <1>11, <1>12, <1>13, <1>14, <1>15, <1>16, <1>17, <1>18, <1>19,
            <1>20, <1>21
         DEF Next, Producer, Worker, Teardown

------------------------------------------------------------------------------
(* The parts of the invariant                                              *)

\* The wake-up of the worker and the end of disconnect.
LEMMA PhaseStep ==
  ASSUME Inductive, [Next]_vars
  PROVE  Phases'
<1> USE DEF Phases, NoLostWakeup, WorkerGoneAfterCancel,
            boxVars, workVars, believed, deviceVars, devVars, faultVars,
            Request, Fault, WorkEnd, DevStep
<1> TypeOK /\ Phases
  BY DEF Inductive
<1>1. CASE UpdateEnter
  BY <1>1 DEF UpdateEnter, Unplugged
<1>2. CASE UpdateSkip
  BY <1>2 DEF UpdateSkip
<1>3. CASE UpdateKick
  BY <1>3 DEF UpdateKick
<1>4. ASSUME NEW frame \in Frames, UpdateCopy(frame)  PROVE Phases'
  BY <1>4 DEF UpdateCopy
<1>5. CASE WorkBegin
  BY <1>5 DEF WorkBegin, Unplugged
<1>6. CASE WorkTake
  BY <1>6 DEF WorkTake
<1>7. CASE WorkDone
  BY <1>7 DEF WorkDone
<1>8. CASE WorkUnchanged
  BY <1>8 DEF WorkUnchanged
<1>9. CASE WorkDiff
  BY <1>9 DEF WorkDiff
<1>10. CASE WorkCreateTexture
  BY <1>10 DEF WorkCreateTexture
<1>11. CASE WorkCreateSurface
  BY <1>11 DEF WorkCreateSurface
<1>12. CASE WorkUndoTexture
  BY <1>12 DEF WorkUndoTexture
<1>13. ASSUME NEW t \in Tiles, WorkWrite(t)  PROVE Phases'
  BY <1>13 DEF WorkWrite
<1>14. CASE WorkPresent
  BY <1>14 DEF WorkPresent
<1>15. CASE WorkCommit
  BY <1>15 DEF WorkCommit
<1>16. CASE WorkFail
  BY <1>16 DEF WorkFail
<1>17. CASE Disconnect
  BY <1>17 DEF Disconnect
<1>18. CASE Unplug
  BY <1>18 DEF Unplug
<1>19. CASE CancelWork
  BY <1>19 DEF CancelWork, InSection
<1>20. CASE Cleanup
  BY <1>20 DEF Cleanup
<1>21. CASE UNCHANGED vars
  BY <1>21 DEF vars
<1> QED  BY <1>1, <1>2, <1>3, <1>4, <1>5, <1>6, <1>7, <1>8, <1>9, <1>10,
            <1>11, <1>12, <1>13, <1>14, <1>15, <1>16, <1>17, <1>18, <1>19,
            <1>20, <1>21
         DEF Next, Producer, Worker, Teardown

\* The remote objects.
LEMMA ObjectStep ==
  ASSUME Inductive, [Next]_vars
  PROVE  Objects'
<1> USE DEF Objects, boxVars, workVars, believed, deviceVars, devVars,
            faultVars, Request, Fault, WorkEnd, DevStep
<1> TypeOK /\ Objects
  BY DEF Inductive
<1> /\ devTextures \in Nat /\ devSurfaces \in Nat
    /\ handles \in BOOLEAN /\ disconnected \in BOOLEAN
  BY DEF TypeOK
<1> /\ wpc \in {"texture", "undo"} => ~handles
    /\ dev = "cancelled" => wpc = "idle"
  BY DEF Inductive, Belief, Phases, WorkerGoneAfterCancel
<1>1. CASE UpdateEnter
  BY <1>1 DEF UpdateEnter
<1>2. CASE UpdateSkip
  BY <1>2 DEF UpdateSkip
<1>3. CASE UpdateKick
  BY <1>3 DEF UpdateKick
<1>4. ASSUME NEW frame \in Frames, UpdateCopy(frame)  PROVE Objects'
  BY <1>4 DEF UpdateCopy
<1>5. CASE WorkBegin
  BY <1>5 DEF WorkBegin
<1>6. CASE WorkTake
  BY <1>6 DEF WorkTake
<1>7. CASE WorkDone
  BY <1>7 DEF WorkDone
<1>8. CASE WorkUnchanged
  BY <1>8 DEF WorkUnchanged
<1>9. CASE WorkDiff
  BY <1>9 DEF WorkDiff
<1>10. CASE WorkCreateTexture
  <2>1. /\ wpc = "texture" /\ UNCHANGED <<handles, devSurfaces>>
        /\ wpc' \in {"surface", "fail"}
        /\ wpc' = "surface" => devTextures' = devTextures + 1
        /\ ~orphaned' => ~orphaned /\ (wpc' = "fail" => UNCHANGED devTextures)
    BY <1>10 DEF WorkCreateTexture
  <2> QED  BY <2>1
<1>11. CASE WorkCreateSurface
  <2>1. /\ wpc = "surface" /\ UNCHANGED devTextures
        /\ wpc' \in {"write", "undo"}
        /\ wpc' = "write" => devSurfaces' = devSurfaces + 1
        /\ wpc' = "undo" => ~handles'
        /\ ~orphaned' => ~orphaned /\ (wpc' = "write" => handles')
                                  /\ (wpc' = "undo" => UNCHANGED devSurfaces)
    BY <1>11 DEF WorkCreateSurface
  <2> QED  BY <2>1
<1>12. CASE WorkUndoTexture
  <2>1. /\ wpc = "undo" /\ wpc' = "fail" /\ ~handles
        /\ UNCHANGED <<handles, devSurfaces>>
        /\ ~orphaned' => ~orphaned /\ devTextures' = devTextures - 1
    BY <1>12 DEF WorkUndoTexture
  <2> QED  BY <2>1
<1>13. ASSUME NEW t \in Tiles, WorkWrite(t)  PROVE Objects'
  BY <1>13 DEF WorkWrite
<1>14. CASE WorkPresent
  BY <1>14 DEF WorkPresent
<1>15. CASE WorkCommit
  BY <1>15 DEF WorkCommit
<1>16. CASE WorkFail
  BY <1>16 DEF WorkFail
<1>17. CASE Disconnect
  BY <1>17 DEF Disconnect
<1>18. CASE Unplug
  BY <1>18 DEF Unplug
<1>19. CASE CancelWork
  BY <1>19 DEF CancelWork, InSection
<1>20. CASE Cleanup
  <2>1. wpc = "idle" /\ UNCHANGED wpc
    BY <1>20 DEF Cleanup
  <2>2. CASE handles /\ ~disconnected
    <3>1. ~handles'
      BY <1>20, <2>2 DEF Cleanup
    <3>2. ~orphaned' => /\ ~orphaned
                       /\ devSurfaces' = devSurfaces - 1
                       /\ devTextures' = devTextures - 1
      BY <1>20, <2>2 DEF Cleanup
    <3> QED  BY <2>1, <2>2, <3>1, <3>2
  <2>3. CASE ~(handles /\ ~disconnected)
    <3>1. /\ handles' => handles
          /\ ~orphaned' => ~orphaned /\ ~handles
      BY <1>20, <2>3 DEF Cleanup
    <3>2. devSurfaces' = devSurfaces - 0 /\ devTextures' = devTextures - 0
      BY <1>20, <2>3 DEF Cleanup
    <3> QED  BY <2>1, <3>1, <3>2
  <2> QED  BY <2>2, <2>3
<1>21. CASE UNCHANGED vars
  BY <1>21 DEF vars
<1> QED  BY <1>1, <1>2, <1>3, <1>4, <1>5, <1>6, <1>7, <1>8, <1>9, <1>10,
            <1>11, <1>12, <1>13, <1>14, <1>15, <1>16, <1>17, <1>18, <1>19,
            <1>20, <1>21
         DEF Next, Producer, Worker, Teardown

\* Texture, screen and reference buffer.
LEMMA BeliefStep ==
  ASSUME Inductive, [Next]_vars
  PROVE  Belief'
<1> USE DEF Belief, current, boxVars, workVars, believed, deviceVars,
            devVars, faultVars, Request, Fault, WorkEnd, DevStep
<1> TypeOK /\ Belief
  BY DEF Inductive
<1> texture \in [Tiles -> Colors]
  BY DEF TypeOK, Frames
<1> dev \in {"cancelled", "released"} => wpc = "idle"
  BY DEF Inductive, Phases, WorkerGoneAfterCancel
<1> /\ mailbox \in 1 .. 2 /\ upload \in 1 .. 2 /\ upload # mailbox
    /\ mailbox' = mailbox => upload' = upload
    /\ mailbox' = upload => upload' = mailbox
  BY TwoBuffers
<1>1. CASE UpdateEnter
  BY <1>1 DEF UpdateEnter
<1>2. CASE UpdateSkip
  BY <1>2 DEF UpdateSkip
<1>3. CASE UpdateKick
  BY <1>3 DEF UpdateKick
<1>4. ASSUME NEW frame \in Frames, UpdateCopy(frame)  PROVE Belief'
  BY <1>4 DEF UpdateCopy
<1>5. CASE WorkBegin
  BY <1>5 DEF WorkBegin
<1>6. CASE WorkTake
  BY <1>6 DEF WorkTake
<1>7. CASE WorkDone
  BY <1>7 DEF WorkDone
<1>8. CASE WorkUnchanged
  BY <1>8 DEF WorkUnchanged
<1>9. CASE WorkDiff
  <2>1. valid => handles /\ texture = displayed /\ screen = displayed
    BY <1>9 DEF WorkDiff
  <2>2. /\ damage' \subseteq Tiles /\ todo' = damage'
        /\ IF valid THEN \A t \in Tiles \ damage' : displayed[t] = current[t]
                    ELSE damage' = Tiles
    BY <1>9 DEF WorkDiff, Changed
  <2> QED  BY <1>9, <2>1, <2>2 DEF WorkDiff
<1>10. CASE WorkCreateTexture
  BY <1>10 DEF WorkCreateTexture
<1>11. CASE WorkCreateSurface
  BY <1>11 DEF WorkCreateSurface
<1>12. CASE WorkUndoTexture
  BY <1>12 DEF WorkUndoTexture
<1>13. ASSUME NEW t \in Tiles, WorkWrite(t)  PROVE Belief'
  <2>1. wpc = "write" /\ \A s \in Tiles \ todo : texture[s] = current[s]
    BY <1>13 DEF WorkWrite
  <2>2. todo' \subseteq todo /\ (wpc' = "write" => todo' = todo \ {t})
    BY <1>13 DEF WorkWrite
  <2>3. wpc' = "write" => texture' = [texture EXCEPT ![t] = current[t]]
    BY <1>13 DEF WorkWrite
  <2>4. ASSUME wpc' = "write", NEW s \in Tiles \ todo'
        PROVE  texture'[s] = current[s]
    <3>1. texture \in [Tiles -> Colors]
      BY DEF Frames
    <3>2. s = t \/ s \in Tiles \ todo
      BY <2>2, <2>4
    <3> QED  BY <2>1, <2>3, <2>4, <3>1, <3>2
  <2>5. wpc' \in {"write", "fail"}
    BY <1>13 DEF WorkWrite
  <2> QED  BY <1>13, <2>2, <2>4, <2>5 DEF WorkWrite
<1>14. CASE WorkPresent
  <2>1. todo = {} /\ wpc' \in {"commit", "fail"}
    BY <1>14 DEF WorkPresent
  <2>2. wpc' = "commit" => screen' = texture
    BY <1>14 DEF WorkPresent
  <2> QED  BY <1>14, <2>1, <2>2 DEF WorkPresent
<1>15. CASE WorkCommit
  <2>1. /\ wpc = "commit" /\ handles /\ UNCHANGED <<texture, screen, handles>>
        /\ screen = texture /\ wpc' = "take"
        /\ \A t \in Tiles : texture[t] = current[t]
    BY <1>15 DEF WorkCommit
  <2>2. \A t \in Tiles \ damage : displayed[t] = current[t]
    BY <2>1
  <2>3. displayed' = [t \in Tiles |-> texture[t]]
    BY <1>15, <2>1, <2>2 DEF WorkCommit
  <2>4. displayed' = texture
    BY <2>3 DEF Frames
  <2> QED  BY <2>1, <2>4
<1>16. CASE WorkFail
  BY <1>16 DEF WorkFail
<1>17. CASE Disconnect
  BY <1>17 DEF Disconnect
<1>18. CASE Unplug
  BY <1>18 DEF Unplug
<1>19. CASE CancelWork
  BY <1>19 DEF CancelWork
<1>20. CASE Cleanup
  <2>1. wpc = "idle" /\ UNCHANGED wpc /\ dev' = "released"
    BY <1>20 DEF Cleanup
  <2> QED  BY <2>1
<1>21. CASE UNCHANGED vars
  BY <1>21 DEF vars
<1> QED  BY <1>1, <1>2, <1>3, <1>4, <1>5, <1>6, <1>7, <1>8, <1>9, <1>10,
            <1>11, <1>12, <1>13, <1>14, <1>15, <1>16, <1>17, <1>18, <1>19,
            <1>20, <1>21
         DEF Next, Producer, Worker, Teardown

\* What Belief says of the frame the worker compares or presents.
LEMMA BeliefMeans ==
  ASSUME Inductive
  PROVE  /\ wpc = "diff" /\ valid => screen = displayed
         /\ wpc = "write" /\ todo = {} => texture = current
<1> TypeOK /\ Belief
  BY DEF Inductive
<1>1. wpc = "diff" => dev # "released"
  BY DEF Inductive, Phases, WorkerGoneAfterCancel
<1>2. texture \in Frames /\ current \in Frames
  BY TwoBuffers DEF TypeOK, current
<1>3. ASSUME wpc = "write", todo = {}  PROVE texture = current
  <2>1. \A t \in Tiles : texture[t] = current[t]
    BY <1>3 DEF Belief
  <2> QED  BY <1>2, <2>1 DEF Frames
<1> QED  BY <1>1, <1>3 DEF Belief

\* The numbers of the frames.
LEMMA OrderStep ==
  ASSUME Inductive, [Next]_vars
  PROVE  Order'
<1> USE DEF Order, boxVars, workVars, believed, deviceVars, devVars, faultVars,
            Request, Fault, WorkEnd, DevStep
<1> TypeOK /\ Order
  BY DEF Inductive
<1> /\ submitted \in Seq(Frames) /\ shown \in Nat
    /\ bufferNo \in [1 .. 2 -> Nat] /\ buffers \in [1 .. 2 -> Frames]
    /\ displayed \in Frames
  BY DEF TypeOK
<1> /\ wpc = "diff" /\ valid => screen = displayed
    /\ wpc = "write" /\ todo = {} => texture = current
  BY BeliefMeans DEF Inductive
<1> /\ mailbox \in 1 .. 2 /\ upload \in 1 .. 2 /\ upload # mailbox
    /\ mailbox' = mailbox => upload' = upload
    /\ mailbox' = upload => upload' = mailbox
  BY TwoBuffers
<1>1. CASE UpdateEnter
  BY <1>1 DEF UpdateEnter
<1>2. CASE UpdateSkip
  BY <1>2 DEF UpdateSkip
<1>3. CASE UpdateKick
  BY <1>3 DEF UpdateKick
<1>4. ASSUME NEW frame \in Frames, UpdateCopy(frame)  PROVE Order'
  <2>1. /\ Len(submitted') = Len(submitted) + 1
        /\ submitted'[Len(submitted) + 1] = frame
        /\ \A n \in 1 .. Len(submitted) : submitted'[n] = submitted[n]
    <3>1. submitted' = Append(submitted, frame) /\ submitted \in Seq(Frames)
      BY <1>4 DEF UpdateCopy
    <3> QED  BY <3>1
  <2>2. /\ bufferNo'[mailbox] = Len(submitted) + 1 /\ buffers'[mailbox] = frame
        /\ bufferNo'[upload] = bufferNo[upload]
        /\ buffers'[upload] = buffers[upload]
        /\ \A i \in 1 .. 2 : i = mailbox \/ i = upload
    <3>1. /\ bufferNo' = [bufferNo EXCEPT ![mailbox] = Len(submitted) + 1]
          /\ buffers' = [buffers EXCEPT ![mailbox] = frame]
      BY <1>4 DEF UpdateCopy
    <3>2. DOMAIN bufferNo = 1 .. 2 /\ DOMAIN buffers = 1 .. 2
      OBVIOUS
    <3> QED  BY <3>1, <3>2
  <2>3. /\ UNCHANGED <<mailbox, upload, shown, screen, wpc>>
        /\ shown \in 0 .. Len(submitted)
        /\ bufferNo[upload] \in 0 .. Len(submitted)
    BY <1>4 DEF UpdateCopy
  <2>4. /\ bufferNo'[upload] \in 0 .. Len(submitted')
        /\ bufferNo'[upload] > 0 =>
             submitted'[bufferNo'[upload]] = buffers'[upload]
    BY <2>1, <2>2, <2>3
  <2>5. screen' = Blank \/ (shown' > 0 /\ screen' = submitted'[shown'])
    BY <2>1, <2>3
  <2>6. \A i \in 1 .. 2 :
          /\ bufferNo'[i] \in 0 .. Len(submitted')
          /\ bufferNo'[i] > 0 => submitted'[bufferNo'[i]] = buffers'[i]
    BY <2>1, <2>2, <2>4
  <2> QED  BY <2>1, <2>2, <2>3, <2>5, <2>6
<1>5. CASE WorkBegin
  BY <1>5 DEF WorkBegin
<1>6. CASE WorkTake
  <2>1. /\ wpc' = "diff" /\ pending /\ ~pending' /\ mailbox' = upload
        /\ UNCHANGED <<buffers, bufferNo, submitted, shown, screen>>
    BY <1>6 DEF WorkTake
  <2>2. upload' = mailbox /\ shown < bufferNo[mailbox]
    BY <2>1
  <2> QED  BY <2>1, <2>2
<1>7. CASE WorkDone
  BY <1>7 DEF WorkDone
<1>8. CASE WorkUnchanged
  <2>1. /\ UNCHANGED <<buffers, bufferNo, submitted, mailbox, pending, screen>>
        /\ shown' = bufferNo[upload] /\ wpc' = "take" /\ wpc = "diff" /\ valid
        /\ Changed = {}
    BY <1>8 DEF WorkUnchanged
  <2>2. screen = displayed /\ upload' = upload
    BY <2>1
  <2>3. current = displayed
    <3>1. current \in Frames /\ displayed \in Frames
      BY DEF current
    <3>2. \A t \in Tiles : current[t] = displayed[t]
      BY <2>1 DEF Changed
    <3> QED  BY <3>1, <3>2 DEF Frames
  <2>4. bufferNo[upload] > 0 /\ screen = submitted[bufferNo[upload]]
    BY <2>1, <2>2, <2>3 DEF current
  <2> QED  BY <2>1, <2>2, <2>4
<1>9. CASE WorkDiff
  BY <1>9 DEF WorkDiff
<1>10. CASE WorkCreateTexture
  BY <1>10 DEF WorkCreateTexture
<1>11. CASE WorkCreateSurface
  BY <1>11 DEF WorkCreateSurface
<1>12. CASE WorkUndoTexture
  BY <1>12 DEF WorkUndoTexture
<1>13. ASSUME NEW t \in Tiles, WorkWrite(t)  PROVE Order'
  BY <1>13 DEF WorkWrite
<1>14. CASE WorkPresent
  <2>1. /\ UNCHANGED <<buffers, bufferNo, submitted, mailbox, pending>>
        /\ wpc = "write" /\ wpc' \in {"commit", "fail"} /\ todo = {}
        /\ upload' = upload
    BY <1>14 DEF WorkPresent
  <2>2. \/ UNCHANGED <<shown, screen>> /\ wpc' = "fail"
        \/ shown' = bufferNo[upload] /\ screen' = current
    BY <1>14, <2>1 DEF WorkPresent
  <2>3. bufferNo[upload] > 0 /\ current = submitted[bufferNo[upload]]
    BY <2>1 DEF current
  <2> QED  BY <2>1, <2>2, <2>3
<1>15. CASE WorkCommit
  BY <1>15 DEF WorkCommit
<1>16. CASE WorkFail
  BY <1>16 DEF WorkFail
<1>17. CASE Disconnect
  BY <1>17 DEF Disconnect
<1>18. CASE Unplug
  BY <1>18 DEF Unplug
<1>19. CASE CancelWork
  BY <1>19 DEF CancelWork
<1>20. CASE Cleanup
  BY <1>20 DEF Cleanup
<1>21. CASE UNCHANGED vars
  BY <1>21 DEF vars
<1> QED  BY <1>1, <1>2, <1>3, <1>4, <1>5, <1>6, <1>7, <1>8, <1>9, <1>10,
            <1>11, <1>12, <1>13, <1>14, <1>15, <1>16, <1>17, <1>18, <1>19,
            <1>20, <1>21
         DEF Next, Producer, Worker, Teardown

\* The newest frame.
LEMMA NewestStep ==
  ASSUME Inductive, [Next]_vars
  PROVE  Newest'
<1> USE DEF Newest, boxVars, workVars, believed, deviceVars, devVars, faultVars,
            Request, Fault, WorkEnd, DevStep
<1> TypeOK /\ Newest
  BY DEF Inductive
<1> /\ stopping => ~pending
    /\ pending => bufferNo[mailbox] = Len(submitted)
    /\ wpc = "commit" => shown = bufferNo[upload]
  BY DEF Inductive, Phases, Order
<1> /\ mailbox \in 1 .. 2 /\ upload \in 1 .. 2 /\ upload # mailbox
    /\ mailbox' = mailbox => upload' = upload
    /\ mailbox' = upload => upload' = mailbox
  BY TwoBuffers
<1>1. CASE UpdateEnter
  BY <1>1 DEF UpdateEnter
<1>2. CASE UpdateSkip
  BY <1>2 DEF UpdateSkip
<1>3. CASE UpdateKick
  BY <1>3 DEF UpdateKick
<1>4. ASSUME NEW frame \in Frames, UpdateCopy(frame)  PROVE Newest'
  BY <1>4 DEF UpdateCopy
<1>5. CASE WorkBegin
  BY <1>5 DEF WorkBegin
<1>6. CASE WorkTake
  <2>1. /\ wpc' = "diff" /\ pending /\ ~pending' /\ mailbox' = upload
        /\ UNCHANGED <<bufferNo, submitted, shown>>
    BY <1>6 DEF WorkTake
  <2>2. upload' = mailbox /\ bufferNo[mailbox] = Len(submitted)
    BY <2>1
  <2> QED  BY <2>1, <2>2
<1>7. CASE WorkDone
  BY <1>7 DEF WorkDone
<1>8. CASE WorkUnchanged
  BY <1>8 DEF WorkUnchanged
<1>9. CASE WorkDiff
  BY <1>9 DEF WorkDiff
<1>10. CASE WorkCreateTexture
  BY <1>10 DEF WorkCreateTexture
<1>11. CASE WorkCreateSurface
  BY <1>11 DEF WorkCreateSurface
<1>12. CASE WorkUndoTexture
  BY <1>12 DEF WorkUndoTexture
<1>13. ASSUME NEW t \in Tiles, WorkWrite(t)  PROVE Newest'
  BY <1>13 DEF WorkWrite
<1>14. CASE WorkPresent
  BY <1>14 DEF WorkPresent
<1>15. CASE WorkCommit
  <2>1. /\ wpc = "commit" /\ wpc' = "take"
        /\ UNCHANGED <<bufferNo, submitted, mailbox, shown, pending, stopping>>
    BY <1>15 DEF WorkCommit
  <2>2. shown = bufferNo[upload]
    BY <2>1
  <2> QED  BY <2>1, <2>2
<1>16. CASE WorkFail
  BY <1>16 DEF WorkFail
<1>17. CASE Disconnect
  BY <1>17 DEF Disconnect
<1>18. CASE Unplug
  BY <1>18 DEF Unplug
<1>19. CASE CancelWork
  BY <1>19 DEF CancelWork
<1>20. CASE Cleanup
  BY <1>20 DEF Cleanup
<1>21. CASE UNCHANGED vars
  BY <1>21 DEF vars
<1> QED  BY <1>1, <1>2, <1>3, <1>4, <1>5, <1>6, <1>7, <1>8, <1>9, <1>10,
            <1>11, <1>12, <1>13, <1>14, <1>15, <1>16, <1>17, <1>18, <1>19,
            <1>20, <1>21
         DEF Next, Producer, Worker, Teardown

------------------------------------------------------------------------------
(* The theorems                                                            *)

LEMMA InitInductive == Init => Inductive
<1> SUFFICES ASSUME Init  PROVE Inductive
  OBVIOUS
<1>1. TypeOK
  <2>1. displayed \in Frames
    BY BlackAssumption DEF Init, Frames
  <2>2. /\ buffers \in [1 .. 2 -> Frames] /\ texture \in Frames
        /\ bufferNo \in [1 .. 2 -> Nat]
    BY <2>1 DEF Init
  <2>3. faults \in 0 .. MaxFaults
    BY BoundsAssumption DEF Init
  <2>4. submitted \in Seq(Frames)
    BY DEF Init
  <2>5. displayed \in Frames /\ screen = Blank /\ damage = {} /\ todo = {}
    BY <2>1 DEF Init
  <2>6. /\ ppc = "idle" /\ wpc = "idle" /\ dev = "bound" /\ mailbox = 1
        /\ devTextures = 0 /\ devSurfaces = 0 /\ shown = 0
    BY DEF Init
  <2>7. /\ pending = FALSE /\ valid = FALSE /\ stopping = FALSE
        /\ handles = FALSE /\ queued = FALSE /\ disconnected = FALSE
        /\ orphaned = FALSE
    BY DEF Init
  <2>8. /\ mailbox \in 1 .. 2 /\ shown \in Nat
        /\ devTextures \in Nat /\ devSurfaces \in Nat
    BY <2>6
  <2>9. /\ damage \subseteq Tiles /\ todo \subseteq Tiles
        /\ screen \in Frames \cup {Blank}
    BY <2>5
  <2> QED  BY <2>1, <2>2, <2>3, <2>4, <2>6, <2>7, <2>8, <2>9 DEF TypeOK
<1>2. Belief /\ Newest /\ Phases /\ Objects
  BY DEF Init, Belief, Newest, Phases, Objects, NoLostWakeup,
         WorkerGoneAfterCancel
<1>3. Order
  BY DEF Init, Order, upload
<1> QED  BY <1>1, <1>2, <1>3 DEF Inductive

\* The inductive invariant of the scanout holds in every reachable state.
THEOREM InductiveInvariant == Spec => []Inductive
<1>1. Init => Inductive
  BY InitInductive
<1>2. Inductive /\ [Next]_vars => Inductive'
  BY TypeStep, PhaseStep, ObjectStep, BeliefStep, OrderStep, NewestStep
     DEF Inductive
<1> QED  BY <1>1, <1>2, PTL DEF Spec

\* Type correctness: in particular no object is destroyed twice.
THEOREM TypeCorrect == Spec => []TypeOK
<1>1. Inductive => TypeOK
  BY DEF Inductive
<1> QED  BY <1>1, InductiveInvariant, PTL

\* No torn frame is ever presented, whatever transfers failed before and
\* whatever the plane update does meanwhile.
THEOREM NoTornFrame == Spec => []PresentWhole
<1>1. Inductive => PresentWhole
  BY BeliefMeans DEF PresentWhole
<1> QED  BY <1>1, InductiveInvariant, PTL

\* grape_scanout_diff compares with what the screen really shows.
THEOREM ReferenceFaithful == Spec => []ReferenceIsScreen
<1>1. Inductive => ReferenceIsScreen
  BY DEF Inductive, Belief, ReferenceIsScreen
<1> QED  BY <1>1, InductiveInvariant, PTL

\* Frames are skipped only for newer ones or by a failed transfer.
THEOREM NewestAtRest == Spec => []RestsOnNewest
<1>1. Inductive => RestsOnNewest
  BY DEF Inductive, Newest, RestsOnNewest
<1> QED  BY <1>1, InductiveInvariant, PTL

\* A frame in the mailbox is never left without a worker, and none runs once
\* the buffers may go.
THEOREM WorkerWakes == Spec => []WorkerScheduled
<1>1. Inductive => WorkerScheduled
  BY DEF Inductive, Phases, WorkerScheduled
<1> QED  BY <1>1, InductiveInvariant, PTL

\* Unless an answer is lost, no remote texture or surface is leaked.
THEOREM ObjectsAccounted == Spec => []RemoteObjectsAccounted
<1>1. Inductive => RemoteObjectsAccounted
  BY DEF Inductive, Objects, RemoteObjectsAccounted
<1> QED  BY <1>1, InductiveInvariant, PTL

------------------------------------------------------------------------------
(* Refinement                                                              *)

\* Every step of the scanout submits a frame, shows a later one, turns the
\* screen off, or leaves the abstract mailbox alone.
LEMMA MailboxStep ==
  ASSUME Inductive, [Next]_vars
  PROVE  [Abstract!Next]_(Abstract!mailboxState)
<1> USE DEF boxVars, workVars, believed, deviceVars, devVars, faultVars,
            Request, Fault, WorkEnd, DevStep, Abstract!mailboxState
<1> TypeOK /\ Order
  BY DEF Inductive
<1> /\ submitted \in Seq(Frames) /\ shown \in Nat /\ upload \in 1 .. 2
    /\ bufferNo \in [1 .. 2 -> Nat] /\ screen \in Frames \cup {Blank}
  BY TwoBuffers DEF TypeOK
<1>1. ASSUME NEW frame \in Frames, UpdateCopy(frame)
      PROVE  Abstract!Submit(frame)
  BY <1>1 DEF UpdateCopy, Abstract!Submit
<1>2. ASSUME wpc \in {"diff", "write"}, UNCHANGED submitted,
             shown' = bufferNo[upload], screen' = current
      PROVE  Abstract!Next
  <2>1. /\ bufferNo[upload] \in DOMAIN submitted /\ bufferNo[upload] > shown
        /\ submitted[bufferNo[upload]] = current
    BY <1>2 DEF Order, current
  <2>2. Abstract!Show(bufferNo[upload])
    BY <1>2, <2>1 DEF Abstract!Show
  <2> QED  BY <2>1, <2>2 DEF Abstract!Next
<1>3. CASE WorkUnchanged
  <2>1. /\ wpc = "diff" /\ valid /\ Changed = {} /\ shown' = bufferNo[upload]
        /\ UNCHANGED <<submitted, screen>>
    BY <1>3 DEF WorkUnchanged
  <2>2. current \in Frames /\ displayed \in Frames
    BY TwoBuffers DEF TypeOK, current
  <2>3. \A t \in Tiles : current[t] = displayed[t]
    BY <2>1 DEF Changed
  <2>4. current = displayed
    BY <2>2, <2>3 DEF Frames
  <2> QED  BY <1>2, <2>1, <2>4, BeliefMeans
<1>4. CASE WorkPresent
  <2>1. wpc = "write" /\ todo = {} /\ UNCHANGED submitted
    BY <1>4 DEF WorkPresent
  <2>2. \/ UNCHANGED <<shown, screen>>
        \/ shown' = bufferNo[upload] /\ screen' = texture
    BY <1>4 DEF WorkPresent
  <2> QED  BY <1>2, <2>1, <2>2, BeliefMeans
<1>5. CASE Cleanup
  <2>1. UNCHANGED <<submitted, shown>> /\ (screen' = screen \/ screen' = Blank)
    BY <1>5 DEF Cleanup
  <2> QED  BY <2>1 DEF Abstract!Next, Abstract!TurnOff
<1>6. CASE UNCHANGED vars
  BY <1>6 DEF vars
<1>7. CASE UpdateEnter \/ UpdateSkip \/ UpdateKick
  BY <1>7 DEF UpdateEnter, UpdateSkip, UpdateKick
<1>8. CASE \/ WorkBegin \/ WorkTake \/ WorkDone
           \/ WorkDiff \/ WorkCommit \/ WorkFail
  BY <1>8 DEF WorkBegin, WorkTake, WorkDone, WorkDiff, WorkCommit, WorkFail
<1>9. CASE WorkCreateTexture \/ WorkCreateSurface \/ WorkUndoTexture
  BY <1>9 DEF WorkCreateTexture, WorkCreateSurface, WorkUndoTexture
<1>10. ASSUME NEW t \in Tiles, WorkWrite(t)
       PROVE  UNCHANGED Abstract!mailboxState
  BY <1>10 DEF WorkWrite
<1>11. CASE Disconnect \/ Unplug \/ CancelWork
  BY <1>11 DEF Disconnect, Unplug, CancelWork
<1> QED  BY <1>1, <1>3, <1>4, <1>5, <1>6, <1>7, <1>8, <1>9, <1>10, <1>11
         DEF Next, Producer, Worker, Teardown, Abstract!Next

\* What the compositor may rely on, for any number of frames and failures: the
\* screen is blank or shows one submitted frame, and never goes back.
THEOREM MailboxImplemented == Spec => ImplementsMailbox
<1>1. Init => Abstract!Init
  BY DEF Init, Abstract!Init
<1>2. Inductive /\ [Next]_vars => [Abstract!Next]_(Abstract!mailboxState)
  BY MailboxStep
<1> QED  BY <1>1, <1>2, InductiveInvariant, PTL
         DEF Spec, ImplementsMailbox, Abstract!Spec

==============================================================================
