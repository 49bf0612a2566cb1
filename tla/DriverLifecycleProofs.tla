------------------------ MODULE DriverLifecycleProofs ------------------------
(***************************************************************************)
(* Theorems about DriverLifecycle, for every set of callers and every      *)
(* bound on the GPU work: type correctness, who may still use what is      *)
(* released, and that nothing is left of the binding at its end.           *)
(*                                                                         *)
(* NoUseAfterRelease is not inductive.  That somebody finds a resource     *)
(* follows from the order in which probe acquires and devres releases      *)
(* (InOrder, Phases), that nobody is left who needs one from what each     *)
(* wait of disconnect leaves behind (Draining), and that only a straggler  *)
(* holds io_lock from what each holder of it is doing (Holders).           *)
(***************************************************************************)
EXTENDS DriverLifecycle, SequenceTheorems, TLAPS

\* The managed resources in the order of probe, and how many of them it has
\* acquired before step k.
ManagedOrder == <<"drm", "tx", "rx", "gpu_wq", "pending", "upload",
                  "displayed", "rect", "tiles">>
Acquired(k) == IF k <= 2 THEN 0 ELSE IF k = 3 THEN 1 ELSE IF k <= 8 THEN 3
               ELSE IF k <= 10 THEN 4 ELSE IF k <= 15 THEN k - 6 ELSE 9

InOrder == /\ Len(managed) <= 9
           /\ \A i \in 1 .. Len(managed) : managed[i] = ManagedOrder[i]

Unbinds == {"stopped", "drain", "cancel", "flush", "cleanup", "last"}
Over    == {"release", "unbound"}

\* Nobody but probe has come yet.
Untouched ==
  /\ works = 0 /\ gpc = "idle" /\ wpc = "idle" /\ ppc = "idle" /\ ~queued
  /\ \A c \in Callers : call[c] = "none"
  /\ remote = 0 /\ io \in {Nobody, "core"} /\ lost = {}
  /\ ~unplugged

\* What each phase of the binding holds.
Phases ==
  /\ pc = "probe" => /\ InOrder /\ Len(managed) = Acquired(at)
                     /\ usb = (IF at > 4 THEN 1 ELSE 0)
                     /\ (intfdata <=> at > 4) /\ (sync <=> at > 15)
  /\ pc = "clear" => usb = 1 /\ io = Nobody
  /\ pc \in {"probe", "clear"} => Untouched
  /\ pc \in {"bound"} \cup Unbinds => /\ usb = 1 /\ sync
                                      /\ InOrder /\ Len(managed) = 9
  /\ pc \in {"bound", "stopped"} => ~unplugged
  /\ pc \in Unbinds \cup Over => ~intfdata
  /\ pc \in Unbinds \ {"stopped"} => unplugged
  /\ pc \in Over => /\ usb = 0
                    /\ ~unplugged => Untouched /\ io = Nobody
                    /\ unplugged => disconnected /\ InOrder

\* devres is through when the binding has ended.
EmptyAtEnd == pc = "unbound" => managed = <<>>

\* What the waits of disconnect leave behind.
Draining ==
  /\ pc \in {"cancel", "flush", "cleanup", "last"} \cup Over =>
       wpc = "idle" /\ ppc = "idle" /\ gpc # "section"
  /\ pc \in {"flush", "cleanup", "last"} \cup Over => ~queued
  /\ pc \in {"last"} \cup Over => (~physically => remote = 0)
  /\ pc \in {"cleanup", "last"} \cup Over =>
       (works > 0 \/ gpc # "idle" => late # {})
  /\ works > 0 \/ gpc # "idle" => InOrder /\ Len(managed) >= 4
  /\ unplugged => \A c \in Callers : call[c] = "ioctl" => c \in late
  /\ lost \subseteq late /\ (~unplugged => lost = {})

\* What the holder of io_lock is doing.
Holders ==
  /\ io = "core" =>
       \/ pc = "probe" /\ Step \in Requests
       \/ pc = "cleanup" /\ remote > 0 /\ ~physically
  /\ io = "worker" => wpc = "upload"
  /\ io = "gpu" => gpc # "idle"
  /\ disconnected => io \in {Nobody, straggler}

Inductive == TypeOK /\ Phases /\ Draining /\ Holders

------------------------------------------------------------------------------
(* The steps of probe and the sequence of managed resources                *)

\* Where probe does what.
LEMMA StepAt ==
  ASSUME at \in DOMAIN ProbeSteps
  PROVE  /\ at \in 1 .. 17
         /\ Step \in Checks <=> at \in {1, 7, 9, 16}
         /\ Step \in Requests <=> at \in {5, 6}
         /\ Step \in Managed <=> at \in {2, 8, 10, 11, 12, 13, 14}
         /\ Step \in Early <=> at \in 1 .. 3
         /\ Step = "io_buffers" <=> at = 3
         /\ Step = "udev" <=> at = 4
         /\ Step = "sync" <=> at = 15
         /\ Step = "register" <=> at = 17
         /\ at \in {2, 8, 10, 11, 12, 13, 14} =>
              Step = ManagedOrder[Acquired(at) + 1]
<1>1. DOMAIN ProbeSteps = 1 .. 17
  BY DEF ProbeSteps
<1>2. /\ Step = IF at = 1 THEN "match" ELSE IF at = 2 THEN "drm" ELSE
               IF at = 3 THEN "io_buffers" ELSE IF at = 4 THEN "udev" ELSE
               IF at = 5 THEN "hello" ELSE IF at = 6 THEN "info" ELSE
               IF at = 7 THEN "capabilities" ELSE IF at = 8 THEN "gpu_wq" ELSE
               IF at = 9 THEN "sizes" ELSE IF at = 10 THEN "pending" ELSE
               IF at = 11 THEN "upload" ELSE IF at = 12 THEN "displayed" ELSE
               IF at = 13 THEN "rect" ELSE IF at = 14 THEN "tiles" ELSE
               IF at = 15 THEN "sync" ELSE IF at = 16 THEN "modeset" ELSE
               "register"
  BY <1>1 DEF Step, ProbeSteps
<1>3. /\ Step \in Checks <=> at \in {1, 7, 9, 16}
      /\ Step \in Requests <=> at \in {5, 6}
      /\ Step \in Early <=> at \in 1 .. 3
  BY <1>1, <1>2 DEF Checks, Requests, Early
<1>4. Step \in Managed <=> at \in {2, 8, 10, 11, 12, 13, 14}
  BY <1>1, <1>2 DEF Managed, FrameBuffers
<1>5. /\ Step = "io_buffers" <=> at = 3
      /\ Step = "udev" <=> at = 4
  BY <1>1, <1>2
<1>6. Step = "sync" <=> at = 15
  BY <1>1, <1>2
<1>7. Step = "register" <=> at = 17
  BY <1>1, <1>2
<1>8. /\ ManagedOrder[1] = "drm" /\ ManagedOrder[4] = "gpu_wq"
      /\ ManagedOrder[5] = "pending" /\ ManagedOrder[6] = "upload"
      /\ ManagedOrder[7] = "displayed" /\ ManagedOrder[8] = "rect"
      /\ ManagedOrder[9] = "tiles"
  BY DEF ManagedOrder
<1>9. at \in {2, 8, 10, 11, 12, 13, 14} =>
        Step = ManagedOrder[Acquired(at) + 1]
  BY <1>2, <1>8 DEF Acquired
<1> QED  BY <1>1, <1>3, <1>4, <1>5, <1>6, <1>7, <1>9

\* The release of the last of them.
LEMMA FrontKeeps ==
  ASSUME managed \in Seq(Managed), managed # <<>>
  PROVE  /\ Front(managed) \in Seq(Managed)
         /\ Len(Front(managed)) = Len(managed) - 1
         /\ \A i \in 1 .. Len(managed) - 1 : Front(managed)[i] = managed[i]
         /\ Last(managed) = managed[Len(managed)]
         /\ Len(managed) >= 1
  BY SMTT(20) DEF Front, Last

\* What is live when so many resources are left.
LEMMA LiveInOrder ==
  ASSUME managed \in Seq(Managed), InOrder
  PROVE  /\ Len(managed) >= 3 => {"drm", "tx", "rx"} \subseteq Live
         /\ Len(managed) >= 4 <=> "gpu_wq" \in Live
         /\ Len(managed) = 9 => FrameBuffers \subseteq Live
<1>1. \A i \in 1 .. Len(managed) : managed[i] \in Live
  BY DEF Live, ToSet
<1>2. \A x \in Live : \E i \in 1 .. Len(managed) : x = ManagedOrder[i]
  BY DEF Live, ToSet, InOrder
<1>3. /\ ManagedOrder[1] = "drm" /\ ManagedOrder[2] = "tx"
      /\ ManagedOrder[3] = "rx" /\ ManagedOrder[4] = "gpu_wq"
      /\ ManagedOrder[5] = "pending" /\ ManagedOrder[6] = "upload"
      /\ ManagedOrder[7] = "displayed" /\ ManagedOrder[8] = "rect"
      /\ ManagedOrder[9] = "tiles"
  BY DEF ManagedOrder
<1>4. Len(managed) >= 3 => {"drm", "tx", "rx"} \subseteq Live
  BY <1>1, <1>3 DEF InOrder
<1>5. Len(managed) >= 4 => "gpu_wq" \in Live
  BY <1>1, <1>3 DEF InOrder
<1>6. Len(managed) < 4 => "gpu_wq" \notin Live
  BY <1>2, <1>3
<1>7. Len(managed) = 9 => FrameBuffers \subseteq Live
  BY <1>1, <1>3 DEF InOrder, FrameBuffers
<1> QED  BY <1>4, <1>5, <1>6, <1>7

------------------------------------------------------------------------------
(* Type correctness                                                        *)

LEMMA TypeStep ==
  ASSUME Inductive, [Next]_vars
  PROVE  TypeOK'
<1> TypeOK
  BY DEF Inductive
<1> USE DEF binding, flags, scanout, gpu, ghosts
<1>1. CASE Probing
  <2>1. at \in DOMAIN ProbeSteps /\ DOMAIN ProbeSteps = 1 .. 17
    BY DEF TypeOK, ProbeSteps
  <2>2. CASE ProbeCheck \/ ProbeTakesDevice \/ ProbeSync \/ ProbeAnswered
    <3>1. at + 1 \in DOMAIN ProbeSteps \/ (ProbeAnswered /\ at' = at)
      BY <1>1, <2>1, <2>2, StepAt DEF Inductive, Holders, ProbeCheck,
         ProbeTakesDevice, ProbeSync, ProbeAnswered, Transferred
    <3>2. ProbeTakesDevice => usb + 1 \in 0 .. 1
      BY <2>1, StepAt DEF ProbeTakesDevice, Inductive, Phases
    <3> QED  BY <2>2, <3>1, <3>2
             DEF TypeOK, ProbeCheck, ProbeTakesDevice, ProbeSync,
                 ProbeAnswered, Transferred
  <2>3. CASE ProbeAcquires
    <3>1. at + 1 \in DOMAIN ProbeSteps
      BY <2>1, <2>3, StepAt DEF ProbeAcquires
    <3>2. <<"tx", "rx">> \in Seq(Managed)
      BY DEF Managed
    <3>3. CASE Step = "io_buffers"
      <4>1. managed' = managed \o <<"tx", "rx">>
        BY <2>3, <3>3 DEF ProbeAcquires
      <4>2. managed' \in Seq(Managed)
        BY <3>2, <4>1 DEF TypeOK
      <4> QED  BY <2>3, <3>1, <4>2 DEF TypeOK, ProbeAcquires
    <3>4. CASE Step # "io_buffers"
      <4>1. managed' = managed \o <<Step>> /\ Step \in Managed
        BY <2>3, <3>4 DEF ProbeAcquires
      <4>2. managed' \in Seq(Managed)
        BY <4>1 DEF TypeOK
      <4> QED  BY <2>3, <3>1, <4>2 DEF TypeOK, ProbeAcquires
    <3> QED  BY <3>3, <3>4
  <2>4. CASE ProbeFails
    <3>1. "tx" \in Managed /\ "rx" \in Managed
      BY DEF Managed
    <3>2. managed' \in Seq(Managed)
      BY <2>4, <3>1, SMTT(20) DEF ProbeFails, TypeOK
    <3> QED  BY <2>4, <3>2 DEF TypeOK, ProbeFails
  <2>5. CASE ClearProbe
    <3>1. usb = 1
      BY <2>5 DEF ClearProbe, Inductive, Phases
    <3>2. queued' \in BOOLEAN /\ stopping' \in BOOLEAN
      BY <2>5, Zenon DEF TypeOK, ClearProbe
    <3>3. {intfdata, sync, gone, physically, stopping, disconnected,
           unplugged, pending, queued}' \subseteq BOOLEAN
      BY <2>5, <3>2 DEF TypeOK, ClearProbe
    <3>4. usb' \in 0 .. 1
      BY <2>5, <3>1 DEF ClearProbe
    <3> QED  BY <2>5, <3>1, <3>3, <3>4 DEF TypeOK, ClearProbe
  <2>6. CASE ProbeRequest \/ ProbeBinds
    BY <2>6 DEF TypeOK, ProbeRequest, ProbeBinds, Locked, Actors
  <2> QED  BY <1>1, <2>2, <2>3, <2>4, <2>5, <2>6 DEF Probing
<1>2. CASE PulledOut \/ Disconnect
  BY <1>2 DEF TypeOK, PulledOut, Disconnect
<1>3. CASE Unbinding
  <2>1. CASE Unplug \/ Drained \/ CancelWork \/ FlushGpu \/ CleanupRequest
             \/ CleanupDone \/ Unbound
    BY <2>1 DEF TypeOK, Unplug, Drained, CancelWork, FlushGpu, CleanupRequest,
                CleanupDone, Unbound, Locked, Actors
  <2>2. CASE CleanupAnswered
    <3>1. remote - 1 \in 0 .. 2
      BY <2>2 DEF CleanupAnswered, Transferred, Inductive, Holders, TypeOK
    <3> QED  BY <2>2, <3>1 DEF TypeOK, CleanupAnswered, Transferred
  <2>3. CASE LastStep
    <3>1. usb = 1
      BY <2>3 DEF LastStep, Inductive, Phases, Unbinds
    <3> QED  BY <2>3, <3>1 DEF TypeOK, LastStep
  <2>4. CASE Release
    <3>1. managed' \in Seq(Managed)
      BY <2>4, FrontKeeps DEF Release, TypeOK
    <3> QED  BY <2>4, <3>1 DEF TypeOK, Release
  <2> QED  BY <1>3, <2>1, <2>2, <2>3, <2>4 DEF Unbinding
<1>4. CASE CommitEnter \/ CommitEnds
  <2>1. CASE CommitEnter
    BY <2>1 DEF TypeOK, CommitEnter
  <2>2. CASE CommitEnds
    <3>1. pending' \in BOOLEAN /\ queued' \in BOOLEAN
      BY <2>2, Zenon DEF TypeOK, CommitEnds
    <3> QED  BY <2>2, <3>1 DEF TypeOK, CommitEnds
  <2> QED  BY <1>4, <2>1, <2>2
<1>8. CASE Worker
  <2>1. CASE WorkBegin \/ WorkTakes
    BY <2>1 DEF TypeOK, WorkBegin, WorkTakes
  <2>2. CASE WorkRequest
    BY <2>2 DEF TypeOK, WorkRequest, Locked, Actors
  <2>3. CASE WorkRefused
    BY <2>3 DEF TypeOK, WorkRefused, Refused
  <2>4. CASE WorkAnswered
    <3>1. remote' \in 0 .. 2 /\ wpc' \in {"idle", "section", "upload"}
      BY <2>4 DEF TypeOK, WorkAnswered
    <3>2. pending' \in BOOLEAN
      BY <2>4, Zenon DEF TypeOK, WorkAnswered
    <3> QED  BY <2>4, <3>1, <3>2 DEF TypeOK, WorkAnswered, Transferred
  <2> QED  BY <1>8, <2>1, <2>2, <2>3, <2>4 DEF Worker
<1>5. CASE Gpu
  BY <1>5, WorksAssumption DEF TypeOK, Gpu, GpuBegin, GpuRequest, GpuMoves,
              Locked, Refused, Transferred, Actors
<1>6. ASSUME NEW c \in Callers, Caller(c)  PROVE TypeOK'
  BY <1>6, WorksAssumption
     DEF TypeOK, Caller, OpenFile, EnterCall, CallRequest, CallAnswered,
         CallQueues, CallReturns, Locked, Transferred, Actors
<1>7. CASE UNCHANGED vars
  BY <1>7 DEF TypeOK, vars
<1> QED  BY <1>1, <1>2, <1>3, <1>4, <1>5, <1>6, <1>7, <1>8 DEF Next

------------------------------------------------------------------------------
(* The phases                                                              *)

LEMMA PhasesProbing ==
  ASSUME Inductive, Probing
  PROVE  Phases'
<1> /\ TypeOK /\ Phases /\ Holders
    /\ at \in 1 .. 17 /\ at \in DOMAIN ProbeSteps
  BY StepAt DEF Inductive, TypeOK
<1> USE DEF Phases, Untouched, Unbinds, Over, binding, flags, scanout, gpu,
            ghosts
<1>0. ASSUME pc = "probe" \/ pc = "clear",
             UNCHANGED <<works, gpc, wpc, ppc, queued, call, remote, lost,
                         unplugged>>,
             io' \in {Nobody, "core"}
      PROVE  Untouched'
  BY <1>0
<1>1. CASE ProbeCheck \/ ProbeTakesDevice \/ ProbeSync
  <2>1. Untouched' /\ pc = "probe" /\ pc' = "probe"
    BY <1>0, <1>1 DEF ProbeCheck, ProbeTakesDevice, ProbeSync
  <2>2. /\ at' = at + 1 /\ managed' = managed /\ InOrder
        /\ Len(managed) = Acquired(at)
        /\ at \in {1, 4, 7, 9, 15, 16}
    BY <1>1, StepAt DEF ProbeCheck, ProbeTakesDevice, ProbeSync
  <2>3. InOrder' /\ Len(managed') = Acquired(at')
    BY <2>2 DEF InOrder, Acquired
  <2>4. CASE ProbeCheck
    BY <2>1, <2>2, <2>3, <2>4, StepAt DEF ProbeCheck
  <2>5. CASE ProbeTakesDevice
    BY <2>1, <2>2, <2>3, <2>5, StepAt DEF ProbeTakesDevice
  <2>6. CASE ProbeSync
    BY <2>1, <2>2, <2>3, <2>6, StepAt DEF ProbeSync
  <2> QED  BY <1>1, <2>4, <2>5, <2>6
<1>2. CASE ProbeRequest
  BY <1>2 DEF ProbeRequest, Locked, InOrder
<1>3. CASE ProbeAnswered
  BY <1>3, StepAt DEF ProbeAnswered, Transferred, InOrder, Acquired, Holders
<1>4. CASE ProbeBinds
  <2>1. at = 17 /\ Acquired(17) = 9
    BY <1>4, StepAt DEF ProbeBinds, Acquired
  <2>2. InOrder /\ Len(managed) = 9 /\ usb = 1 /\ sync /\ intfdata
    BY <1>4, <2>1 DEF ProbeBinds
  <2> QED  BY <1>4, <2>2 DEF ProbeBinds, InOrder
<1>5. CASE ProbeFails
  <2>1. io = Nobody /\ pc = "probe"
    BY <1>5 DEF ProbeFails, Holders
  <2>2. Untouched'
    BY <1>0, <1>5, <2>1 DEF ProbeFails
  <2>3. at \notin {4, 5, 6} /\ (Step \in Early <=> at <= 3)
    BY <1>5, StepAt DEF ProbeFails
  <2> QED  BY <1>5, <2>1, <2>2, <2>3 DEF ProbeFails
<1>6. CASE ClearProbe
  <2>1. Untouched'
    BY <1>6, Zenon DEF ClearProbe
  <2>2. usb' = 0 /\ io' = Nobody /\ ~intfdata' /\ pc' = "release"
    BY <1>6 DEF ClearProbe
  <2> QED  BY <2>1, <2>2
<1>7. CASE ProbeAcquires
  <2>1. InOrder' /\ Len(managed') = Acquired(at')
    <3>1. CASE at = 3
      <4>1. managed' = managed \o <<"tx", "rx">>
        BY <1>7, <3>1, StepAt DEF ProbeAcquires
      <4>2. Len(managed) = 1 /\ Len(managed') = 3
        <5>1. Len(managed) = 1
          BY <1>7, <3>1 DEF ProbeAcquires, Acquired
        <5>2. managed \in Seq(Managed)
          BY DEF TypeOK
        <5>3. \A u \in Seq(Managed) : Len(managed \o u) = Len(managed) + Len(u)
          BY <5>2, ConcatProperties
        <5>4. <<"tx", "rx">> \in Seq(Managed) /\ Len(<<"tx", "rx">>) = 2
          BY DEF Managed
        <5> HIDE DEF Managed
        <5>5. Len(managed \o <<"tx", "rx">>)
                = Len(managed) + Len(<<"tx", "rx">>)
          BY <5>3, <5>4, Zenon
        <5>6. Len(managed') = 1 + 2
          BY <4>1, <5>1, <5>4, <5>5, Zenon
        <5> QED  BY <5>1, <5>6
      <4>3. /\ managed'[1] = managed[1]
            /\ managed'[2] = "tx" /\ managed'[3] = "rx"
        BY <4>1, <4>2 DEF TypeOK
      <4> QED  BY <1>7, <3>1, <4>2, <4>3
               DEF ProbeAcquires, InOrder, ManagedOrder, Acquired
    <3>2. CASE at # 3
      <4>1. /\ at \in {2, 8, 10, 11, 12, 13, 14}
            /\ managed' = managed \o <<ManagedOrder[Acquired(at) + 1]>>
        BY <1>7, <3>2, StepAt DEF ProbeAcquires
      <4>2. Len(managed) = Acquired(at) /\ InOrder
        BY <1>7 DEF ProbeAcquires
      <4>3. /\ Len(managed') = Len(managed) + 1
            /\ \A i \in 1 .. Len(managed) : managed'[i] = managed[i]
            /\ managed'[Len(managed) + 1] = ManagedOrder[Len(managed) + 1]
        BY <4>1, <4>2 DEF TypeOK
      <4>4. at' = at + 1 /\ Acquired(at + 1) = Acquired(at) + 1
            /\ Acquired(at) + 1 <= 9
        BY <1>7, <4>1 DEF ProbeAcquires, Acquired
      <4> QED  BY <4>2, <4>3, <4>4 DEF InOrder
    <3> QED  BY <3>1, <3>2
  <2> QED  BY <1>7, <2>1, StepAt DEF ProbeAcquires
<1> QED  BY <1>1, <1>2, <1>3, <1>4, <1>5, <1>6, <1>7 DEF Probing

LEMMA PhasesStep ==
  ASSUME Inductive, [Next]_vars
  PROVE  Phases'
<1> TypeOK /\ Phases /\ Draining /\ Holders
  BY DEF Inductive
<1> USE DEF Phases, Untouched, Unbinds, Over, binding, flags, scanout, gpu,
            ghosts, InOrder
<1>1. CASE Probing
  BY <1>1, PhasesProbing
<1>2. CASE PulledOut
  BY <1>2 DEF PulledOut
<1>3. CASE Disconnect
  BY <1>3 DEF Disconnect
<1>4. CASE Unbinding
  <2>1. CASE Unplug \/ Drained \/ CancelWork \/ FlushGpu \/ CleanupDone
    BY <2>1 DEF Unplug, Drained, CancelWork, FlushGpu, CleanupDone
  <2>2. CASE CleanupRequest \/ CleanupAnswered
    BY <2>2 DEF CleanupRequest, CleanupAnswered, Locked, Transferred
  <2>3. CASE LastStep
    BY <2>3 DEF LastStep
  <2>4. CASE Release
    BY <2>4, FrontKeeps DEF Release, TypeOK
  <2>5. CASE Unbound
    BY <2>5 DEF Unbound
  <2> QED  BY <1>4, <2>1, <2>2, <2>3, <2>4, <2>5 DEF Unbinding
<1>5. CASE CommitEnter \/ CommitEnds
  BY <1>5 DEF CommitEnter, CommitEnds, Visible
<1>6. CASE Worker
  BY <1>6 DEF Worker, WorkBegin, WorkTakes, WorkRequest, WorkRefused,
              WorkAnswered, Locked, Refused, Transferred
<1>7. CASE Gpu
  BY <1>7 DEF Gpu, GpuBegin, GpuRequest, GpuMoves, Locked, Refused,
              Transferred, TypeOK
<1>8. ASSUME NEW c \in Callers, Caller(c)  PROVE Phases'
  BY <1>8 DEF Caller, OpenFile, EnterCall, CallRequest, CallAnswered,
              CallQueues, CallReturns, Locked, Transferred, Visible,
              TypeOK
<1>9. CASE UNCHANGED vars
  BY <1>9 DEF vars
<1> QED  BY <1>1, <1>2, <1>3, <1>4, <1>5, <1>6, <1>7, <1>8, <1>9 DEF Next

------------------------------------------------------------------------------
(* What the waits leave behind, and who holds io_lock                      *)

LEMMA DrainingStep ==
  ASSUME Inductive, [Next]_vars
  PROVE  Draining'
<1> TypeOK /\ Phases /\ Draining /\ Holders
  BY DEF Inductive
<1> USE DEF Draining, Unbinds, Over, binding, flags, scanout, gpu, ghosts
<1>0. UNCHANGED managed => InOrder' = InOrder
  BY DEF InOrder
<1>1. CASE Probing
  <2>1. Untouched /\ pc \in {"probe", "clear"}
    BY <1>1 DEF Probing, ProbeCheck, ProbeAcquires, ProbeTakesDevice,
                ProbeRequest, ProbeAnswered, ProbeSync, ProbeBinds, ProbeFails,
                ClearProbe, Transferred, Locked, Phases, Holders
  <2>2. /\ UNCHANGED <<works, gpc, wpc, ppc, call, remote, lost, late,
                        unplugged>>
        /\ queued' = FALSE \/ UNCHANGED queued
    BY <1>1, <2>1
       DEF Probing, ProbeCheck, ProbeAcquires, ProbeTakesDevice, ProbeRequest,
           ProbeAnswered, ProbeSync, ProbeBinds, ProbeFails, ClearProbe,
           Untouched
  <2> QED  BY <2>1, <2>2 DEF Untouched
<1>2. CASE PulledOut \/ Disconnect
  BY <1>0, <1>2 DEF PulledOut, Disconnect
<1>3. CASE Unbinding
  <2>1. CASE Unplug \/ Drained \/ CancelWork \/ FlushGpu \/ CleanupDone
    BY <1>0, <2>1 DEF Unplug, Drained, CancelWork, FlushGpu, CleanupDone,
                      InSection,
                Phases, TypeOK
  <2>2. CASE CleanupRequest \/ CleanupAnswered
    BY <1>0, <2>2 DEF CleanupRequest, CleanupAnswered
  <2>3. CASE LastStep
    BY <1>0, <2>3 DEF LastStep
  <2>4. CASE Release
    <3>1. ManagedOrder[4] = "gpu_wq"
      BY DEF ManagedOrder
    <3>2. /\ Len(managed') = Len(managed) - 1
          /\ InOrder => InOrder' /\ Last(managed) = ManagedOrder[Len(managed)]
      BY <2>4, FrontKeeps DEF Release, TypeOK, InOrder
    <3>3. Len(managed) \in Nat
      BY DEF TypeOK
    <3> QED  BY <2>4, <3>1, <3>2, <3>3 DEF Release
  <2>5. CASE Unbound
    BY <1>0, <2>5 DEF Unbound
  <2> QED  BY <1>3, <2>1, <2>2, <2>3, <2>4, <2>5 DEF Unbinding
<1>4. CASE CommitEnter \/ CommitEnds
  BY <1>0, <1>4 DEF CommitEnter, CommitEnds, Visible, Phases
<1>5. CASE Worker
  BY <1>0, <1>5 DEF Worker, WorkBegin, WorkTakes, WorkRequest, WorkRefused,
              WorkAnswered, Phases
<1>6. CASE Gpu
  <2>1. /\ UNCHANGED <<pc, managed, queued, wpc, ppc, call, remote, late, lost,
                        unplugged, physically>>
        /\ works > 0 \/ gpc # "idle"
    BY <1>6 DEF Gpu, GpuBegin, GpuRequest, GpuMoves, TypeOK
  <2>2. gpc' = "section" => gpc = "section" \/ ~unplugged
    BY <1>6 DEF Gpu, GpuBegin, GpuRequest, GpuMoves
  <2>3. gpc = "section" \/ ~unplugged => pc \notin {"cancel", "flush",
                                                   "cleanup", "last"} \cup Over
    BY <2>1 DEF Phases, Untouched
  <2> QED  BY <1>0, <2>1, <2>2, <2>3
<1>7. ASSUME NEW c \in Callers, Caller(c)  PROVE Draining'
  <2>1. CASE OpenFile(c) \/ EnterCall(c) \/ CallRequest(c) \/ CallAnswered(c)
             \/ CallReturns(c)
    BY <1>0, <2>1 DEF OpenFile, EnterCall, CallRequest, CallAnswered,
                      CallReturns,
                TypeOK
  <2>2. CASE CallQueues(c)
    <3>1. unplugged => c \in late
      BY <1>0, <2>2 DEF CallQueues
    <3>2. pc \notin {"probe", "clear"} /\ (pc \in Over => unplugged)
      BY <1>0, <2>2 DEF CallQueues, Phases, Untouched
    <3>3. "gpu_wq" \in Live <=> Len(managed) >= 4
      BY <3>2, <2>2, LiveInOrder DEF Phases, TypeOK
    <3>4. InOrder
      BY <2>2, <3>2 DEF CallQueues, Phases, TypeOK
    <3>5. /\ UNCHANGED <<pc, managed, queued, wpc, ppc, gpc, remote, late,
                          unplugged, physically>>
          /\ \A d \in Callers : call'[d] = "ioctl" => call[d] = "ioctl"
      BY <2>2 DEF CallQueues, TypeOK
    <3>6. IF "gpu_wq" \in Live THEN UNCHANGED lost
                              ELSE lost' = lost \cup {c} /\ UNCHANGED works
      BY <2>2 DEF CallQueues
    <3>7. "gpu_wq" \notin Live => unplugged
      <4>1. pc \in {"bound"} \cup Unbinds => Len(managed) = 9
        BY DEF Phases
      <4>2. pc \in {"bound"} \cup Unbinds \cup Over
        BY <3>2 DEF TypeOK
      <4>3. Len(managed) \in Nat
        BY DEF TypeOK
      <4> QED  BY <3>2, <3>3, <4>1, <4>2, <4>3
    <3> QED  BY <1>0, <3>1, <3>2, <3>3, <3>4, <3>5, <3>6, <3>7 DEF Phases
  <2> QED  BY <1>7, <2>1, <2>2 DEF Caller
<1>8. CASE UNCHANGED vars
  BY <1>0, <1>8 DEF vars
<1> QED  BY <1>1, <1>2, <1>3, <1>4, <1>5, <1>6, <1>7, <1>8 DEF Next

LEMMA HoldersStep ==
  ASSUME Inductive, [Next]_vars
  PROVE  Holders'
<1> TypeOK /\ Phases /\ Draining /\ Holders
  BY DEF Inductive
<1> USE CallersAssumption
    DEF Holders, binding, flags, scanout, gpu, ghosts, Locked, Refused,
        Transferred
<1>1. CASE Probing
  BY <1>1 DEF Probing, ProbeCheck, ProbeAcquires, ProbeTakesDevice,
              ProbeRequest, ProbeAnswered, ProbeSync, ProbeBinds, ProbeFails,
              ClearProbe, Phases, Step, Checks, Requests, Managed, FrameBuffers,
              Nobody
<1>2. CASE PulledOut \/ Disconnect
  BY <1>2 DEF PulledOut, Disconnect, Step, TypeOK
<1>3. CASE Unbinding
  <2>1. CASE Unplug \/ Drained \/ CancelWork \/ FlushGpu \/ CleanupDone
             \/ Release \/ Unbound
    BY <2>1 DEF Unplug, Drained, CancelWork, FlushGpu, CleanupDone, Release,
                Unbound
  <2>2. CASE CleanupRequest \/ CleanupAnswered
    BY <2>2 DEF CleanupRequest, CleanupAnswered, Nobody
  <2>3. CASE LastStep
    BY <2>3 DEF LastStep
  <2> QED  BY <1>3, <2>1, <2>2, <2>3 DEF Unbinding
<1>4. CASE CommitEnter \/ CommitEnds
  BY <1>4 DEF CommitEnter, CommitEnds, Step
<1>5. CASE Worker
  BY <1>5 DEF Worker, WorkBegin, WorkTakes, WorkRequest, WorkRefused,
              WorkAnswered, Step, Nobody
<1>6. CASE Gpu
  BY <1>6 DEF Gpu, GpuBegin, GpuRequest, GpuMoves, Step, Nobody
<1>7. ASSUME NEW c \in Callers, Caller(c)  PROVE Holders'
  BY <1>7 DEF Caller, OpenFile, EnterCall, CallRequest, CallAnswered,
              CallQueues, CallReturns, Step, Nobody
<1>8. CASE UNCHANGED vars
  BY <1>8 DEF vars, Step
<1> QED  BY <1>1, <1>2, <1>3, <1>4, <1>5, <1>6, <1>7, <1>8 DEF Next

------------------------------------------------------------------------------
(* The theorems                                                            *)

LEMMA InductiveInit == Init => Inductive
<1> SUFFICES ASSUME Init  PROVE Inductive
  OBVIOUS
<1>0. 1 \in DOMAIN ProbeSteps /\ 0 \in 0 .. MaxWorks
  BY WorksAssumption DEF ProbeSteps
<1>1. TypeOK
  <2>1. /\ {intfdata, sync, gone, physically, stopping, disconnected,
            unplugged, pending, queued} \subseteq BOOLEAN
    BY Zenon DEF Init
  <2>2. managed \in Seq(Managed) /\ at \in DOMAIN ProbeSteps /\ usb \in 0 .. 1
    BY <1>0 DEF Init
  <2>3. call \in [Callers -> {"none", "open", "ioctl", "close"}]
    BY DEF Init
  <2>4. /\ io \in Actors \cup {Nobody} /\ straggler \in Actors \cup {Nobody}
        /\ works \in 0 .. MaxWorks /\ remote \in 0 .. 2
        /\ late \subseteq Callers /\ lost \subseteq Callers
    BY <1>0 DEF Init
  <2>5. /\ pc = "probe" /\ wpc = "idle" /\ ppc = "idle" /\ gpc = "idle"
    BY DEF Init
  <2> QED  BY <2>1, <2>2, <2>3, <2>4, <2>5 DEF TypeOK
<1>2. Phases
  BY DEF Init, Phases, InOrder, Acquired, Untouched, Unbinds, Over
<1>3. Draining /\ Holders
  BY DEF Init, Draining, Holders, Over, Nobody
<1> QED  BY <1>1, <1>2, <1>3 DEF Inductive

LEMMA InductiveInvariant == Spec => []Inductive
<1>1. Inductive /\ [Next]_vars => Inductive'
  BY TypeStep, PhasesStep, DrainingStep, HoldersStep DEF Inductive
<1> QED  BY InductiveInit, <1>1, PTL DEF Spec

(* Every variable keeps its type; in particular the USB device is put as   *)
(* often as it was taken, by whichever way the binding ends.               *)
THEOREM TypeCorrect == Spec => []TypeOK
<1>1. Inductive => TypeOK
  BY DEF Inductive
<1> QED  BY <1>1, InductiveInvariant, PTL

LEMMA UsersFindResources ==
  ASSUME Inductive
  PROVE  NoUseAfterRelease
<1> /\ TypeOK /\ Phases /\ Draining /\ Holders
  BY DEF Inductive
<1>0. managed \in Seq(Managed) /\ Len(managed) \in Nat
  BY DEF TypeOK
<1>1. pc \in {"bound"} \cup Unbinds =>
        /\ sync /\ usb = 1 /\ FrameBuffers \subseteq Live
        /\ {"drm", "tx", "rx"} \subseteq Live
  <2>1. pc \in {"bound"} \cup Unbinds =>
          sync /\ usb = 1 /\ InOrder /\ Len(managed) = 9
    BY DEF Phases
  <2> QED  BY <1>0, <2>1, LiveInOrder
<1>2. works > 0 \/ gpc # "idle" =>
        {"drm", "gpu_wq"} \subseteq Live /\ {"tx", "rx"} \subseteq Live
  BY <1>0, LiveInOrder DEF Draining
<1>3. wpc # "idle" \/ ppc # "idle" => pc \in {"bound"} \cup Unbinds
  BY DEF Phases, Draining, Untouched, Unbinds, Over, TypeOK
<1>4. "pending" \in FrameBuffers
  BY DEF FrameBuffers
<1>5. ASSUME io # Nobody
      PROVE  \/ {"tx", "rx"} \subseteq Live /\ usb > 0
             \/ io = straggler /\ io \in Callers
             \/ /\ io = straggler /\ io = "gpu" /\ late # {}
                /\ {"tx", "rx"} \subseteq Live
  <2>1. CASE pc = "probe"
    <3>1. io = "core" /\ at \in {5, 6}
      BY <1>5, <2>1, StepAt DEF Phases, Untouched, Holders, TypeOK
    <3>2. Len(managed) = 3 /\ usb = 1 /\ InOrder
      BY <2>1, <3>1 DEF Phases, Acquired
    <3> QED  BY <1>0, <3>2, LiveInOrder
  <2>2. CASE pc \in {"bound"} \cup Unbinds
    BY <1>1, <2>2
  <2>3. CASE pc \in Over
    <3>1. io = straggler /\ unplugged
      BY <1>5, <2>3 DEF Phases, Holders
    <3>2. wpc = "idle" /\ pc \notin {"probe", "cleanup"}
      BY <2>3 DEF Draining, Over
    <3>3. io \in Callers \/ (io = "gpu" /\ gpc # "idle")
      BY <1>5, <3>2 DEF Holders, TypeOK, Actors
    <3> QED  BY <1>2, <2>3, <3>1, <3>3 DEF Draining
  <2> QED  BY <1>5, <2>1, <2>2, <2>3 DEF TypeOK, Phases, Unbinds, Over
<1>6. lost \subseteq late
  BY DEF Draining
<1> QED  BY <1>1, <1>2, <1>3, <1>4, <1>5, <1>6 DEF NoUseAfterRelease

(* Whoever calls, commits or works, and wherever probe fails or the board  *)
(* is pulled out: nobody uses what is released, but for one request that   *)
(* had io_lock when disconnected was set and work submitted by a caller    *)
(* that was already inside when the device was unplugged.                  *)
THEOREM NothingUsedAfterRelease == Spec => []NoUseAfterRelease
  BY UsersFindResources, InductiveInvariant, PTL

LEMMA EndIsClean ==
  ASSUME Inductive, EmptyAtEnd
  PROVE  EverythingReleased
<1>1. ASSUME pc = "unbound"
      PROVE  /\ usb = 0 /\ ~intfdata /\ ~queued /\ wpc = "idle" /\ ppc = "idle"
             /\ works = 0 /\ gpc = "idle" /\ (~physically => remote = 0)
  <2>1. ~(works > 0) /\ gpc = "idle"
    BY <1>1 DEF Inductive, Draining, EmptyAtEnd, TypeOK
  <2> QED  BY <1>1, <2>1 DEF Inductive, Phases, Draining, Unbinds, Over, TypeOK
<1>2. ASSUME pc = "unbound"
      PROVE  io \in Callers \cup {Nobody}
  BY <1>1, <1>2 DEF Inductive, Holders, TypeOK, Actors
<1> QED  BY <1>1, <1>2 DEF EverythingReleased, EmptyAtEnd

(* A binding that ended, by a failed probe or by a disconnect, has left    *)
(* nothing behind and nothing on its way.                                  *)
THEOREM NothingLeftBehind == Spec => []EverythingReleased
<1>1. Init => EmptyAtEnd
  BY DEF Init, EmptyAtEnd
<1>2. EmptyAtEnd /\ [Next]_vars => EmptyAtEnd'
  BY DEF EmptyAtEnd, Next, vars, binding, flags, scanout, gpu, ghosts, Probing,
         ProbeCheck, ProbeAcquires, ProbeTakesDevice, ProbeRequest,
         ProbeAnswered, ProbeSync, ProbeBinds, ProbeFails, ClearProbe,
         PulledOut, Disconnect, Unbinding, Unplug, Drained, CancelWork,
         FlushGpu, CleanupRequest, CleanupAnswered, CleanupDone, LastStep,
         Release, Unbound, CommitEnter, CommitEnds, Worker, WorkBegin,
         WorkTakes, WorkRequest, WorkRefused, WorkAnswered, Gpu, GpuBegin,
         GpuRequest, GpuMoves, Caller, OpenFile, EnterCall, CallRequest,
         CallAnswered, CallQueues, CallReturns
<1>3. Inductive /\ EmptyAtEnd => EverythingReleased
  BY EndIsClean
<1> QED  BY <1>1, <1>2, <1>3, InductiveInvariant, PTL DEF Spec

=============================================================================
