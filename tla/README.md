# Verification of the GRAPE Linux driver

GRAPE is a USB display and GPU (an ESP32-P4 board) reached over the GFXLINK
protocol. This directory keeps TLA+ models of the repository's host-side
programs: the DRM/KMS kernel driver (`kernel/grape_drm.c`), the userspace
library (`src/libgrape.c`), the tool on top of it (`src/grapectl.c`) and the
driver's smoke test (`src/grape_gpu_smoke.c`). Paths below are relative to the
repository; the firmware is not part of it and is
modelled only as far as the host code depends on it.

## 1. Inventory

### 1.1 Components, their state and their operations

| component | code | state it keeps | operations |
|---|---|---|---|
| GFXLINK request, kernel | `grape_drm.c` 226-380 | `sequence`, `disconnected`, one tx and one rx buffer, `io_lock` | request (send, advance sequence, receive, check header), send without response |
| GFXLINK request, library | `libgrape.c` 79-320 | `sequence`, the claimed interface | `request`, `send_packet_parts`, `status_request` |
| GPU render node | `grape_drm.c` 1491-1919 | per file: contexts, submissions; per context: `refs`; per device: `gpu_next_seqno`, `gpu_completed_seqno`, `gpu_wq` | CONTEXT_CREATE/DESTROY, SUBMIT, WAIT, GET_PARAM, open, postclose, the worker |
| GPU command validator | `grape_drm.c` 1506-1553 | none (pure) | walk of a command stream |
| Scanout mailbox | `grape_drm.c` 908-951, 1209-1484 | pending/upload/displayed buffers, `scanout_pending`, `scanout_displayed_valid`, `scanout_stopping`, remote texture and surface | plane update (producer), scanout worker (consumer), cleanup |
| Damage reduction | `grape_drm.c` 953-1180 | tile map, a set of at most 64 candidate rectangles | grouping of tiles, merging to at most 8 rectangles, fallback to a full frame |
| Resource upload, kernel | `grape_drm.c` 523-758 | per upload: resource handle, attempt, missing-chunk report | create, write chunks without response, commit, resend, destroy |
| Resource upload, library | `libgrape.c` 830-1116 | the same | `grape_resource_*`, `upload_ex` |
| Remote object helpers | `libgrape.c` 485-828, 1127-1473 | none on the host; handles of device objects | surfaces, textures, paths, SVGs, fonts: create, upload, rasterize, destroy |
| Driver life cycle | `grape_drm.c` 2099-2341 | devres actions, usb interface data, the reference on the USB device, `disconnected`, `scanout_stopping`, `scanout_sync_initialized` | probe, disconnect, release of the managed resources |
| Mode setting glue | `grape_drm.c` 1389-1417, 1930-2100 | one plane, crtc, encoder, connector | atomic check, mode enumeration |
| Command line tool | `grapectl.c`, `grape_gpu_smoke.c` | the objects one command creates | queries, rectangles, upload test, texture, vector, svg and text demos, screenshot streaming, smoke test |
| Screenshot conversion | `grapectl.c` 601-711 | none (pure) | turning, scaling and placing a picture on the display |
| Protocol and UAPI headers | `include/grape/*.h` | constants and wire structures | none |

### 1.2 How they interact

* Everything that reaches the device goes through one request function guarded
  by `io_lock` (kernel) or by the single-threaded use of a handle (library).
  One tx and one rx buffer serve all callers.
* The render node and the scanout path each own a workqueue item and share the
  request function, `disconnected` and the life cycle of the driver.
* `drm_dev_unplug` separates callers from a device that leaves: it waits for
  `drm_dev_enter` sections, not for ioctls, and a file may stay open long after
  the interface is unbound and its managed resources are released.

### 1.3 What is hard here

1. Ioctls of several threads and files, two workers, postclose and disconnect
   interleave, with reference counts and flushes as the only protection.
2. A request may be executed without its answer arriving; a late answer stays
   in the endpoint and meets the next request.
3. The scanout path compares against what it believes the device shows; every
   failed or lost transfer makes that belief stale.
4. Chunks of a resource are sent without acknowledgement and repaired from the
   report of a failed commit, a bounded number of times.
5. The damage set must cover every changed tile whatever merging does, within
   fixed capacities.
6. Composite library calls create several device objects and may fail at any
   step, with nobody left who knows the handle.

## 2. Plan

Modules in the order in which they were, or will be, written; the first ones
carry the behaviour that is hardest to test.

| # | module | what it covers | state |
|---|---|---|---|
| 1 | `GpuRender`, abstract `GpuFence`, `MCGpuRender`, `GpuRenderProofs` | render node: contexts, submissions, worker, close, unbind | written, checked, every invariant and the safety part of the refinement proved |
| 2 | `Scanout`, abstract `FrameMailbox`, `MCScanout`, `ScanoutProofs` | scanout mailbox, worker, belief about the device, teardown | written, checked, every safety property and the refinement proved |
| 3 | `GfxLink`, `GfxLinkProofs` | request/response protocol over the endpoints | written, checked, every invariant proved |
| 4 | `ResourceUpload` | chunked upload with commits and resends | written, checked and proved as a part of 7 |
| 5 | `DamageSet`, `MCDamageSet`, `DamageSetProofs` | from the tile comparison to packets and reference | written, checked, proved |
| 6 | `GpuCommands`, `GpuCommandsProofs`, `ContextIds`, `ContextIdsProofs` | command validation, context numbering | written, checked, every safety property proved |
| 7 | `GrapeClient`, `ScreenFrame`, `MCGrapeClient`, `GrapeClientProofs` | every command of `grapectl` and the smoke test: object lifetimes over the library, with the uploads and the frames they make | written, checked, proved |
| 8 | `DriverLifecycle`, `DriverLifecycleProofs` | probe with its error path, disconnect, the devres releases, and everybody who uses what is released | written, checked, every invariant proved |
| 9 | left | more of what is modelled only in part (section 7); for the hazards without a property, one if the repository comes to promise something; the names and layout of the long proofs | to do |

Composition. `GrapeClient` EXTENDS `ResourceUpload` and `ScreenFrame`: a command
runs its uploads request by request, with one budget of faults for the whole
command, and what an upload leaves on the device is among the objects the
command answers for.

`DriverLifecycle` has everybody who uses the driver's resources, and leaves out
what they use them for. `GpuRender` and `Scanout` open two of these users and
each contain the part of disconnect they meet (unplug, flush, cancel, release),
because the races are between those steps and their own. Both abstract a
transfer to its outcome: executed and reported, executed and reported as failed
("lost"), not executed. `GfxLink` shows where these outcomes come from and which
answers a caller can mistake for its own; `DamageSet` justifies the one
assumption `Scanout` makes of the damage (it covers what changed and only lies
on the display); `ContextIds` opens the step `CreateStore` of `GpuRender`, and
`GpuCommands` the check before `SubmitLookup`. The detailed modules that
implement an abstract one are `GpuRender` (`GpuFence`) and `Scanout`
(`FrameMailbox`).

No module uses a RECURSIVE operator, and every constant has a named assumption,
so that each module can be proved about.

## 3. The modules and the code

In every module, definitions named `X_Something` under "Seeded defects" are
not part of the model: each is a slip one could make in the action `X`, used
to see that a property notices it. Variables called ghost record history for
the properties and are read by no guard except to bound a run.

### 3.1 GpuRender (`grape_drm.c` 1486-1489, 1555-1669, 1702-1919, 2293-2341)

`contexts[f]` and `submissions[f]` are the xarrays of a `grape_file`; `refs` is
`context->refs`; `remote` the context object in the device; `live` the
submissions that are allocated; `subContext`, `status` and `done` their fields;
`queue` the list of `gpu_wq`. A thread `t` runs one ioctl and `pc[t]` says where
it stands; `tctx`, `tseq` and `tfile` are its local variables.

| action | code |
|---|---|
| `CreateContext`, `CreateStore`, `CreateStoreFail`, `CreateReport` | `grape_context_create_ioctl`: request, store under the lock, `fail_remote`, the read of `local_id` after the unlock |
| `DestroyContext`, `PutAndReturn` | `grape_context_destroy_ioctl` |
| `SubmitLookup` ... `SubmitQueue` | `grape_submit_ioctl`, one action for each point at which another thread can come in, with both failing allocations |
| `WaitLookup`, `WaitReturn`, `WaitGiveUp` | `grape_wait_ioctl` |
| `WorkStart` ... `WorkPut` | `grape_gpu_submit_work`: `drm_dev_enter`, transfer, status and number, `complete_all`, put |
| `Open`, `Close`, `CloseContext`, `CloseFlush`, `CloseFree` | `grape_drm_open`, `grape_drm_postclose` |
| `Disconnect` ... `Unbind` | `grape_usb_disconnect`, then the devres action that destroys `gpu_wq` |

External: the DRM core (ioctls refused after unplug, postclose only without
ioctls in flight, `drm_dev_unplug` waits for `drm_dev_enter` sections) and the
workqueue (ordered; flush waits for what was queued before it; work queued to a
draining or destroyed workqueue is dropped).

### 3.2 Scanout (`grape_drm.c` 760-951, 1209-1484, 2293-2341)

`buffers[mailbox]` is `scanout_pending_buf`, the other one `scanout_upload_buf`;
`displayed` and `valid` are the reference buffer and its flag; `ppc` and `wpc`
are the places of the one commit and of the worker. `texture`, `screen`,
`devTextures` and `devSurfaces` are the device. `UpdateEnter` ... `UpdateKick`
are `grape_plane_atomic_update`; `WorkBegin` ... `WorkFail` are
`grape_scanout_work` with every request it makes; `Disconnect`, `Unplug`,
`CancelWork`, `Cleanup` are `grape_usb_disconnect`. Damage is any set of tiles
that covers the changed ones, so the properties do not depend on how the
rectangles are chosen.

### 3.3 GfxLink (`grape_drm.c` 226-380, `libgrape.c` 79-320)

A packet is the number of its request; `requests[n]` is its header: opcode,
sequence number, the submit id a GPU_SUBMIT carries, whether an answer is
wanted. `Send`, `SendFails`, `SendOneWay`, `Receive`, `ReceiveTimeout`,
`ReceiveFails` are the transfers of a caller that holds `io_lock`; `Execute` is
the device. An OUT transfer may be delivered and yet be reported as failed (the
sequence number is then used again); an answer may come after the timeout and
stays in the endpoint; `Reopen` restarts the numbers with or without what the
endpoints hold.

### 3.4 ResourceUpload (`libgrape.c` 830-1116, `grape_drm.c` 523-758)

A chunk on the device is missing, corrupt (its CRC fails), wrong (its CRC fits,
that of the whole does not) or good. `pc` is "idle" outside of an upload;
`Start` is the call, `Finish` the return, the other actions are the requests of
`grape_resource_upload_ex` and their ways to fail. The driver's version differs
in one outcome only: after a commit without any answer it returns the error of
the transport, where the library may compare a report it never filled
(`CommitCutOff`).

### 3.5 DamageSet (`grape_drm.c` 953-1292, 792-841)

One frame, pixel by pixel, through `grape_scanout_diff` (compare, collect runs,
extend rectangles), `grape_damage_reduce` (`Reduce`, one round of its loop), the
decision for a full frame, the packing into packets and the commit of the
reference. `texture[p]` is the frame's pixel that ended at place `p`.

### 3.6 GpuCommands, ContextIds (`grape_drm.c` 1506-1553, 1594-1615)

`GpuCommands` walks a buffer of header words as
`grape_gpu_validate_commands` does, one action for every return. `ContextIds`
is `grape_file_store_context` under `gfile->lock`, with a counter of `Bits` bits.

### 3.7 GrapeClient (`grapectl.c`, `libgrape.c` 485-828, 1127-1473, `grape_gpu_smoke.c`)

A command is a sequence of calls, and `Script` holds the sequence of every
command, put together from the library's own sequences (`FromResource`,
`FontCreate`, `Rasterize`) and the tool's (`Setup`, `Frame`, `Stream`). The
`undo` of a call is what the code destroys on its way out if the call fails.

| call | actions | code |
|---|---|---|
| upload | `UploadStarts`, `UploadSteps`, `UploadSucceeds`, `UploadFails` | `grape_resource_upload_ex`, by `ResourceUpload` |
| make | `MakeOk`, `MakeFails`, `MakeLost` | a request that creates an object |
| consume | `ConsumeOk`, `ConsumeFails`, `ConsumeLost` | FONT_CREATE, which takes the resource over |
| drop | `DropOk`, `DropFails` | a request that destroys an object |
| ask | `AskOk`, `AskFails` | requests that change or read objects |
| capture | `CaptureOk`, `CaptureFails` | a screenshot and `png_to_rgb565_scaled`, by `ScreenFrame` |
| leave | `Leaves` | the end of a stream or of the smoke test, with its destroys |

`Undo` destroys one object on the way out, `Exit` ends the command. `device` is
what exists, `handles` what the client can still name, `unsure` the objects
about which a request left it in doubt.

### 3.8 ScreenFrame (`grapectl.c` 601-711)

`Rotation`, `Scaled`, `Offset`, `Sampled` and `Source` are the steps of
`png_to_rgb565_scaled`, with its integer divisions. `FrameComplete` compares
them with a definition that turns the picture a quarter at a time (`Turned`).

### 3.9 DriverLifecycle (`grape_drm.c` 2099-2341 and the users of what it acquires)

`ProbeSteps` is the order of probe, `at` the place in it, `managed` the list of
devres, `usb` the count of references on the USB device. `pc` goes from "probe",
through "clear" if a step failed, or "bound" and the steps of disconnect, to
"release" and "unbound".

| action | code |
|---|---|
| `ProbeCheck`, `ProbeAcquires`, `ProbeTakesDevice`, `ProbeRequest`, `ProbeAnswered`, `ProbeSync`, `ProbeBinds` | `grape_usb_probe`, step by step |
| `ProbeFails`, `ClearProbe` | its failures: a plain return before the device is taken, `err_clear` afterwards |
| `Disconnect`, `Unplug`, `Drained`, `CancelWork`, `FlushGpu`, `CleanupRequest`, `CleanupAnswered`, `CleanupDone`, `LastStep` | `grape_usb_disconnect`, cut at every wait and every request |
| `Release`, `Unbound` | devres, last acquired first; `grape_gpu_workqueue_destroy_action` drains |
| `CommitEnter`, `CommitEnds` | `grape_plane_atomic_update` |
| `WorkBegin` ... `WorkAnswered` | `grape_scanout_work` |
| `OpenFile`, `EnterCall`, `CallRequest`, `CallAnswered`, `CallQueues`, `CallReturns` | open, ioctls, close; CONTEXT_CREATE and CONTEXT_DESTROY make requests, SUBMIT queues |
| `GpuBegin`, `GpuRequest`, `GpuMoves` | `grape_gpu_submit_work` and the put of the context |

A request is three steps: the mutex (`Locked`), -ENODEV if `disconnected`
(`Refused`), the transfer (`Transferred`). `PulledOut` is the board leaving, at
any time. One binding is modelled; another board, or the same one again, gets a
device of its own. `scanout_lock` is held over short sections without waits and
each is one step. `drm_dev_register` is one step, the device is visible after
it. `grape_drm_postclose` flushes the workqueue; that flush is in `GpuRender`,
here a close makes its requests.

External: `drm_dev_unplug` and the sections it waits for, devres, the USB core
that calls disconnect.

## 4. The runs

Distinct states are those of the configurations as they stand.

| run | states | what it shows |
|---|---|---|
| `render_safety` | 2.0 M | `RefsMatchHolders`: a context's count is the number of its owners through every error path; `SubmitOnLiveContext`, `SubmissionsStayAllocated`: neither destroy nor close takes a context or a submission away from queued work; `SignalledIsPublished`: a woken WAIT and a polled COMPLETED_SEQNO find the status they speak of |
| `render_liveness` | 54 k | accepted work completes, close and disconnect end; `ImplementsFence` |
| `scanout` | 413 k | no torn frame, the reference buffer is right whenever it is used, the worker runs when needed and never on released buffers, remote objects are accounted for, `ImplementsMailbox`, and the newest frame reaches the screen |
| `link` | 303 k | `AnswerIsOwn` names every case in which the header check cannot tell a stale answer from the own one (without `io_lock` there would be more); a GPU submission is exempt from all but one; a request in step is answered |
| `damage` | 105 k | nothing that changed is lost through runs, extensions, merges, capacity and packets; the reference takes over exactly what was sent |
| `commands` | 38 k | the walk accepts exactly the well-formed buffers |
| `context_ids` | 156 k | no id twice while in use or before the wrap, no premature refusal, every search ends |
| `client` | 246 k | what every command leaves behind when any request of it, or of an upload it makes, fails; a resource reported as good is exact; four damaged chunks are needed to exhaust four commits; every screenshot becomes a whole frame |
| `lifecycle` | 176 k | who may still use what is released (`NoUseAfterRelease`), nothing is left at the end (`EverythingReleased`), and a board that is pulled out, a probe that failed and a disconnect that began always get there (`BindingEnds`) |
| `render_seqno_regress` | violation | see 6.1 |
| `render_flush_dead_queue` | violation | see 6.2 |
| `link_recovers` | violation | see 6.3 |

### Bounds, and why they are enough

* `render_safety`: two files, threads and contexts, two submissions. Every race
  in the code is between two actors on one context or one queue; the second
  file, context and submission make it matter which one is meant. Symmetry is
  used here only, where no liveness is checked.
* `render_liveness`: one file and one context, two threads, two submissions: a
  queue of two, and a submitter that overtakes another.
* `scanout`: two tiles, two colours, three frames and one transfer that goes
  wrong. Three are needed: the first makes the reference valid, the second
  fails half way, the third is the partial update that would come out torn if
  the failure had not voided the reference. `Drawn` has three frames, of which
  any two differ in one tile, the other or both.
* `link`: `SeqLimit` 2 with four requests wraps the sequence number twice; two
  sessions and one fault give every kind of stale answer. Two callers, because
  the lock is between two.
* `damage`: 7 by 5 pixels in tiles of 2, so that the right and the lower tiles
  are cut off; at most 4 candidates and 2 rectangles, so that the capacity, the
  budget and the fallback at 70 percent all occur; packets of 5 pixels, so that
  they end in the middle of rows. One pixel of each tile may change, and every
  set of tiles is an initial state.
* `commands`: two words with every combination of the header values that the
  code tells apart, and every size up to one word past the limit.
* `context_ids`: three bits; the counter wraps many times.
* `client`: all commands, streams of up to two frames after the first picture,
  so that the second finds what the first has left. For the uploads the code's
  own limit of four commits, three chunks and five damages, one more than needed
  to use the limit up, and two failing requests, so that the destroy after a
  failure may fail too. Displays that are wide, tall and one pixel narrow, and
  every screenshot of up to four by four: all orientations, larger and smaller
  than the display, and the sides that round to nothing.
* `lifecycle`: two callers, since one ioctl may be inside its request when
  `disconnected` is set while another one, also older than the unplug, queues
  work; one GPU work queued while another one runs; the first, and so any,
  failure of each step of probe.

`CHECK_DEADLOCK FALSE` is given where the system really stops: after an unbind,
at the end of a frame, a walk or a command, and where a bound
(frames, submissions, requests) is used up.

### Fairness

* The kernel keeps running what it started: the worker of a workqueue with
  work, a postclose, a disconnect. Every transfer ends within
  `GRAPE_DRM_USB_TIMEOUT_MS` or the library's timeout, so a worker inside one
  goes on. User threads have no fairness: they need not wait, close or return.
* `Scanout`: a commit that entered `grape_plane_atomic_update` leaves it.
* `GfxLink`: the device executes what it received and a caller in a request
  takes its step, again by the timeouts. No fairness says that transfers
  succeed; properties that need it say "once no more faults occur".
* `ContextIds`: a thread in the loop runs on.
* `DriverLifecycle`: probe goes on; whatever needs `io_lock` or waits for
  somebody (disconnect, the workers) has strong fairness, because a mutex is
  handed over to those who wait and does not starve them; a transfer of a caller
  ends. The USB core disconnects a board that was pulled out; nobody has to
  unbind one that was not, to call, to commit or to close a file.
* `commands`, `damage` and `client` check safety only.

## 5. What is proved

For all values of the constants, from the named assumptions only (finite sets of
files and threads, placeholders outside the sets they stand beside, natural
bounds). Every invariant and every action property of a run that passes is the
statement of a theorem. The proof modules state their inductive invariants under
names of their own; TLC checked each of them on the instance of its run before it
was proved, that of the commands on a smaller one (one chunk, two commits, with
the way of a script computed instead of chosen).

`GpuRenderProofs`
: `TypeCorrect`, `ReferenceCounts` (`RefsMatchHolders`) and
  `SubmitsReachLiveContext` (`SubmitOnLiveContext`). `RefsMatchHolders` is not
  inductive: handing a reference from a thread to its queued work is only
  neutral if no other submission has the same number. `Inductive` adds
  `IoctlOwnership` (threads in SUBMIT have numbers of their own that no queued
  work has), `WorkOwnership` (the queue holds distinct submissions, each with a
  context) and `AllocatedIsLive` (a context with references exists on the
  device). The counting lemmas (`AddOwner`, `RemoveOwner`, `ThreadPutCount`,
  `WorkPutCount`, ...) reduce every action to one owner more or less in one of
  three finite sets; `OwnersKeepAllocated` turns an owner into `refs > 0`, from
  which the live remote object follows.

  `SubmissionsAllocated` (`SubmissionsStayAllocated`) rests on a second
  invariant, `Allocation`, on top of the first. Freeing a table in postclose is
  right because no ioctl is left on the file and because everything pending in
  the table was queued before the flush, so `FlushCovers` says which work each
  place of a close still waits for; `NamedBy` and `TablesDisjoint` say that a
  submission is in one table only and by its own number, so that a free by one
  file or one error path takes nothing from another.

  `SignalsArePublished` (`SignalledIsPublished`) relates the three stores of
  `grape_gpu_submit_work`: status, number, signal. The invariant `Publication`
  adds that only numbers already taken have a result, so that a SUBMIT that
  takes the next one resets none that a client may be reading.

  `FenceImplemented` is the refinement: every step is a step of `GpuFence` or a
  stutter. The mapping takes a submission as accepted when it is queued, so
  `Completion` says that neither queued work, nor what the worker has in hand,
  nor what a SUBMIT still prepares has been signalled, and that the worker holds
  the head of the queue.

`ScanoutProofs`
: every safety property of `Scanout`, and `MailboxImplemented`. `PresentWhole`
  is not inductive: that the tiles outside the damage are right follows from
  what the texture held before, so `Belief` relates texture, screen, reference
  and damage at every place of the worker. `Order` and `Newest` do the same for
  the numbers of the frames in the two buffers and on the screen, `Phases` for
  the progress of the disconnect and the wake-up of the worker, `Objects` for
  the remote texture and surface. `MailboxStep` shows that every step of
  `Scanout` under `Inductive` is a step or a stutter of `FrameMailbox`.

`GfxLinkProofs`
: `AnswersAreOwn` and `SubmitAnswersAreOwn`, for every number of callers and
  every length of a round of sequence numbers. The properties say nothing of
  packets still under way, where a wrong answer is decided: `Distance` ties
  every packet that counted to how far the numbers have moved since,
  `RoundApart` follows for any two with the same number, and `EchoesGrow` says
  that submit ids only grow within a session, which is why a submission cannot
  be taken for one a round older.

`DriverLifecycleProofs`
: `NothingUsedAfterRelease` (`NoUseAfterRelease`) and `NothingLeftBehind`
  (`EverythingReleased`), for every set of callers. `InOrder` says that the list
  of devres is a prefix of the order of probe at every step of probe and of the
  release, `Phases` and `Draining` what each wait of disconnect leaves behind,
  `Holders` what the one who has `io_lock` is doing. That the exceptions listed
  in `NoUseAfterRelease` are the only ones is the content of the theorem.

`GrapeClientProofs`
: the uploads and the commands that make them, all under `ClientSpec`.
  `UploadsAreExact` (`UploadedIsExact`) and `RetriesSuffice`
  (`RetriesCoverDamage`): `Accounting` is the invariant behind the second, every
  commit made, and every bad chunk that is not about to be sent again, cost a
  damaged transfer of its own, so `MaxAttempts` commits need as many.

  `SuccessIsPrinted`, `HandlesFresh` (`NoStaleHandle`) and `FailureIsSmall`
  (`FailureLeavesLittle`) are decided by the scripts of the commands. A stage is
  what the client holds between two calls, with the newest and the second newest
  object; `Fits` says what a call needs of the stage it meets (what its failure
  destroys is held, once each, and what is held otherwise is one of the
  exceptions of `FailureLeavesLittle`), `Leads` that a sequence of calls fits
  from one stage to the next. `ScriptsLead` shows it of every script, that of a
  stream for any number of frames: if it failed, it would fail for a smallest
  number, and a stream of one frame less would already have led there. `OnCourse`
  says that a running command stands at such a stage with exactly the objects it
  holds on the device; `WayOut` that one that gives up destroys each object once
  and that the rest is accounted for; `Reclaimed` that an upload that leaves its
  resource does not know what became of it.

  `PicturesShown` (`PictureShown`) is arithmetic: a quotient lies between its
  neighbours (`Quotient`), so the fitted side is within the display (`Fitted`),
  the sampled line within the picture, which makes the code's clamp of it
  redundant (`SampleInside`), and the line `n` is shown at
  `(n * scaled + size - 1) / size` (`LineShown`). `TurnsSource` compares the four
  cases of the code with quarter turns, whose recursion is unrolled.

`DamageSetProofs`
: `NoChangeLost` (`ChangesCovered`), `DeviceHasFrame` (`FrameArrives`, the
  texture and the reference) and `TypeCorrect`, which bounds the
  rectangle array, for every size of display, tile, packet and array and every
  set of changed pixels. `Sending` says what the device has after each packet.
  Its arithmetic lemmas are about the code's own formulas: a pixel lies in its
  tile, a clipped run covers its tiles, and the numbering of the pixels of a
  rectangle, row by row, is a bijection (`PlacesAre`), which packing and
  unpacking both rely on.

`GpuCommandsProofs`
: `AcceptsExactly` (`AcceptsWellFormed`), for every buffer and size. `Walked`
  says that the headers behind the walk were all NOPs of one header;
  `NotWellFormed` turns whatever the walk stops at into the statement that no
  number of NOPs makes up the buffer.

`ContextIdsProofs`
: `RefusalMeansFull` and `NoIdReused` (an action property), for every number of
  threads and width of the counter. `Searched` says that every id the counter
  has passed since the search began is in use, `Locking` that nobody else is
  searching, `Behind` that before the wrap all ids given out lie behind the
  counter. `BitsAssumption` spells out that `2^Bits` is a natural number above 1,
  which the provers do not know of exponentiation.

Only model-checked:

* Liveness, and whatever else needs fairness: the provers know nothing of
  ENABLED. These are `AcceptedWorkCompletes`, `CloseCompletes` and
  `DisconnectCompletes` of `GpuRender`, the part of `ImplementsFence` that says
  the fence is fair (its safety part is `FenceImplemented`), `FrameReachesScreen`
  of `Scanout`, `AnsweredWhenInStep` of `GfxLink`, `SearchEnds` of `ContextIds`
  and `BindingEnds` of `DriverLifecycle`.
* What the code does not do: `CompletedNeverRegresses`, `FlushOnLiveWorkqueue`
  and `LinkRecovers` are violated (section 6).

## 6. Where code and documentation part

1. **COMPLETED_SEQNO may go back** (`render_seqno_regress`).
   `kernel/README.md` promises monotonically increasing submission sequence
   numbers through an ordered workqueue. The number is taken (1840) before the
   work is queued (1864) and no lock spans the two, so work 2 may run before
   work 1, and the completed number then goes from 2 to 1.
2. **Flush of a destroyed workqueue** (`render_flush_dead_queue`). The test of
   `gpu_wq` in `grape_drm_postclose` (1652) does not say whether the workqueue
   still exists: the pointer is never cleared when the devres action destroys
   it.
3. **The link does not recover from a late answer** (`link_recovers`). It stays
   in the endpoint and meets the next request, whose own answer meets the one
   after it; every request is executed and every one fails.

Further weaknesses are visible in the models but contradict nothing the
repository states, and so no run claims a violation:

* `CreateReport` of `GpuRender` may read `local_id` of a context that another
  thread has destroyed (1734).
* An ioctl that was called before the unplug is waited for by nobody.
  `NoUseAfterRelease` lists exactly what follows: its SUBMIT may queue work to a
  workqueue that is gone, and the work and its reference are lost (1864); the
  work of such a SUBMIT may use the USB device after `usb_put_dev` (2341); and a
  request that holds `io_lock` when `disconnected` is set (2327) goes on with
  the tx and rx buffers while devres frees them. At most one request can, since
  every later one sees `disconnected`.
* A context whose last reference is dropped after `disconnected` was set, by the
  close of a file that was open across the unbind, stays on a board that is
  still plugged in: the request that would destroy it is refused (1498).
  `EverythingReleased` counts the objects of the scanout, not these.
* After a failed upload the frame that waits is dropped (1375); the screen keeps
  an older one until the next commit, which then sends the whole frame.
* The library destroys a resource that FONT_CREATE may have taken over when the
  answer was lost (`libgrape.c` 1382). `NoStaleHandle` tolerates it as an object
  of unknown state.
* The library may report a protocol error where the transport failed, from a
  report it never filled (`libgrape.c` 1080).

## 7. What is not modelled

* Lengths of transfers: an OUT transfer cut short, an IN transfer in pieces. How
  the firmware frames what follows is not in the repository.
* The firmware. Where a property depends on it (what a commit finds, where
  TEXTURE_WRITE_RECT puts its data, that answers come in order) the definition
  is marked external in `PROJECT.json`.
* The content of pixels, paths, SVGs, text and commands, statistics counters and
  log messages.
* The mode setting glue (one fixed mode, no state; `drm_atomic_helper_shutdown`
  only meets an unplugged device), GEM_CREATE (a call of two DRM helpers), in
  `grapectl` the parsing of arguments, the reading of files and PNGs and what is
  printed, the headers and the build files.
