----------------------------- MODULE GrapeClient -----------------------------
(***************************************************************************)
(* The objects on the device that the commands of src/grapectl.c make      *)
(* through src/libgrape.c, those of src/grape_gpu_smoke.c through the      *)
(* driver, and what becomes of them when a request fails.                  *)
(*                                                                         *)
(* A command is a sequence of calls.  Each names what is destroyed before  *)
(* the command gives up because the call failed.  A request that creates   *)
(* or destroys has three outcomes: done, not done, and done but reported   *)
(* as failed, because the answer was lost or the host refused it.          *)
(* Requests that only change or read objects, one after the other, are one *)
(* call.  An upload runs step by step, as module ResourceUpload has it; a  *)
(* screenshot is turned into a frame as module ScreenFrame has it.         *)
(***************************************************************************)
EXTENDS ResourceUpload, ScreenFrame, Sequences, SequencesExt

CONSTANTS MaxFrames,  \* bound on the frames of stream-raw-screenshots
          Displays,   \* the sizes a display may have
          Pictures    \* the sizes a screenshot may have

ASSUME FramesAssumption == MaxFrames \in Nat
ASSUME SizesAssumption ==
  /\ Displays \subseteq (Nat \ {0}) \X (Nat \ {0}) /\ Displays # {}
  /\ Pictures \subseteq (Nat \ {0}) \X (Nat \ {0})

Kinds == {"resource", "texture", "path", "svg", "font", "surface", "context"}

\* The calls; undo is what the caller destroys if the call fails.
Call(op, kind, undo) == [op |-> op, kind |-> kind, undo |-> undo]
Upload(undo)        == Call("upload", "resource", undo)
Make(kind, undo)    == Call("make", kind, undo)
Consume(kind, undo) == Call("consume", kind, undo)
Drop(kind, undo)    == Call("drop", kind, undo)
Ask(undo)           == Call("ask", "none", undo)
Capture(undo)       == Call("capture", "none", undo)
Leave(undo)         == Call("leave", "none", undo)

------------------------------------------------------------------------------
(* Seeded defects.  None is part of the model: each is a plausible slip in *)
(* one of the definitions below, and shows that a property would notice.   *)

\* The error path of the setup leaves the texture to the surface.
Setup_KeepsTexture(undo) ==
  <<Make("surface", undo), Ask(<<"surface">>)>>

\* The path is left to the caller.
Rasterize_KeepsPath == <<Make("texture", <<"path">>)>>

\* The font is destroyed by the library and again by the command.
FontCreate_TwoOwners ==
  <<Upload(<<>>), Consume("font", <<"resource", "resource">>)>>

\* The error path does not ask whether there is a surface to destroy.
Setup_DestroysUnmade(undo) ==
  <<Make("surface", <<"surface">> \o undo), Ask(<<"surface">> \o undo)>>

------------------------------------------------------------------------------
\* grape_texture_create, grape_path_create, grape_svg_create,
\* grape_text_rasterize_utf8: the resource is staged, used and destroyed.
FromResource(kind, undo) ==
  <<Upload(undo), Make(kind, <<"resource">> \o undo),
    Drop("resource", undo)>>

\* grape_font_create: the font takes the resource over.
FontCreate == <<Upload(<<>>), Consume("font", <<"resource">>)>>

\* grape_path_rasterize and the destroy of the path that follows it.
Rasterize == <<Make("texture", <<"path">>), Drop("path", <<>>)>>

\* The surface that shows a texture, its placement and the PRESENT.
Setup(undo) == <<Make("surface", undo), Ask(<<"surface">> \o undo)>>

\* A screenshot, grape_texture_update and the PRESENT.
Frame ==
  LET undo == <<"surface", "texture">>
  IN  <<Capture(undo), Upload(undo), Ask(<<"resource">> \o undo),
        Drop("resource", undo), Ask(undo)>>

\* Both objects are destroyed however the stream ends.
Stream(n) ==
  <<Ask(<<>>), Capture(<<>>)>> \o FromResource("texture", <<>>)
    \o Setup(<<"texture">>) \o FlattenSeq([i \in 1 .. n |-> Frame])
    \o <<Leave(<<"surface", "texture">>)>>

SvgCommand == <<Ask(<<>>)>> \o FromResource("svg", <<>>) \o <<Ask(<<>>)>>

\* The context is destroyed whatever became of the submission.
SmokeTest ==
  <<Ask(<<>>), Make("context", <<>>), Ask(<<"context">>),
    Leave(<<"context">>)>>

Script ==
  [query        |-> {<<Ask(<<>>)>>},
   rect         |-> {<<Make("surface", <<>>), Ask(<<>>)>>},
   change       |-> {<<Ask(<<>>)>>},
   destroy      |-> {<<Drop("surface", <<>>), Ask(<<>>)>>},
   upload_test  |-> {<<Upload(<<>>), Drop("resource", <<>>)>>},
   texture_demo |-> {FromResource("texture", <<>>) \o Setup(<<"texture">>)},
   vector_demo  |-> {FromResource("path", <<>>) \o Rasterize
                       \o Setup(<<"texture">>)},
   svg          |-> {SvgCommand},
   text_demo    |-> {FontCreate \o <<Ask(<<"font">>)>>
                       \o FromResource("texture", <<"font">>)
                       \o Setup(<<"texture", "font">>)},
   stream       |-> {Stream(n) : n \in 0 .. MaxFrames},
   smoke        |-> {SmokeTest}]

\* The surface that an earlier rect has left, for the commands on a handle.
Given(cmd) == IF cmd \in {"change", "destroy"} THEN 1 ELSE 0

NoPicture == [requested |-> 0, size |-> <<0, 0>>]

VARIABLES
  command,
  todo,     \* calls still to be made
  cleanup,  \* kinds still to be destroyed on the way out
  status,   \* "running", "failing", "leaving", or how the command ended
  device,   \* the objects on the device, <<kind, number>>
  handles,  \* number of the object of each kind the client holds, or 0
  made,     \* objects made so far
  unsure,   \* objects of which the client knows it may not know the state
  display,  \* the size of the display
  picture   \* the screenshot that was turned into a frame last

objects    == <<device, handles, made, unsure>>
clientVars == <<command, todo, cleanup, status, objects, display, picture>>

ClientInit ==
  /\ Init
  /\ command \in DOMAIN Script /\ todo \in Script[command]
  /\ cleanup = <<>> /\ status = "running"
  /\ made = Given(command) /\ unsure = {}
  /\ device = {"surface"} \X (1 .. made)
  /\ handles = [k \in Kinds |-> IF k = "surface" THEN made ELSE 0]
  /\ display \in Displays
  /\ command # "stream" => display = CHOOSE d \in Displays : TRUE
  /\ picture = NoPicture

Running(op) == status = "running" /\ todo # <<>> /\ Head(todo).op = op

Succeed == todo' = Tail(todo) /\ UNCHANGED <<command, cleanup, status, display>>

\* The rest of the command is not made, its objects are destroyed.
Quit(how) ==
  /\ cleanup' = Head(todo).undo /\ todo' = <<>> /\ status' = how
  /\ UNCHANGED <<command, display>>

Abandon == Quit("failing")

Kind  == Head(todo).kind
Fresh == <<Kind, made + 1>>
Held(kind) == <<kind, handles[kind]>>
Forget(kind, held) == [held EXCEPT ![kind] = 0]

------------------------------------------------------------------------------
\* An upload, with the frame made of a screenshot or with other data.
UploadStarts ==
  /\ Running("upload") /\ Start
  /\ picture' = NoPicture
  /\ UNCHANGED <<command, todo, cleanup, status, objects, display>>

UploadSteps == Step /\ UNCHANGED clientVars

UploadSucceeds ==
  /\ result = "ok" /\ Finish
  /\ device' = device \cup {Fresh} /\ made' = made + 1
  /\ handles' = [handles EXCEPT ![Kind] = made + 1]
  /\ Succeed /\ UNCHANGED <<unsure, picture>>

\* A resource the upload could not take back stays, without a handle.
UploadFails ==
  /\ result # "ok" /\ Finish
  /\ IF resource \in {"open", "committed"}
     THEN /\ device' = device \cup {Fresh} /\ made' = made + 1
          /\ unsure' = IF unknown THEN unsure \cup {Fresh} ELSE unsure
     ELSE UNCHANGED <<device, made, unsure>>
  /\ Abandon /\ UNCHANGED <<handles, picture>>

MakeOk ==
  /\ Running("make")
  /\ device' = device \cup {Fresh} /\ made' = made + 1
  /\ handles' = [handles EXCEPT ![Kind] = made + 1]
  /\ Succeed /\ UNCHANGED unsure

MakeFails == Running("make") /\ Abandon /\ UNCHANGED objects

\* The object exists and nobody knows its handle.
MakeLost ==
  /\ Running("make")
  /\ device' = device \cup {Fresh} /\ made' = made + 1
  /\ unsure' = unsure \cup {Fresh}
  /\ Abandon /\ UNCHANGED handles

\* FONT_CREATE: the resource is a part of the font from then on.
ConsumeOk ==
  /\ Running("consume")
  /\ device' = (device \ {Held("resource")}) \cup {Fresh} /\ made' = made + 1
  /\ handles' = [Forget("resource", handles) EXCEPT ![Kind] = made + 1]
  /\ Succeed /\ UNCHANGED unsure

ConsumeFails == Running("consume") /\ Abandon /\ UNCHANGED objects

ConsumeLost ==
  /\ Running("consume")
  /\ device' = (device \ {Held("resource")}) \cup {Fresh} /\ made' = made + 1
  /\ unsure' = unsure \cup {Fresh, Held("resource")}
  /\ Abandon /\ UNCHANGED handles

DropOk ==
  /\ Running("drop")
  /\ device' = device \ {Held(Kind)} /\ handles' = Forget(Kind, handles)
  /\ Succeed /\ UNCHANGED <<made, unsure>>

\* The command takes it for failed, executed or not, and does not try again.
DropFails ==
  /\ Running("drop")
  /\ device' \in {device, device \ {Held(Kind)}}
  /\ unsure' = unsure \cup {Held(Kind)} /\ handles' = Forget(Kind, handles)
  /\ Abandon /\ UNCHANGED made

AskOk    == Running("ask") /\ Succeed /\ UNCHANGED objects
AskFails == Running("ask") /\ Abandon /\ UNCHANGED objects

\* A screenshot is taken and turned into a frame.
CaptureOk ==
  /\ Running("capture")
  /\ \E size \in Pictures, requested \in Rotations \cup {AutoRotation} :
       picture' = [requested |-> requested, size |-> size]
  /\ Succeed /\ UNCHANGED objects

\* The first one is an error, a later one ends the stream like a signal.
CaptureFails ==
  /\ Running("capture")
  /\ IF Head(todo).undo = <<>> THEN Abandon ELSE Quit("leaving")
  /\ UNCHANGED <<objects, picture>>

Leaves == Running("leave") /\ Quit("leaving") /\ UNCHANGED objects

\* One object is destroyed on the way out.
Undo ==
  /\ status \in {"failing", "leaving"} /\ cleanup # <<>>
  /\ LET object == Held(Head(cleanup))
     IN  \/ device' = device \ {object} /\ UNCHANGED unsure
         \/ /\ device' \in {device, device \ {object}}
            /\ unsure' = unsure \cup {object}
  /\ handles' = Forget(Head(cleanup), handles) /\ cleanup' = Tail(cleanup)
  /\ UNCHANGED <<command, todo, status, made, display>>

\* A stream that could not destroy its objects fails, the smoke test does not.
Exit ==
  /\ \/ status = "running" /\ todo = <<>> /\ status' = "ok"
     \/ status = "failing" /\ cleanup = <<>> /\ status' = "failed"
     \/ /\ status = "leaving" /\ cleanup = <<>>
        /\ status' = IF command = "stream" /\ unsure # {} THEN "failed"
                                                          ELSE "ok"
  /\ UNCHANGED <<command, todo, cleanup, objects, display>>

\* The calls that are one request.
Request ==
  \/ MakeOk \/ MakeFails \/ MakeLost
  \/ ConsumeOk \/ ConsumeFails \/ ConsumeLost
  \/ DropOk \/ DropFails \/ AskOk \/ AskFails \/ Leaves \/ Undo \/ Exit

ClientNext ==
  \/ UploadStarts \/ UploadSteps \/ UploadSucceeds \/ UploadFails
  \/ (CaptureOk \/ CaptureFails) /\ UNCHANGED vars
  \/ Request /\ UNCHANGED <<vars, picture>>

ClientSpec == ClientInit /\ [][ClientNext]_<<vars, clientVars>>

------------------------------------------------------------------------------
(* Properties                                                              *)

(* Type correctness, of the command and of the upload it may be in.        *)
ClientTypeOK ==
  /\ TypeOK
  /\ command \in DOMAIN Script
  /\ status \in {"running", "failing", "leaving", "ok", "failed"}
  /\ made \in Nat /\ handles \in [Kinds -> 0 .. made]
  /\ device \subseteq Kinds \X (1 .. made)
  /\ unsure \subseteq Kinds \X (1 .. made)
  /\ \A i \in DOMAIN cleanup : cleanup[i] \in Kinds
  /\ pc # "idle" => Running("upload")
  /\ display \in Displays
  /\ \/ picture = NoPicture
     \/ picture \in [requested : Rotations \cup {AutoRotation}, size : Pictures]

(* What a command that succeeds leaves on the device, as it prints.        *)
Printed ==
  [query |-> {}, change |-> {"surface"}, destroy |-> {}, smoke |-> {},
   rect |-> {"surface"}, upload_test |-> {}, stream |-> {}, svg |-> {"svg"},
   texture_demo |-> {"texture", "surface"},
   vector_demo |-> {"texture", "surface"},
   text_demo |-> {"font", "texture", "surface"}]

(* A command that succeeds leaves what it prints the handles of, once      *)
(* each, and nothing else; only the smoke test does not look whether its   *)
(* context is really gone.                                                 *)
SuccessLeavesPrinted ==
  status = "ok" =>
    /\ {object[1] : object \in device \ unsure} = Printed[command]
    /\ \A a, b \in device : a[1] = b[1] => a = b
    /\ unsure # {} => command = "smoke"

(* The handle of the object is destroyed, or has been, by nobody else: the *)
(* error paths of the library and of the command do not overlap.           *)
NoStaleHandle ==
  /\ status \in {"failing", "leaving"} /\ cleanup # <<>> =>
       Held(Head(cleanup)) \in device \cup unsure
  /\ Running("drop") => Held(Kind) \in device

(* What a failing command leaves although it held the handle: never a      *)
(* staged resource, only the SVG and the rectangle it could not present,   *)
(* the surface it was asked to change, and what was made from a resource   *)
(* or a path whose own destroy failed right after.                         *)
FailureLeavesLittle ==
  status = "failed" =>
    \A object \in device \ unsure :
      /\ object[1] # "resource"
      /\ \/ /\ command \in {"svg", "rect", "change"}
            /\ object[1] \in {"svg", "surface"}
         \/ \E staged \in unsure : /\ staged[1] \in {"resource", "path"}
                                   /\ staged[2] = object[2] - 1

(* Every screenshot becomes a whole frame of the display.                  *)
PictureShown ==
  picture # NoPicture =>
    FrameComplete(picture.requested, picture.size, display)

=============================================================================
