---------------------------- MODULE FrameMailbox ----------------------------
(***************************************************************************)
(* What the scanout path promises the compositor: the screen is blank or   *)
(* shows one submitted frame as a whole; frames may be skipped, an older   *)
(* frame never replaces a newer one.                                       *)
(***************************************************************************)
EXTENDS Naturals, Sequences

CONSTANTS Frames, Blank

VARIABLES submitted,  \* the frames handed in, in order
          shown,      \* how far the screen has got in submitted
          screen      \* what the screen shows

mailboxState == <<submitted, shown, screen>>

Init == submitted = <<>> /\ shown = 0 /\ screen = Blank

Submit(frame) ==
  /\ submitted' = Append(submitted, frame)
  /\ UNCHANGED <<shown, screen>>

\* Frames up to k are over; frame k is on the screen.
Show(k) ==
  /\ k > shown
  /\ shown' = k
  /\ screen' = submitted[k]
  /\ UNCHANGED submitted

TurnOff == screen' = Blank /\ UNCHANGED <<submitted, shown>>

Next ==
  \/ \E frame \in Frames : Submit(frame)
  \/ \E k \in DOMAIN submitted : Show(k)
  \/ TurnOff

Spec == Init /\ [][Next]_mailboxState

=============================================================================
