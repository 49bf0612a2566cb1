----------------------------- MODULE ScreenFrame -----------------------------
(***************************************************************************)
(* How a screenshot becomes a frame of the display: png_to_rgb565_scaled   *)
(* of src/grapectl.c.  A size is <<width, height>>, a place <<x, y>>, both *)
(* counted from the upper left corner; the color of a pixel is left out.   *)
(***************************************************************************)
EXTENDS Integers

AutoRotation == -1
Rotations    == {0, 90, 180, 270}

Landscape(size) == size[1] >= size[2]

\* "auto" turns a picture that is wide where the display is tall.
Rotation(requested, picture, display) ==
  IF requested # AutoRotation THEN requested
  ELSE IF Landscape(picture) = Landscape(display) THEN 0 ELSE 90

Rotated(picture, rotation) ==
  IF rotation \in {90, 270} THEN <<picture[2], picture[1]>> ELSE picture

AtLeastOne(n) == IF n = 0 THEN 1 ELSE n

------------------------------------------------------------------------------
(* Seeded defects: slips in the definitions below.                         *)

\* Both sides are fitted to the wrong one.
Scaled_Overflows(rotated, display) ==
  IF rotated[1] * display[2] > display[1] * rotated[2]
  THEN <<(rotated[1] * display[2]) \div rotated[2], display[2]>>
  ELSE <<display[1], (rotated[2] * display[1]) \div rotated[1]>>

\* A quarter turn to the left and one to the right are mixed up.
Source_Mirrored(r, picture, rotation) ==
  CASE rotation = 0   -> r
    [] rotation = 90  -> <<r[2], r[1]>>
    [] rotation = 180 -> <<picture[1] - 1 - r[1], picture[2] - 1 - r[2]>>
    [] rotation = 270 -> <<picture[1] - 1 - r[2], r[1]>>

------------------------------------------------------------------------------
\* The turned picture fills the display in one direction.
Scaled(rotated, display) ==
  IF rotated[1] * display[2] > display[1] * rotated[2]
  THEN <<display[1], AtLeastOne((rotated[2] * display[1]) \div rotated[1])>>
  ELSE <<AtLeastOne((rotated[1] * display[2]) \div rotated[2]), display[2]>>

\* Half of what is left over is above and to the left.
Offset(scaled, display) ==
  <<(display[1] - scaled[1]) \div 2, (display[2] - scaled[2]) \div 2>>

\* The place in the turned picture that a place of the scaled one shows.
Sampled(p, rotated, scaled) ==
  LET At(i) == LET r == (p[i] * rotated[i]) \div scaled[i]
               IN  IF r >= rotated[i] THEN rotated[i] - 1 ELSE r
  IN  <<At(1), At(2)>>

\* The place in the picture that a place in the turned one comes from.
Source(r, picture, rotation) ==
  CASE rotation = 0   -> r
    [] rotation = 90  -> <<r[2], picture[2] - 1 - r[1]>>
    [] rotation = 180 -> <<picture[1] - 1 - r[1], picture[2] - 1 - r[2]>>
    [] rotation = 270 -> <<picture[1] - 1 - r[2], r[1]>>

------------------------------------------------------------------------------
Places(size) == (0 .. size[1] - 1) \X (0 .. size[2] - 1)

\* The reference: the picture turned n times to the right, a quarter at a
\* time; place p of it shows place Turned(p, ...) of the picture.  Before[k]
\* is the place it shows of the picture turned n - k times.
Turned(p, picture, n) ==
  LET Before[k \in 0 .. n] ==
        IF k = 0 THEN p
        ELSE LET turned == Rotated(picture, 90 * (n - k))
             IN  <<Before[k - 1][2], turned[2] - 1 - Before[k - 1][1]>>
  IN  Before[n]

(* A screenshot of any size and orientation becomes a whole frame: it is   *)
(* read and written within its bounds, it is turned as asked for, it keeps *)
(* its proportions but for rounding and fills the display in one direction,*)
(* and no line or column of it is lost unless the display is smaller.      *)
FrameComplete(requested, picture, display) ==
  LET rotation == Rotation(requested, picture, display)
      rotated  == Rotated(picture, rotation)
      scaled   == Scaled(rotated, display)
      offset   == Offset(scaled, display)
      Shown    == [p \in Places(scaled) |-> Sampled(p, rotated, scaled)]
  IN  /\ \A p \in Places(scaled) :
           /\ <<p[1] + offset[1], p[2] + offset[2]>> \in Places(display)
           /\ Shown[p] \in Places(rotated)
           /\ Source(Shown[p], picture, rotation) \in Places(picture)
      /\ \A r \in Places(rotated) :
           Source(r, picture, rotation) = Turned(r, picture, rotation \div 90)
      /\ \E i \in 1 .. 2 : LET j == 3 - i IN
           /\ scaled[i] = display[i]
           /\ scaled[j] * rotated[i] <= display[i] * rotated[j] \/ scaled[j] = 1
           /\ (scaled[j] + 1) * rotated[i] > display[i] * rotated[j]
      /\ \A i \in 1 .. 2 : rotated[i] <= scaled[i] =>
           \A n \in 0 .. rotated[i] - 1 :
             \E p \in Places(scaled) : Shown[p][i] = n

=============================================================================
