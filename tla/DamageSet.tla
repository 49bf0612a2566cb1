------------------------------ MODULE DamageSet ------------------------------
(***************************************************************************)
(* From a frame to the packets that carry it: grape_scanout_diff,          *)
(* grape_damage_reduce, grape_scanout_upload_damage and                    *)
(* grape_scanout_commit_displayed of kernel/grape_drm.c, for one frame and *)
(* transfers that succeed (module Scanout has the ones that fail).         *)
(*                                                                         *)
(* The frame and the reference are compared by tiles; runs of dirty tiles  *)
(* become rectangles, rectangles of equal width in adjacent rows grow into *)
(* one, and the cheapest pairs are merged until few enough are left.       *)
(* x1, y1 belong to a rectangle, x2, y2 do not, as in struct drm_rect.     *)
(***************************************************************************)
EXTENDS Integers, Sequences, FiniteSets, FiniteSetsExt

CONSTANTS Width, Height,   \* display_width, display_height
          TileSize,        \* GRAPE_DIFF_TILE_SIZE
          MaxRects,        \* GRAPE_DIFF_MAX_RECTS
          MaxCandidates,   \* GRAPE_DIFF_MAX_CANDIDATE_RECTS
          FullPercent,     \* GRAPE_DIFF_FULL_PERCENT
          MergeBudget,     \* GRAPE_DIFF_MERGE_BUDGET_BYTES
          ChunkPixels,     \* pixels in a packet of TEXTURE_WRITE_RECT
          Samples          \* pixels that may differ from the reference

ASSUME SizesAssumption ==
  /\ {Width, Height, TileSize, MaxRects, MaxCandidates, FullPercent,
      ChunkPixels} \subseteq Nat \ {0}
  /\ MergeBudget \in Nat

Pixels == (0 .. Width - 1) \X (0 .. Height - 1)
Old    == <<-1, -1>>

ASSUME SamplesAssumption == Samples \subseteq Pixels

TilesX == (Width + TileSize - 1) \div TileSize
TilesY == (Height + TileSize - 1) \div TileSize
Tiles  == (0 .. TilesX - 1) \X (0 .. TilesY - 1)

VARIABLES
  changed,   \* pixels in which the frame and scanout_displayed_buf differ
  valid,     \* scanout_displayed_valid
  phase,     \* what the worker does
  left,      \* dirty tiles not yet collected
  rects,     \* the damage set
  current,   \* the rectangle that is sent
  offset,    \* pixels of it already sent
  texture,   \* which pixel of the frame the device has at each place
  reference  \* pixels of scanout_displayed_buf taken from the frame

vars == <<changed, valid, phase, left, rects, current, offset, texture,
          reference>>

Lower(a, b)  == IF a < b THEN a ELSE b
Higher(a, b) == IF a < b THEN b ELSE a

Rect(x1, y1, x2, y2) == [x1 |-> x1, y1 |-> y1, x2 |-> x2, y2 |-> y2]
FullRect == Rect(0, 0, Width, Height)
WidthOf(r)  == r.x2 - r.x1
HeightOf(r) == r.y2 - r.y1
Area(r)     == WidthOf(r) * HeightOf(r)
Contains(r, p) == p[1] >= r.x1 /\ p[1] < r.x2 /\ p[2] >= r.y1 /\ p[2] < r.y2

RectUnion(a, b) == Rect(Lower(a.x1, b.x1), Lower(a.y1, b.y1),
                        Higher(a.x2, b.x2), Higher(a.y2, b.y2))

IsFull(set) == set = <<FullRect>>

\* The pairs of rectangles and the bytes a merge sends in addition.
Pairs == {pair \in (DOMAIN rects) \X (DOMAIN rects) : pair[1] < pair[2]}
ExtraBytes(pair) ==
  LET a == rects[pair[1]]  b == rects[pair[2]]
  IN  2 * Higher(Area(RectUnion(a, b)) - (Area(a) + Area(b)), 0)
Before(p, q) == p[1] < q[1] \/ (p[1] = q[1] /\ p[2] < q[2])

\* The cheapest pair, the first of them in the order of the two loops.
BestPair ==
  CHOOSE p \in Pairs : \A q \in Pairs \ {p} :
    \/ ExtraBytes(p) < ExtraBytes(q)
    \/ ExtraBytes(p) = ExtraBytes(q) /\ Before(p, q)

\* Where the device puts pixel n of a rectangle.
Place(r, n) == <<r.x1 + (n % WidthOf(r)), r.y1 + n \div WidthOf(r)>>

------------------------------------------------------------------------------
(* Seeded defects.  None is part of the model: each is a plausible slip in *)
(* one of the definitions below, and shows that a property would notice.   *)

\* The run of tiles is not cut off at the edges of the display.
RunRect_Unclipped(a, b, y) ==
  Rect(a * TileSize, y * TileSize, (b + 1) * TileSize, (y + 1) * TileSize)

\* The last rectangle is dropped, not moved into the place of the second.
Merged_DropsLast(i, j) ==
  [k \in 1 .. Len(rects) - 1 |->
     IF k = i THEN RectUnion(rects[i], rects[j]) ELSE rects[k]]

\* Any rectangle at the left edge is sent straight from the frame.
Packed_LeftEdge(r, n) ==
  IF r.x1 = 0 THEN <<n % Width, r.y1 + n \div Width>> ELSE Place(r, n)

\* The reference takes over a full frame only; rectangles are forgotten.
Commit_OnlyFull ==
  /\ phase = "commit"
  /\ reference' = IF IsFull(rects) THEN Pixels ELSE {}
  /\ valid' = TRUE
  /\ phase' = "done"
  /\ UNCHANGED <<changed, left, rects, current, offset, texture>>

------------------------------------------------------------------------------
\* The run of tiles a .. b of row y, cut off at the edge of the display.
RunRect(a, b, y) ==
  Rect(a * TileSize, y * TileSize,
       Lower((b + 1) * TileSize, Width), Lower((y + 1) * TileSize, Height))

TileChanged(t) == \E p \in changed : Contains(RunRect(t[1], t[1], t[2]), p)

Dirty == {t \in Tiles : TileChanged(t)}

\* The first run of the dirty tiles left, row by row.
NextRow   == Min({t[2] : t \in left})
NextStart == Min({t[1] : t \in {u \in left : u[2] = NextRow}})
NextEnd   == Max({x \in NextStart .. TilesX - 1 :
                    \A z \in NextStart .. x : <<z, NextRow>> \in left})
NextRun   == RunRect(NextStart, NextEnd, NextRow)
AfterRun  == left \ {<<x, NextRow>> : x \in NextStart .. NextEnd}

\* The first rectangle the run continues downwards, as a set of one or none.
Extends(r, run) == r.x1 = run.x1 /\ r.x2 = run.x2 /\ r.y2 = run.y1
Extended ==
  {i \in DOMAIN rects : /\ Extends(rects[i], NextRun)
                        /\ \A h \in 1 .. i - 1 : ~Extends(rects[h], NextRun)}

\* The set is small enough and no merge is within the budget.
Reduced ==
  Len(rects) > 1 =>
    Len(rects) <= MaxRects /\ ExtraBytes(BestPair) > MergeBudget

\* The union replaces the first of the pair, the last rectangle the second.
Merged(i, j) ==
  [k \in 1 .. Len(rects) - 1 |->
     IF k = i THEN RectUnion(rects[i], rects[j])
     ELSE IF k = j THEN rects[Len(rects)] ELSE rects[k]]

AtCapacity == Len(rects) = MaxCandidates

ShouldFull ==
  /\ ~IsFull(rects)
  /\ 100 * MapThenSumSet(LAMBDA i : Area(rects[i]), DOMAIN rects)
       >= FullPercent * Width * Height

\* Pixel n of what is sent for a rectangle: rows of full width lie one after
\* the other in the frame and go from there, others are packed row by row.
Packed(r, n) ==
  IF r.x1 = 0 /\ WidthOf(r) = Width
  THEN <<n % Width, r.y1 + n \div Width>>
  ELSE <<r.x1 + (n % WidthOf(r)), r.y1 + n \div WidthOf(r)>>

Chunk(r) == Lower(Area(r) - offset, ChunkPixels)

Init ==
  /\ valid \in BOOLEAN
  /\ changed \in SUBSET Samples
  /\ phase = "compare" /\ left = {} /\ rects = <<>>
  /\ current = 1 /\ offset = 0
  /\ texture = [p \in Pixels |-> Old] /\ reference = {}

MakeFull == rects' = <<FullRect>> /\ left' = {} /\ phase' = "send"

------------------------------------------------------------------------------
\* grape_scanout_diff, first pass, without a usable reference.
CompareInvalid ==
  /\ phase = "compare" /\ ~valid
  /\ MakeFull
  /\ UNCHANGED <<changed, valid, current, offset, texture, reference>>

CompareUnchanged ==
  /\ phase = "compare" /\ valid /\ Dirty = {}
  /\ phase' = "done"
  /\ UNCHANGED <<changed, valid, left, rects, current, offset, texture,
                 reference>>

\* So many tiles are dirty that the whole frame is sent.
CompareMost ==
  /\ phase = "compare" /\ valid /\ Dirty # {}
  /\ Cardinality(Dirty) * 100 >= Cardinality(Tiles) * FullPercent
  /\ MakeFull
  /\ UNCHANGED <<changed, valid, current, offset, texture, reference>>

CompareSome ==
  /\ phase = "compare" /\ valid /\ Dirty # {}
  /\ Cardinality(Dirty) * 100 < Cardinality(Tiles) * FullPercent
  /\ phase' = "collect" /\ left' = Dirty
  /\ UNCHANGED <<changed, valid, rects, current, offset, texture, reference>>

\* Second pass: one run of dirty tiles.
CollectExtend ==
  /\ phase = "collect" /\ left # {}
  /\ \E i \in Extended : rects' = [rects EXCEPT ![i].y2 = NextRun.y2]
  /\ left' = AfterRun
  /\ UNCHANGED <<changed, valid, phase, current, offset, texture, reference>>

CollectOverflow ==
  /\ phase = "collect" /\ left # {} /\ Extended = {}
  /\ AtCapacity
  /\ MakeFull
  /\ UNCHANGED <<changed, valid, current, offset, texture, reference>>

CollectNew ==
  /\ phase = "collect" /\ left # {} /\ Extended = {}
  /\ ~AtCapacity
  /\ rects' = Append(rects, NextRun)
  /\ left' = AfterRun
  /\ UNCHANGED <<changed, valid, phase, current, offset, texture, reference>>

\* grape_damage_reduce: one round of its loop.
Reduce ==
  /\ phase = "collect" /\ left = {} /\ ~Reduced
  /\ rects' = Merged(BestPair[1], BestPair[2])
  /\ UNCHANGED <<changed, valid, phase, left, current, offset, texture,
                 reference>>

Decide ==
  /\ phase = "collect" /\ left = {} /\ Reduced
  /\ IF ShouldFull THEN MakeFull
                   ELSE phase' = "send" /\ UNCHANGED <<left, rects>>
  /\ UNCHANGED <<changed, valid, current, offset, texture, reference>>

\* grape_remote_texture_write_rect: one packet of the rectangle.
SendPacket ==
  /\ phase = "send" /\ current <= Len(rects)
  /\ LET r == rects[current]  last == offset + Chunk(r) - 1
     IN  /\ texture' = [p \in Pixels |->
                          IF \E n \in offset .. last : Place(r, n) = p
                          THEN Packed(r, CHOOSE n \in offset .. last :
                                           Place(r, n) = p)
                          ELSE texture[p]]
         /\ IF last + 1 < Area(r)
            THEN offset' = last + 1 /\ UNCHANGED current
            ELSE offset' = 0 /\ current' = current + 1
  /\ UNCHANGED <<changed, valid, phase, left, rects, reference>>

Present ==
  /\ phase = "send" /\ current > Len(rects)
  /\ phase' = "commit"
  /\ UNCHANGED <<changed, valid, left, rects, current, offset, texture,
                 reference>>

\* grape_scanout_commit_displayed
Commit ==
  /\ phase = "commit"
  /\ reference' = IF IsFull(rects) THEN Pixels
                  ELSE {p \in Pixels : \E i \in DOMAIN rects :
                                         Contains(rects[i], p)}
  /\ valid' = TRUE
  /\ phase' = "done"
  /\ UNCHANGED <<changed, left, rects, current, offset, texture>>

Next ==
  \/ CompareInvalid \/ CompareUnchanged \/ CompareMost \/ CompareSome
  \/ CollectExtend \/ CollectOverflow \/ CollectNew \/ Reduce \/ Decide
  \/ SendPacket \/ Present \/ Commit

Spec == Init /\ [][Next]_vars

------------------------------------------------------------------------------
(* Properties                                                              *)

(* Type correctness.  The array of rectangles is never overrun, and none of *)
(* them is empty or reaches beyond the display: the packing and the copy    *)
(* into the reference read and write by these coordinates.                  *)
OnDisplay(r) ==
  /\ 0 <= r.x1 /\ r.x1 < r.x2 /\ r.x2 <= Width
  /\ 0 <= r.y1 /\ r.y1 < r.y2 /\ r.y2 <= Height

TypeOK ==
  /\ changed \subseteq Pixels /\ valid \in BOOLEAN
  /\ phase \in {"compare", "collect", "send", "commit", "done"}
  /\ left \subseteq Tiles
  /\ rects \in Seq([x1 : Int, y1 : Int, x2 : Int, y2 : Int])
  /\ Len(rects) <= MaxCandidates
  /\ \A i \in DOMAIN rects : OnDisplay(rects[i])
  /\ current \in 1 .. Len(rects) + 1 /\ offset \in Nat
  /\ texture \in [Pixels -> Pixels \cup {Old}]
  /\ reference \subseteq Pixels

(* Runs, extensions, merges and the two fallbacks together lose nothing: a *)
(* changed pixel is in a tile still to be collected or in a rectangle.     *)
ChangesCovered ==
  phase # "compare" /\ phase # "done" =>
    \A p \in changed : \/ \E i \in DOMAIN rects : Contains(rects[i], p)
                       \/ \E t \in left : Contains(RunRect(t[1], t[1], t[2]), p)

(* The frame arrives.  Every place of the texture ends with its own pixel  *)
(* of the frame, sent now or already there, through packing and packets;   *)
(* and the reference takes from the frame what the device was sent, no     *)
(* pixel more or less, so that no later difference goes unseen.            *)
FrameArrives ==
  /\ phase \in {"commit", "done"} =>
       \A p \in Pixels : texture[p] = p \/ (texture[p] = Old /\ p \notin changed)
  /\ phase = "done" => \A p \in Pixels : p \in reference <=> texture[p] # Old

=============================================================================
