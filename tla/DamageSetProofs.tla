--------------------------- MODULE DamageSetProofs ---------------------------
(***************************************************************************)
(* Theorems about DamageSet, for every size of display, tile, packet and   *)
(* rectangle array, every threshold and every set of changed pixels: the   *)
(* rectangles stay in their array and on the display, no changed pixel is  *)
(* lost, the device ends with the frame, and the reference with what the   *)
(* device was sent.                                                        *)
(*                                                                         *)
(* FrameArrives speaks of the end only; Sending says what the device has   *)
(* after each packet (Sent).  The arithmetic is in the lemmas: a pixel     *)
(* lies in its tile, a run covers its tiles, and numbering the pixels of a *)
(* rectangle row by row is a bijection (PlacesAre), which is what packing  *)
(* on one side and unpacking on the other rely on.                         *)
(***************************************************************************)
EXTENDS DamageSet, WellFoundedInduction, TLAPS

\* The pixels the device has been sent: those of the rectangles that are
\* through, and the first of the one that is being sent.
Sent ==
  {p \in Pixels :
     \/ \E i \in 1 .. current - 1 : Contains(rects[i], p)
     \/ current <= Len(rects) /\ \E n \in 0 .. offset - 1 :
                                   Place(rects[current], n) = p}

\* Where the worker is, and what the device has by then.
Sending ==
  /\ phase \in {"compare", "collect"} => current = 1 /\ offset = 0
  /\ phase \in {"compare", "send", "commit"} => left = {}
  /\ phase = "send" => IF current <= Len(rects)
                       THEN offset < Area(rects[current]) ELSE offset = 0
  /\ phase = "commit" => current = Len(rects) + 1
  /\ phase # "done" =>
       /\ reference = {}
       /\ \A p \in Pixels : texture[p] = IF p \in Sent THEN p ELSE Old

Inductive == TypeOK /\ ChangesCovered /\ FrameArrives /\ Sending

------------------------------------------------------------------------------
(* Numbers                                                                 *)

\* Division leaves a remainder below the divisor.
LEMMA DivMod ==
  ASSUME NEW a \in Nat, NEW d \in Nat \ {0}
  PROVE  /\ a \div d \in Nat
         /\ d * (a \div d) <= a /\ a < d * (a \div d) + d
         /\ a % d \in 0 .. d - 1
         /\ a = d * (a \div d) + (a % d)
<1>1. a \div d \in Nat /\ d * (a \div d) <= a /\ a < d * (a \div d) + d
  OBVIOUS
<1>2. a % d \in 0 .. d - 1
  OBVIOUS
<1>3. a = d * (a \div d) + (a % d)
  OBVIOUS
<1> QED  BY <1>1, <1>2, <1>3

\* A number is known by its quotient and its remainder.
LEMMA Composed ==
  ASSUME NEW q \in Nat, NEW r \in Nat, NEW d \in Nat \ {0}, r < d
  PROVE  (q * d + r) \div d = q /\ (q * d + r) % d = r
  OBVIOUS

LEMMA Quotient ==
  ASSUME NEW a \in Nat, NEW d \in Nat \ {0}, NEW h \in Nat, a < d * h
  PROVE  a \div d < h
  OBVIOUS

LEMMA Monotone ==
  ASSUME NEW a \in Nat, NEW b \in Nat, NEW c \in Nat, a <= b
  PROVE  a * c <= b * c
  OBVIOUS

\* A set of numbers has a smallest one, and a largest one if it is bounded.
LEMMA Smallest ==
  ASSUME NEW S, S \subseteq Nat, S # {}
  PROVE  \E x \in S : \A y \in S : x <= y
<1> DEFINE R == {ss \in Nat \X Nat : ss[1] < ss[2]}
<1>1. IsWellFoundedOn(R, Nat)
  BY NatLessThanWellFounded DEF OpToRel
<1>2. PICK x \in S : \A y \in S : <<y, x>> \notin R
  BY <1>1, WFMin, Zenon
<1>3. \A m, n \in Nat : n < m => <<n, m>> \in R
  OBVIOUS
<1> HIDE DEF R
<1>4. ASSUME NEW y \in S  PROVE x <= y
  <2>1. x \in Nat /\ y \in Nat
    OBVIOUS
  <2>2. ~(y < x)
    BY <1>2, <1>3, <2>1
  <2> QED  BY <2>1, <2>2
<1> QED  BY <1>4

\* One of a set of things with costs is as cheap as any.
LEMMA Cheapest ==
  ASSUME NEW P, P # {}, NEW cost \in [P -> Nat]
  PROVE  \E x \in P : \A y \in P : cost[x] <= cost[y]
<1> DEFINE Costs == {cost[y] : y \in P}
<1>1. Costs \subseteq Nat /\ Costs # {}
  OBVIOUS
<1>2. PICK c \in Costs : \A d \in Costs : c <= d
  <2> HIDE DEF Costs
  <2> QED  BY <1>1, Smallest
<1>3. PICK x \in P : c = cost[x]
  BY <1>2
<1> QED  BY <1>2, <1>3

LEMMA MinIs ==
  ASSUME NEW S, S \subseteq Nat, S # {}
  PROVE  Min(S) \in S /\ \A y \in S : Min(S) <= y
<1>1. \E x \in S : \A y \in S : x <= y
  BY Smallest
<1> QED  BY <1>1 DEF Min

LEMMA MaxIs ==
  ASSUME NEW S, NEW a \in Nat, NEW b \in Nat, S \subseteq a .. b, S # {}
  PROVE  Max(S) \in S /\ \A y \in S : Max(S) >= y
<1> DEFINE D == {b - x : x \in S}
<1>1. D \subseteq Nat /\ D # {}
  <2>1. \A x \in S : x \in a .. b
    OBVIOUS
  <2>2. \A x \in a .. b : b - x \in Nat
    OBVIOUS
  <2> QED  BY <2>1, <2>2
<1>2. PICK d \in D : \A e \in D : d <= e
  BY <1>1, Smallest
<1>3. PICK x \in S : d = b - x
  BY <1>2
<1>4. \A y \in S : b - x <= b - y
  BY <1>2, <1>3
<1>5. \A y \in S : x >= y
  BY <1>4
<1> QED  BY <1>5 DEF Max

------------------------------------------------------------------------------
(* Rectangles                                                              *)

Rectangles == [x1 : Int, y1 : Int, x2 : Int, y2 : Int]

LEMMA SizesAre ==
  /\ Width \in Nat \ {0} /\ Height \in Nat \ {0} /\ TileSize \in Nat \ {0}
  /\ ChunkPixels \in Nat \ {0} /\ MaxCandidates \in Nat \ {0}
  BY SizesAssumption

\* Tiles begin on the display.
LEMMA TileInside ==
  ASSUME NEW n \in Nat \ {0}, NEW s \in Nat \ {0}, NEW k \in Nat,
         k <= (n + s - 1) \div s - 1
  PROVE  k * s < n
<1> DEFINE q == (n + s - 1) \div s
<1>1. n + s - 1 \in Nat
  OBVIOUS
<1>2. q \in Nat /\ s * q <= n + s - 1
  BY <1>1, DivMod
<1> HIDE DEF q
<1>3. (k + 1) * s <= q * s
  BY <1>2, Monotone DEF q
<1>4. (k + 1) * s = k * s + s /\ q * s = s * q
  BY <1>2
<1> QED  BY <1>2, <1>3, <1>4

\* The tile of a coordinate is one of the tiles.
LEMMA TileFound ==
  ASSUME NEW n \in Nat \ {0}, NEW s \in Nat \ {0}, NEW a \in 0 .. n - 1
  PROVE  a \div s \in 0 .. (n + s - 1) \div s - 1
<1> DEFINE q == (n + s - 1) \div s  k == a \div s
<1>1. n + s - 1 \in Nat /\ a \in Nat
  OBVIOUS
<1>2. q \in Nat /\ n + s - 1 < s * q + s
  BY <1>1, DivMod
<1>3. k \in Nat /\ s * k <= a
  BY <1>1, DivMod
<1> HIDE DEF q, k
<1>4. s * k < s * q
  BY <1>1, <1>2, <1>3
<1>5. k < q
  BY <1>2, <1>3, <1>4
<1> QED  BY <1>2, <1>3, <1>5 DEF q, k

\* A run of tiles is a rectangle of the display.
LEMMA RunOnDisplay ==
  ASSUME NEW a \in Nat, NEW b \in 0 .. TilesX - 1, NEW y \in 0 .. TilesY - 1,
         a <= b
  PROVE  RunRect(a, b, y) \in Rectangles /\ OnDisplay(RunRect(a, b, y))
<1> DEFINE r == RunRect(a, b, y)
<1>1. a * TileSize < Width /\ y * TileSize < Height
  <2>1. a <= TilesX - 1 /\ y \in Nat /\ y <= TilesY - 1
    BY SizesAre DEF TilesX, TilesY
  <2> QED  BY <2>1, SizesAre, TileInside DEF TilesX, TilesY
<1>2. /\ a * TileSize \in Nat /\ y * TileSize \in Nat
      /\ a * TileSize < (b + 1) * TileSize
      /\ y * TileSize < (y + 1) * TileSize
      /\ (b + 1) * TileSize \in Nat /\ (y + 1) * TileSize \in Nat
  <2>1. y \in Nat /\ b \in Nat
    BY SizesAre DEF TilesX, TilesY
  <2>2. a * TileSize <= b * TileSize
    BY <2>1, SizesAre, Monotone
  <2>3. (b + 1) * TileSize = b * TileSize + TileSize
    BY <2>1, SizesAre
  <2>4. (y + 1) * TileSize = y * TileSize + TileSize
    BY <2>1, SizesAre
  <2>5. a * TileSize \in Nat /\ b * TileSize \in Nat /\ y * TileSize \in Nat
    BY <2>1, SizesAre
  <2> QED  BY <2>2, <2>3, <2>4, <2>5, SizesAre
<1>3. /\ r.x1 = a * TileSize /\ r.y1 = y * TileSize
      /\ r.x2 = Lower((b + 1) * TileSize, Width)
      /\ r.y2 = Lower((y + 1) * TileSize, Height)
      /\ r = Rect(r.x1, r.y1, r.x2, r.y2)
  BY DEF RunRect, Rect
<1> HIDE DEF r
<1>4. /\ r.x1 \in Nat /\ r.y1 \in Nat /\ r.x2 \in Nat /\ r.y2 \in Nat
      /\ OnDisplay(r)
  BY <1>1, <1>2, <1>3, SizesAre DEF Lower, OnDisplay
<1>5. r \in Rectangles
  BY <1>3, <1>4 DEF Rectangles, Rect
<1> QED  BY <1>4, <1>5 DEF r

\* A pixel lies in its tile.
LEMMA TileOfPixel ==
  ASSUME NEW p \in Pixels
  PROVE  \E t \in Tiles : Contains(RunRect(t[1], t[1], t[2]), p)
<1> DEFINE u == p[1] \div TileSize  v == p[2] \div TileSize
<1>1. p[1] \in 0 .. Width - 1 /\ p[2] \in 0 .. Height - 1
  BY DEF Pixels
<1>2. u \in 0 .. TilesX - 1 /\ v \in 0 .. TilesY - 1
  BY <1>1, SizesAre, TileFound DEF TilesX, TilesY
<1>3. /\ u \in Nat /\ TileSize * u <= p[1] /\ p[1] < TileSize * u + TileSize
      /\ v \in Nat /\ TileSize * v <= p[2] /\ p[2] < TileSize * v + TileSize
  <2>1. p[1] \in Nat /\ p[2] \in Nat
    BY <1>1, SizesAre
  <2> QED  BY <2>1, SizesAre, DivMod
<1> HIDE DEF u, v
<1>4. /\ u * TileSize = TileSize * u /\ v * TileSize = TileSize * v
      /\ (u + 1) * TileSize = TileSize * u + TileSize
      /\ (v + 1) * TileSize = TileSize * v + TileSize
      /\ TileSize * u \in Nat /\ TileSize * v \in Nat
  BY <1>3, SizesAre
<1>5. Contains(RunRect(u, u, v), p)
  BY <1>1, <1>3, <1>4, SizesAre DEF Contains, RunRect, Rect, Lower
<1>6. <<u, v>> \in Tiles
  BY <1>2 DEF Tiles
<1> QED  BY <1>5, <1>6

\* The tiles of a run lie in it.
LEMMA RunCovers ==
  ASSUME NEW a \in Nat, NEW b \in Nat, NEW y \in Nat, NEW x \in a .. b,
         NEW p \in Pixels, Contains(RunRect(x, x, y), p)
  PROVE  Contains(RunRect(a, b, y), p)
<1>1. /\ a * TileSize <= x * TileSize
      /\ (x + 1) * TileSize <= (b + 1) * TileSize
  BY SizesAre, Monotone
<1>2. /\ a * TileSize \in Nat /\ x * TileSize \in Nat /\ y * TileSize \in Nat
      /\ (x + 1) * TileSize \in Nat /\ (b + 1) * TileSize \in Nat
      /\ (y + 1) * TileSize \in Nat
  BY SizesAre
<1>3. p[1] \in Int /\ p[2] \in Int
  BY DEF Pixels
<1> QED  BY <1>1, <1>2, <1>3, SizesAre DEF Contains, RunRect, Rect, Lower

\* The union of two rectangles is one, and loses nothing.
LEMMA UnionOnDisplay ==
  ASSUME NEW a \in Rectangles, NEW b \in Rectangles, OnDisplay(a), OnDisplay(b)
  PROVE  RectUnion(a, b) \in Rectangles /\ OnDisplay(RectUnion(a, b))
<1> DEFINE r == RectUnion(a, b)
<1>1. /\ a.x1 \in Nat /\ a.y1 \in Nat /\ a.x2 \in Nat /\ a.y2 \in Nat
      /\ b.x1 \in Nat /\ b.y1 \in Nat /\ b.x2 \in Nat /\ b.y2 \in Nat
  BY SizesAre DEF Rectangles, OnDisplay
<1>2. /\ r.x1 = Lower(a.x1, b.x1) /\ r.y1 = Lower(a.y1, b.y1)
      /\ r.x2 = Higher(a.x2, b.x2) /\ r.y2 = Higher(a.y2, b.y2)
      /\ r = Rect(r.x1, r.y1, r.x2, r.y2)
  BY DEF RectUnion, Rect
<1> HIDE DEF r
<1>3. /\ r.x1 \in Nat /\ r.y1 \in Nat /\ r.x2 \in Nat /\ r.y2 \in Nat
      /\ OnDisplay(r)
  BY <1>1, <1>2, SizesAre DEF OnDisplay, Lower, Higher
<1>4. r \in Rectangles
  BY <1>2, <1>3 DEF Rectangles, Rect
<1> QED  BY <1>3, <1>4 DEF r

LEMMA UnionCovers ==
  ASSUME NEW a \in Rectangles, NEW b \in Rectangles, NEW p \in Pixels,
         Contains(a, p) \/ Contains(b, p)
  PROVE  Contains(RectUnion(a, b), p)
<1>1. p[1] \in Int /\ p[2] \in Int
  BY DEF Pixels
<1> QED  BY <1>1 DEF Rectangles, Contains, RectUnion, Rect, Lower, Higher

LEMMA FullIs ==
  /\ FullRect \in Rectangles /\ OnDisplay(FullRect)
  /\ 0 < Area(FullRect)
  /\ \A p \in Pixels : Contains(FullRect, p)
<1>1. Width * Height > 0 /\ Width - 0 = Width /\ Height - 0 = Height
  BY SizesAre
<1>2. FullRect \in Rectangles /\ OnDisplay(FullRect) /\ 0 < Area(FullRect)
  BY <1>1, SizesAre
     DEF FullRect, Rect, Rectangles, OnDisplay, Area, WidthOf, HeightOf
<1>3. \A p \in Pixels : Contains(FullRect, p)
  BY SizesAre DEF FullRect, Rect, Contains, Pixels
<1> QED  BY <1>2, <1>3

LEMMA AreaIs ==
  ASSUME NEW r \in Rectangles, OnDisplay(r)
  PROVE  /\ WidthOf(r) \in Nat \ {0} /\ HeightOf(r) \in Nat \ {0}
         /\ Area(r) = WidthOf(r) * HeightOf(r)
         /\ Area(r) \in Nat \ {0}
<1>1. WidthOf(r) \in Nat \ {0} /\ HeightOf(r) \in Nat \ {0}
  BY SizesAre DEF Rectangles, OnDisplay, WidthOf, HeightOf
<1>2. Area(r) = WidthOf(r) * HeightOf(r)
  BY DEF Area
<1> QED  BY <1>1, <1>2

------------------------------------------------------------------------------
(* Packing                                                                 *)

\* What is sent as pixel n of a rectangle is the pixel the device puts there,
\* packed or straight from the frame.
LEMMA PackedIsPlace ==
  ASSUME NEW r \in Rectangles, OnDisplay(r), NEW n \in Nat
  PROVE  Packed(r, n) = Place(r, n)
<1>1. n % Width \in Int /\ n \div Width \in Int
  BY SizesAre, DivMod
<1>2. CASE r.x1 = 0 /\ WidthOf(r) = Width
  BY <1>1, <1>2 DEF Packed, Place
<1>3. CASE ~(r.x1 = 0 /\ WidthOf(r) = Width)
  BY <1>3 DEF Packed, Place
<1> QED  BY <1>2, <1>3

\* The pixels of a packet are those of the rectangle, each of them, no other.
LEMMA PlacesAre ==
  ASSUME NEW r \in Rectangles, OnDisplay(r), NEW p \in Pixels
  PROVE  Contains(r, p) <=> \E n \in 0 .. Area(r) - 1 : Place(r, n) = p
<1> DEFINE w == WidthOf(r)  h == HeightOf(r)
<1>1. /\ w \in Nat \ {0} /\ h \in Nat \ {0} /\ Area(r) = w * h
      /\ r.x1 \in Nat /\ r.y1 \in Nat /\ r.x2 = r.x1 + w /\ r.y2 = r.y1 + h
  <2>1. r.x1 \in Nat /\ r.y1 \in Nat /\ r.x2 \in Int /\ r.y2 \in Int
    BY DEF Rectangles, OnDisplay
  <2> QED  BY <2>1, AreaIs DEF WidthOf, HeightOf
<1>2. /\ p[1] \in Nat /\ p[2] \in Nat /\ p = <<p[1], p[2]>>
  BY DEF Pixels
<1>3. \A n : Place(r, n) = <<r.x1 + (n % w), r.y1 + n \div w>>
  BY DEF Place
<1> HIDE DEF w, h
<1>4. ASSUME Contains(r, p)  PROVE \E n \in 0 .. Area(r) - 1 : Place(r, n) = p
  <2> DEFINE q == p[2] - r.y1  m == p[1] - r.x1
  <2>1. q \in 0 .. h - 1 /\ m \in 0 .. w - 1
    BY <1>1, <1>2, <1>4 DEF Contains
  <2>2. r.x1 + m = p[1] /\ r.y1 + q = p[2]
    BY <1>1, <1>2
  <2> HIDE DEF q, m
  <2>3. q \in Nat /\ m \in Nat /\ m < w /\ q <= h - 1
    BY <1>1, <2>1
  <2> DEFINE n == q * w + m
  <2>4. n \div w = q /\ n % w = m
    BY <1>1, <2>3, Composed
  <2>5. n \in Nat /\ n < w * h
    <3>1. q * w \in Nat /\ q * w <= (h - 1) * w
      BY <1>1, <2>3, Monotone
    <3>2. (h - 1) * w = w * h - w
      BY <1>1
    <3>3. w * h \in Nat
      BY <1>1
    <3> QED  BY <1>1, <2>3, <3>1, <3>2, <3>3
  <2> HIDE DEF n
  <2>6. Place(r, n) = p
    BY <1>2, <1>3, <2>2, <2>4
  <2>7. n \in 0 .. Area(r) - 1
    BY <1>1, <2>5
  <2> QED  BY <2>6, <2>7
<1>5. ASSUME NEW n \in 0 .. Area(r) - 1, Place(r, n) = p  PROVE Contains(r, p)
  <2>1. n \in Nat /\ n < w * h
    BY <1>1
  <2>2. n % w \in 0 .. w - 1 /\ n \div w \in Nat /\ n \div w < h
    BY <1>1, <2>1, DivMod, Quotient
  <2>3. p[1] = r.x1 + (n % w) /\ p[2] = r.y1 + (n \div w)
    <3>1. p = <<r.x1 + (n % w), r.y1 + (n \div w)>>
      BY <1>3, <1>5
    <3> QED  BY <3>1, Zenon
  <2>4. /\ p[1] >= r.x1 /\ p[1] < r.x1 + w
        /\ p[2] >= r.y1 /\ p[2] < r.y1 + h
    BY <1>1, <2>2, <2>3
  <2> QED  BY <1>1, <2>4 DEF Contains
<1> QED  BY <1>4, <1>5

------------------------------------------------------------------------------
(* What the two passes and the merges choose                               *)

LEMMA RectsAre ==
  ASSUME TypeOK
  PROVE  /\ rects \in Seq(Rectangles) /\ Len(rects) \in Nat
         /\ \A i \in 1 .. Len(rects) : /\ rects[i] \in Rectangles
                                       /\ OnDisplay(rects[i])
<1>1. rects \in Seq(Rectangles)
  BY Zenon DEF TypeOK, Rectangles
<1>2. \A i \in DOMAIN rects : OnDisplay(rects[i])
  BY Zenon DEF TypeOK
<1> QED  BY <1>1, <1>2

LEMMA TilesAre ==
  /\ TilesX \in Nat /\ TilesY \in Nat
  /\ \A t \in Tiles : /\ t[1] \in 0 .. TilesX - 1 /\ t[2] \in 0 .. TilesY - 1
                      /\ t = <<t[1], t[2]>>
<1>1. Width + TileSize - 1 \in Nat /\ Height + TileSize - 1 \in Nat
  BY SizesAre
<1>2. TilesX \in Nat /\ TilesY \in Nat
  BY <1>1, SizesAre, DivMod DEF TilesX, TilesY
<1> QED  BY <1>2 DEF Tiles

\* The next run is a run of tiles that are left.
LEMMA NextRunIs ==
  ASSUME left \subseteq Tiles, left # {}
  PROVE  /\ NextRow \in 0 .. TilesY - 1 /\ NextStart \in Nat
         /\ NextEnd \in NextStart .. TilesX - 1
         /\ \A x \in NextStart .. NextEnd : <<x, NextRow>> \in left
<1> DEFINE Ys == {t[2] : t \in left}
           Xs == {t[1] : t \in {u \in left : u[2] = NextRow}}
           Es == {x \in NextStart .. TilesX - 1 :
                    \A z \in NextStart .. x : <<z, NextRow>> \in left}
<1>1. \A t \in left : /\ t[1] \in 0 .. TilesX - 1 /\ t[2] \in 0 .. TilesY - 1
                      /\ t = <<t[1], t[2]>>
  BY TilesAre
<1>2. Ys \subseteq Nat /\ Ys # {}
  BY <1>1, TilesAre
<1>3. NextRow \in Ys
  BY <1>2, MinIs DEF NextRow
<1>4. NextRow \in 0 .. TilesY - 1
  BY <1>1, <1>3
<1>5. Xs \subseteq Nat /\ Xs # {}
  BY <1>1, <1>3, TilesAre
<1>6. NextStart \in Xs
  BY <1>5, MinIs DEF NextStart
<1>7. NextStart \in Nat /\ NextStart <= TilesX - 1 
      /\ <<NextStart, NextRow>> \in left
  BY <1>1, <1>6, TilesAre
<1>8. NextStart \in Es
  BY <1>7, TilesAre
<1>9. Es \subseteq NextStart .. TilesX - 1 /\ TilesX - 1 \in Nat
  BY <1>7, TilesAre
<1>10. NextEnd \in Es
  BY <1>7, <1>8, <1>9, MaxIs DEF NextEnd
<1> QED  BY <1>4, <1>7, <1>10

LEMMA NextRunOnDisplay ==
  ASSUME left \subseteq Tiles, left # {}
  PROVE  NextRun \in Rectangles /\ OnDisplay(NextRun)
<1>1. /\ NextStart \in Nat /\ NextEnd \in 0 .. TilesX - 1
      /\ NextRow \in 0 .. TilesY - 1 /\ NextStart <= NextEnd
  BY NextRunIs, TilesAre
<1> QED  BY <1>1, RunOnDisplay DEF NextRun

\* The run covers the tiles it takes.
LEMMA RunTakes ==
  ASSUME left \subseteq Tiles, left # {}, NEW p \in Pixels, NEW t \in left,
         Contains(RunRect(t[1], t[1], t[2]), p)
  PROVE  t \in AfterRun \/ Contains(NextRun, p)
<1>1. CASE t \in AfterRun
  BY <1>1
<1>2. CASE t \notin AfterRun
  <2>1. PICK x \in NextStart .. NextEnd : t = <<x, NextRow>>
    BY <1>2 DEF AfterRun
  <2>2. NextStart \in Nat /\ NextEnd \in Nat /\ NextRow \in Nat
    BY NextRunIs, TilesAre
  <2>3. Contains(RunRect(x, x, NextRow), p)
    BY <2>1
  <2> QED  BY <2>1, <2>2, <2>3, RunCovers DEF NextRun
<1> QED  BY <1>1, <1>2

\* The cheapest pair exists.
LEMMA BestPairIs ==
  ASSUME TypeOK, Len(rects) > 1
  PROVE  BestPair \in Pairs
<1>1. \A q \in Pairs : /\ q[1] \in 1 .. Len(rects) /\ q[2] \in 1 .. Len(rects)
                       /\ q = <<q[1], q[2]>>
  BY RectsAre DEF Pairs
<1>2. <<1, 2>> \in Pairs
  BY RectsAre DEF Pairs
<1>3. ASSUME NEW q \in Pairs  PROVE ExtraBytes(q) \in Nat
  <2> DEFINE a == rects[q[1]]  b == rects[q[2]]
  <2>1. a \in Rectangles /\ b \in Rectangles /\ OnDisplay(a) /\ OnDisplay(b)
    BY <1>1, RectsAre
  <2>2. Area(a) \in Nat /\ Area(b) \in Nat /\ Area(RectUnion(a, b)) \in Nat
    BY <2>1, AreaIs, UnionOnDisplay
  <2>3. ExtraBytes(q) =
          2 * Higher(Area(RectUnion(a, b)) - (Area(a) + Area(b)), 0)
    BY DEF ExtraBytes
  <2> HIDE DEF a, b
  <2> QED  BY <2>2, <2>3 DEF Higher
<1>4. PICK q1 \in Pairs : \A q \in Pairs : ExtraBytes(q1) <= ExtraBytes(q)
  <2> DEFINE cost == [q \in Pairs |-> ExtraBytes(q)]
  <2>1. cost \in [Pairs -> Nat] /\ \A q \in Pairs : cost[q] = ExtraBytes(q)
    BY <1>3
  <2> HIDE DEF cost
  <2>2. PICK q1 \in Pairs : \A q \in Pairs : cost[q1] <= cost[q]
    BY <1>2, <2>1, Cheapest
  <2> QED  BY <2>1, <2>2
<1> DEFINE Cheap == {q \in Pairs : ExtraBytes(q) = ExtraBytes(q1)}
<1>5. \A q \in Cheap : q[1] \in Nat /\ q[2] \in Nat
  BY <1>1, RectsAre
<1>6. q1 \in Cheap
  OBVIOUS
<1>7. PICK q2 \in Cheap : \A q \in Cheap : q2[1] <= q[1]
  <2> HIDE DEF Cheap
  <2> DEFINE first == [q \in Cheap |-> q[1]]
  <2>1. first \in [Cheap -> Nat] /\ \A q \in Cheap : first[q] = q[1]
    BY <1>5
  <2> HIDE DEF first
  <2>2. PICK q2 \in Cheap : \A q \in Cheap : first[q2] <= first[q]
    BY <1>6, <2>1, Cheapest
  <2> QED  BY <2>1, <2>2
<1>8. PICK p \in Cheap : p[1] = q2[1] /\ \A q \in Cheap :
                                          q[1] = q2[1] => p[2] <= q[2]
  <2> HIDE DEF Cheap
  <2> DEFINE Rest   == {q \in Cheap : q[1] = q2[1]}
             second == [q \in Rest |-> q[2]]
  <2>1. second \in [Rest -> Nat] /\ \A q \in Rest : second[q] = q[2]
    BY <1>5
  <2>2. q2 \in Rest
    BY <1>7
  <2> HIDE DEF second
  <2>3. PICK p \in Rest : \A q \in Rest : second[p] <= second[q]
    <3> HIDE DEF Rest
    <3> QED  BY <2>1, <2>2, Cheapest
  <2> QED  BY <2>1, <2>3
<1>9. ASSUME NEW q \in Pairs \ {p}
       PROVE  \/ ExtraBytes(p) < ExtraBytes(q)
              \/ ExtraBytes(p) = ExtraBytes(q) /\ Before(p, q)
  <2>1. ExtraBytes(p) = ExtraBytes(q1) /\ ExtraBytes(p) \in Nat
        /\ ExtraBytes(q) \in Nat /\ ExtraBytes(p) <= ExtraBytes(q)
    BY <1>3, <1>4
  <2>2. CASE ExtraBytes(q) = ExtraBytes(p)
    <3>1. q \in Cheap
      BY <2>1, <2>2
    <3>2. /\ p[1] \in Nat /\ p[2] \in Nat /\ q[1] \in Nat /\ q[2] \in Nat
          /\ p = <<p[1], p[2]>> /\ q = <<q[1], q[2]>>
      BY <1>1, RectsAre
    <3>3. p[1] <= q[1] /\ (q[1] = p[1] => p[2] <= q[2])
      BY <1>7, <1>8, <3>1
    <3>4. p[1] # q[1] \/ p[2] # q[2]
      BY <3>2
    <3> QED  BY <2>2, <3>2, <3>3, <3>4 DEF Before
  <2>3. CASE ExtraBytes(q) # ExtraBytes(p)
    BY <2>1, <2>3
  <2> QED  BY <2>2, <2>3
<1>10. p \in Pairs
  OBVIOUS
<1> HIDE DEF Cheap
<1> QED  BY <1>9, <1>10 DEF BestPair

\* A merge: one rectangle less, all of them on the display, nothing lost.
LEMMA MergedIs ==
  ASSUME TypeOK, NEW i \in 1 .. Len(rects), NEW j \in 1 .. Len(rects), i < j
  PROVE  /\ Merged(i, j) \in Seq(Rectangles)
         /\ Len(Merged(i, j)) = Len(rects) - 1
         /\ \A k \in 1 .. Len(rects) - 1 : OnDisplay(Merged(i, j)[k])
         /\ \A p \in Pixels : \A k \in 1 .. Len(rects) :
              Contains(rects[k], p)
                => \E m \in 1 .. Len(rects) - 1 : Contains(Merged(i, j)[m], p)
<1> DEFINE n == Len(rects)  u == RectUnion(rects[i], rects[j])
           f == Merged(i, j)
<1>1. /\ n \in Nat /\ i \in Nat /\ j \in Nat /\ i < j /\ j <= n /\ i >= 1
      /\ \A k \in 1 .. n : rects[k] \in Rectangles /\ OnDisplay(rects[k])
  BY RectsAre
<1>2. u \in Rectangles /\ OnDisplay(u)
  BY <1>1, UnionOnDisplay
<1>3. \A p \in Pixels : Contains(rects[i], p) \/ Contains(rects[j], p)
                          => Contains(u, p)
  BY <1>1, UnionCovers
<1>4. f = [k \in 1 .. n - 1 |-> IF k = i THEN u ELSE IF k = j THEN rects[n]
                                ELSE rects[k]]
  BY DEF Merged
<1> HIDE DEF n, u, f
<1>5. \A k \in 1 .. n - 1 : f[k] \in Rectangles /\ OnDisplay(f[k])
  BY <1>1, <1>2, <1>4
<1>6. f \in Seq(Rectangles) /\ Len(f) = n - 1
  <2>1. n - 1 \in Nat /\ f \in [1 .. n - 1 -> Rectangles]
    BY <1>1, <1>4, <1>5
  <2> QED  BY <2>1
<1>7. ASSUME NEW p \in Pixels, NEW k \in 1 .. n, Contains(rects[k], p)
      PROVE  \E m \in 1 .. n - 1 : Contains(f[m], p)
  <2>1. CASE k = i \/ k = j
    <3>1. i \in 1 .. n - 1 /\ f[i] = u /\ Contains(u, p)
      BY <1>1, <1>3, <1>4, <1>7, <2>1
    <3> QED  BY <3>1
  <2>2. CASE k # i /\ k # j /\ k = n
    <3>1. j \in 1 .. n - 1 /\ f[j] = rects[n]
      BY <1>1, <1>4, <2>2
    <3> QED  BY <1>7, <2>2, <3>1
  <2>3. CASE k # i /\ k # j /\ k # n
    <3>1. k \in 1 .. n - 1 /\ f[k] = rects[k]
      BY <1>1, <1>4, <2>3
    <3> QED  BY <1>7, <3>1
  <2> QED  BY <2>1, <2>2, <2>3
<1> QED  BY <1>5, <1>6, <1>7 DEF n, f

------------------------------------------------------------------------------
(* The steps                                                               *)

\* A packet brings pixels of the rectangle to their place.
LEMMA PacketIs ==
  ASSUME TypeOK, phase = "send", SendPacket, offset < Area(rects[current])
  PROVE  \E last \in offset .. Area(rects[current]) - 1 :
           /\ \A p \in Pixels :
                texture'[p] = IF \E n \in offset .. last :
                                   Place(rects[current], n) = p
                              THEN p ELSE texture[p]
           /\ texture' \in [Pixels -> Pixels \cup {Old}]
           /\ \/ /\ last + 1 < Area(rects[current])
                 /\ offset' = last + 1 /\ current' = current
              \/ /\ last + 1 = Area(rects[current])
                 /\ offset' = 0 /\ current' = current + 1
<1> DEFINE r == rects[current]  last == offset + Chunk(r) - 1
           Hit(p) == \E n \in offset .. last : Place(r, n) = p
<1>0. /\ current \in 1 .. Len(rects) /\ offset \in Nat
      /\ texture \in [Pixels -> Pixels \cup {Old}]
  <2>1. /\ current \in 1 .. Len(rects) + 1 /\ offset \in Nat
        /\ texture \in [Pixels -> Pixels \cup {Old}]
    BY Zenon DEF TypeOK
  <2> QED  BY <2>1, RectsAre DEF SendPacket
<1>1. r \in Rectangles /\ OnDisplay(r) /\ Area(r) \in Nat \ {0}
  BY <1>0, RectsAre, AreaIs
<1>2. last \in offset .. Area(r) - 1
  BY <1>0, <1>1, SizesAre DEF Chunk, Lower
<1>3. /\ texture' = [p \in Pixels |->
                       IF Hit(p)
                       THEN Packed(r, CHOOSE n \in offset .. last :
                                        Place(r, n) = p)
                       ELSE texture[p]]
      /\ IF last + 1 < Area(r)
         THEN offset' = last + 1 /\ UNCHANGED current
         ELSE offset' = 0 /\ current' = current + 1
  BY DEF SendPacket
<1> HIDE DEF last
<1>4. ASSUME NEW p \in Pixels, Hit(p)
      PROVE  Packed(r, CHOOSE n \in offset .. last : Place(r, n) = p) = p
  <2> DEFINE m == CHOOSE n \in offset .. last : Place(r, n) = p
  <2>1. m \in offset .. last /\ Place(r, m) = p
    BY <1>4
  <2> HIDE DEF m, r
  <2>2. m \in Nat
    BY <1>0, <1>1, <1>2, <2>1
  <2>3. Packed(r, m) = p
    BY <1>1, <2>1, <2>2, PackedIsPlace
  <2> QED  BY <2>3 DEF m, r
<1>5. \A p \in Pixels : texture'[p] = IF Hit(p) THEN p ELSE texture[p]
  BY <1>3, <1>4
<1>6. texture' \in [Pixels -> Pixels \cup {Old}]
  <2> HIDE DEF Hit
  <2>1. \A p \in Pixels : texture'[p] \in Pixels \cup {Old}
    BY <1>0, <1>5
  <2> QED  BY <1>3, <2>1
<1>7. \/ last + 1 < Area(r) /\ offset' = last + 1 /\ current' = current
      \/ last + 1 = Area(r) /\ offset' = 0 /\ current' = current + 1
  BY <1>0, <1>1, <1>2, <1>3
<1> QED  BY <1>2, <1>5, <1>6, <1>7

LEMMA TypeStep ==
  ASSUME Inductive, [Next]_vars
  PROVE  TypeOK'
<1>0. /\ TypeOK /\ Sending
      /\ changed \subseteq Pixels /\ valid \in BOOLEAN
      /\ phase \in {"compare", "collect", "send", "commit", "done"}
      /\ left \subseteq Tiles /\ reference \subseteq Pixels
      /\ texture \in [Pixels -> Pixels \cup {Old}] /\ offset \in Nat
      /\ current \in 1 .. Len(rects) + 1
      /\ Len(rects) <= MaxCandidates
  BY Zenon DEF Inductive, TypeOK
<1>1. /\ rects \in Seq(Rectangles) /\ Len(rects) \in Nat
      /\ \A i \in 1 .. Len(rects) : /\ rects[i] \in Rectangles
                                    /\ OnDisplay(rects[i])
  BY <1>0, RectsAre
\* The conjuncts the passes disturb, for steps that send nothing.
<1>2. ASSUME UNCHANGED <<changed, texture, offset, current>>,
             valid' \in BOOLEAN,
             phase' \in {"compare", "collect", "send", "commit", "done"},
             left' \subseteq Tiles, reference' \subseteq Pixels,
             rects' \in Seq(Rectangles), Len(rects') <= MaxCandidates,
             \A i \in DOMAIN rects' : OnDisplay(rects'[i]),
             current \in 1 .. Len(rects') + 1
      PROVE  TypeOK'
  <2>1. rects' \in Seq([x1 : Int, y1 : Int, x2 : Int, y2 : Int])
    BY <1>2, Zenon DEF Rectangles
  <2> QED  BY <1>0, <1>2, <2>1, Zenon DEF TypeOK
<1>3. ASSUME UNCHANGED <<changed, texture, offset, current, rects>>,
             valid' \in BOOLEAN,
             phase' \in {"compare", "collect", "send", "commit", "done"},
             left' \subseteq Tiles, reference' \subseteq Pixels
      PROVE  TypeOK'
  <2>1. \A i \in DOMAIN rects' : OnDisplay(rects'[i])
    BY <1>1, <1>3
  <2> QED  BY <1>0, <1>1, <1>2, <1>3, <2>1
<1>4. ASSUME MakeFull,
             UNCHANGED <<changed, valid, current, offset, texture, reference>>,
             phase \in {"compare", "collect"}
      PROVE  TypeOK'
  <2>1. rects' = <<FullRect>> /\ left' = {} /\ phase' = "send"
    BY <1>4 DEF MakeFull
  <2>2. /\ rects' \in Seq(Rectangles) /\ Len(rects') = 1
        /\ \A i \in DOMAIN rects' : OnDisplay(rects'[i])
    BY <2>1, FullIs
  <2>3. current = 1
    BY <1>0, <1>4 DEF Sending
  <2> QED  BY <1>0, <1>2, <1>4, <2>1, <2>2, <2>3, SizesAre
<1>5. CASE CompareInvalid \/ CompareMost \/ CollectOverflow
  BY <1>4, <1>5 DEF CompareInvalid, CompareMost, CollectOverflow
<1>6. CASE CompareUnchanged \/ CompareSome
  <2>1. Dirty \subseteq Tiles
    BY DEF Dirty
  <2> QED  BY <1>0, <1>3, <1>6, <2>1 DEF CompareUnchanged, CompareSome
<1>7. CASE CollectExtend
  <2>1. PICK i \in DOMAIN rects :
          /\ rects' = [rects EXCEPT ![i].y2 = NextRun.y2]
          /\ Extends(rects[i], NextRun)
    BY <1>7 DEF CollectExtend, Extended
  <2>2. NextRun \in Rectangles /\ OnDisplay(NextRun)
    BY <1>0, <1>7, NextRunOnDisplay DEF CollectExtend
  <2> DEFINE r == [rects[i] EXCEPT !.y2 = NextRun.y2]
  <2>3. i \in 1 .. Len(rects)
    BY <1>1, <2>1
  <2>4. r \in Rectangles /\ OnDisplay(r)
    BY <1>1, <2>1, <2>2, <2>3 DEF Rectangles, OnDisplay, Extends
  <2>5. rects' = [rects EXCEPT ![i] = r]
    BY <2>1
  <2> HIDE DEF r
  <2>6. /\ rects' \in Seq(Rectangles) /\ Len(rects') = Len(rects)
        /\ \A k \in DOMAIN rects' : OnDisplay(rects'[k])
    BY <1>1, <2>3, <2>4, <2>5
  <2>7. left' \subseteq Tiles
    BY <1>0, <1>7 DEF CollectExtend, AfterRun
  <2>8. UNCHANGED <<changed, valid, phase, current, offset, texture, reference>>
    BY <1>7 DEF CollectExtend
  <2> QED  BY <1>0, <1>2, <2>6, <2>7, <2>8
<1>8. CASE CollectNew
  <2>1. NextRun \in Rectangles /\ OnDisplay(NextRun)
    BY <1>0, <1>8, NextRunOnDisplay DEF CollectNew
  <2>2. rects' = Append(rects, NextRun) /\ Len(rects) # MaxCandidates
    BY <1>8 DEF CollectNew, AtCapacity
  <2>3. /\ rects' \in Seq(Rectangles) /\ Len(rects') = Len(rects) + 1
        /\ \A k \in DOMAIN rects' : OnDisplay(rects'[k])
    BY <1>1, <2>1, <2>2
  <2>4. left' \subseteq Tiles
    BY <1>0, <1>8 DEF CollectNew, AfterRun
  <2>5. UNCHANGED <<changed, valid, phase, current, offset, texture, reference>>
    BY <1>8 DEF CollectNew
  <2>6. Len(rects') <= MaxCandidates /\ current \in 1 .. Len(rects') + 1
    BY <1>0, <1>1, <2>2, <2>3, SizesAre
  <2> QED  BY <1>0, <1>2, <2>3, <2>4, <2>5, <2>6
<1>9. CASE Reduce
  <2>1. Len(rects) > 1 /\ current = 1
    BY <1>0, <1>9 DEF Reduce, Reduced, Sending
  <2>2. /\ BestPair[1] \in 1 .. Len(rects) /\ BestPair[2] \in 1 .. Len(rects)
        /\ BestPair[1] < BestPair[2]
    BY <1>0, <1>1, <2>1, BestPairIs DEF Pairs
  <2>3. /\ rects' \in Seq(Rectangles) /\ Len(rects') = Len(rects) - 1
        /\ \A k \in 1 .. Len(rects) - 1 : OnDisplay(rects'[k])
    BY <1>0, <1>9, <2>2, MergedIs DEF Reduce
  <2>4. \A k \in DOMAIN rects' : OnDisplay(rects'[k])
    BY <2>3
  <2>5. Len(rects') <= MaxCandidates /\ current \in 1 .. Len(rects') + 1
    BY <1>0, <1>1, <2>1, <2>3, SizesAre
  <2>6. UNCHANGED <<changed, valid, phase, left, current, offset, texture,
                    reference>>
    BY <1>9 DEF Reduce
  <2> QED  BY <1>0, <1>2, <2>3, <2>4, <2>5, <2>6
<1>10. CASE Decide
  BY <1>0, <1>3, <1>4, <1>10 DEF Decide
<1>11. CASE SendPacket
  <2>1. phase = "send" /\ current <= Len(rects)
    BY <1>11 DEF SendPacket
  <2>2. offset < Area(rects[current])
    BY <1>0, <2>1 DEF Sending
  <2>3. PICK last \in offset .. Area(rects[current]) - 1 :
          /\ texture' \in [Pixels -> Pixels \cup {Old}]
          /\ \/ offset' = last + 1 /\ current' = current
             \/ offset' = 0 /\ current' = current + 1
    BY <1>0, <1>11, <2>1, <2>2, PacketIs
  <2>4. last \in Nat
    BY <1>0
  <2>5. offset' \in Nat /\ current' \in 1 .. Len(rects) + 1
    BY <1>0, <1>1, <2>1, <2>3, <2>4
  <2>6. UNCHANGED <<changed, valid, phase, left, rects, reference>>
    BY <1>11 DEF SendPacket
  <2>7. /\ rects \in Seq([x1 : Int, y1 : Int, x2 : Int, y2 : Int])
        /\ \A i \in DOMAIN rects : OnDisplay(rects[i])
    BY <1>0, Zenon DEF TypeOK
  <2> QED  BY <1>0, <2>3, <2>5, <2>6, <2>7, Zenon DEF TypeOK
<1>12. CASE Present
  BY <1>0, <1>3, <1>12 DEF Present
<1>13. CASE Commit
  <2>1. reference' \subseteq Pixels
    BY <1>13 DEF Commit
  <2>2. valid' \in BOOLEAN /\ phase' = "done"
    BY <1>13 DEF Commit
  <2>3. UNCHANGED <<changed, left, rects, current, offset, texture>>
    BY <1>13 DEF Commit
  <2> QED  BY <1>0, <1>3, <2>1, <2>2, <2>3
<1>14. CASE UNCHANGED vars
  BY <1>0, <1>3, <1>14 DEF vars
<1> QED  BY <1>5, <1>6, <1>7, <1>8, <1>9, <1>10, <1>11, <1>12, <1>13, <1>14
         DEF Next

\* Runs, extensions, merges and the two fallbacks lose no changed pixel.
LEMMA CoverStep ==
  ASSUME Inductive, [Next]_vars
  PROVE  ChangesCovered'
<1> DEFINE InRects(p) == \E i \in DOMAIN rects : Contains(rects[i], p)
           InLeft(p)  == \E t \in left : Contains(RunRect(t[1], t[1], t[2]), p)
<1>0. /\ TypeOK /\ ChangesCovered
      /\ changed \subseteq Pixels /\ left \subseteq Tiles
      /\ changed' = changed
  <2>1. changed' = changed
    BY DEF Next, vars, CompareInvalid, CompareUnchanged, CompareMost,
           CompareSome, CollectExtend, CollectOverflow, CollectNew, Reduce,
           Decide, SendPacket, Present, Commit
  <2> QED  BY <2>1, Zenon DEF Inductive, TypeOK
<1>1. /\ rects \in Seq(Rectangles) /\ Len(rects) \in Nat
      /\ DOMAIN rects = 1 .. Len(rects)
      /\ \A i \in 1 .. Len(rects) : /\ rects[i] \in Rectangles
                                    /\ OnDisplay(rects[i])
  BY <1>0, RectsAre
<1>2. phase \in {"collect", "send", "commit"}
        => \A p \in changed : InRects(p) \/ InLeft(p)
  BY <1>0 DEF ChangesCovered
<1>3. ASSUME MakeFull  PROVE ChangesCovered'
  <2>1. 1 \in DOMAIN rects' /\ rects'[1] = FullRect
    BY <1>3 DEF MakeFull
  <2>2. \A p \in changed' : Contains(rects'[1], p)
    BY <1>0, <2>1, FullIs
  <2> QED  BY <2>1, <2>2 DEF ChangesCovered
<1>4. ASSUME UNCHANGED <<left, rects>>,
             phase \in {"collect", "send", "commit"} \/ phase' = "done"
      PROVE  ChangesCovered'
  BY <1>0, <1>2, <1>4 DEF ChangesCovered
<1>5. CASE CompareInvalid \/ CompareMost \/ CollectOverflow
  BY <1>3, <1>5 DEF CompareInvalid, CompareMost, CollectOverflow
<1>6. CASE CompareSome
  <2>1. left' = Dirty
    BY <1>6 DEF CompareSome
  <2>2. ASSUME NEW p \in changed
        PROVE  \E t \in Dirty : Contains(RunRect(t[1], t[1], t[2]), p)
    BY <1>0, TileOfPixel DEF Dirty, TileChanged
  <2> QED  BY <1>0, <2>1, <2>2 DEF ChangesCovered
<1>7. ASSUME left # {}, left' = AfterRun, phase = "collect",
             \A p \in Pixels : InRects(p) \/ Contains(NextRun, p) => InRects(p)'
      PROVE  ChangesCovered'
  <2>1. ASSUME NEW p \in changed  PROVE InRects(p)' \/ InLeft(p)'
    <3>1. p \in Pixels /\ (InRects(p) \/ InLeft(p))
      BY <1>0, <1>2, <1>7
    <3>2. CASE InRects(p)
      BY <1>7, <3>1, <3>2
    <3>3. ASSUME NEW t \in left, Contains(RunRect(t[1], t[1], t[2]), p)
          PROVE  InRects(p)' \/ InLeft(p)'
      <4>1. t \in AfterRun \/ Contains(NextRun, p)
        BY <1>0, <1>7, <3>1, <3>3, RunTakes
      <4> QED  BY <1>7, <3>1, <3>3, <4>1
    <3> QED  BY <3>1, <3>2, <3>3
  <2> QED  BY <1>0, <2>1 DEF ChangesCovered
<1>8. CASE CollectExtend
  <2>1. PICK i \in DOMAIN rects :
          /\ rects' = [rects EXCEPT ![i].y2 = NextRun.y2]
          /\ Extends(rects[i], NextRun)
    BY <1>8 DEF CollectExtend, Extended
  <2>2. NextRun \in Rectangles /\ OnDisplay(NextRun)
    BY <1>0, <1>8, NextRunOnDisplay DEF CollectExtend
  <2> DEFINE r == [rects[i] EXCEPT !.y2 = NextRun.y2]
  <2>3. /\ DOMAIN rects' = DOMAIN rects
        /\ \A k \in DOMAIN rects : rects'[k] = IF k = i THEN r ELSE rects[k]
    BY <1>1, <2>1
  <2>4. ASSUME NEW p \in Pixels, Contains(rects[i], p) \/ Contains(NextRun, p)
        PROVE  Contains(r, p)
    <3>1. p[1] \in Int /\ p[2] \in Int
      BY DEF Pixels
    <3> DEFINE a == rects[i]  b == NextRun
    <3>2. /\ a \in Rectangles /\ a.y1 < a.y2 /\ b.y1 < b.y2 /\ b \in Rectangles
          /\ a.x1 = b.x1 /\ a.x2 = b.x2 /\ a.y2 = b.y1
      BY <1>1, <2>1, <2>2 DEF OnDisplay, Extends
    <3>3. Contains(a, p) \/ Contains(b, p)
      BY <2>4
    <3> HIDE DEF a, b
    <3>4. r.x1 = a.x1 /\ r.x2 = a.x2 /\ r.y1 = a.y1 /\ r.y2 = b.y2
      BY <3>2 DEF r, a, b, Rectangles
    <3>5. /\ a.x1 \in Int /\ a.x2 \in Int /\ a.y1 \in Int /\ a.y2 \in Int
          /\ b.y1 \in Int /\ b.y2 \in Int
      BY <3>2 DEF Rectangles
    <3> QED  BY <3>1, <3>2, <3>3, <3>4, <3>5 DEF Contains
  <2> HIDE DEF r
  <2>5. \A p \in Pixels : InRects(p) \/ Contains(NextRun, p) => InRects(p)'
    BY <2>3, <2>4
  <2> QED  BY <1>7, <1>8, <2>5 DEF CollectExtend
<1>9. CASE CollectNew
  <2>1. rects' = Append(rects, NextRun)
    BY <1>9 DEF CollectNew
  <2>2. NextRun \in Rectangles
    BY <1>0, <1>9, NextRunOnDisplay DEF CollectNew
  <2>3. /\ DOMAIN rects' = DOMAIN rects \cup {Len(rects) + 1}
        /\ rects'[Len(rects) + 1] = NextRun
        /\ \A k \in DOMAIN rects : rects'[k] = rects[k]
    BY <1>1, <2>1, <2>2
  <2>4. \A p \in Pixels : InRects(p) \/ Contains(NextRun, p) => InRects(p)'
    BY <2>3
  <2> QED  BY <1>7, <1>9, <2>4 DEF CollectNew
<1>10. CASE Reduce
  <2>1. /\ Len(rects) > 1 /\ phase = "collect" /\ left = {}
        /\ rects' = Merged(BestPair[1], BestPair[2])
        /\ UNCHANGED <<left, phase>>
    BY <1>1, <1>10 DEF Reduce, Reduced
  <2>2. /\ BestPair[1] \in 1 .. Len(rects) /\ BestPair[2] \in 1 .. Len(rects)
        /\ BestPair[1] < BestPair[2]
    BY <1>0, <1>1, <2>1, BestPairIs DEF Pairs
  <2>3. /\ rects' \in Seq(Rectangles) /\ Len(rects') = Len(rects) - 1
        /\ \A p \in Pixels : \A k \in 1 .. Len(rects) :
             Contains(rects[k], p)
               => \E m \in 1 .. Len(rects) - 1 : Contains(rects'[m], p)
    BY <1>0, <2>1, <2>2, MergedIs
  <2>4. DOMAIN rects' = 1 .. Len(rects) - 1
    BY <2>3
  <2>5. \A p \in changed : InRects(p)
    BY <1>2, <2>1
  <2>6. \A p \in changed : InRects(p)'
    BY <1>0, <1>1, <2>3, <2>4, <2>5
  <2> QED  BY <1>0, <2>6 DEF ChangesCovered
<1>11. CASE Decide
  BY <1>3, <1>4, <1>11 DEF Decide
<1>12. CASE CompareUnchanged \/ SendPacket \/ Present \/ Commit
  BY <1>4, <1>12 DEF CompareUnchanged, SendPacket, Present, Commit
<1>13. CASE UNCHANGED vars
  BY <1>0, <1>13 DEF ChangesCovered, vars
<1> QED  BY <1>5, <1>6, <1>8, <1>9, <1>10, <1>11, <1>12, <1>13 DEF Next

\* The device has exactly the pixels of the packets so far.
LEMMA SendingStep ==
  ASSUME Inductive, [Next]_vars
  PROVE  Sending'
<1>0. /\ TypeOK /\ Sending /\ TypeOK'
      /\ offset \in Nat /\ current \in 1 .. Len(rects) + 1
  BY TypeStep, Zenon DEF Inductive, TypeOK
<1>1. /\ rects \in Seq(Rectangles) /\ Len(rects) \in Nat
      /\ \A i \in 1 .. Len(rects) : /\ rects[i] \in Rectangles
                                    /\ OnDisplay(rects[i])
  BY <1>0, RectsAre
\* Nothing is sent before the first packet, whatever the rectangles.
<1>2. current = 1 /\ offset = 0 => Sent = {}
  BY DEF Sent
<1>3. current' = 1 /\ offset' = 0 => Sent' = {}
  BY DEF Sent
\* The two passes and the merges send nothing.
<1>4. ASSUME UNCHANGED <<current, offset, texture, reference>>,
             phase \in {"compare", "collect"},
             \/ phase' \in {"collect", "done"}
             \/ /\ phase' = "send" /\ left' = {}
                /\ Len(rects') >= 1 => 0 < Area(rects'[1])
                /\ Len(rects') \in Nat
      PROVE  Sending'
  <2>1. current = 1 /\ offset = 0 /\ Sent = {} /\ Sent' = {}
    BY <1>0, <1>2, <1>3, <1>4 DEF Sending
  <2> QED  BY <1>0, <1>4, <2>1 DEF Sending
<1>5. ASSUME MakeFull, UNCHANGED <<current, offset, texture, reference>>,
             phase \in {"compare", "collect"}
      PROVE  Sending'
  <2>1. /\ phase' = "send" /\ left' = {}
        /\ Len(rects') = 1 /\ rects'[1] = FullRect
    BY <1>5 DEF MakeFull
  <2> QED  BY <1>4, <1>5, <2>1, FullIs
<1>6. CASE CompareInvalid \/ CompareMost \/ CollectOverflow
  BY <1>5, <1>6 DEF CompareInvalid, CompareMost, CollectOverflow
<1>7. CASE CompareUnchanged \/ CompareSome \/ CollectExtend \/ CollectNew
             \/ Reduce
  BY <1>4, <1>7 DEF CompareUnchanged, CompareSome, CollectExtend, CollectNew,
                    Reduce
<1>8. CASE Decide
  <2>1. CASE MakeFull
    BY <1>5, <1>8, <2>1 DEF Decide
  <2>2. CASE ~MakeFull
    <3>1. /\ phase = "collect" /\ phase' = "send"
          /\ left' = {} /\ rects' = rects
          /\ UNCHANGED <<current, offset, texture, reference>>
      BY <1>8, <2>2 DEF Decide
    <3>2. Len(rects) >= 1 => 0 < Area(rects[1])
      <4> SUFFICES ASSUME Len(rects) >= 1  PROVE 0 < Area(rects[1])
        OBVIOUS
      <4>1. Area(rects[1]) \in Nat \ {0}
        BY <1>1, AreaIs
      <4> QED  BY <4>1
    <3> QED  BY <1>1, <1>4, <3>1, <3>2
  <2> QED  BY <2>1, <2>2
<1>9. CASE SendPacket
  <2> DEFINE r == rects[current]
  <2>1. /\ phase = "send" /\ current \in 1 .. Len(rects)
        /\ UNCHANGED <<phase, left, rects, reference>>
    BY <1>0, <1>1, <1>9 DEF SendPacket
  <2>2. /\ offset < Area(r) /\ left = {} /\ reference = {}
        /\ \A p \in Pixels : texture[p] = IF p \in Sent THEN p ELSE Old
    BY <1>0, <2>1 DEF Sending
  <2>3. PICK last \in offset .. Area(r) - 1 :
          /\ \A p \in Pixels :
               texture'[p] = IF \E n \in offset .. last : Place(r, n) = p
                             THEN p ELSE texture[p]
          /\ \/ /\ last + 1 < Area(r) /\ offset' = last + 1
                /\ current' = current
             \/ /\ last + 1 = Area(r) /\ offset' = 0
                /\ current' = current + 1
    BY <1>0, <1>9, <2>1, <2>2, PacketIs
  <2>4. r \in Rectangles /\ OnDisplay(r) /\ Area(r) \in Nat /\ last \in Nat
    BY <1>0, <1>1, <2>1, AreaIs
  <2> DEFINE Before1(p) == \E i \in 1 .. current - 1 : Contains(rects[i], p)
             Upto(p, m) == \E n \in 0 .. m - 1 : Place(r, n) = p
  <2>5. \A p \in Pixels : p \in Sent <=> Before1(p) \/ Upto(p, offset)
    BY <2>1 DEF Sent
  <2>6. \A p \in Pixels : Upto(p, last + 1) <=>
          Upto(p, offset) \/ \E n \in offset .. last : Place(r, n) = p
    BY <1>0, <2>3, <2>4
  <2>7. \A p \in Pixels : p \in Sent' <=> Before1(p) \/ Upto(p, last + 1)
    <3>1. CASE last + 1 < Area(r)
      BY <2>1, <2>3, <2>4, <3>1 DEF Sent
    <3>2. CASE last + 1 = Area(r)
      <4>1. current' = current + 1 /\ offset' = 0
        BY <2>3, <2>4, <3>2
      <4>2. \A p \in Pixels : Contains(r, p) <=> Upto(p, last + 1)
        BY <2>4, <3>2, PlacesAre
      <4>3. \A p \in Pixels : p \in Sent' <=>
              \E i \in 1 .. current : Contains(rects[i], p)
        BY <1>0, <2>1, <4>1 DEF Sent
      <4>4. \A p \in Pixels :
              (\E i \in 1 .. current : Contains(rects[i], p))
                <=> Before1(p) \/ Contains(r, p)
        BY <1>1, <2>1
      <4> QED  BY <4>2, <4>3, <4>4
    <3> QED  BY <2>3, <3>1, <3>2
  <2>8. \A p \in Pixels : texture'[p] = IF p \in Sent' THEN p ELSE Old
    BY <2>2, <2>3, <2>5, <2>6, <2>7
  <2>9. IF current' <= Len(rects') THEN offset' < Area(rects'[current'])
                                   ELSE offset' = 0
    <3>1. CASE last + 1 < Area(r)
      BY <2>1, <2>3, <2>4, <3>1
    <3>2. CASE last + 1 = Area(r)
      <4>1. current' = current + 1 /\ offset' = 0
        BY <2>3, <2>4, <3>2
      <4>2. current' <= Len(rects) => Area(rects[current']) \in Nat \ {0}
        BY <1>1, <2>1, <4>1, AreaIs
      <4> QED  BY <2>1, <4>1, <4>2
    <3> QED  BY <2>3, <3>1, <3>2
  <2> QED  BY <2>1, <2>2, <2>8, <2>9 DEF Sending
<1>10. CASE Present
  <2>1. /\ phase = "send" /\ phase' = "commit" /\ current > Len(rects)
        /\ UNCHANGED <<left, rects, current, offset, texture, reference>>
    BY <1>10 DEF Present
  <2>2. Sent' = Sent
    BY <2>1 DEF Sent
  <2> QED  BY <1>0, <1>1, <2>1, <2>2 DEF Sending
<1>11. CASE Commit
  BY <1>11 DEF Commit, Sending
<1>12. CASE UNCHANGED vars
  <2>1. Sent' = Sent
    BY <1>12 DEF Sent, vars
  <2> QED  BY <1>0, <1>12, <2>1 DEF Sending, vars
<1> QED  BY <1>6, <1>7, <1>8, <1>9, <1>10, <1>11, <1>12 DEF Next

\* When the last packet is through, or nothing had changed, the device has the
\* frame, and the reference what was sent.
LEMMA ArriveStep ==
  ASSUME Inductive, [Next]_vars
  PROVE  FrameArrives'
<1>0. /\ TypeOK /\ ChangesCovered /\ FrameArrives
      /\ Sending /\ changed \subseteq Pixels
      /\ current \in 1 .. Len(rects) + 1 /\ Len(rects) \in Nat
      /\ DOMAIN rects = 1 .. Len(rects)
  <2>1. /\ TypeOK /\ ChangesCovered /\ FrameArrives
        /\ Sending /\ changed \subseteq Pixels
        /\ current \in 1 .. Len(rects) + 1
    BY Zenon DEF Inductive, TypeOK
  <2> QED  BY <2>1, RectsAre
<1>1. \A p \in Pixels : p # Old
  BY DEF Pixels, Old
<1>2. CASE CompareUnchanged
  <2>1. /\ Dirty = {} /\ phase = "compare"
        /\ UNCHANGED <<changed, current, offset, texture, reference>>
    BY <1>2 DEF CompareUnchanged
  <2>2. changed = {}
    BY <1>0, <2>1, TileOfPixel DEF Dirty, TileChanged
  <2>3. Sent = {}
    BY <1>0, <2>1 DEF Sending, Sent
  <2>4. reference = {} /\ \A p \in Pixels : texture[p] = Old
    BY <1>0, <2>1, <2>3 DEF Sending
  <2> QED  BY <1>1, <2>1, <2>2, <2>4 DEF FrameArrives
\* All rectangles are through.
<1>3. ASSUME current = Len(rects) + 1, phase \in {"send", "commit"},
             phase = "send" => offset = 0
      PROVE  /\ \A p \in changed : \E i \in DOMAIN rects : Contains(rects[i], p)
             /\ \A p \in Pixels :
                  texture[p] = IF \E i \in DOMAIN rects : Contains(rects[i], p)
                               THEN p ELSE Old
  <2>1. /\ left = {}
        /\ \A p \in Pixels : texture[p] = IF p \in Sent THEN p ELSE Old
    BY <1>0, <1>3 DEF Sending
  <2>2. \A p \in changed : \E i \in DOMAIN rects : Contains(rects[i], p)
    BY <1>0, <1>3, <2>1 DEF ChangesCovered
  <2>3. \A p \in Pixels :
          p \in Sent <=> \E i \in DOMAIN rects : Contains(rects[i], p)
    BY <1>0, <1>3 DEF Sent
  <2> QED  BY <2>1, <2>2, <2>3
<1>4. CASE Present
  <2>1. /\ phase = "send" /\ phase' = "commit" /\ current = Len(rects) + 1
        /\ UNCHANGED <<changed, rects, texture>>
    BY <1>0, <1>4 DEF Present
  <2>2. offset = 0
    BY <1>0, <2>1 DEF Sending
  <2> QED  BY <1>0, <1>3, <2>1, <2>2 DEF FrameArrives
<1>5. CASE Commit
  <2>1. /\ phase = "commit" /\ phase' = "done"
        /\ UNCHANGED <<changed, texture>>
        /\ reference' = IF IsFull(rects) THEN Pixels
                        ELSE {p \in Pixels : \E i \in DOMAIN rects :
                                               Contains(rects[i], p)}
    BY <1>5 DEF Commit
  <2>2. current = Len(rects) + 1
    BY <1>0, <2>1 DEF Sending
  <2>3. \A p \in Pixels :
          p \in reference' <=> \E i \in DOMAIN rects : Contains(rects[i], p)
    <3>1. CASE IsFull(rects)
      <4>1. 1 \in DOMAIN rects /\ rects[1] = FullRect
        BY <3>1 DEF IsFull
      <4> QED  BY <2>1, <3>1, <4>1, FullIs
    <3>2. CASE ~IsFull(rects)
      BY <2>1, <3>2
    <3> QED  BY <3>1, <3>2
  <2>4. /\ \A p \in changed : \E i \in DOMAIN rects : Contains(rects[i], p)
        /\ \A p \in Pixels :
             texture[p] = IF \E i \in DOMAIN rects : Contains(rects[i], p)
                          THEN p ELSE Old
    BY <1>3, <2>1, <2>2
  <2>5. \A p \in Pixels :
          texture'[p] = p \/ (texture'[p] = Old /\ p \notin changed')
    BY <1>0, <2>1, <2>4
  <2>6. \A p \in Pixels : p \in reference' <=> texture'[p] # Old
    BY <1>1, <2>1, <2>3, <2>4
  <2> QED  BY <2>5, <2>6 DEF FrameArrives
<1>6. CASE UNCHANGED vars
  BY <1>0, <1>6 DEF vars, FrameArrives
<1>7. CASE ~(CompareUnchanged \/ Present \/ Commit \/ UNCHANGED vars)
  <2>1. phase' \in {"collect", "send"}
    BY <1>7 DEF Next, CompareInvalid, CompareMost, CompareSome, CollectExtend,
                CollectOverflow, CollectNew, Reduce, Decide, SendPacket,
                MakeFull
  <2> QED  BY <2>1 DEF FrameArrives
<1> QED  BY <1>2, <1>4, <1>5, <1>6, <1>7

------------------------------------------------------------------------------
(* The theorems                                                            *)

\* A frame is compared with a device that has none of it.
LEMMA InitInductive ==
  ASSUME Init
  PROVE  Inductive
<1>1. /\ rects = <<>> /\ left = {} /\ current = 1 /\ offset = 0
      /\ phase = "compare" /\ reference = {}
      /\ texture = [p \in Pixels |-> Old] /\ valid \in BOOLEAN
      /\ changed \in SUBSET Samples
  BY DEF Init
<1>2. TypeOK
  <2>1. changed \subseteq Pixels
    BY <1>1, SamplesAssumption
  <2>2. /\ rects \in Seq([x1 : Int, y1 : Int, x2 : Int, y2 : Int])
        /\ Len(rects) <= MaxCandidates
        /\ \A i \in DOMAIN rects : OnDisplay(rects[i])
        /\ current \in 1 .. Len(rects) + 1 /\ offset \in Nat
    BY <1>1, SizesAre
  <2>3. texture \in [Pixels -> Pixels \cup {Old}]
    BY <1>1
  <2> QED  BY <1>1, <2>1, <2>2, <2>3 DEF TypeOK
<1>3. Sent = {}
  BY <1>1 DEF Sent
<1>4. Sending
  BY <1>1, <1>3 DEF Sending
<1>5. ChangesCovered /\ FrameArrives
  BY <1>1 DEF ChangesCovered, FrameArrives
<1> QED  BY <1>2, <1>4, <1>5 DEF Inductive

\* The inductive invariant of a frame on its way to the device.
THEOREM InductiveInvariant == Spec => []Inductive
<1>1. Init => Inductive
  BY InitInductive
<1>2. Inductive /\ [Next]_vars => Inductive'
  BY TypeStep, CoverStep, SendingStep, ArriveStep DEF Inductive
<1> QED  BY <1>1, <1>2, PTL DEF Spec

\* The array of rectangles is never overrun, and no rectangle is empty or
\* reaches beyond the display, for every size of display, tile and packet.
THEOREM TypeCorrect == Spec => []TypeOK
<1>1. Inductive => TypeOK
  BY DEF Inductive
<1> QED  BY <1>1, InductiveInvariant, PTL

\* grape_scanout_diff and grape_damage_reduce lose no changed pixel.
THEOREM NoChangeLost == Spec => []ChangesCovered
<1>1. Inductive => ChangesCovered
  BY DEF Inductive
<1> QED  BY <1>1, InductiveInvariant, PTL

\* After the last packet the texture shows the frame: every pixel of it was sent
\* to its own place, or was there already.  grape_scanout_commit_displayed takes
\* over exactly what the device was sent.
THEOREM DeviceHasFrame == Spec => []FrameArrives
<1>1. Inductive => FrameArrives
  BY DEF Inductive
<1> QED  BY <1>1, InductiveInvariant, PTL

=============================================================================
