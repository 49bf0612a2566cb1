--------------------------- MODULE MCGrapeClient ---------------------------
(* Sizes for GrapeClient: displays that are wide, tall and narrow, and     *)
(* every screenshot of up to four pixels a side.                           *)
EXTENDS GrapeClient

MCDisplays == {<<3, 2>>, <<2, 3>>, <<1, 4>>}
MCPictures == (1 .. 4) \X (1 .. 4)

=============================================================================
