------------------------------ MODULE MCScanout ------------------------------
(* Three frames of two tiles: any two differ in the one, in the other or   *)
(* in both tiles.                                                          *)
EXTENDS Scanout

CONSTANTS a, red

MCDrawn ==
  {[t \in Tiles |-> Black], [t \in Tiles |-> red],
   [t \in Tiles |-> IF t = a THEN red ELSE Black]}

==============================================================================
