---------------------------- MODULE MCDamageSet ----------------------------
(* A display whose edge tiles are cut off in both directions.              *)
EXTENDS DamageSet

\* One pixel of each tile may differ: the last one, at the tile's far corner.
MCSamples ==
  {<<Lower((t[1] + 1) * TileSize, Width) - 1,
     Lower((t[2] + 1) * TileSize, Height) - 1>> : t \in Tiles}

=============================================================================
