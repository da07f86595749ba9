---------------------------- MODULE MCMapPicture ----------------------------
(* Instances of MapPicture for TLC: a grid of 3 x 2 cells of 2 x 2 texels.  *)
EXTENDS MapPicture

Point(layer, home) == [layer |-> layer, home |-> home, texels |-> {}, fill |-> FALSE]
Shape(layer, home, texels, fill) ==
  [layer |-> layer, home |-> home, texels |-> texels, fill |-> fill]

Box(x0, x1, y0, y1) == (x0 .. x1) \X (y0 .. y1)

(* The outline of a crown over four cells, one open to a side, one that     *)
(* leaves the grid, a trunk beside its home, and one wholly outside.        *)
Ring  == Box(0, 3, 0, 3) \ Box(1, 2, 1, 2)
Bay   == Ring \ {<<0, 1>>}
Cut   == Box(4, 7, 1, 4) \ Box(5, 6, 2, 3)
Trunk == Box(2, 2, 1, 2)
Away  == Box(6, 7, 0, 1)

(* Too large for the scratch at two texels to a cell's side.                *)
Broad == Box(0, 5, 0, 3) \ Box(2, 4, 1, 2)

MCLevels ==
  {<<Point("Tree", <<0, 0>>), Point("Grass", <<2, 1>>), Point("Tree", <<0, 0>>)>>,
   <<Point("Bush", <<-1, 0>>), Point("Grass", <<2, 0>>), Point("Bush", <<1, 1>>)>>,
   <<Shape("Tree", <<0, 1>>, Ring, TRUE), Point("Bush", <<1, 0>>)>>,
   <<Shape("Grass", <<2, 1>>, Cut, TRUE), Shape("Grass", <<0, 0>>, Trunk, FALSE)>>,
   <<Shape("Grass", <<1, 1>>, Broad, TRUE)>>,
   <<Shape("Bush", <<2, 0>>, Away, FALSE), Shape("Tree", <<1, 1>>, Bay, TRUE)>>}

MCFewLevels == {<<Point("Tree", <<0, 0>>), Point("Grass", <<2, 1>>)>>}
=============================================================================
