---------------------------- MODULE MCMapSystem ----------------------------
(* Instances of MapSystem for TLC.                                          *)
EXTENDS MapSystemInv, TLC

Setting(a, b) == [alg |-> a, blocks |-> b]

MCCompressions ==
  {Setting("None", {}), Setting("Auto", {}),
   Setting("Zlib", {"Directory"}), Setting("Zlib", {"Tiles"}),
   Setting("Zlib", {"Directory", "Tiles"})}
MCLZ4 == {Setting("LZ4", b) : b \in {{"Directory"}, {"Tiles"}, {"Directory", "Tiles"}}}
MCAllCompressions == MCCompressions \cup MCLZ4

MCPackers         == {Setting("None", {}), Setting("Auto", {}), Setting("Zlib", {"Tiles"})}

MCDirFormats == {"Auto", "Bitmask", "Hybrid"}
MCSymmetry == Permutations(Rasters)
=============================================================================
