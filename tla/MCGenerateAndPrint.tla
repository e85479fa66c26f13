------------------------- MODULE MCGenerateAndPrint -------------------------
(***************************************************************************)
(* Squares with three hatches, on up to three layers.                      *)
(***************************************************************************)
EXTENDS GenerateAndPrint

CONSTANT MaxLayers

MCLayerArgs == -1 .. MaxLayers

MCJobs == {SquareJob(n) : n \in 0 .. MaxLayers}
=============================================================================
