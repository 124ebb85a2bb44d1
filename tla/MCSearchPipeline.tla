--------------------------- MODULE MCSearchPipeline ---------------------------
(* Small instances of the Search pipeline.                                 *)
EXTENDS SearchPipeline, TLC

WorkerSymmetry == Permutations(Workers)
=============================================================================
