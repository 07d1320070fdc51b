----------------------------- MODULE MCPipeline -----------------------------
(***************************************************************************)
(* Small instances of Pipeline.                                            *)
(***************************************************************************)
EXTENDS PipelineProperties, TLC

Symmetry == Permutations(Users \ {Host}) \cup Permutations(Keys)
=============================================================================
