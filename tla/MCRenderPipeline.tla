-------------------------- MODULE MCRenderPipeline --------------------------
(* RenderPipeline with two scenes. *)
EXTENDS RenderPipeline, TLC

Symmetry == Permutations(Scenes)
=============================================================================
