-------------------------- MODULE MCGlassEventLoop --------------------------
(* GlassEventLoop on small sets of runnables, loops, events and threads. *)
EXTENDS GlassEventLoop, TLC

Symmetry == Permutations(Runnables) \cup Permutations(Loops) \cup Permutations(Events)
=============================================================================
