------------------------ MODULE MCPlatformLifecycle ------------------------
(* PlatformLifecycle with a few threads and a few calls each. *)
EXTENDS PlatformLifecycle, TLC

Symmetry == Permutations(Threads)
=============================================================================
