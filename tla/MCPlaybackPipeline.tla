------------------------- MODULE MCPlaybackPipeline -------------------------
(* Instances of PlaybackPipeline for TLC. *)
EXTENDS PlaybackPipeline

=============================================================================
