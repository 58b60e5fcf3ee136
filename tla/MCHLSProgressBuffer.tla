------------------------- MODULE MCHLSProgressBuffer -------------------------
(* Instances of HLSProgressBuffer for TLC. *)
EXTENDS HLSProgressBuffer
=============================================================================
