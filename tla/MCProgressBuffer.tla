-------------------------- MODULE MCProgressBuffer --------------------------
(* Instances of ProgressBuffer for TLC. *)
EXTENDS ProgressBuffer

=============================================================================
