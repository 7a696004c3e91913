------------------------------ MODULE MCDataflow ------------------------------
(* Small instances of Dataflow for TLC. *)
EXTENDS Dataflow
=============================================================================
