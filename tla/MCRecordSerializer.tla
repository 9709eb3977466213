-------------------------- MODULE MCRecordSerializer --------------------------
(* Instances of RecordSerializer for TLC. *)
EXTENDS RecordSerializer
===============================================================================
