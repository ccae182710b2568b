---------------------------- MODULE MCMultiDisk ----------------------------
(* Instances of MultiDisk for TLC. *)
EXTENDS MultiDisk
=============================================================================
