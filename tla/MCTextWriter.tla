---------------------------- MODULE MCTextWriter ----------------------------
(* Instances of TextWriter for TLC. *)
EXTENDS TextWriter
=============================================================================
