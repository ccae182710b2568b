----------------------------- MODULE MCTLSRWLock -----------------------------
(* Instance of TLSRWLock for TLC; the configuration gives the bounds. *)
EXTENDS TLSRWLock
=============================================================================
