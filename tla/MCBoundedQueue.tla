--------------------------- MODULE MCBoundedQueue ---------------------------
(***************************************************************************)
(* Instances of BoundedQueue for TLC: the threads and elements are model   *)
(* values declared in the configurations.                                  *)
(***************************************************************************)
EXTENDS BoundedQueue

\* A queue of one slot, and the smallest in which two slots can be free at
\* once while two pushers wait.
SmallCapacities == {1, 2}
=============================================================================
