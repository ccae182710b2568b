--------------------------- MODULE MCThreadPoolUse ---------------------------
(* Instance of ThreadPoolUse for TLC. *)
EXTENDS ThreadPoolUse

\* Two classes of tasks, one of them with two sequence numbers.
TwoClasses == {<<0, 1>>, <<1, 0>>, <<1, 1>>}
=============================================================================
