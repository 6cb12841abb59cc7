---------------------------- MODULE MCEventLoop -----------------------------
(***************************************************************************)
(* EventLoop with its sets given as model values.  Every functor is handed   *)
(* over at most once, so the number of functors bounds pending and executed  *)
(* and the state space is finite without any constraint.                     *)
(***************************************************************************)
EXTENDS EventLoop

=============================================================================
