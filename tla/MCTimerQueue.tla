---------------------------- MODULE MCTimerQueue ----------------------------
(***************************************************************************)
(* TimerQueue with two timers and two places for them, so that memory is     *)
(* reused while old TimerIds are around.                                     *)
(***************************************************************************)
EXTENDS TimerQueue

=============================================================================
