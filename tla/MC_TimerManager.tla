--------------------------- MODULE MC_TimerManager ---------------------------
(* Instances of TimerManager for TLC.                                      *)
EXTENDS TimerManager, TLC

(* Timers are interchangeable: sound for invariants and safety properties. *)
TimerSymmetry == Permutations(Timers)
=============================================================================
