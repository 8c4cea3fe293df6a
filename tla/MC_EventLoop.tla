---------------------------- MODULE MC_EventLoop ----------------------------
(* Small instances of EventLoop for TLC. *)
EXTENDS EventLoop, TLC

(* Handlers are interchangeable: sound for invariants and for the safety  *)
(* property ImplementsLifetime.                                            *)
Symmetry == Permutations(Handlers)
=============================================================================
