------------------------------- MODULE MC_Stream -------------------------------
(***************************************************************************)
(* Instances of StreamUses for TLC.                                        *)
(***************************************************************************)
EXTENDS StreamUses, SequencesExt

(* Arrays of at most three elements of at most two bytes, some empty.      *)
ShortArrays == SeqOf(0..2, 3)

(* The client's packets, one without a body, and one of another thread.    *)
ThreeBodies == <<3, 0, 1>>

(* What a header may tell that is not where it should be: a packet of no   *)
(* bytes, one shorter than a header, and one with a body.                  *)
GarbledLengths == {-3, -1, 2}

ASSUME Conn!ConstantsFit /\ Vec!ConstantsFit
=============================================================================
