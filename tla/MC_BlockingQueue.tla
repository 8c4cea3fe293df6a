--------------------------- MODULE MC_BlockingQueue ---------------------------
(* Instances of BlockingQueue for TLC.                                      *)
EXTENDS BlockingQueue, TLC

CONSTANTS p1, p2, c1, c2

(* TimerManager's use: untimed calls only, several consumers.               *)
UntimedCalls == (p1 :> {"Push"}) @@ (p2 :> {"Push"}) @@ (c1 :> {"Pop"}) @@ (c2 :> {"Pop"})

(* Everything the class offers, in the hands of any thread.                 *)
AllCalls == [t \in {p1, c1, c2} |-> PushOps \cup PopOps \cup
                                     (IF t = p1 THEN {"SetCapacity"} ELSE {})]

ValueSymmetry == Permutations(Values)
=============================================================================
