---------------------------- MODULE MCTurnStore ----------------------------
(* Small instances of TurnStore for TLC.                                   *)
EXTENDS TurnStore, TLC

(* Ids carry no structure a safety property can see.                       *)
Symmetry == Permutations(Threads) \cup Permutations(Turns)

(* Leaving the floor is invisible to the UI and commutes with every step   *)
(* but taking the floor, so nothing is lost when it happens at once.       *)
FloorLeftAtOnce ==
    \A u \in Turns :
        floor = u /\ Kernel!Said(u, "turn/completed") => floor' = None

(* Two scenarios share a run: two turns that overlap, whose text does not  *)
(* matter, and one whose answer streams while the user leaves and comes    *)
(* back.  Each has bounds of its own.                                      *)
Scenarios ==
    LET two    == \A u \in Turns : of'[u] # None
        chunks == \E u \in Turns : Deltas(u)' > 0
    IN  /\ two => ~chunks /\ moves' <= 1
        /\ chunks \/ moves' > 1 => BagCardinality(loads') <= 2
=============================================================================
