--------------------------- MODULE MCKernelTurns ---------------------------
(* Small instances of KernelTurns for TLC.                                 *)
EXTENDS KernelTurns, TLC

(* Ids carry no structure, so permuting threads, turns or callers changes  *)
(* nothing a safety property can see.                                      *)
Symmetry == Permutations(Threads) \cup Permutations(Turns) \cup
            Permutations(Callers)

(* Creating a session commutes with every other step, and so does removing *)
(* one that never had a turn.  The runs therefore create their sessions    *)
(* before the first turn begins and remove only those with a turn.        *)
(* kernel_selftest, which begins a turn in the same step, creates its      *)
(* session whenever it likes.  Only commands are constrained, and they are *)
(* under no fairness.                                                      *)
SessionsFirst ==
    \A t \in Threads :
        /\ thread[t] = "absent" /\ thread'[t] = "open" =>
               owner' # owner \/ \A u \in Turns : ~Begun(u)
        /\ thread[t] = "open" /\ thread'[t] = "deleted" => TurnsOf(t) # {}

(* For the liveness runs, where symmetry is unsound: IdGen hands ids out   *)
(* in increasing order.                                                    *)
IdsInOrder ==
    /\ \A t, v \in Threads :
           t < v /\ thread'[v] # "absent" => thread'[t] # "absent"
    /\ \A u, w \in Turns : u < w /\ owner'[w] # None => owner'[u] # None
=============================================================================
