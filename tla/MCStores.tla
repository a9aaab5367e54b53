------------------------------- MODULE MCStores -------------------------------
(* Model values for the configurations of the stores. *)
EXTENDS Stores, TLC

CONSTANTS m1, w1, w2

OneMeeting == {m1}
TwoWorkers == {w1, w2}

Symmetry == Permutations(TwoWorkers)
=============================================================================
