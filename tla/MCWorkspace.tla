----------------------------- MODULE MCWorkspace -----------------------------
(* Model values for the workspace: two runs that overlap, the requests of    *)
(* the tab and of other clients.                                             *)
EXTENDS IntelligenceTab, TLC

CONSTANTS r1, r2, q1, q2

TwoRuns == {r1, r2}
TwoRequests == {q1, q2}
Interchangeable == Permutations(TwoRuns) \union Permutations(TwoRequests)
=============================================================================
