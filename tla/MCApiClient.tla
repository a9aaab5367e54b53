----------------------------- MODULE MCApiClient -----------------------------
(* Model values for the client: one account, a browser with two tabs. *)
EXTENDS ApiClient, TLC

CONSTANTS u1, u2, r1, r2, t1, t2, c1, c2, c3

OneUser == {u1}
TwoUsers == {u1, u2}
OneRequest == {r1}
TwoRequests == {r1, r2}
TwoTabs == {t1, t2}
ThreeCalls == {c1, c2, c3}
Where == (c1 :> t1) @@ (c2 :> t1) @@ (c3 :> t2)

(* The calls of one tab are interchangeable. *)
Interchangeable == Permutations({c1, c2})

(* The properties say nothing of what follows the end of the calm. *)
Calm == calm
=============================================================================
