------------------------------- MODULE MCAuth -------------------------------
(* Model values for the configuration of the authentication service. *)
EXTENDS AuthProps

CONSTANTS u1, r1, r2

OneUser == {u1}
TwoRequests == {r1, r2}

(* Bound: a behaviour with more sweeps has fewer tokens. *)
Small == \A u \in Users : issued + era[u] <= 4
=============================================================================
