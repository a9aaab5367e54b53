-------------------------------- MODULE MCChat --------------------------------
(* Model values for the configurations of the chat: a user with two tabs, a   *)
(* meeting of the user's organization and one of another.                     *)
EXTENDS ChatPage, TLC

CONSTANTS me, m1, m2, a1, a2

OneUser == {me}
TwoMeetings == {m1, m2}
TwoSessions == {1, 2}
TwoAsks == {a1, a2}
OneAsk == {a1}
TwoOrgs == me :> 1 @@ m1 :> 1 @@ m2 :> 2
=============================================================================
