------------------------------ MODULE AuthProps ------------------------------
(***************************************************************************)
(* What the authentication service is expected to guarantee, with any      *)
(* number of requests at a time: unconditionally, or as long as no two     *)
(* requests meet on the same token or the same user.                       *)
(***************************************************************************)
EXTENDS Auth

(* A refresh token with a successor is dead: the old token is burned in the   *)
(* transaction that issues the new one (refresh 177), and nothing that runs   *)
(* at the same time brings it back.                                           *)
AncestorsBurned ==
  \A t \in Tokens : session[t].from # 0 => session[session[t].from].state = "revoked"

(* "never leave a half-created org+user pair" (signup 112), and a lost race   *)
(* for an e-mail address leaves no second organization behind.                *)
OneOrgPerAccount ==
  \A u \in Users : orgs[u] = IF account[u] THEN 1 ELSE 0

-----------------------------------------------------------------------------
(* What requests must not do at the same time. *)

(* Two refreshes have read the same token and not answered yet. *)
RefreshesApart ==
  \A q, r \in Requests :
    req[q].pc = "issue" /\ req[r].pc = "issue" /\ req[q].tok = req[r].tok /\ req[q].tok # 0
      => q = r

(* A login or refresh of a user is between its read and its commit while the  *)
(* sessions of that user are being ended.                                     *)
EndsApart ==
  \A q, r \in Requests :
    req[q].pc = "issue" /\ req[r].pc \in {"sweeping", "resetting"} => req[q].user # req[r].user

(* Two password resets have read the same reset token. *)
Resetting(r) == req[r].pc \in {"reset", "resetting"}

ResetsApart ==
  \A q, r \in Requests :
    Resetting(q) /\ Resetting(r) /\ req[q].tok = req[r].tok => q = r

-----------------------------------------------------------------------------
(* "A token can therefore be used exactly once" (5-7), "there is never a      *)
(* moment with two live tokens" (177-178).                                    *)
UsedOnce ==
  \A m, n \in Tokens : session[m].from = session[n].from /\ session[m].from # 0 => m = n

(* It takes two refreshes of one token at the same time to rotate it twice:   *)
(* rotations of other tokens, logouts, replays and resets may overlap it.     *)
RotationIsSingleUse == []RefreshesApart => []UsedOnce

(* "we revoke ALL of the user's sessions and force re-login" (8-9), "every    *)
(* existing session is suspect" (238): a live session stems from a login      *)
(* verified after the last replay or password reset.                          *)
OnlyFreshLogins ==
  \A t \in Tokens : session[t].state = "live" => session[t].era = era[session[t].user]

(* Only a login or refresh that is in flight when the sessions of its user    *)
(* are ended gets past it.                                                    *)
SweepsAreFinal == []EndsApart => []OnlyFreshLogins

(* A password reset token is "single-use" (reset_password 237).               *)
ResetOnce == \A p \in Resets : resets[p].uses <= 1

(* It takes two resets with one token at the same time to use it twice.       *)
ResetIsSingleUse == []ResetsApart => []ResetOnce

=============================================================================
