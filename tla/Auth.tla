-------------------------------- MODULE Auth --------------------------------
(***************************************************************************)
(* Accounts, refresh tokens and password reset tokens (auth_service.py)    *)
(* under concurrent requests.  A request reads rows, decides, and later    *)
(* commits.  An UPDATE of a row known by its id and the commit after it    *)
(* are one step: the row is locked in between.  The UPDATE of all rows of  *)
(* a user is a step of its own, for it passes over rows that are committed *)
(* before its transaction is.  Waiting for row locks is left out: it only  *)
(* takes interleavings away.                                               *)
(***************************************************************************)
EXTENDS Naturals

CONSTANTS
  Users,         \* e-mail addresses
  Requests,      \* requests that may be served at the same time
  NoUser,        \* the user of an idle request
  MaxSessions,   \* bound: refresh tokens issued in a behaviour
  MaxResets,     \* bound: password reset tokens issued in a behaviour
  MaxEnds,       \* bound: how often all sessions of a user are ended
  AuditMayFail   \* whether _audit_and_commit may fail

ASSUME AuthAssumption ==
  /\ NoUser \notin Users
  /\ MaxSessions \in Nat
  /\ MaxResets \in Nat
  /\ MaxEnds \in Nat
  /\ AuditMayFail \in BOOLEAN

VARIABLES
  orgs,      \* organizations rows created for a user's signup
  account,   \* whether the users row exists
  era,       \* how often all sessions of a user were ended
  issued,    \* number of refresh tokens; token n is the n-th row
  session,   \* refresh_tokens, by row number
  resets,    \* password_reset_tokens, as a sequence of rows
  mailed,    \* reset tokens whose link was sent
  req        \* what each request is doing

users == <<orgs, account, era>>
tokens == <<issued, session>>
mails == <<resets, mailed>>
vars == <<users, tokens, mails, req>>

Tokens == 1..MaxSessions
Resets == 1..MaxResets

-----------------------------------------------------------------------------
(* A refresh token row.  from: the token it was rotated from (0: a login);  *)
(* era: the era of its user when the login it descends from was verified.   *)
Session == [state : {"none", "live", "revoked"}, expired : BOOLEAN,
            user : Users \union {NoUser}, from : 0..MaxSessions, era : Nat]

NoSession == [state |-> "none", expired |-> FALSE, user |-> NoUser, from |-> 0, era |-> 0]

Rotated(u, t, e) == [state |-> "live", expired |-> FALSE, user |-> u, from |-> t, era |-> e]

(* uses counts the password changes the token has been consumed for. *)
Reset == [state : {"none", "valid", "used"}, expired : BOOLEAN,
          user : Users \union {NoUser}, uses : Nat]

NoReset == [state |-> "none", expired |-> FALSE, user |-> NoUser, uses |-> 0]

NewReset(u) == [state |-> "valid", expired |-> FALSE, user |-> u, uses |-> 0]

Consumed(p, n) == [p EXCEPT !.state = "used", !.uses = n]

(* tok: the token presented, or created; era: of the login verified; seen:  *)
(* the refresh tokens that existed when revoke_all_for_user was executed.   *)
Phases == {"idle", "signup", "issue", "sweep", "sweeping", "logout", "mail", "reset",
           "resetting"}

Request == [pc : Phases, user : Users \union {NoUser}, tok : Nat, era : Nat, seen : Nat]

Idle == [pc |-> "idle", user |-> NoUser, tok |-> 0, era |-> 0, seen |-> 0]

Doing(pc, u, t, e) == [pc |-> pc, user |-> u, tok |-> t, era |-> e, seen |-> 0]

UsersOK ==
  /\ orgs \in [Users -> Nat]
  /\ account \in [Users -> BOOLEAN]
  /\ era \in [Users -> 0..MaxEnds]

(* Rows are numbered without gaps. *)
TokensOK ==
  /\ issued \in 0..MaxSessions
  /\ session \in [Tokens -> Session]
  /\ \A t \in Tokens : t > issued <=> session[t].state = "none"
  /\ \A t \in Tokens : session[t].state # "none" => session[t].user \in Users

MailsOK ==
  /\ resets \in [Resets -> Reset]
  /\ \A p \in Resets : resets[p].state # "none" => resets[p].user \in Users
  /\ mailed \subseteq Resets

(* A request in flight names rows that exist. *)
RequestOK(q) ==
  /\ q.pc # "idle" => q.user \in Users
  /\ q.pc = "issue" => q.tok \in 0..issued
  /\ q.pc = "logout" => q.tok \in 1..issued
  /\ q.pc \in {"mail", "reset", "resetting"} => q.tok \in Resets
  /\ q.pc \in {"reset", "resetting"} => resets[q.tok].state # "none"

RequestsOK ==
  /\ req \in [Requests -> Request]
  /\ \A r \in Requests : RequestOK(req[r])

TypeOK == UsersOK /\ TokensOK /\ MailsOK /\ RequestsOK

Init ==
  /\ orgs = [u \in Users |-> 0]
  /\ account = [u \in Users |-> FALSE]
  /\ era = [u \in Users |-> 0]
  /\ issued = 0
  /\ session = [t \in Tokens |-> NoSession]
  /\ resets = [p \in Resets |-> NoReset]
  /\ mailed = {}
  /\ req = [r \in Requests |-> Idle]

-----------------------------------------------------------------------------
(* A request starts working on what it read, or ends. *)

Starts(r, doing) ==
  /\ req[r].pc = "idle"
  /\ req' = [req EXCEPT ![r] = doing]
  /\ UNCHANGED <<users, tokens, mails>>

Ends(r) == req' = [req EXCEPT ![r] = Idle]

(* The commit fails, or the process dies before it: rolled back. *)
RolledBack(r) ==
  /\ req[r].pc \in {"signup", "issue", "sweep", "reset", "resetting"}
  /\ Ends(r)
  /\ UNCHANGED <<users, tokens, mails>>

(* revoke_all_for_user: the live rows of user u, of the first n there are *)
Revoked(s) == [s EXCEPT !.state = "revoked"]
Swept(u, n) == [t \in Tokens |->
  IF session[t].state = "live" /\ session[t].user = u /\ t <= n
    THEN Revoked(session[t]) ELSE session[t]]

(* Its UPDATE: it changes the rows committed so far, unseen until the commit. *)
AfterUpdate == [sweep |-> "sweeping", reset |-> "resetting"]

RevokeAll(r) ==
  /\ req[r].pc \in {"sweep", "reset"}
  /\ req' = [req EXCEPT ![r].pc = AfterUpdate[@], ![r].seen = issued]
  /\ UNCHANGED <<users, tokens, mails>>

-----------------------------------------------------------------------------
(* signup: email_exists found none ... *)
Signup(r, u) ==
  /\ ~account[u]
  /\ Starts(r, Doing("signup", u, 0, 0))

(* Mutant of CreateAccount: the organization is committed on its own. *)
CreateAccount_TwoCommits(r) ==
  LET u == req[r].user IN
  /\ req[r].pc = "signup"
  /\ orgs' = [orgs EXCEPT ![u] = @ + 1]
  /\ account' = [account EXCEPT ![u] = TRUE]
  /\ Ends(r)
  /\ UNCHANGED <<era, tokens, mails>>

(* ... organization and user in one transaction; e-mail is unique *)
CreateAccount(r) ==
  LET u == req[r].user IN
  /\ req[r].pc = "signup"
  /\ orgs' = [orgs EXCEPT ![u] = IF account[u] THEN @ ELSE @ + 1]
  /\ account' = [account EXCEPT ![u] = TRUE]
  /\ Ends(r)
  /\ UNCHANGED <<era, tokens, mails>>

(* login: the password was verified *)
Login(r, u) ==
  /\ account[u]
  /\ Starts(r, Doing("issue", u, 0, era[u]))

(* refresh of token t: its row was live and had not expired ... *)
Refresh(r, t) ==
  /\ session[t].state = "live" /\ ~session[t].expired
  /\ Starts(r, Doing("issue", session[t].user, t, session[t].era))

(* Mutant of Replay: no row is taken for a revoked one. *)
Replay_NoRow(r, t) ==
  /\ session[t].state # "live"
  /\ Starts(r, Doing("sweep", session[t].user, t, 0))

(* ... or was revoked: reuse detected, whether it expired or not *)
Replay(r, t) ==
  /\ session[t].state = "revoked"
  /\ Starts(r, Doing("sweep", session[t].user, t, 0))

(* Mutant of IssueSession: the old token is not burned. *)
IssueSession_KeepsOld(r) ==
  LET q == req[r] IN
  /\ q.pc = "issue"
  /\ issued < MaxSessions
  /\ issued' = issued + 1
  /\ session' = [session EXCEPT ![issued + 1] = Rotated(q.user, q.tok, q.era)]
  /\ Ends(r)
  /\ UNCHANGED <<users, mails>>

(* _issue_session: the new row, and with it the burning of the old one *)
IssueSession(r) ==
  LET q == req[r] IN
  /\ q.pc = "issue"
  /\ issued < MaxSessions
  /\ issued' = issued + 1
  /\ session' = [t \in Tokens |->
       IF t = issued + 1 THEN Rotated(q.user, q.tok, q.era)
       ELSE IF t = q.tok THEN Revoked(session[t])
       ELSE session[t]]
  /\ Ends(r)
  /\ UNCHANGED <<users, mails>>

(* reuse detection commits, with its audit record *)
EndAllSessions(r) ==
  /\ req[r].pc = "sweeping"
  /\ era[req[r].user] < MaxEnds
  /\ session' = Swept(req[r].user, req[r].seen)
  /\ era' = [era EXCEPT ![req[r].user] = @ + 1]
  /\ Ends(r)
  /\ UNCHANGED <<orgs, account, issued, mails>>

-----------------------------------------------------------------------------
(* logout of token t: only a live one is worth a write ... *)
Logout(r, t) ==
  /\ session[t].state = "live"
  /\ Starts(r, Doing("logout", session[t].user, t, 0))

(* ... which commits with its audit record *)
EndSession(r) ==
  /\ req[r].pc = "logout"
  /\ session' = [session EXCEPT ![req[r].tok] = Revoked(@)]
  /\ Ends(r)
  /\ UNCHANGED <<users, issued, mails>>

(* _audit_and_commit fails: it rolls everything back and returns; refresh   *)
(* still answers "session invalidated" and logout "logged out"              *)
AuditFails(r) ==
  /\ AuditMayFail
  /\ req[r].pc \in {"sweeping", "logout"}
  /\ Ends(r)
  /\ UNCHANGED <<users, tokens, mails>>

-----------------------------------------------------------------------------
(* forgot_password stores a token; if that fails it is rolled back unseen,  *)
(* and the link is sent all the same                                        *)
ForgotPassword(r, u, p) ==
  /\ req[r].pc = "idle"
  /\ account[u]
  /\ resets[p].state = "none"
  /\ p \notin mailed /\ \A q \in Requests : req[q].pc = "mail" => req[q].tok # p
  /\ \/ resets' = [resets EXCEPT ![p] = NewReset(u)]
     \/ AuditMayFail /\ UNCHANGED resets
  /\ req' = [req EXCEPT ![r] = Doing("mail", u, p, 0)]
  /\ UNCHANGED <<users, tokens, mailed>>

(* send_password_reset, or its failure *)
SendLink(r) ==
  /\ req[r].pc = "mail"
  /\ mailed' \in {mailed, mailed \union {req[r].tok}}
  /\ Ends(r)
  /\ UNCHANGED <<users, tokens, resets>>

(* reset_password: the token of the link was valid; hashing takes a while ... *)
ResetPassword(r, p) ==
  /\ p \in mailed
  /\ resets[p].state = "valid" /\ ~resets[p].expired
  /\ Starts(r, Doing("reset", resets[p].user, p, 0))

(* Mutants of ChangePassword: the sessions stay; the token is not stamped. *)
ChangePassword_KeepsSessions(r) ==
  LET u == req[r].user IN
  /\ req[r].pc = "resetting"
  /\ era[u] < MaxEnds
  /\ era' = [era EXCEPT ![u] = @ + 1]
  /\ resets' = [resets EXCEPT ![req[r].tok] = Consumed(@, @.uses + 1)]
  /\ Ends(r)
  /\ UNCHANGED <<orgs, account, tokens, mailed>>

ChangePassword_NotStamped(r) ==
  LET u == req[r].user IN
  /\ req[r].pc = "resetting"
  /\ era[u] < MaxEnds
  /\ session' = Swept(u, req[r].seen)
  /\ era' = [era EXCEPT ![u] = @ + 1]
  /\ resets' = [resets EXCEPT ![req[r].tok].uses = @ + 1]
  /\ Ends(r)
  /\ UNCHANGED <<orgs, account, issued, mailed>>

(* ... then the hash, the stamp and the revoked sessions are one commit *)
ChangePassword(r) ==
  LET u == req[r].user IN
  /\ req[r].pc = "resetting"
  /\ era[u] < MaxEnds
  /\ session' = Swept(u, req[r].seen)
  /\ era' = [era EXCEPT ![u] = @ + 1]
  /\ resets' = [resets EXCEPT ![req[r].tok] = Consumed(@, @.uses + 1)]
  /\ Ends(r)
  /\ UNCHANGED <<orgs, account, issued, mailed>>

-----------------------------------------------------------------------------
(* expires_at passes. *)
Expire(t) ==
  /\ session[t].state # "none" /\ ~session[t].expired
  /\ session' = [session EXCEPT ![t].expired = TRUE]
  /\ UNCHANGED <<users, issued, mails, req>>

ExpireReset(p) ==
  /\ resets[p].state # "none" /\ ~resets[p].expired
  /\ resets' = [resets EXCEPT ![p].expired = TRUE]
  /\ UNCHANGED <<users, tokens, mailed, req>>

-----------------------------------------------------------------------------
Reads(r) ==
  \/ \E u \in Users : Signup(r, u) \/ Login(r, u) \/ \E p \in Resets : ForgotPassword(r, u, p)
  \/ \E t \in Tokens : Refresh(r, t) \/ Replay(r, t) \/ Logout(r, t)
  \/ \E p \in Resets : ResetPassword(r, p)

Commits(r) ==
  \/ CreateAccount(r) \/ IssueSession(r) \/ RevokeAll(r) \/ EndAllSessions(r) \/ EndSession(r)
  \/ ChangePassword(r) \/ SendLink(r) \/ AuditFails(r) \/ RolledBack(r)

Next ==
  \/ \E r \in Requests : Reads(r) \/ Commits(r)
  \/ \E t \in Tokens : Expire(t)
  \/ \E p \in Resets : ExpireReset(p)

Spec == Init /\ [][Next]_vars

=============================================================================
