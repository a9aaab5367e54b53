------------------------------ MODULE AuthProofs ------------------------------
(***************************************************************************)
(* Proofs about the authentication service, for every number of users,     *)
(* requests and tokens: types, what holds however requests overlap, and    *)
(* three claims that only two requests on the same token, or a session     *)
(* issued while the sessions of its user are being ended, can break.       *)
(***************************************************************************)
EXTENDS AuthProps, TLAPS

USE AuthAssumption

-----------------------------------------------------------------------------
(* What the helpers do. *)

LEMMA RevokedRow ==
  ASSUME NEW s \in Session
  PROVE  /\ Revoked(s) \in Session
         /\ Revoked(s).state = "revoked"
         /\ Revoked(s).user = s.user /\ Revoked(s).from = s.from /\ Revoked(s).era = s.era
BY DEF Session, Revoked

LEMMA SweptRows ==
  ASSUME TokensOK, NEW u \in Users, NEW n \in Nat
  PROVE  /\ Swept(u, n) \in [Tokens -> Session]
         /\ \A t \in Tokens :
              /\ Swept(u, n)[t].state =
                   IF session[t].state = "live" /\ session[t].user = u /\ t <= n
                     THEN "revoked" ELSE session[t].state
              /\ Swept(u, n)[t].user = session[t].user
              /\ Swept(u, n)[t].from = session[t].from
              /\ Swept(u, n)[t].era = session[t].era
BY RevokedRow DEF TokensOK, Swept

LEMMA SweptOK ==
  ASSUME TokensOK, NEW u \in Users, NEW n \in Nat, session' = Swept(u, n), issued' = issued
  PROVE  TokensOK'
BY SweptRows DEF TokensOK

LEMMA DoingRow ==
  ASSUME NEW pc \in Phases, NEW u \in Users, NEW t \in Nat, NEW e \in Nat
  PROVE  /\ Doing(pc, u, t, e) \in Request
         /\ Doing(pc, u, t, e).pc = pc /\ Doing(pc, u, t, e).user = u
         /\ Doing(pc, u, t, e).tok = t /\ Doing(pc, u, t, e).era = e
BY DEF Doing, Request

LEMMA ResetRows ==
  ASSUME NEW p \in Reset, NEW n \in Nat, NEW u \in Users
  PROVE  /\ Consumed(p, n) \in Reset
         /\ Consumed(p, n).state = "used" /\ Consumed(p, n).user = p.user
         /\ Consumed(p, n).uses = n
         /\ NewReset(u) \in Reset
         /\ NewReset(u).state = "valid" /\ NewReset(u).user = u /\ NewReset(u).uses = 0
BY DEF Consumed, NewReset, Reset

LEMMA EndsOK ==
  ASSUME RequestsOK, NEW r \in Requests, Ends(r), issued \in Nat, issued' \in Nat,
         issued' >= issued,
         \A p \in Resets : resets[p].state # "none" => resets'[p].state # "none"
  PROVE  RequestsOK'
<1>1. Idle \in Request /\ Idle.pc = "idle"
  BY DEF Idle, Request, Phases
<1>2. /\ req' \in [Requests -> Request]
      /\ \A q \in Requests : req'[q].pc # "idle" => req'[q] = req[q]
  BY <1>1 DEF RequestsOK, Ends
<1>3. ASSUME NEW q \in Requests
      PROVE  RequestOK(req[q])'
  BY <1>2, <1>3 DEF RequestsOK, RequestOK
<1>4. QED
  BY <1>2, <1>3 DEF RequestsOK

LEMMA StartsOK ==
  ASSUME RequestsOK, NEW r \in Requests, NEW pc \in Phases, NEW u \in Users, NEW t \in Nat,
         NEW e \in Nat, req' = [req EXCEPT ![r] = Doing(pc, u, t, e)], issued' = issued,
         pc = "issue" => t \in 0..issued, pc = "logout" => t \in 1..issued,
         pc \in {"mail", "reset", "resetting"} => t \in Resets,
         pc \in {"reset", "resetting"} => resets[t].state # "none",
         \A p \in Resets : resets[p].state # "none" => resets'[p].state # "none"
  PROVE  RequestsOK'
<1> DEFINE d == Doing(pc, u, t, e)
<1>1. d \in Request /\ d.pc = pc /\ d.user = u /\ d.tok = t
  BY DoingRow
<1> HIDE DEF d
<1>2. /\ req' \in [Requests -> Request]
      /\ \A q \in Requests : req'[q] = IF q = r THEN d ELSE req[q]
  BY <1>1 DEF RequestsOK, d
<1>3. ASSUME NEW q \in Requests
      PROVE  RequestOK(req[q])'
  BY <1>1, <1>2, <1>3 DEF RequestsOK, RequestOK
<1>4. QED
  BY <1>2, <1>3 DEF RequestsOK

-----------------------------------------------------------------------------
(* Types. *)

LEMMA ReadsType ==
  ASSUME TypeOK, NEW r \in Requests, Reads(r)
  PROVE  TypeOK'
<1> USE DEF TypeOK
<1>1. ASSUME NEW pc \in {"signup", "issue", "sweep", "logout", "reset"}, NEW u \in Users,
             NEW t \in Nat, NEW e \in Nat, Starts(r, Doing(pc, u, t, e)),
             pc = "issue" => t \in 0..issued, pc = "logout" => t \in 1..issued,
             pc = "reset" => t \in Resets /\ resets[t].state # "none"
      PROVE  TypeOK'
  <2>1. /\ UNCHANGED <<orgs, account, era, issued, session, resets, mailed>>
        /\ req' = [req EXCEPT ![r] = Doing(pc, u, t, e)] /\ pc \in Phases
    BY <1>1 DEF Starts, users, tokens, mails, Phases
  <2>2. RequestsOK'
    BY <1>1, <2>1, StartsOK
  <2>3. QED
    BY <2>1, <2>2 DEF UsersOK, TokensOK, MailsOK
<1>2. ASSUME NEW t \in Tokens, session[t].state # "none"
      PROVE  session[t].user \in Users /\ session[t].era \in Nat /\ t \in Nat /\ t \in 1..issued /\ t \in 0..issued
  BY <1>2 DEF TokensOK, Session, Tokens
<1>3. ASSUME NEW u \in Users, Signup(r, u)
      PROVE  TypeOK'
  BY <1>1, <1>3 DEF Signup
<1>4. ASSUME NEW u \in Users, Login(r, u)
      PROVE  TypeOK'
  <2>1. era[u] \in Nat /\ 0 \in 0..issued
    BY DEF UsersOK, TokensOK
  <2>2. QED
    BY <1>1, <1>4, <2>1 DEF Login
<1>5. ASSUME NEW u \in Users, NEW p \in Resets, ForgotPassword(r, u, p)
      PROVE  TypeOK'
  <2>1. /\ UNCHANGED <<orgs, account, era, issued, session, mailed>>
        /\ req' = [req EXCEPT ![r] = Doing("mail", u, p, 0)]
        /\ resets' \in {resets, [resets EXCEPT ![p] = NewReset(u)]}
    BY <1>5 DEF ForgotPassword, users, tokens
  <2>2. MailsOK' /\ \A n \in Resets : resets[n].state # "none" => resets'[n].state # "none"
    BY <2>1, ResetRows DEF MailsOK
  <2>3. RequestsOK'
    <3>1. "mail" \in Phases /\ p \in Nat /\ 0 \in Nat
      BY DEF Phases, Resets
    <3>2. QED
      BY <2>1, <2>2, <3>1, StartsOK
  <2>4. QED
    BY <2>1, <2>2, <2>3 DEF UsersOK, TokensOK
<1>6. ASSUME NEW t \in Tokens, Refresh(r, t) \/ Replay(r, t) \/ Logout(r, t)
      PROVE  TypeOK'
  <2>1. session[t].state # "none"
    BY <1>6 DEF Refresh, Replay, Logout
  <2>2. CASE Refresh(r, t)
    BY <1>1, <1>2, <2>1, <2>2 DEF Refresh
  <2>3. CASE Replay(r, t)
    BY <1>1, <1>2, <2>1, <2>3 DEF Replay
  <2>4. CASE Logout(r, t)
    BY <1>1, <1>2, <2>1, <2>4 DEF Logout
  <2>5. QED
    BY <1>6, <2>2, <2>3, <2>4
<1>7. ASSUME NEW p \in Resets, ResetPassword(r, p)
      PROVE  TypeOK'
  <2>1. resets[p].user \in Users /\ p \in Nat
    BY <1>7 DEF ResetPassword, MailsOK, Resets
  <2>2. QED
    BY <1>1, <1>7, <2>1 DEF ResetPassword
<1>8. QED
  BY <1>3, <1>4, <1>5, <1>6, <1>7 DEF Reads

LEMMA CommitsType ==
  ASSUME TypeOK, NEW r \in Requests, Commits(r)
  PROVE  TypeOK'
<1> USE DEF TypeOK
<1>0. req[r] \in Request /\ RequestOK(req[r]) /\ issued \in Nat
  BY DEF RequestsOK, TokensOK
<1>1. CASE CreateAccount(r)
  <2>1. UNCHANGED <<era, issued, session, resets, mailed>> /\ Ends(r) /\ req[r].user \in Users
    BY <1>0, <1>1 DEF CreateAccount, tokens, mails, RequestOK
  <2>2. UsersOK'
    BY <1>1, <2>1 DEF CreateAccount, UsersOK
  <2>3. QED
    BY <1>0, <2>1, <2>2, EndsOK DEF TokensOK, MailsOK
<1>2. CASE IssueSession(r)
  <2> DEFINE new == Rotated(req[r].user, req[r].tok, req[r].era)
  <2>1. /\ UNCHANGED <<orgs, account, era, resets, mailed>> /\ Ends(r)
        /\ issued < MaxSessions /\ issued' = issued + 1
        /\ req[r].user \in Users /\ req[r].tok \in 0..issued /\ req[r].era \in Nat
    BY <1>0, <1>2 DEF IssueSession, users, mails, RequestOK, Request
  <2>2. new \in Session /\ new.state = "live" /\ new.user \in Users
    <3>1. req[r].tok \in 0..MaxSessions
      BY <2>1 DEF TokensOK
    <3>2. QED
      BY <2>1, <3>1 DEF Rotated, Session
  <2>3. session' = [t \in Tokens |-> IF t = issued + 1 THEN new
                                     ELSE IF t = req[r].tok THEN Revoked(session[t])
                                     ELSE session[t]]
    BY <1>2 DEF IssueSession
  <2> HIDE DEF new
  <2>4. TokensOK'
    BY <2>1, <2>2, <2>3, RevokedRow DEF TokensOK, Tokens
  <2>5. QED
    BY <1>0, <2>1, <2>4, EndsOK DEF UsersOK, MailsOK
<1>3. CASE EndAllSessions(r)
  <2>1. /\ UNCHANGED <<orgs, account, issued, resets, mailed>> /\ Ends(r)
        /\ session' = Swept(req[r].user, req[r].seen) /\ req[r].user \in Users
        /\ req[r].seen \in Nat
    BY <1>0, <1>3 DEF EndAllSessions, mails, RequestOK, Request
  <2>2. UsersOK'
    BY <1>3, <2>1 DEF EndAllSessions, UsersOK
  <2>3. QED
    BY <1>0, <2>1, <2>2, SweptOK, EndsOK DEF MailsOK
<1>4. CASE EndSession(r)
  <2>1. /\ UNCHANGED <<orgs, account, era, issued, resets, mailed>> /\ Ends(r)
        /\ session' = [session EXCEPT ![req[r].tok] = Revoked(@)]
        /\ req[r].tok \in 1..issued
    BY <1>0, <1>4 DEF EndSession, users, mails, RequestOK
  <2> DEFINE row == Revoked(session[req[r].tok])
  <2>2. TokensOK'
    <3>1. req[r].tok \in Tokens /\ req[r].tok <= issued
      BY <2>1 DEF TokensOK, Tokens
    <3>2. row \in Session /\ row.state = "revoked" /\ row.user = session[req[r].tok].user
      BY <3>1, RevokedRow DEF TokensOK
    <3>3. session' = [session EXCEPT ![req[r].tok] = row]
      BY <2>1
    <3> HIDE DEF row
    <3>4. session[req[r].tok].state # "none"
      BY <3>1 DEF TokensOK, Tokens
    <3>5. QED
      BY <2>1, <3>1, <3>2, <3>3, <3>4 DEF TokensOK
  <2>3. QED
    BY <1>0, <2>1, <2>2, EndsOK DEF UsersOK, MailsOK
<1>5. CASE ChangePassword(r)
  <2>1. /\ UNCHANGED <<orgs, account, issued, mailed>> /\ Ends(r)
        /\ session' = Swept(req[r].user, req[r].seen) /\ req[r].user \in Users
        /\ req[r].seen \in Nat /\ req[r].tok \in Resets
    BY <1>0, <1>5 DEF ChangePassword, RequestOK, Request
  <2>2. UsersOK'
    BY <1>5, <2>1 DEF ChangePassword, UsersOK
  <2>3. /\ resets[req[r].tok] \in Reset /\ resets[req[r].tok].uses + 1 \in Nat
        /\ resets[req[r].tok].user \in Users
    BY <1>0, <1>5, <2>1 DEF ChangePassword, MailsOK, Reset, RequestOK
  <2>4. resets' = [resets EXCEPT ![req[r].tok] =
                     Consumed(resets[req[r].tok], resets[req[r].tok].uses + 1)]
    BY <1>5 DEF ChangePassword
  <2>5. MailsOK' /\ \A n \in Resets : resets[n].state # "none" => resets'[n].state # "none"
    BY <2>1, <2>3, <2>4, ResetRows DEF MailsOK
  <2>6. QED
    BY <1>0, <2>1, <2>2, <2>5, SweptOK, EndsOK
<1>6. CASE SendLink(r)
  <2>1. UNCHANGED <<orgs, account, era, issued, session, resets>> /\ Ends(r)
        /\ mailed' \subseteq Resets
    BY <1>0, <1>6 DEF SendLink, users, tokens, MailsOK, RequestOK
  <2>2. QED
    BY <1>0, <2>1, EndsOK DEF UsersOK, TokensOK, MailsOK
<1>7. CASE AuditFails(r) \/ RolledBack(r)
  <2>1. UNCHANGED <<orgs, account, era, issued, session, resets, mailed>> /\ Ends(r)
    BY <1>7 DEF AuditFails, RolledBack, users, tokens, mails
  <2>2. QED
    BY <1>0, <2>1, EndsOK DEF UsersOK, TokensOK, MailsOK
<1>8. CASE RevokeAll(r)
  <2> DEFINE d == [req[r] EXCEPT !.pc = AfterUpdate[@], !.seen = issued]
  <2>1. /\ UNCHANGED <<orgs, account, era, issued, session, resets, mailed>>
        /\ req[r].pc \in {"sweep", "reset"} /\ req' = [req EXCEPT ![r] = d]
    BY <1>8 DEF RevokeAll, users, tokens, mails, RequestsOK
  <2>2. AfterUpdate[req[r].pc] = IF req[r].pc = "sweep" THEN "sweeping" ELSE "resetting"
    BY <2>1 DEF AfterUpdate
  <2>3. /\ d \in Request /\ d.pc = AfterUpdate[req[r].pc]
        /\ d.user = req[r].user /\ d.tok = req[r].tok
    BY <1>0, <2>2 DEF Request, Phases
  <2> HIDE DEF d
  <2>4. /\ req' \in [Requests -> Request]
        /\ \A q \in Requests : req'[q] = IF q = r THEN d ELSE req[q]
    BY <2>1, <2>3 DEF RequestsOK
  <2>5. ASSUME NEW q \in Requests
        PROVE  RequestOK(req[q])'
    BY <1>0, <2>1, <2>2, <2>3, <2>4 DEF RequestsOK, RequestOK
  <2>6. QED
    BY <2>1, <2>4, <2>5 DEF UsersOK, TokensOK, MailsOK, RequestsOK
<1>9. QED
  BY <1>1, <1>2, <1>3, <1>4, <1>5, <1>6, <1>7, <1>8 DEF Commits

LEMMA ExpireType ==
  ASSUME TypeOK, (\E t \in Tokens : Expire(t)) \/ \E p \in Resets : ExpireReset(p)
  PROVE  TypeOK'
<1> USE DEF TypeOK
<1>1. ASSUME NEW t \in Tokens, Expire(t)
      PROVE  TypeOK'
  <2> DEFINE row == [session[t] EXCEPT !.expired = TRUE]
  <2>1. /\ UNCHANGED <<orgs, account, era, issued, resets, mailed, req>>
        /\ session' = [session EXCEPT ![t] = row]
    BY <1>1 DEF Expire, users, mails
  <2>2. row \in Session /\ row.state = session[t].state /\ row.user = session[t].user
    BY DEF TokensOK, Session
  <2> HIDE DEF row
  <2>3. TokensOK'
    BY <2>1, <2>2 DEF TokensOK
  <2>4. QED
    BY <2>1, <2>3 DEF UsersOK, MailsOK, RequestsOK, RequestOK
<1>2. ASSUME NEW p \in Resets, ExpireReset(p)
      PROVE  TypeOK'
  <2> DEFINE row == [resets[p] EXCEPT !.expired = TRUE]
  <2>1. /\ UNCHANGED <<orgs, account, era, issued, session, mailed, req>>
        /\ resets' = [resets EXCEPT ![p] = row]
    BY <1>2 DEF ExpireReset, users, tokens
  <2>2. row \in Reset /\ row.state = resets[p].state /\ row.user = resets[p].user
    BY DEF MailsOK, Reset
  <2> HIDE DEF row
  <2>3. MailsOK' /\ \A n \in Resets : resets'[n].state = resets[n].state
    BY <2>1, <2>2 DEF MailsOK
  <2>4. RequestsOK'
    BY <2>1, <2>3 DEF RequestsOK, RequestOK
  <2>5. QED
    BY <2>1, <2>3, <2>4 DEF UsersOK, TokensOK
<1>3. QED
  BY <1>1, <1>2

LEMMA InitType == Init => TypeOK
<1> SUFFICES ASSUME Init
             PROVE  TypeOK
  OBVIOUS
<1>1. UsersOK
  BY DEF Init, UsersOK
<1>2. NoSession \in Session /\ NoReset \in Reset /\ Idle \in Request
      /\ NoSession.state = "none" /\ NoReset.state = "none" /\ Idle.pc = "idle"
  BY DEF NoSession, Session, NoReset, Reset, Idle, Request, Phases
<1>3. TokensOK
  BY <1>2 DEF Init, TokensOK, Tokens
<1>4. MailsOK
  BY <1>2 DEF Init, MailsOK
<1>5. RequestsOK
  BY <1>2 DEF Init, RequestsOK, RequestOK
<1>6. QED
  BY <1>1, <1>3, <1>4, <1>5 DEF TypeOK

LEMMA NextType == TypeOK /\ [Next]_vars => TypeOK'
<1> SUFFICES ASSUME TypeOK, [Next]_vars
             PROVE  TypeOK'
  OBVIOUS
<1>1. CASE UNCHANGED vars
  BY <1>1 DEF vars, users, tokens, mails, TypeOK, UsersOK, TokensOK, MailsOK, RequestsOK, RequestOK
<1>2. CASE Next
  BY <1>2, ReadsType, CommitsType, ExpireType DEF Next
<1>3. QED
  BY <1>1, <1>2

(* Rows, requests and counters stay what their columns and handlers allow. *)
THEOREM AuthTypeCorrect == Spec => []TypeOK
<1>1. QED
  BY InitType, NextType, PTL DEF Spec

-----------------------------------------------------------------------------
(* How rows change: only IssueSession adds one or revives none. *)

LEMMA RowsKept ==
  ASSUME TypeOK, [Next]_vars, \A r \in Requests : ~IssueSession(r), NEW t \in Tokens
  PROVE  /\ session'[t].from = session[t].from
         /\ session'[t].user = session[t].user
         /\ session'[t].era = session[t].era
         /\ session[t].state = "revoked" => session'[t].state = "revoked"
         /\ session'[t].state = "live" => session[t].state = "live"
<1>0. TokensOK /\ session \in [Tokens -> Session] /\ RequestsOK
  BY DEF TypeOK, TokensOK
<1>1. CASE session' = session
  BY <1>1
<1>2. ASSUME NEW r \in Requests, EndAllSessions(r) \/ ChangePassword(r)
      PROVE  /\ session' = Swept(req[r].user, req[r].seen) /\ req[r].user \in Users
             /\ req[r].seen \in Nat
  BY <1>0, <1>2 DEF EndAllSessions, ChangePassword, RequestsOK, RequestOK, Request
<1>3. CASE \E r \in Requests : EndAllSessions(r) \/ ChangePassword(r)
  BY <1>0, <1>2, <1>3, SweptRows
<1>4. ASSUME NEW r \in Requests, EndSession(r)
      PROVE  session' = [session EXCEPT ![req[r].tok] = Revoked(session[req[r].tok])]
  BY <1>4 DEF EndSession
<1>5. CASE \E r \in Requests : EndSession(r)
  BY <1>0, <1>4, <1>5, RevokedRow
<1>6. ASSUME NEW n \in Tokens, Expire(n)
      PROVE  session' = [session EXCEPT ![n].expired = TRUE]
  BY <1>6 DEF Expire
<1>7. CASE \E n \in Tokens : Expire(n)
  <2>1. PICK n \in Tokens : Expire(n)
    BY <1>7
  <2>2. CASE t = n
    BY <1>0, <1>6, <2>1, <2>2 DEF Session
  <2>3. CASE t # n
    BY <1>0, <1>6, <2>1, <2>3
  <2>4. QED
    BY <2>2, <2>3
<1>8. CASE \E r \in Requests : Reads(r)
  BY <1>1, <1>8 DEF Reads, Starts, tokens, Signup, Login, ForgotPassword, Refresh, Replay, Logout,
                    ResetPassword
<1>9. CASE \E r \in Requests : \/ CreateAccount(r) \/ RevokeAll(r) \/ SendLink(r)
                               \/ AuditFails(r) \/ RolledBack(r)
  BY <1>1, <1>9 DEF CreateAccount, RevokeAll, SendLink, AuditFails, RolledBack, tokens
<1>10. CASE \E p \in Resets : ExpireReset(p)
  BY <1>1, <1>10 DEF ExpireReset, tokens
<1>11. CASE UNCHANGED vars
  BY <1>1, <1>11 DEF vars, tokens
<1>12. QED
  BY <1>3, <1>5, <1>7, <1>8, <1>9, <1>10, <1>11 DEF Next, Commits

LEMMA RowIssued ==
  ASSUME TypeOK, NEW r \in Requests, IssueSession(r), NEW t \in Tokens
  PROVE  /\ issued + 1 \in Tokens /\ req[r].tok # issued + 1
         /\ session[issued + 1].state = "none"
         /\ t = issued + 1 => session'[t] = Rotated(req[r].user, req[r].tok, req[r].era)
         /\ t # issued + 1 =>
              /\ session'[t].from = session[t].from /\ session'[t].user = session[t].user
              /\ session'[t].era = session[t].era
              /\ session[t].state = "revoked" => session'[t].state = "revoked"
              /\ session'[t].state = "live" => session[t].state = "live"
         /\ t = req[r].tok => session'[t].state = "revoked"
<1>1. /\ issued \in Nat /\ MaxSessions \in Nat /\ session \in [Tokens -> Session]
      /\ req[r].tok \in 0..issued /\ issued < MaxSessions
  BY DEF TypeOK, TokensOK, RequestsOK, RequestOK, IssueSession
<1>2. issued + 1 \in Tokens /\ req[r].tok # issued + 1
  BY <1>1 DEF Tokens
<1>3. session[issued + 1].state = "none"
  BY <1>1, <1>2 DEF TypeOK, TokensOK
<1>4. session'[t] = IF t = issued + 1 THEN Rotated(req[r].user, req[r].tok, req[r].era)
                    ELSE IF t = req[r].tok THEN Revoked(session[t]) ELSE session[t]
  BY DEF IssueSession
<1>5. QED
  BY <1>1, <1>2, <1>3, <1>4, RevokedRow

-----------------------------------------------------------------------------
(* However requests overlap. *)

LEMMA BurnedStep ==
  ASSUME TypeOK, AncestorsBurned, [Next]_vars
  PROVE  AncestorsBurned'
<1>1. SUFFICES ASSUME NEW t \in Tokens, session'[t].from # 0
               PROVE  session'[session'[t].from].state = "revoked"
  BY DEF AncestorsBurned
<1>2. ASSUME NEW n \in Tokens, session[n].from # 0
      PROVE  session[n].from \in Tokens /\ session[session[n].from].state = "revoked"
  BY <1>2 DEF TypeOK, TokensOK, Session, Tokens, AncestorsBurned
<1>3. CASE \A r \in Requests : ~IssueSession(r)
  BY <1>1, <1>2, <1>3, RowsKept
<1>4. ASSUME NEW r \in Requests, IssueSession(r)
      PROVE  session'[session'[t].from].state = "revoked"
  <2>1. CASE t = issued + 1
    <3>0. session'[t] = Rotated(req[r].user, req[r].tok, req[r].era)
      BY <1>4, <2>1, RowIssued
    <3>1. session'[t].from = req[r].tok
      BY <3>0 DEF Rotated
    <3>2. req[r].tok \in Tokens
      BY <1>1, <1>4, <3>1 DEF TypeOK, TokensOK, RequestsOK, RequestOK, IssueSession, Tokens
    <3>3. QED
      BY <1>4, <3>1, <3>2, RowIssued
  <2>2. CASE t # issued + 1
    <3>1. session'[t].from = session[t].from
      BY <1>4, <2>2, RowIssued
    <3>2. session[t].from \in Tokens /\ session[session[t].from].state = "revoked"
      BY <1>1, <1>2, <3>1
    <3>3. session[t].from # issued + 1
      BY <1>4, <3>2, RowIssued
    <3>4. QED
      BY <1>4, <3>1, <3>2, <3>3, RowIssued
  <2>3. QED
    BY <2>1, <2>2
<1>5. QED
  BY <1>3, <1>4

(* A rotated refresh token stays burned, however requests overlap (refresh). *)
THEOREM RotationBurns == Spec => []AncestorsBurned
<1>1. Init => AncestorsBurned
  BY DEF Init, AncestorsBurned, NoSession
<1>2. QED
  BY <1>1, AuthTypeCorrect, BurnedStep, PTL DEF Spec

(* Signups that race for an e-mail address leave one organization (signup). *)
THEOREM NoHalfCreatedOrg == Spec => []OneOrgPerAccount
<1>1. Init => OneOrgPerAccount
  BY DEF Init, OneOrgPerAccount
<1>2. ASSUME TypeOK, OneOrgPerAccount, [Next]_vars
      PROVE  OneOrgPerAccount'
  <2>1. CASE UNCHANGED <<orgs, account>>
    BY <1>2, <2>1 DEF OneOrgPerAccount
  <2>2. ASSUME NEW r \in Requests, CreateAccount(r)
        PROVE  OneOrgPerAccount'
    <3>1. /\ orgs \in [Users -> Nat] /\ account \in [Users -> BOOLEAN]
          /\ req[r].user \in Users
      BY <1>2, <2>2 DEF TypeOK, UsersOK, RequestsOK, RequestOK, CreateAccount
    <3>2. /\ orgs' = [orgs EXCEPT ![req[r].user] =
                        IF account[req[r].user] THEN orgs[req[r].user]
                        ELSE orgs[req[r].user] + 1]
          /\ account' = [account EXCEPT ![req[r].user] = TRUE]
      BY <2>2 DEF CreateAccount
    <3>3. QED
      BY <1>2, <3>1, <3>2 DEF OneOrgPerAccount
  <2>3. CASE \E r \in Requests : Reads(r)
    BY <2>1, <2>3 DEF Reads, Starts, users, Signup, Login, ForgotPassword, Refresh, Replay, Logout,
                      ResetPassword
  <2>4. CASE \E r \in Requests : Commits(r) /\ ~CreateAccount(r)
    BY <2>1, <2>4 DEF Commits, IssueSession, RevokeAll, EndAllSessions, EndSession, ChangePassword,
                      SendLink, AuditFails, RolledBack, users
  <2>5. CASE UNCHANGED vars \/ (\E t \in Tokens : Expire(t)) \/ \E p \in Resets : ExpireReset(p)
    BY <2>1, <2>5 DEF vars, users, Expire, ExpireReset
  <2>6. QED
    BY <1>2, <2>2, <2>3, <2>4, <2>5 DEF Next
<1>3. QED
  BY <1>1, <1>2, AuthTypeCorrect, PTL DEF Spec

-----------------------------------------------------------------------------
(* How a request moves: it waits, ends, executes its UPDATE or starts. *)

LEMMA RequestSteps ==
  ASSUME TypeOK, [Next]_vars, NEW q \in Requests
  PROVE  \/ req'[q] = req[q]
         \/ req'[q].pc = "idle"
         \/ RevokeAll(q)
         \/ Reads(q)
<1>0. req \in [Requests -> Request]
  BY DEF TypeOK, RequestsOK
<1>1. ASSUME NEW r \in Requests, Ends(r)
      PROVE  req'[q] = req[q] \/ req'[q].pc = "idle"
  BY <1>0, <1>1 DEF Ends, Idle
<1>2. ASSUME NEW r \in Requests, Reads(r)
      PROVE  req'[q] = req[q] \/ Reads(q)
  <2>1. \E d : req' = [req EXCEPT ![r] = d]
    BY <1>2 DEF Reads, Starts, Signup, Login, ForgotPassword, Refresh, Replay, Logout, ResetPassword
  <2>2. QED
    BY <1>0, <1>2, <2>1
<1>3. ASSUME NEW r \in Requests, RevokeAll(r)
      PROVE  req'[q] = req[q] \/ RevokeAll(q)
  <2>1. \E d : req' = [req EXCEPT ![r] = d]
    BY <1>3 DEF RevokeAll
  <2>2. QED
    BY <1>0, <1>3, <2>1
<1>4. ASSUME NEW r \in Requests, Commits(r), ~RevokeAll(r)
      PROVE  Ends(r)
  BY <1>4 DEF Commits, CreateAccount, IssueSession, EndAllSessions, EndSession, ChangePassword,
              SendLink, AuditFails, RolledBack
<1>5. CASE UNCHANGED vars \/ (\E t \in Tokens : Expire(t)) \/ \E p \in Resets : ExpireReset(p)
  BY <1>5 DEF vars, Expire, ExpireReset
<1>6. QED
  BY <1>1, <1>2, <1>3, <1>4, <1>5 DEF Next

(* What a request that starts has read. *)
LEMMA Started ==
  ASSUME TypeOK, NEW q \in Requests, Reads(q)
  PROVE  /\ UNCHANGED <<users, tokens>>
         /\ req'[q].pc \notin {"sweeping", "resetting"}
         /\ req'[q].pc = "issue" =>
              \/ req'[q].tok = 0 /\ req'[q].era = era[req'[q].user]
              \/ /\ req'[q].tok \in Tokens /\ session[req'[q].tok].state = "live"
                 /\ req'[q].user = session[req'[q].tok].user
                 /\ req'[q].era = session[req'[q].tok].era
         /\ req'[q].pc = "reset" => resets' = resets /\ resets[req'[q].tok].state = "valid"
<1>0. req \in [Requests -> Request]
  BY DEF TypeOK, RequestsOK
<1>1. ASSUME NEW u \in Users, Signup(q, u)
      PROVE  req'[q].pc = "signup" /\ UNCHANGED <<users, tokens>>
  BY <1>0, <1>1 DEF Signup, Starts, Doing
<1>2. ASSUME NEW u \in Users, Login(q, u)
      PROVE  /\ req'[q].pc = "issue" /\ req'[q].tok = 0 /\ req'[q].era = era[u]
             /\ req'[q].user = u /\ UNCHANGED <<users, tokens>>
  BY <1>0, <1>2 DEF Login, Starts, Doing
<1>3. ASSUME NEW u \in Users, NEW p \in Resets, ForgotPassword(q, u, p)
      PROVE  req'[q].pc = "mail" /\ UNCHANGED <<users, tokens>>
  BY <1>0, <1>3 DEF ForgotPassword, Doing
<1>4. ASSUME NEW t \in Tokens, Refresh(q, t)
      PROVE  /\ req'[q].pc = "issue" /\ req'[q].tok = t /\ session[t].state = "live"
             /\ req'[q].era = session[t].era /\ req'[q].user = session[t].user
             /\ UNCHANGED <<users, tokens>>
  BY <1>0, <1>4 DEF Refresh, Starts, Doing
<1>5. ASSUME NEW t \in Tokens, Replay(q, t) \/ Logout(q, t)
      PROVE  req'[q].pc \in {"sweep", "logout"} /\ UNCHANGED <<users, tokens>>
  BY <1>0, <1>5 DEF Replay, Logout, Starts, Doing
<1>6. ASSUME NEW p \in Resets, ResetPassword(q, p)
      PROVE  /\ req'[q].pc = "reset" /\ req'[q].tok = p /\ resets' = resets
             /\ resets[p].state = "valid" /\ UNCHANGED <<users, tokens>>
  BY <1>0, <1>6 DEF ResetPassword, Starts, Doing, mails
<1>7. CASE \E u \in Users : Signup(q, u) \/ \E p \in Resets : ForgotPassword(q, u, p)
  BY <1>1, <1>3, <1>7
<1>8. CASE \E u \in Users : Login(q, u)
  BY <1>2, <1>8
<1>9. CASE \E t \in Tokens : Refresh(q, t)
  BY <1>4, <1>9
<1>10. CASE \E t \in Tokens : Replay(q, t) \/ Logout(q, t)
  BY <1>5, <1>10
<1>11. CASE \E p \in Resets : ResetPassword(q, p)
  BY <1>6, <1>11
<1>12. QED
  BY <1>7, <1>8, <1>9, <1>10, <1>11 DEF Reads

LEMMA Updated ==
  ASSUME TypeOK, NEW q \in Requests, RevokeAll(q)
  PROVE  /\ UNCHANGED <<users, tokens, mails>>
         /\ req[q].pc = "sweep" => req'[q].pc = "sweeping"
         /\ req[q].pc = "reset" => req'[q].pc = "resetting"
         /\ req[q].pc \in {"sweep", "reset"}
         /\ req'[q].user = req[q].user /\ req'[q].tok = req[q].tok /\ req'[q].seen = issued
<1>1. req[q] \in Request /\ req'[q] = [req[q] EXCEPT !.pc = AfterUpdate[@], !.seen = issued]
  BY DEF TypeOK, RequestsOK, RevokeAll
<1>2. req[q].pc \in {"sweep", "reset"} /\ UNCHANGED <<users, tokens, mails>>
  BY DEF RevokeAll
<1>3. req'[q].pc = AfterUpdate[req[q].pc]
  BY <1>1 DEF Request
<1>4. req'[q].user = req[q].user /\ req'[q].tok = req[q].tok /\ req'[q].seen = issued
  BY <1>1 DEF Request
<1>5. AfterUpdate["sweep"] = "sweeping" /\ AfterUpdate["reset"] = "resetting"
  BY DEF AfterUpdate
<1>6. QED
  BY <1>2, <1>3, <1>4, <1>5

-----------------------------------------------------------------------------
(* A token is used once. *)

(* A token that is about to be rotated has no successor yet, even if a logout *)
(* or a sweep revoked it meanwhile.                                           *)
RotationInv ==
  /\ UsedOnce
  /\ \A r \in Requests : req[r].pc = "issue" /\ req[r].tok # 0 =>
       \A t \in Tokens : session[t].from # req[r].tok

LEMMA RotationStep ==
  ASSUME TypeOK, AncestorsBurned, RotationInv, RefreshesApart, [Next]_vars
  PROVE  RotationInv'
<1>1. ASSUME NEW r \in Requests, IssueSession(r)
      PROVE  RotationInv'
  <2>1. /\ req[r].pc = "issue" /\ req \in [Requests -> Request]
        /\ \A q \in Requests : req'[q].pc = "issue" => q # r /\ req'[q] = req[q]
    BY <1>1 DEF IssueSession, Ends, Idle, TypeOK, RequestsOK
  <2>2. /\ session'[issued + 1] = Rotated(req[r].user, req[r].tok, req[r].era)
        /\ \A t \in Tokens : t # issued + 1 => session'[t].from = session[t].from
    <3>1. issued + 1 \in Tokens
      BY <1>1 DEF TypeOK, TokensOK, IssueSession, Tokens
    <3>2. session'[issued + 1] = Rotated(req[r].user, req[r].tok, req[r].era)
      BY <1>1, <3>1, RowIssued
    <3>3. ASSUME NEW t \in Tokens, t # issued + 1
          PROVE  session'[t].from = session[t].from
      BY <1>1, <3>3, RowIssued
    <3>4. QED
      BY <3>2, <3>3
  <2>3. session'[issued + 1].from = req[r].tok
    BY <2>2 DEF Rotated
  <2>4. \A t \in Tokens : req[r].tok # 0 => session[t].from # req[r].tok
    BY <2>1 DEF RotationInv
  <2>5. UsedOnce'
    <3>1. SUFFICES ASSUME NEW m \in Tokens, NEW n \in Tokens,
                          session'[m].from = session'[n].from, session'[m].from # 0
                   PROVE  m = n
      BY DEF UsedOnce
    <3>2. CASE m # issued + 1 /\ n # issued + 1
      BY <2>2, <3>1, <3>2 DEF RotationInv, UsedOnce
    <3>3. CASE m = issued + 1 /\ n # issued + 1
      BY <2>2, <2>3, <2>4, <3>1, <3>3
    <3>4. CASE m # issued + 1 /\ n = issued + 1
      BY <2>2, <2>3, <2>4, <3>1, <3>4
    <3>5. QED
      BY <3>2, <3>3, <3>4
  <2>6. ASSUME NEW q \in Requests, req'[q].pc = "issue", req'[q].tok # 0, NEW t \in Tokens
        PROVE  session'[t].from # req'[q].tok
    <3>1. q # r /\ req'[q] = req[q] /\ req[q].tok # req[r].tok
      BY <2>1, <2>6 DEF RefreshesApart
    <3>2. QED
      BY <2>2, <2>3, <2>6, <3>1 DEF RotationInv
  <2>7. QED
    BY <2>5, <2>6 DEF RotationInv
<1>2. CASE \A r \in Requests : ~IssueSession(r)
  <2>1. \A t \in Tokens : session'[t].from = session[t].from
    BY <1>2, RowsKept
  <2>2. UsedOnce'
    BY <2>1 DEF RotationInv, UsedOnce
  <2>3. ASSUME NEW q \in Requests, req'[q].pc = "issue", req'[q].tok # 0, NEW t \in Tokens
        PROVE  session'[t].from # req'[q].tok
    <3>1. CASE req'[q] = req[q]
      BY <2>1, <2>3, <3>1 DEF RotationInv
    <3>2. CASE Reads(q)
      <4>1. session[req'[q].tok].state = "live"
        BY <2>3, <3>2, Started
      <4>2. QED
        BY <2>1, <2>3, <4>1 DEF AncestorsBurned
    <3>3. CASE RevokeAll(q)
      BY <2>3, <3>3, Updated
    <3>4. QED
      BY <2>3, <3>1, <3>2, <3>3, RequestSteps
  <2>4. QED
    BY <2>2, <2>3 DEF RotationInv
<1>3. QED
  BY <1>1, <1>2

(* However many requests run and whatever else overlaps them, a refresh token *)
(* is rotated at most once unless two refreshes hold it at the same time.     *)
THEOREM RotationWhereApart == Spec => RotationIsSingleUse
<1>1. Init => RotationInv
  BY DEF Init, RotationInv, UsedOnce, NoSession, Idle
<1>2. TypeOK /\ AncestorsBurned /\ RefreshesApart /\ RotationInv /\ [Next]_vars => RotationInv'
  BY RotationStep
<1>3. RotationInv => UsedOnce
  BY DEF RotationInv
<1>4. QED
  BY <1>1, <1>2, <1>3, AuthTypeCorrect, RotationBurns, PTL DEF Spec, RotationIsSingleUse

-----------------------------------------------------------------------------
(* No session survives a sweep. *)

Sweeping(r) == req[r].pc \in {"sweeping", "resetting"}

(* A session about to be issued is of the present era, and a transaction that *)
(* ends sessions has seen all there are of its user.                          *)
SweepInv ==
  /\ OnlyFreshLogins
  /\ \A r \in Requests : req[r].pc = "issue" => req[r].era = era[req[r].user]
  /\ \A r \in Requests : Sweeping(r) =>
       \A t \in Tokens : session[t].state = "live" /\ session[t].user = req[r].user
                          => t <= req[r].seen

LEMMA SweepIssue ==
  ASSUME TypeOK, SweepInv, EndsApart, NEW r \in Requests, IssueSession(r)
  PROVE  SweepInv'
<1>1. /\ req[r].pc = "issue" /\ req \in [Requests -> Request] /\ era' = era
      /\ \A q \in Requests : req'[q].pc # "idle" => q # r /\ req'[q] = req[q]
  BY DEF IssueSession, Ends, Idle, users, TypeOK, RequestsOK
<1>2. issued + 1 \in Tokens /\ session'[issued + 1] = Rotated(req[r].user, req[r].tok, req[r].era)
  <2>1. issued + 1 \in Tokens
    BY DEF TypeOK, TokensOK, IssueSession, Tokens
  <2>2. QED
    BY <2>1, RowIssued
<1>3. /\ session'[issued + 1].user = req[r].user
      /\ session'[issued + 1].era = req[r].era
  BY <1>2 DEF Rotated
<1>4. ASSUME NEW t \in Tokens, t # issued + 1
      PROVE  /\ session'[t].user = session[t].user /\ session'[t].era = session[t].era
             /\ session'[t].state = "live" => session[t].state = "live"
  BY <1>4, RowIssued
<1>5. OnlyFreshLogins'
  BY <1>1, <1>3, <1>4 DEF OnlyFreshLogins, SweepInv
<1>6. ASSUME NEW q \in Requests, req'[q].pc = "issue"
      PROVE  req'[q].era = era'[req'[q].user]
  BY <1>1, <1>6 DEF SweepInv
<1>7. ASSUME NEW q \in Requests, Sweeping(q)', NEW t \in Tokens, session'[t].state = "live",
             session'[t].user = req'[q].user
      PROVE  t <= req'[q].seen
  <2>1. q # r /\ req'[q] = req[q] /\ Sweeping(q)
    BY <1>1, <1>7 DEF Sweeping
  <2>2. req[r].user # req[q].user
    BY <1>1, <2>1 DEF EndsApart, Sweeping
  <2>3. t # issued + 1
    BY <1>3, <1>7, <2>1, <2>2
  <2>4. QED
    BY <1>4, <1>7, <2>1, <2>3 DEF SweepInv
<1>8. QED
  BY <1>5, <1>6, <1>7 DEF SweepInv

(* The steps that end the sessions of a user leave none of an older era.      *)
LEMMA SweepCommit ==
  ASSUME TypeOK, SweepInv, EndsApart, NEW r \in Requests, EndAllSessions(r) \/ ChangePassword(r)
  PROVE  SweepInv'
<1>1. /\ req[r].user \in Users /\ session' = Swept(req[r].user, req[r].seen)
      /\ req[r].seen \in Nat /\ era \in [Users -> Nat]
      /\ era' = [era EXCEPT ![req[r].user] = @ + 1] /\ Sweeping(r)
      /\ \A q \in Requests : req'[q].pc # "idle" => q # r /\ req'[q] = req[q]
      /\ TokensOK
  BY DEF EndAllSessions, ChangePassword, TypeOK, UsersOK, RequestsOK, RequestOK, Request, Ends,
         Idle, Sweeping
<1>2. ASSUME NEW t \in Tokens, session'[t].state = "live"
      PROVE  /\ session[t].state = "live" /\ session[t].user # req[r].user
             /\ session'[t].user = session[t].user /\ session'[t].era = session[t].era
             /\ session[t].user \in Users
  <2>1. /\ session[t].state = "live"
        /\ ~(session[t].user = req[r].user /\ t <= req[r].seen)
        /\ session'[t].user = session[t].user /\ session'[t].era = session[t].era
    BY <1>1, <1>2, SweptRows
  <2>2. QED
    BY <1>1, <2>1 DEF SweepInv, TokensOK
<1>3. OnlyFreshLogins'
  BY <1>1, <1>2 DEF OnlyFreshLogins, SweepInv
<1>4. ASSUME NEW q \in Requests, req'[q].pc = "issue"
      PROVE  req'[q].era = era'[req'[q].user]
  <2>1. /\ req'[q] = req[q] /\ req[q].user # req[r].user /\ req[q].user \in Users
        /\ req[q].era = era[req[q].user]
    BY <1>1, <1>4 DEF EndsApart, Sweeping, SweepInv, TypeOK, RequestsOK, RequestOK
  <2>2. QED
    BY <1>1, <2>1
<1>5. ASSUME NEW q \in Requests, Sweeping(q)', NEW t \in Tokens, session'[t].state = "live",
             session'[t].user = req'[q].user
      PROVE  t <= req'[q].seen
  <2>1. req'[q] = req[q] /\ Sweeping(q)
    BY <1>1, <1>5 DEF Sweeping
  <2>2. QED
    BY <1>2, <1>5, <2>1 DEF SweepInv
<1>6. QED
  BY <1>3, <1>4, <1>5 DEF SweepInv

LEMMA SweepQuiet ==
  ASSUME TypeOK, SweepInv, [Next]_vars,
         \A r \in Requests : ~IssueSession(r) /\ ~EndAllSessions(r) /\ ~ChangePassword(r)
  PROVE  SweepInv'
<1>1. era' = era
  BY DEF Next, Reads, Commits, Starts, Signup, Login, ForgotPassword, Refresh, Replay, Logout,
     ResetPassword, CreateAccount, RevokeAll, EndSession, SendLink, AuditFails, RolledBack, Expire,
     ExpireReset, vars, users
<1>2. ASSUME NEW t \in Tokens
      PROVE  /\ session'[t].user = session[t].user /\ session'[t].era = session[t].era
             /\ session'[t].state = "live" => session[t].state = "live"
  BY RowsKept
<1>3. OnlyFreshLogins'
  BY <1>1, <1>2 DEF OnlyFreshLogins, SweepInv
<1>4. ASSUME NEW q \in Requests, req'[q].pc = "issue"
      PROVE  req'[q].era = era'[req'[q].user]
  <2>1. CASE req'[q] = req[q]
    BY <1>1, <1>4, <2>1 DEF SweepInv
  <2>2. CASE Reads(q)
    BY <1>1, <1>4, <2>2, Started DEF SweepInv, OnlyFreshLogins
  <2>3. CASE RevokeAll(q)
    BY <1>4, <2>3, Updated
  <2>4. QED
    BY <1>4, <2>1, <2>2, <2>3, RequestSteps
<1>5. ASSUME NEW q \in Requests, Sweeping(q)', NEW t \in Tokens, session'[t].state = "live",
             session'[t].user = req'[q].user
      PROVE  t <= req'[q].seen
  <2>1. CASE req'[q] = req[q]
    BY <1>2, <1>5, <2>1 DEF SweepInv, Sweeping
  <2>2. CASE Reads(q)
    BY <1>5, <2>2, Started DEF Sweeping
  <2>3. CASE RevokeAll(q)
    <3>1. req'[q].seen = issued /\ session[t].state = "live"
      BY <1>2, <1>5, <2>3, Updated
    <3>2. issued \in Nat /\ ~(t > issued) /\ t \in Nat
      BY <3>1 DEF TypeOK, TokensOK, Tokens
    <3>3. QED
      BY <3>1, <3>2
  <2>4. QED
    BY <1>5, <2>1, <2>2, <2>3, RequestSteps DEF Sweeping
<1>6. QED
  BY <1>3, <1>4, <1>5 DEF SweepInv

(* With any number of requests at a time, every live session stems from a     *)
(* login after the last replay or password reset of its user, unless one was  *)
(* about to be issued while that transaction was open.                        *)
THEOREM SweepsWhereApart == Spec => SweepsAreFinal
<1>1. Init => SweepInv
  BY DEF Init, SweepInv, OnlyFreshLogins, Sweeping, NoSession, Idle
<1>2. TypeOK /\ EndsApart /\ SweepInv /\ [Next]_vars => SweepInv'
  BY SweepIssue, SweepCommit, SweepQuiet
<1>3. SweepInv => OnlyFreshLogins
  BY DEF SweepInv
<1>4. QED
  BY <1>1, <1>2, <1>3, AuthTypeCorrect, PTL DEF Spec, SweepsAreFinal

-----------------------------------------------------------------------------
(* A reset token is used once. *)

(* An unused reset token was never consumed, and a request that is going to   *)
(* consume one still finds it unused.                                         *)
ResetsFresh ==
  /\ \A p \in Resets : resets[p].uses <= 1 /\ (resets[p].state # "used" => resets[p].uses = 0)
  /\ \A r \in Requests : Resetting(r) => resets[req[r].tok].state = "valid"

(* A request that holds a reset token held it before or has just read it.     *)
LEMMA ResetHolders ==
  ASSUME TypeOK, ResetsFresh, [Next]_vars, NEW q \in Requests, Resetting(q)',
         \A p \in Resets : resets[p].state = "valid" => resets'[p].state = "valid"
  PROVE  resets'[req'[q].tok].state = "valid"
<1>0. \A r \in Requests : Resetting(r) => req[r].tok \in Resets
  BY DEF TypeOK, RequestsOK, RequestOK, Resetting
<1>1. CASE req'[q] = req[q]
  BY <1>0, <1>1 DEF ResetsFresh, Resetting
<1>2. CASE Reads(q)
  BY <1>2, Started DEF Resetting
<1>3. CASE RevokeAll(q)
  BY <1>0, <1>3, Updated DEF ResetsFresh, Resetting
<1>4. QED
  BY <1>1, <1>2, <1>3, RequestSteps DEF Resetting

LEMMA ResetStep ==
  ASSUME TypeOK, ResetsFresh, ResetsApart, [Next]_vars
  PROVE  ResetsFresh'
<1>1. /\ req \in [Requests -> Request] /\ resets \in [Resets -> Reset]
      /\ \A r \in Requests : Resetting(r) => req[r].tok \in Resets
  BY DEF TypeOK, RequestsOK, RequestOK, MailsOK, Resetting
<1>2. ASSUME NEW r \in Requests, ChangePassword(r)
      PROVE  ResetsFresh'
  <2>0. PICK tok \in Resets : tok = req[r].tok
    BY <1>1, <1>2 DEF ChangePassword, Resetting
  <2>1. /\ Resetting(r) /\ Ends(r)
        /\ resets' = [resets EXCEPT ![tok] = Consumed(resets[tok], resets[tok].uses + 1)]
        /\ resets[tok].state = "valid"
    BY <1>2, <2>0 DEF ChangePassword, ResetsFresh, Resetting
  <2>2. resets[tok].uses = 0
    BY <2>0, <2>1 DEF ResetsFresh
  <2>3. resets' = [resets EXCEPT ![tok] = Consumed(resets[tok], 1)]
    BY <2>1, <2>2
  <2>4. Consumed(resets[tok], 1).state = "used" /\ Consumed(resets[tok], 1).uses = 1
    BY DEF Consumed
  <2>5. \A p \in Resets : resets'[p].uses <= 1 /\ (resets'[p].state # "used" => resets'[p].uses = 0)
    BY <1>1, <2>0, <2>3, <2>4 DEF ResetsFresh
  <2>6. ASSUME NEW q \in Requests, Resetting(q)'
        PROVE  resets'[req'[q].tok].state = "valid"
    <3>1. q # r /\ req'[q] = req[q] /\ Resetting(q)
      BY <1>1, <2>1, <2>6 DEF Ends, Idle, Resetting
    <3>2. req[q].tok # tok /\ req[q].tok \in Resets
      BY <1>1, <2>0, <2>1, <3>1 DEF ResetsApart
    <3>3. QED
      BY <1>1, <2>3, <3>1, <3>2 DEF ResetsFresh
  <2>7. QED
    BY <2>5, <2>6 DEF ResetsFresh
<1>3. ASSUME NEW r \in Requests, NEW u \in Users, NEW p \in Resets, ForgotPassword(r, u, p)
      PROVE  ResetsFresh'
  <2>1. /\ resets[p].state = "none"
        /\ resets' = resets \/ resets' = [resets EXCEPT ![p] = NewReset(u)]
    BY <1>3 DEF ForgotPassword
  <2>2. NewReset(u).uses = 0
    BY DEF NewReset
  <2>3. \A n \in Resets : resets'[n].uses <= 1 /\ (resets'[n].state # "used" => resets'[n].uses = 0)
    BY <1>1, <2>1, <2>2 DEF ResetsFresh
  <2>4. \A n \in Resets : resets[n].state = "valid" => resets'[n].state = "valid"
    BY <1>1, <2>1
  <2>5. QED
    BY <2>3, <2>4, ResetHolders DEF ResetsFresh
<1>4. ASSUME NEW p \in Resets, ExpireReset(p)
      PROVE  ResetsFresh'
  <2> DEFINE row == [resets[p] EXCEPT !.expired = TRUE]
  <2>1. resets' = [resets EXCEPT ![p] = row]
    BY <1>4 DEF ExpireReset
  <2>2. row.state = resets[p].state /\ row.uses = resets[p].uses
    BY <1>1 DEF Reset
  <2> HIDE DEF row
  <2>3. \A n \in Resets : resets'[n].state = resets[n].state /\ resets'[n].uses = resets[n].uses
    BY <1>1, <2>1, <2>2
  <2>4. QED
    BY <2>3, ResetHolders DEF ResetsFresh
<1>5. CASE resets' = resets
  BY <1>5, ResetHolders DEF ResetsFresh
<1>6. ASSUME NEW r \in Requests, Reads(r),
             \A u \in Users, p \in Resets : ~ForgotPassword(r, u, p)
      PROVE  resets' = resets
  BY <1>6 DEF Reads, Signup, Login, Refresh, Replay, Logout, ResetPassword, Starts, mails
<1>7. ASSUME NEW r \in Requests, Commits(r), ~ChangePassword(r)
      PROVE  resets' = resets
  BY <1>7 DEF Commits, CreateAccount, IssueSession, RevokeAll, EndAllSessions, EndSession, SendLink,
              AuditFails, RolledBack, mails
<1>8. CASE UNCHANGED vars \/ \E t \in Tokens : Expire(t)
  BY <1>5, <1>8 DEF vars, mails, Expire
<1>9. QED
  BY <1>2, <1>3, <1>4, <1>5, <1>6, <1>7, <1>8 DEF Next

(* A password reset token changes one password, unless two resets hold it at  *)
(* the same time (reset_password).                                            *)
THEOREM ResetsWhereApart == Spec => ResetIsSingleUse
<1>1. Init => ResetsFresh
  BY DEF Init, ResetsFresh, Resetting, NoReset, Idle
<1>2. ResetsFresh => ResetOnce
  BY DEF ResetsFresh, ResetOnce
<1>3. TypeOK /\ ResetsFresh /\ ResetsApart /\ [Next]_vars => ResetsFresh'
  BY ResetStep
<1>4. QED
  BY <1>1, <1>2, <1>3, AuthTypeCorrect, PTL DEF Spec, ResetIsSingleUse

=============================================================================
