---------------------------- MODULE ApiClientProofs ----------------------------
(***************************************************************************)
(* Proofs about the client, for every number of tabs, calls, server        *)
(* requests and tokens.  The composition implements Auth, so what is       *)
(* proved of Auth holds of it.  The inductive invariant has two parts:     *)
(* Wired says, always, how calls, refreshes and server requests belong     *)
(* together; CalmInv says, while it is calm, what a refresh under way may  *)
(* find and leave.                                                         *)
(***************************************************************************)
EXTENDS ApiClient, AuthProofs

USE AuthAssumption, ClientAssumption

-----------------------------------------------------------------------------
(* An exchange is served by a request of its own, and answers what exists. *)
ExchangeFits(x, n) ==
  /\ x.at = "served" <=> x.by \in Requests
  /\ x.at # "answered" => x.got = 0
  /\ x.got \in 0..n
  /\ x.at = "none" => x = Nothing

RefreshFits(c) ==
  LET x == refresh[c] IN
  /\ ExchangeFits(x, issued)
  /\ InFlight(c) => x.token \in 1..issued /\ promise[Tab(c)] = c
  /\ x.at = "served" =>
       /\ req[x.by].pc \in {"issue", "sweep", "sweeping"} /\ req[x.by].tok = x.token
       /\ req[x.by].pc = "issue" => req[x.by].user = session[x.token].user
       /\ sign.post.by # x.by
       /\ \A d \in Calls : refresh[d].by = x.by => d = c
  /\ x.got \notin stale

SignFits ==
  LET x == sign.post IN
  /\ ExchangeFits(x, issued)
  /\ sign.what = "none" => x = Nothing
  /\ sign.what = "login" =>
       /\ sign.user \in Users
       /\ x.at = "served" => /\ req[x.by].pc = "issue" /\ req[x.by].tok = 0
                             /\ req[x.by].user = sign.user
  /\ sign.what = "logout" =>
       /\ x.token \in 1..issued /\ x.got = 0
       /\ x.at = "served" => req[x.by].pc = "logout" /\ req[x.by].tok = x.token

CallFits(c) == call[c].pc = "again" => call[c].pair # 0 /\ call[c].pair \notin stale

Wired ==
  /\ store \in 0..issued /\ stale \subseteq 1..issued
  /\ \A t \in Tabs : promise[t] # NoOne => InFlight(promise[t]) /\ Tab(promise[t]) = t
  /\ \A c \in Calls : RefreshFits(c)
  /\ SignFits
  /\ \A c \in Calls : CallFits(c)

(* While it is calm, the one refresh under way rotates the pair that is stored. *)
RefreshCalm(c) ==
  LET x == refresh[c] IN
  /\ store \in {0, x.token}
  /\ x.got = 0 => session[x.token].state = "live"
  /\ x.at = "served" => req[x.by].pc = "issue"
  /\ x.at = "answered" /\ x.got = 0 => session[x.token].expired
  /\ x.got # 0 => session[x.got].state = "live"

LoginCalm ==
  LET n == sign.post.got IN
  n # 0 =>
    /\ session[n].state = "live" /\ session[n].user = sign.user
    /\ n # store
    /\ \A c \in Calls : InFlight(c) => n # refresh[c].token /\ n # refresh[c].got

StoreCalm ==
  store # 0 /\ ~Refreshing /\ sign.what # "logout" => session[store].state = "live"

CalmInv ==
  /\ \A c, d \in Calls : InFlight(c) /\ InFlight(d) => c = d
  /\ sign.what = "logout" => ~Refreshing
  /\ \A c \in Calls : InFlight(c) => RefreshCalm(c)
  /\ LoginCalm
  /\ StoreCalm

Types == TypeOK /\ ClientTypes

IInv == Types /\ Wired /\ (calm => CalmInv)

-----------------------------------------------------------------------------
(* The service only does what Auth lets it do. *)

LEMMA StepIsAuths == ASSUME IInv, [ClientNext]_clientVars PROVE [Next]_vars
<1> SUFFICES ASSUME ClientNext, vars' # vars PROVE Next
  BY DEF clientVars
<1>1. ASSUME NEW r \in Requests, Reads(r) \/ Commits(r) PROVE Next
  BY <1>1 DEF Next
<1>2. CASE Client
  BY <1>2 DEF Client, Send, Reload, Returned, Refused, Join, StartRefresh, Refreshed, NotRefreshed,
       Failed, LoginForm, LogoutClicked, LoggedIn, NotLoggedIn, LoggedOut, NotLoggedOut
<1>3. issued \in Nat /\ issued <= MaxSessions
  BY DEF IInv, Types, TypeOK, TokensOK
<1>4. ASSUME NEW r \in Requests, TakeSign(r) PROVE Next
  <2>1. CASE sign.what = "login" /\ Login(r, sign.user)
    BY <1>1, <2>1 DEF IInv, Wired, SignFits, Reads
  <2>2. CASE sign.what = "logout" /\ Logout(r, sign.post.token)
    <3>1. sign.post.token \in Tokens
      BY <1>3, <2>2 DEF IInv, Wired, SignFits, Tokens
    <3> QED BY <1>1, <2>2, <3>1 DEF Reads
  <2> QED BY <1>4, <2>1, <2>2 DEF TakeSign
<1>5. ASSUME NEW r \in Requests, AnswerSign(r) \/ Others(r) PROVE Next
  BY <1>1, <1>5 DEF AnswerSign, Others, Commits
<1>6. ASSUME NEW r \in Requests, NEW c \in Calls, TakeRefresh(r, c) PROVE Next
  <2>1. refresh[c].token \in Tokens
    BY <1>3, <1>6 DEF IInv, Wired, RefreshFits, InFlight, Tokens, TakeRefresh
  <2> QED BY <1>1, <1>6, <2>1 DEF TakeRefresh, Reads
<1>7. ASSUME NEW r \in Requests, NEW c \in Calls, AnswerRefresh(r, c) PROVE Next
  BY <1>1, <1>7 DEF AnswerRefresh, Commits
<1>8. CASE TimePasses
  BY <1>8 DEF TimePasses, GoStale, Next
<1> QED BY <1>2, <1>4, <1>5, <1>6, <1>7, <1>8 DEF ClientNext, Service

(* Rows keep their user, do not come back from expiry and are not forgotten. *)
LEMMA RowsStay ==
  ASSUME TypeOK, [Next]_vars
  PROVE  /\ issued \in Nat /\ issued' \in Nat /\ issued <= issued'
         /\ 1..issued \subseteq Tokens
         /\ \A t \in 1..issued : /\ session'[t].user = session[t].user
                                 /\ session[t].expired => session'[t].expired
<1>1. issued \in Nat /\ 1..issued \subseteq Tokens /\ session \in [Tokens -> Session]
  BY DEF TypeOK, TokensOK, Tokens
<1>2. TypeOK'
  BY NextType
<1>3. issued' \in Nat
  BY <1>2 DEF TypeOK, TokensOK
<1>4. CASE UNCHANGED tokens
  BY <1>1, <1>4 DEF tokens
<1>5. ASSUME NEW r \in Requests, IssueSession(r) PROVE issued' = issued + 1
  BY <1>5 DEF IssueSession
<1>6. ASSUME NEW r \in Requests, IssueSession(r), NEW t \in 1..issued
      PROVE  session'[t].user = session[t].user /\ session'[t].expired = session[t].expired
  BY <1>1, <1>6 DEF IssueSession, Revoked, Session
<1>7. ASSUME NEW r \in Requests, EndAllSessions(r) \/ ChangePassword(r)
      PROVE  /\ issued' = issued
             /\ \A t \in Tokens : /\ session'[t].user = session[t].user
                                  /\ session'[t].expired = session[t].expired
  BY <1>1, <1>7 DEF EndAllSessions, ChangePassword, Swept, Revoked, Session
<1>8. ASSUME NEW r \in Requests, EndSession(r)
      PROVE  /\ issued' = issued
             /\ \A t \in Tokens : /\ session'[t].user = session[t].user
                                  /\ session'[t].expired = session[t].expired
  BY <1>1, <1>8 DEF EndSession, Revoked, Session
<1>9. ASSUME NEW n \in Tokens, Expire(n)
      PROVE  /\ issued' = issued
             /\ \A t \in Tokens : /\ session'[t].user = session[t].user
                                  /\ session[t].expired => session'[t].expired
  BY <1>1, <1>9 DEF Expire, Session
<1>10. \/ UNCHANGED tokens
       \/ \E r \in Requests : \/ IssueSession(r) \/ EndAllSessions(r) \/ ChangePassword(r)
                              \/ EndSession(r)
       \/ \E n \in Tokens : Expire(n)
  BY DEF Next, Reads, Commits, Starts, Signup, Login, ForgotPassword, Refresh, Replay, Logout,
         ResetPassword, CreateAccount, RevokeAll, SendLink, AuditFails, RolledBack, ExpireReset, vars,
         tokens
<1> QED BY <1>1, <1>3, <1>4, <1>5, <1>6, <1>7, <1>8, <1>9, <1>10

-----------------------------------------------------------------------------
(* Types. *)

LEMMA Exchanges ==
  ASSUME NEW x \in Exchange, NEW r \in Requests, NEW n \in Pairs
  PROVE  /\ Nothing \in Exchange /\ Posted(n) \in Exchange
         /\ ServedBy(x, r) \in Exchange /\ Answered(x, n) \in Exchange
         /\ Posted(n).at = "sent" /\ Posted(n).token = n /\ Posted(n).by = NoOne /\ Posted(n).got = 0
         /\ ServedBy(x, r).at = "served" /\ ServedBy(x, r).by = r
         /\ ServedBy(x, r).token = x.token /\ ServedBy(x, r).got = x.got
         /\ Answered(x, n).at = "answered" /\ Answered(x, n).by = NoOne
         /\ Answered(x, n).token = x.token /\ Answered(x, n).got = n
<1>0. 0 \in Pairs /\ 0 \in Nat
  BY DEF Pairs
<1>1. Nothing \in Exchange
  BY <1>0 DEF Exchange, Nothing
<1>2. /\ Posted(n) \in Exchange
      /\ Posted(n).at = "sent" /\ Posted(n).token = n /\ Posted(n).by = NoOne /\ Posted(n).got = 0
  BY <1>0 DEF Exchange, Posted
<1>3. /\ ServedBy(x, r) \in Exchange
      /\ ServedBy(x, r).at = "served" /\ ServedBy(x, r).by = r
      /\ ServedBy(x, r).token = x.token /\ ServedBy(x, r).got = x.got
  BY DEF Exchange, ServedBy
<1>4. /\ Answered(x, n) \in Exchange
      /\ Answered(x, n).at = "answered" /\ Answered(x, n).by = NoOne
      /\ Answered(x, n).token = x.token /\ Answered(x, n).got = n
  BY DEF Exchange, Answered
<1> QED BY <1>1, <1>2, <1>3, <1>4

LEMMA CallRows ==
  ASSUME NEW x \in Call, NEW n \in Pairs, NEW pc \in {"again", "refused"}
  PROVE  /\ NoCall \in Call /\ NoCall.pc = "idle"
         /\ [NoCall EXCEPT !.pc = "sent", !.pair = n] \in Call
         /\ [pc |-> "sent", pair |-> n, load |-> TRUE, on |-> NoOne] \in Call
         /\ [x EXCEPT !.pc = "refused"] \in Call
         /\ [x EXCEPT !.pc = pc, !.pair = n, !.on = NoOne] \in Call
         /\ \A c \in Calls : [x EXCEPT !.pc = "waiting", !.on = c] \in Call
<1>0. 0 \in Pairs
  BY DEF Pairs
<1>1. NoCall \in Call /\ NoCall.pc = "idle"
  BY <1>0 DEF Call, NoCall
<1>2. [NoCall EXCEPT !.pc = "sent", !.pair = n] \in Call
  BY <1>1 DEF Call
<1>3. [pc |-> "sent", pair |-> n, load |-> TRUE, on |-> NoOne] \in Call
  BY DEF Call
<1>4. [x EXCEPT !.pc = "refused"] \in Call
  BY DEF Call
<1>5. pc \in {"idle", "sent", "waiting", "again", "refused"}
  OBVIOUS
<1>6. [x EXCEPT !.pc = pc, !.pair = n, !.on = NoOne] \in Call
  BY <1>5 DEF Call
<1>7. \A c \in Calls : [x EXCEPT !.pc = "waiting", !.on = c] \in Call
  BY DEF Call
<1> QED BY <1>1, <1>2, <1>3, <1>4, <1>6, <1>7

LEMMA AwokenRows ==
  ASSUME ClientTypes, NEW c \in Calls, NEW pc \in {"again", "refused"}, NEW n \in Pairs
  PROVE  /\ Awoken(c, pc, n) \in [Calls -> Call]
         /\ \A d \in Calls : Awoken(c, pc, n)[d].pc = "again" =>
              \/ call[d].pc = "again" /\ Awoken(c, pc, n)[d] = call[d]
              \/ pc = "again" /\ Awoken(c, pc, n)[d].pair = n
<1> DEFINE new == Awoken(c, pc, n)
<1> HIDE DEF new
<1>1. ASSUME NEW d \in Calls
      PROVE  /\ new[d] \in Call
             /\ new[d].pc = "again" =>
                  \/ call[d].pc = "again" /\ new[d] = call[d]
                  \/ pc = "again" /\ new[d].pair = n
  <2>1. call[d] \in Call
    BY DEF ClientTypes
  <2>2. CASE call[d].pc = "waiting" /\ call[d].on = c
    <3>1. new[d] = [call[d] EXCEPT !.pc = pc, !.pair = n, !.on = NoOne]
      BY <2>2 DEF Awoken, new
    <3>2. new[d].pc = pc /\ new[d].pair = n
      BY <2>1, <3>1 DEF Call
    <3>3. new[d] \in Call
      <4>1. pc \in {"idle", "sent", "waiting", "again", "refused"}
        OBVIOUS
      <4> QED BY <2>1, <3>1, <4>1 DEF Call
    <3> QED BY <3>2, <3>3
  <2>3. CASE ~(call[d].pc = "waiting" /\ call[d].on = c)
    <3>1. new[d] = call[d]
      BY <2>3 DEF Awoken, new
    <3>2. new[d].pc = "again" => call[d].pc = "again"
      BY <3>1
    <3>3. new[d] \in Call
      BY <2>1, <3>1, Zenon
    <3> QED BY <3>1, <3>2, <3>3, Zenon
  <2> QED BY <2>2, <2>3
<1>2. new = [d \in Calls |-> new[d]]
  BY DEF Awoken, new
<1> QED BY <1>1, <1>2 DEF new

LEMMA TypesStep == ASSUME IInv, ClientNext PROVE ClientTypes'
<1>0. ClientTypes /\ 0 \in Pairs /\ store \in Pairs /\ issued \in Pairs /\ NoUser \in Users \union {NoUser}
      /\ 1..issued \subseteq Tokens
  BY DEF IInv, Types, ClientTypes, TypeOK, TokensOK, Pairs, Tokens
<1>1. call \in [Calls -> Call] /\ refresh \in [Calls -> Exchange] /\ Nothing \in Exchange /\ Posted(store) \in Exchange
  BY <1>0 DEF ClientTypes, Exchange, Nothing, Posted
<1>2. ASSUME NEW c \in Calls, Send(c) PROVE ClientTypes'
  BY <1>0, <1>1, <1>2, CallRows DEF Send, ClientTypes
<1>3. ASSUME NEW c \in Calls, Reload(c) PROVE ClientTypes'
  BY <1>0, <1>1, <1>3, CallRows DEF Reload, ClientTypes
<1>4. ASSUME NEW c \in Calls, Returned(c) \/ Refused(c) PROVE ClientTypes'
  <2>1. NoCall \in Call /\ [call[c] EXCEPT !.pc = "refused"] \in Call
    BY <1>0, <1>1 DEF Call, NoCall
  <2>2. \E x \in Call : call' = [call EXCEPT ![c] = x]
    BY <1>4, <2>1 DEF Returned, Refused
  <2> QED BY <1>0, <1>1, <1>4, <2>2 DEF Returned, Refused, ClientTypes
<1>5. ASSUME NEW c \in Calls, Join(c) PROVE ClientTypes'
  BY <1>0, <1>1, <1>5, CallRows DEF Join, Shares, Tab, ClientTypes
<1>6. ASSUME NEW c \in Calls, StartRefresh(c) PROVE ClientTypes'
  <2>1. calm' \in BOOLEAN
    BY <1>0, <1>6 DEF StartRefresh, ClientTypes
  <2> QED BY <1>0, <1>1, <1>6, <2>1, CallRows DEF StartRefresh, ClientTypes
<1>7. ASSUME NEW c \in Calls, Refreshed(c) PROVE ClientTypes'
  <2>1. refresh[c].got \in Pairs
    BY <1>1 DEF Exchange
  <2> QED BY <1>0, <1>1, <1>7, <2>1, AwokenRows DEF Refreshed, Settled, ClientTypes
<1>8. ASSUME NEW c \in Calls, NotRefreshed(c) PROVE ClientTypes'
  BY <1>0, <1>1, <1>8, AwokenRows DEF NotRefreshed, Settled, ClientTypes
<1>9. ASSUME NEW c \in Calls, Failed(c) PROVE ClientTypes'
  BY <1>0, <1>1, <1>9, CallRows DEF Failed, ClientTypes
<1>10. ASSUME NEW u \in Users, LoginForm(u) PROVE ClientTypes'
  <2>1. Posted(0) \in Exchange
    BY <1>0, <1>1, Exchanges DEF Exchange, Posted
  <2> QED BY <1>0, <1>10, <2>1 DEF LoginForm, ClientTypes
<1>11. CASE LogoutClicked
  BY <1>0, <1>1, <1>11 DEF LogoutClicked, ClientTypes
<1>12. CASE LoggedIn \/ NotLoggedIn \/ LoggedOut \/ NotLoggedOut
  <2>1. NoSign \in [what : {"none", "login", "logout"}, user : Users \union {NoUser}, post : Exchange]
    BY <1>1 DEF NoSign
  <2>2. sign.post.got \in Pairs /\ sign.user \in Users \union {NoUser}
    BY <1>0 DEF ClientTypes, Exchange
  <2> QED BY <1>0, <1>12, <2>1, <2>2 DEF LoggedIn, NotLoggedIn, LoggedOut, NotLoggedOut, ClientTypes
<1>13. issued' \in Pairs
  <2>1. TypeOK'
    BY StepIsAuths, NextType DEF IInv, Types
  <2> QED BY <2>1 DEF TypeOK, TokensOK, Pairs
<1>14. ASSUME NEW r \in Requests, TakeSign(r) \/ AnswerSign(r) PROVE ClientTypes'
  <2>1. sign.post \in Exchange
    BY <1>0 DEF ClientTypes
  <2>2. /\ ServedBy(sign.post, r) \in Exchange /\ Answered(sign.post, 0) \in Exchange
        /\ Answered(sign.post, issued') \in Exchange
    BY <1>0, <1>13, <2>1, Exchanges
  <2>3. UNCHANGED <<store, stale, call, refresh, promise>> /\ calm' \in BOOLEAN
    BY <1>0, <1>14 DEF TakeSign, AnswerSign, Copes, ClientTypes
  <2>4. \E x \in Exchange : sign' = [sign EXCEPT !.post = x]
    BY <1>14, <2>2 DEF TakeSign, AnswerSign
  <2> QED BY <1>0, <2>3, <2>4 DEF ClientTypes
<1>15. ASSUME NEW r \in Requests, NEW c \in Calls, TakeRefresh(r, c) \/ AnswerRefresh(r, c) PROVE ClientTypes'
  <2>1. refresh[c] \in Exchange
    BY <1>1
  <2>2. /\ ServedBy(refresh[c], r) \in Exchange /\ Answered(refresh[c], 0) \in Exchange
        /\ Answered(refresh[c], issued') \in Exchange
    BY <1>0, <1>13, <2>1, Exchanges
  <2>3. UNCHANGED <<store, stale, call, sign, promise>> /\ calm' \in BOOLEAN
    BY <1>0, <1>15 DEF TakeRefresh, AnswerRefresh, Copes, ClientTypes
  <2>4. UNCHANGED refresh \/ \E x \in Exchange : refresh' = [refresh EXCEPT ![c] = x]
    BY <1>15, <2>2 DEF TakeRefresh, AnswerRefresh
  <2> QED BY <1>0, <2>3, <2>4 DEF ClientTypes
<1>16. ASSUME NEW r \in Requests, Others(r) PROVE ClientTypes'
  BY <1>0, <1>16 DEF Others, browser, ClientTypes
<1>17. CASE TimePasses
  BY <1>0, <1>17 DEF TimePasses, GoStale, browser, ClientTypes
<1> QED
  BY <1>2, <1>3, <1>4, <1>5, <1>6, <1>7, <1>8, <1>9, <1>10, <1>11, <1>12, <1>14, <1>15, <1>16, <1>17
     DEF ClientNext, Client, Service

-----------------------------------------------------------------------------
(* Wired: what the tabs do. *)

LEMMA NothingFits ==
  ASSUME NEW n \in Nat
  PROVE  /\ ExchangeFits(Nothing, n)
         /\ Nothing.at = "none" /\ Nothing.got = 0 /\ Nothing.by = NoOne /\ Nothing.token = 0
BY DEF ExchangeFits, Nothing

LEMMA PostedFits ==
  ASSUME NEW n \in Nat, NEW t
  PROVE  /\ ExchangeFits(Posted(t), n)
         /\ Posted(t).at = "sent" /\ Posted(t).got = 0 /\ Posted(t).by = NoOne /\ Posted(t).token = t
BY DEF ExchangeFits, Posted

LEMMA CallOnly ==
  ASSUME IInv, UNCHANGED <<vars, stale, promise, refresh, sign>>, store' \in 0..issued,
         \A c \in Calls : CallFits(c)'
  PROVE  Wired'
<1>1. UNCHANGED <<req, session, issued, refresh, promise, stale, sign>>
  BY DEF vars, tokens
<1>2. ASSUME NEW c \in Calls PROVE RefreshFits(c)'
  <2>1. RefreshFits(c)
    BY DEF IInv, Wired
  <2> QED BY <1>1, <2>1 DEF RefreshFits, ExchangeFits, InFlight
<1>3. SignFits'
  BY <1>1 DEF IInv, Wired, SignFits, ExchangeFits
<1>4. \A t \in Tabs : promise'[t] # NoOne => InFlight(promise[t])' /\ Tab(promise'[t]) = t
  BY <1>1 DEF IInv, Wired, InFlight
<1>5. store' \in 0..issued' /\ stale' \subseteq 1..issued'
  BY <1>1 DEF IInv, Wired
<1> QED BY <1>2, <1>3, <1>4, <1>5 DEF Wired

LEMMA CallSteps ==
  ASSUME IInv, NEW c \in Calls, Send(c) \/ Returned(c) \/ Refused(c) \/ Join(c) \/ Failed(c)
  PROVE  Wired'
<1>1. store' \in 0..issued
  BY DEF IInv, Types, TypeOK, TokensOK, Wired, Send, Returned, Refused, Join, Failed
<1>2. UNCHANGED <<vars, stale, promise, refresh, sign>>
  BY DEF Send, Returned, Refused, Join, Failed
<1>3. call \in [Calls -> Call]
  BY DEF IInv, Types, ClientTypes
<1>4. \E x : call' = [call EXCEPT ![c] = x] /\ x.pc # "again"
  <2>1. CASE Send(c)
    <3> DEFINE x == [NoCall EXCEPT !.pc = "sent", !.pair = store]
    <3>1. x.pc # "again"
      BY DEF NoCall
    <3> QED BY <2>1, <3>1 DEF Send
  <2>2. CASE Returned(c) \/ Failed(c)
    <3>1. call' = [call EXCEPT ![c] = NoCall]
      BY <2>2 DEF Returned, Failed
    <3>2. NoCall.pc # "again"
      BY DEF NoCall
    <3> QED BY <3>1, <3>2
  <2>3. CASE Refused(c)
    <3>1. call' = [call EXCEPT ![c] = [call[c] EXCEPT !.pc = "refused"]]
      BY <1>3, <2>3 DEF Refused
    <3>2. [call[c] EXCEPT !.pc = "refused"].pc # "again"
      BY <1>3 DEF Call
    <3> QED BY <3>1, <3>2
  <2>4. CASE Join(c)
    <3> DEFINE x == [call[c] EXCEPT !.pc = "waiting", !.on = promise[Tab(c)]]
    <3>1. call' = [call EXCEPT ![c] = x]
      BY <1>3, <2>4 DEF Join
    <3>2. x.pc # "again"
      BY <1>3 DEF Call
    <3> QED BY <3>1, <3>2
  <2> QED BY <2>1, <2>2, <2>3, <2>4
<1>5. \A d \in Calls : call'[d].pc = "again" => call'[d] = call[d]
  BY <1>3, <1>4
<1> QED BY <1>1, <1>2, <1>5, CallOnly DEF IInv, Wired, CallFits

(* A tab has one refresh under way: its promise. *)
LEMMA OnePerTab ==
  ASSUME IInv, NEW c \in Calls, NEW d \in Calls, InFlight(c), InFlight(d), Tab(c) = Tab(d)
  PROVE  c = d
BY DEF IInv, Wired, RefreshFits

(* The refreshes of S are settled, or lost with their tab t. *)
LEMMA Ended ==
  ASSUME IInv, NEW S \in SUBSET Calls, NEW t \in Tabs,
         UNCHANGED <<vars, stale, sign>>, store' \in 0..issued,
         refresh' = [d \in Calls |-> IF d \in S THEN Nothing ELSE refresh[d]],
         promise' = [promise EXCEPT ![t] = NoOne],
         \A d \in S : Tab(d) = t,
         \A d \in Calls : InFlight(d) /\ Tab(d) = t => d \in S,
         \A c \in Calls : CallFits(c)'
  PROVE  Wired'
<1>1. UNCHANGED <<req, session, issued, stale, sign>> /\ promise \in [Tabs -> Calls \union {NoOne}]
      /\ issued \in Nat
  BY DEF vars, tokens, IInv, Types, ClientTypes, TypeOK, TokensOK
<1>2. ASSUME NEW c \in Calls PROVE RefreshFits(c)'
  <2>1. CASE c \in S
    <3>1. refresh'[c] = Nothing
      BY <2>1
    <3>2. /\ ExchangeFits(refresh'[c], issued') /\ refresh'[c].at = "none" /\ refresh'[c].got = 0
      BY <1>1, <3>1, NothingFits
    <3>3. 0 \notin stale
      BY DEF IInv, Wired
    <3> QED BY <1>1, <3>2, <3>3 DEF RefreshFits, InFlight
  <2>2. CASE c \notin S
    <3>1. refresh'[c] = refresh[c] /\ RefreshFits(c)
      BY <2>2 DEF IInv, Wired
    <3>2. InFlight(c) => promise'[Tab(c)] = promise[Tab(c)]
      <4>1. Tab(c) \in Tabs
        BY DEF Tab
      <4> QED BY <1>1, <2>2, <4>1
    <3>3. \A d \in Calls : refresh'[d].by \in Requests => refresh'[d] = refresh[d]
      BY NothingFits, <1>1
    <3>4. ExchangeFits(refresh[c], issued')
      BY <1>1, <3>1 DEF RefreshFits
    <3>5. (refresh[c].at = "served") => refresh[c].by \in Requests
      BY <3>1 DEF RefreshFits, ExchangeFits
    <3>6. ASSUME refresh[c].at = "served", NEW d \in Calls, refresh'[d].by = refresh[c].by PROVE d = c
      BY <3>1, <3>3, <3>5, <3>6 DEF RefreshFits
    <3> HIDE DEF ExchangeFits
    <3>7. InFlight(c)' <=> InFlight(c)
      BY <3>1 DEF InFlight
    <3>8. InFlight(c) => refresh'[c].token \in 1..issued' /\ promise'[Tab(c)] = c
      BY <1>1, <3>1, <3>2 DEF RefreshFits
    <3>9. refresh'[c].got \notin stale' /\ ExchangeFits(refresh'[c], issued')
      BY <1>1, <3>1, <3>4 DEF RefreshFits
    <3> QED BY <1>1, <3>1, <3>6, <3>7, <3>8, <3>9 DEF RefreshFits
  <2> QED BY <2>1, <2>2
<1>3. SignFits'
  BY <1>1 DEF IInv, Wired, SignFits, ExchangeFits
<1>4. ASSUME NEW u \in Tabs, promise'[u] # NoOne PROVE InFlight(promise[u])' /\ Tab(promise'[u]) = u
  <2>1. u # t /\ promise'[u] = promise[u] /\ promise[u] \in Calls
    BY <1>1, <1>4
  <2>2. Tab(promise[u]) = u /\ InFlight(promise[u])
    BY <2>1, <1>4 DEF IInv, Wired
  <2>3. promise[u] \notin S
    BY <2>1, <2>2
  <2>4. refresh'[promise[u]] = refresh[promise[u]]
    BY <2>1, <2>3
  <2> QED BY <2>1, <2>2, <2>4 DEF InFlight
<1>5. store' \in 0..issued' /\ stale' \subseteq 1..issued'
  BY <1>1 DEF IInv, Wired
<1> QED BY <1>2, <1>3, <1>4, <1>5 DEF Wired

LEMMA RefreshEnds ==
  ASSUME IInv, NEW c \in Calls, Reload(c) \/ Refreshed(c) \/ NotRefreshed(c)
  PROVE  Wired'
<1>0. /\ call \in [Calls -> Call] /\ refresh \in [Calls -> Exchange] /\ issued \in Nat
      /\ 0 \in Pairs /\ Tab(c) \in Tabs
  BY DEF IInv, Types, ClientTypes, TypeOK, TokensOK, Pairs, Tab
<1>1. CASE Reload(c)
  <2> DEFINE S == {d \in Calls : Tab(d) = Tab(c)}
  <2>1. store' \in 0..issued /\ UNCHANGED <<vars, stale, sign>>
    BY <1>1 DEF Reload, IInv, Wired
  <2>2. /\ refresh' = [d \in Calls |-> IF d \in S THEN Nothing ELSE refresh[d]]
        /\ promise' = [promise EXCEPT ![Tab(c)] = NoOne]
    BY <1>1 DEF Reload
  <2>3. \A d \in Calls : call'[d].pc = "again" => call'[d] = call[d]
    BY <1>0, <1>1 DEF Reload, NoCall
  <2>4. \A d \in Calls : CallFits(d)'
    BY <2>1, <2>3 DEF CallFits, IInv, Wired
  <2>5. S \in SUBSET Calls /\ Tab(c) \in Tabs /\ \A d \in S : Tab(d) = Tab(c)
    BY <1>0
  <2>6. \A d \in Calls : InFlight(d) /\ Tab(d) = Tab(c) => d \in S
    OBVIOUS
  <2> HIDE DEF S
  <2> QED BY <2>1, <2>2, <2>4, <2>5, <2>6, Ended
<1>2. CASE Refreshed(c) \/ NotRefreshed(c)
  <2> DEFINE S == {c}
  <2>1. InFlight(c) /\ refresh[c].got \in 0..issued /\ refresh[c].got \notin stale
    BY <1>2 DEF Refreshed, NotRefreshed, InFlight, IInv, Wired, RefreshFits, ExchangeFits
  <2>2. store' \in 0..issued /\ UNCHANGED <<vars, stale, sign>>
    BY <1>2, <2>1 DEF Refreshed, NotRefreshed, IInv, Wired
  <2>3. /\ refresh' = [d \in Calls |-> IF d \in S THEN Nothing ELSE refresh[d]]
        /\ promise' = [promise EXCEPT ![Tab(c)] = NoOne]
    BY <1>0, <1>2 DEF Refreshed, NotRefreshed, Settled
  <2>4. \A d \in Calls : InFlight(d) /\ Tab(d) = Tab(c) => d \in S
    BY <2>1, OnePerTab
  <2>5. ASSUME NEW d \in Calls PROVE CallFits(d)'
    <3>1. CASE Refreshed(c)
      <4>1. refresh[c].got \in Pairs /\ call' = Awoken(c, "again", refresh[c].got) /\ refresh[c].got # 0
        BY <1>0, <3>1 DEF Refreshed, Exchange
      <4>2. call'[d].pc = "again" => (call[d].pc = "again" /\ call'[d] = call[d]) \/ call'[d].pair = refresh[c].got
        BY <4>1, AwokenRows DEF IInv, Types
      <4> QED BY <2>1, <2>2, <4>1, <4>2 DEF CallFits, IInv, Wired
    <3>2. CASE NotRefreshed(c)
      <4>1. call' = Awoken(c, "refused", 0)
        BY <3>2 DEF NotRefreshed
      <4>2. call'[d].pc = "again" => call[d].pc = "again" /\ call'[d] = call[d]
        BY <1>0, <4>1, AwokenRows DEF IInv, Types
      <4> QED BY <2>2, <4>2 DEF CallFits, IInv, Wired
    <3> QED BY <1>2, <3>1, <3>2
  <2> QED BY <1>0, <2>2, <2>3, <2>4, <2>5, Ended
<1> QED BY <1>1, <1>2

LEMMA RefreshStarts ==
  ASSUME IInv, NEW c \in Calls, StartRefresh(c)
  PROVE  Wired'
<1>0. /\ call \in [Calls -> Call] /\ refresh \in [Calls -> Exchange] /\ issued \in Nat
      /\ promise \in [Tabs -> Calls \union {NoOne}] /\ Tab(c) \in Tabs
  BY DEF IInv, Types, ClientTypes, TypeOK, TokensOK, Tab
<1>1. /\ UNCHANGED <<req, session, issued, stale, sign, store>>
      /\ refresh' = [refresh EXCEPT ![c] = Posted(store)]
      /\ promise' = [promise EXCEPT ![Tab(c)] = c]
      /\ promise[Tab(c)] = NoOne /\ store \in 1..issued
  BY <1>0 DEF StartRefresh, Shares, vars, tokens, IInv, Wired
<1>2. ASSUME NEW d \in Calls PROVE RefreshFits(d)'
  <2>1. CASE d = c
    <3>1. refresh'[d] = Posted(store)
      BY <1>0, <1>1, <2>1
    <3>2. /\ ExchangeFits(refresh'[d], issued')
          /\ refresh'[d].at = "sent" /\ refresh'[d].got = 0 /\ refresh'[d].token = store
      BY <1>0, <1>1, <3>1, PostedFits
    <3>3. 0 \notin stale /\ promise'[Tab(c)] = c
      BY <1>0, <1>1 DEF IInv, Wired
    <3> QED BY <1>1, <2>1, <3>2, <3>3 DEF RefreshFits, InFlight
  <2>2. CASE d # c
    <3>1. refresh'[d] = refresh[d] /\ RefreshFits(d)
      BY <1>1, <2>2 DEF IInv, Wired
    <3>2. InFlight(d) => Tab(d) # Tab(c) /\ promise'[Tab(d)] = promise[Tab(d)]
      <4>1. Tab(d) \in Tabs
        BY DEF Tab
      <4> QED BY <1>0, <1>1, <3>1, <4>1 DEF RefreshFits
    <3>3. \A e \in Calls : refresh'[e].by \in Requests => refresh'[e] = refresh[e]
      BY <1>0, <1>1, PostedFits
    <3>5. (refresh[d].at = "served") => refresh[d].by \in Requests
      BY <3>1 DEF RefreshFits, ExchangeFits
    <3>6. ASSUME refresh[d].at = "served", NEW e \in Calls, refresh'[e].by = refresh[d].by PROVE e = d
      BY <3>1, <3>3, <3>5, <3>6 DEF RefreshFits
    <3>7. InFlight(d)' <=> InFlight(d)
      BY <3>1 DEF InFlight
    <3>8. InFlight(d) => refresh'[d].token \in 1..issued' /\ promise'[Tab(d)] = d
      BY <1>1, <3>1, <3>2 DEF RefreshFits
    <3>9. refresh'[d].got \notin stale' /\ ExchangeFits(refresh'[d], issued')
      BY <1>1, <3>1 DEF RefreshFits
    <3> QED BY <1>1, <3>1, <3>6, <3>7, <3>8, <3>9 DEF RefreshFits
  <2> QED BY <2>1, <2>2
<1>3. SignFits'
  BY <1>1 DEF IInv, Wired, SignFits, ExchangeFits
<1>4. ASSUME NEW u \in Tabs, promise'[u] # NoOne PROVE InFlight(promise[u])' /\ Tab(promise'[u]) = u
  <2>1. CASE u = Tab(c)
    <3>1. promise'[u] = c /\ refresh'[c] = Posted(store)
      BY <1>0, <1>1, <2>1
    <3> QED BY <1>0, <2>1, <3>1, PostedFits DEF InFlight
  <2>2. CASE u # Tab(c)
    <3>1. promise'[u] = promise[u] /\ promise[u] \in Calls
      BY <1>0, <1>1, <1>4, <2>2
    <3>2. Tab(promise[u]) = u /\ InFlight(promise[u])
      BY <1>4, <3>1 DEF IInv, Wired
    <3>3. refresh'[promise[u]] = refresh[promise[u]]
      BY <1>0, <1>1, <2>2, <3>1, <3>2
    <3> QED BY <3>1, <3>2, <3>3 DEF InFlight
  <2> QED BY <2>1, <2>2
<1>5. \A d \in Calls : CallFits(d)'
  <2>1. call' = [call EXCEPT ![c] = [call[c] EXCEPT !.pc = "waiting", !.on = c]]
    BY <1>0 DEF StartRefresh
  <2>2. [call[c] EXCEPT !.pc = "waiting", !.on = c].pc # "again"
    BY <1>0 DEF Call
  <2>3. \A d \in Calls : call'[d].pc = "again" => call'[d] = call[d]
    BY <1>0, <2>1, <2>2
  <2> QED BY <1>1, <2>3 DEF CallFits, IInv, Wired
<1>6. store' \in 0..issued' /\ stale' \subseteq 1..issued'
  BY <1>1 DEF IInv, Wired
<1> QED BY <1>2, <1>3, <1>4, <1>5, <1>6 DEF Wired

(* What is asked of the service at the sign-in form, or settled there. *)
LEMMA SignSteps ==
  ASSUME IInv, \/ \E u \in Users : LoginForm(u)
               \/ LogoutClicked \/ LoggedIn \/ NotLoggedIn \/ LoggedOut \/ NotLoggedOut
  PROVE  Wired'
<1>0. issued \in Nat /\ 0 \in 0..issued /\ store \in 0..issued /\ SignFits
  BY DEF IInv, Types, TypeOK, TokensOK, Wired
<1>1. UNCHANGED <<vars, req, session, issued, stale, call, refresh, promise>>
  BY DEF LoginForm, LogoutClicked, LoggedIn, NotLoggedIn, LoggedOut, NotLoggedOut, vars, tokens
<1>2. sign.post.got \in 0..issued
  BY <1>0 DEF SignFits, ExchangeFits
<1>3. store' \in 0..issued
  BY <1>0, <1>2 DEF LoginForm, LogoutClicked, LoggedIn, NotLoggedIn, LoggedOut, NotLoggedOut
<1>4. SignFits' /\ sign'.post.by = NoOne
  <2>1. ASSUME NEW u \in Users, LoginForm(u) PROVE SignFits' /\ sign'.post.by = NoOne
    <3>1. sign'.what = "login" /\ sign'.user = u /\ sign'.post = Posted(0)
      BY <2>1 DEF LoginForm
    <3>2. ExchangeFits(sign'.post, issued') /\ sign'.post.at = "sent" /\ sign'.post.by = NoOne
      BY <1>0, <1>1, <3>1, PostedFits
    <3> QED BY <3>1, <3>2 DEF SignFits
  <2>2. CASE LogoutClicked
    <3>1. sign'.what = "logout" /\ sign'.post = Posted(store) /\ store \in 1..issued
      BY <1>0, <2>2 DEF LogoutClicked
    <3>2. /\ ExchangeFits(sign'.post, issued') /\ sign'.post.at = "sent" /\ sign'.post.by = NoOne
          /\ sign'.post.token = store /\ sign'.post.got = 0
      BY <1>0, <1>1, <3>1, PostedFits
    <3> QED BY <1>1, <3>1, <3>2 DEF SignFits
  <2>3. CASE LoggedIn \/ NotLoggedIn \/ LoggedOut \/ NotLoggedOut
    <3>1. sign'.what = "none" /\ sign'.post = Nothing
      BY <2>3 DEF LoggedIn, NotLoggedIn, LoggedOut, NotLoggedOut, NoSign
    <3>2. ExchangeFits(sign'.post, issued') /\ sign'.post.at = "none" /\ sign'.post.by = NoOne
      BY <1>0, <1>1, <3>1, NothingFits
    <3> QED BY <3>1, <3>2 DEF SignFits
  <2> QED BY <2>1, <2>2, <2>3
<1>5. ASSUME NEW c \in Calls PROVE RefreshFits(c)'
  <2>1. RefreshFits(c) /\ UNCHANGED refresh[c]
    BY <1>1 DEF IInv, Wired
  <2>2. refresh[c].at = "served" => refresh[c].by # NoOne
    BY <2>1 DEF RefreshFits, ExchangeFits
  <2> QED BY <1>1, <1>4, <2>1, <2>2 DEF RefreshFits, InFlight
<1>6. \A c \in Calls : CallFits(c)'
  BY <1>1 DEF IInv, Wired, CallFits
<1>7. ASSUME NEW u \in Tabs, promise'[u] # NoOne PROVE InFlight(promise[u])' /\ Tab(promise'[u]) = u
  BY <1>1, <1>7 DEF IInv, Wired, InFlight
<1>8. store' \in 0..issued' /\ stale' \subseteq 1..issued'
  BY <1>1, <1>3 DEF IInv, Wired
<1> QED BY <1>4, <1>5, <1>6, <1>7, <1>8 DEF Wired

-----------------------------------------------------------------------------
(* Wired: what the service and the clock do. *)

(* A request of the service moves itself only. *)
LEMMA OneMoves ==
  ASSUME TypeOK, NEW r \in Requests, Reads(r) \/ Commits(r)
  PROVE  \A q \in Requests : q # r => req'[q] = req[q]
<1>1. req \in [Requests -> Request]
  BY DEF TypeOK, RequestsOK
<1>2. \E x : req' = [req EXCEPT ![r] = x]
  BY DEF Reads, Commits, Starts, Ends, Signup, Login, ForgotPassword, Refresh, Replay, Logout,
     ResetPassword, CreateAccount, IssueSession, RevokeAll, EndAllSessions, EndSession, ChangePassword,
     SendLink, AuditFails, RolledBack
<1> QED BY <1>1, <1>2

LEMMA RefreshKept ==
  ASSUME IInv, TypeOK, [Next]_vars, NEW c \in Calls,
         refresh'[c] = refresh[c], UNCHANGED promise, refresh[c].got \notin stale',
         refresh[c].at = "served" =>
           /\ req'[refresh[c].by] = req[refresh[c].by]
           /\ sign'.post.by # refresh[c].by
           /\ \A d \in Calls : refresh'[d].by = refresh[c].by => d = c
  PROVE  RefreshFits(c)'
<1>0. RefreshFits(c)
  BY DEF IInv, Wired
<1>1. issued \in Nat /\ issued' \in Nat /\ issued <= issued'
  BY RowsStay
<1>2. ExchangeFits(refresh'[c], issued')
  BY <1>0, <1>1 DEF RefreshFits, ExchangeFits
<1>3. InFlight(c)' <=> InFlight(c)
  BY DEF InFlight
<1>4. InFlight(c) =>
         /\ refresh'[c].token \in 1..issued' /\ promise'[Tab(c)] = c
         /\ session'[refresh'[c].token].user = session[refresh[c].token].user
  BY <1>0, <1>1, RowsStay DEF RefreshFits
<1>5. refresh'[c].at = "served" =>
        /\ req'[refresh'[c].by].pc \in {"issue", "sweep", "sweeping"}
        /\ req'[refresh'[c].by].tok = refresh'[c].token
        /\ req'[refresh'[c].by].pc = "issue" =>
             req'[refresh'[c].by].user = session'[refresh'[c].token].user
  <2>1. ASSUME refresh[c].at = "served" PROVE InFlight(c)
    BY <2>1 DEF InFlight
  <2> QED BY <1>0, <1>4, <2>1 DEF RefreshFits
<1> QED BY <1>2, <1>3, <1>4, <1>5 DEF RefreshFits

LEMMA SignKept ==
  ASSUME IInv, TypeOK, [Next]_vars, UNCHANGED sign,
         sign.post.at = "served" => req'[sign.post.by] = req[sign.post.by]
  PROVE  SignFits'
<1>0. SignFits
  BY DEF IInv, Wired
<1>1. issued \in Nat /\ issued' \in Nat /\ issued <= issued'
  BY RowsStay
<1>2. ExchangeFits(sign'.post, issued')
  BY <1>0, <1>1 DEF SignFits, ExchangeFits
<1>3. sign.post.token \in 1..issued => sign.post.token \in 1..issued'
  BY <1>1
<1> QED BY <1>0, <1>2, <1>3 DEF SignFits

(* The browser's part of Wired that no step of the service touches. *)
LEMMA BrowserKept ==
  ASSUME IInv, TypeOK, [Next]_vars, UNCHANGED <<store, stale, call, promise>>,
         \A c \in Calls : InFlight(c) => InFlight(c)',
         \A c \in Calls : RefreshFits(c)', SignFits'
  PROVE  Wired'
<1>1. issued \in Nat /\ issued' \in Nat /\ issued <= issued'
  BY RowsStay
<1>2. store' \in 0..issued' /\ stale' \subseteq 1..issued'
  BY <1>1 DEF IInv, Wired
<1>3. \A c \in Calls : CallFits(c)'
  BY DEF IInv, Wired, CallFits
<1>4. ASSUME NEW t \in Tabs, promise'[t] # NoOne PROVE InFlight(promise[t])' /\ Tab(promise'[t]) = t
  <2>1. promise[t] \in Calls /\ InFlight(promise[t]) /\ Tab(promise[t]) = t
    BY <1>4 DEF IInv, Wired, Types, ClientTypes
  <2> QED BY <2>1
<1> QED BY <1>2, <1>3, <1>4 DEF Wired

LEMMA OthersSteps ==
  ASSUME IInv, NEW r \in Requests, Others(r)
  PROVE  Wired'
<1>0. TypeOK /\ [Next]_vars
  BY StepIsAuths DEF IInv, Types, ClientNext, Service
<1>1. UNCHANGED <<store, stale, call, refresh, promise, sign>> /\ ~Ours(r)
  BY DEF Others, browser
<1>2. \A q \in Requests : q # r => req'[q] = req[q]
  BY <1>0, OneMoves DEF Others
<1>3. SignFits'
  <2>1. sign.post.at = "served" => sign.post.by \in Requests /\ sign.post.by # r
    BY <1>1 DEF Ours, IInv, Wired, SignFits, ExchangeFits
  <2> QED BY <1>0, <1>1, <1>2, <2>1, SignKept
<1>4. ASSUME NEW c \in Calls PROVE RefreshFits(c)'
  <2>1. RefreshFits(c)
    BY DEF IInv, Wired
  <2>2. refresh[c].at = "served" => refresh[c].by \in Requests /\ refresh[c].by # r
    BY <1>1, <2>1 DEF Ours, RefreshFits, ExchangeFits
  <2>3. refresh[c].at = "served" =>
          /\ sign'.post.by # refresh[c].by
          /\ \A d \in Calls : refresh'[d].by = refresh[c].by => d = c
    BY <1>1, <2>1 DEF RefreshFits
  <2>4. refresh[c].got \notin stale'
    BY <1>1, <2>1 DEF RefreshFits
  <2> QED BY <1>0, <1>1, <1>2, <2>2, <2>3, <2>4, RefreshKept
<1> QED BY <1>0, <1>1, <1>3, <1>4, BrowserKept DEF InFlight

LEMMA TimeSteps ==
  ASSUME IInv, TimePasses
  PROVE  Wired'
<1>0. TypeOK /\ [Next]_vars
  BY StepIsAuths DEF IInv, Types, ClientNext
<1>1. UNCHANGED <<req, store, call, refresh, promise, sign>>
  BY DEF TimePasses, GoStale, Expire, browser, vars
<1>2. SignFits'
  BY <1>0, <1>1, SignKept
<1>3. ASSUME NEW c \in Calls PROVE RefreshFits(c)'
  <2>1. RefreshFits(c)
    BY DEF IInv, Wired
  <2>2. refresh[c].got \notin stale'
    <3>1. ASSUME NEW n \in Tokens, GoStale(n) PROVE refresh[c].got \notin stale'
      BY <2>1, <3>1 DEF GoStale, RefreshFits
    <3>2. CASE UNCHANGED stale
      BY <2>1, <3>2 DEF RefreshFits
    <3> QED BY <3>1, <3>2 DEF TimePasses, browser
  <2>3. refresh[c].at = "served" =>
          /\ sign'.post.by # refresh[c].by
          /\ \A d \in Calls : refresh'[d].by = refresh[c].by => d = c
    BY <1>1, <2>1 DEF RefreshFits
  <2> QED BY <1>0, <1>1, <2>2, <2>3, RefreshKept
<1>4. ASSUME NEW n \in Tokens, GoStale(n) PROVE Wired'
  <2>1. UNCHANGED <<issued, store, call, promise>> /\ stale' = stale \union {n} /\ n \in 1..issued
    BY <1>4 DEF GoStale, vars, tokens
  <2>2. \A c \in Calls : CallFits(c)'
    BY <1>4, <2>1 DEF GoStale, CallFits, IInv, Wired
  <2>3. store' \in 0..issued' /\ stale' \subseteq 1..issued'
    BY <2>1 DEF IInv, Wired
  <2>4. \A t \in Tabs : promise'[t] # NoOne => InFlight(promise[t])' /\ Tab(promise'[t]) = t
    BY <1>1 DEF IInv, Wired, InFlight
  <2> QED BY <1>2, <1>3, <2>1, <2>2, <2>3, <2>4 DEF Wired
<1>5. CASE UNCHANGED stale
  BY <1>0, <1>1, <1>2, <1>3, <1>5, BrowserKept DEF InFlight
<1> QED BY <1>4, <1>5 DEF TimePasses, browser

(* What a request that was just taken is set to do. *)
LEMMA Taken ==
  ASSUME TypeOK, NEW r \in Requests
  PROVE  /\ \A u \in Users : Login(r, u) =>
              req'[r].pc = "issue" /\ req'[r].tok = 0 /\ req'[r].user = u
         /\ \A t \in Tokens :
              /\ Refresh(r, t) =>
                   /\ req'[r].pc = "issue" /\ req'[r].tok = t /\ req'[r].user = session[t].user
                   /\ UNCHANGED session
              /\ Replay(r, t) => req'[r].pc = "sweep" /\ req'[r].tok = t /\ UNCHANGED session
              /\ Logout(r, t) => req'[r].pc = "logout" /\ req'[r].tok = t /\ UNCHANGED session
<1>1. req \in [Requests -> Request]
  BY DEF TypeOK, RequestsOK
<1>2. ASSUME NEW u \in Users, Login(r, u)
      PROVE  req'[r].pc = "issue" /\ req'[r].tok = 0 /\ req'[r].user = u
  BY <1>1, <1>2 DEF Login, Starts, Doing
<1>3. ASSUME NEW t \in Tokens, Refresh(r, t)
      PROVE  /\ req'[r].pc = "issue" /\ req'[r].tok = t /\ req'[r].user = session[t].user
             /\ UNCHANGED session
  BY <1>1, <1>3 DEF Refresh, Starts, Doing, tokens
<1>4. ASSUME NEW t \in Tokens, Replay(r, t)
      PROVE  req'[r].pc = "sweep" /\ req'[r].tok = t /\ UNCHANGED session
  BY <1>1, <1>4 DEF Replay, Starts, Doing, tokens
<1>5. ASSUME NEW t \in Tokens, Logout(r, t)
      PROVE  req'[r].pc = "logout" /\ req'[r].tok = t /\ UNCHANGED session
  BY <1>1, <1>5 DEF Logout, Starts, Doing, tokens
<1> QED BY <1>2, <1>3, <1>4, <1>5

LEMMA TakeSignSteps ==
  ASSUME IInv, NEW r \in Requests, TakeSign(r)
  PROVE  Wired'
<1>0. TypeOK /\ [Next]_vars /\ issued \in Nat /\ 1..issued \subseteq Tokens /\ sign.post \in Exchange
  BY StepIsAuths, RowsStay DEF IInv, Types, ClientTypes, ClientNext, Service
<1>1. /\ UNCHANGED <<store, stale, call, refresh, promise>> /\ ~Ours(r)
      /\ SignFits /\ sign.post.at = "sent" /\ sign.post.got = 0
      /\ sign \in [what : {"none", "login", "logout"}, user : Users \union {NoUser}, post : Exchange]
  BY DEF TakeSign, IInv, Wired, SignFits, ExchangeFits, Types, ClientTypes
<1>2. \/ req' = req
      \/ Reads(r)
  <2>1. sign.what = "logout" => sign.post.token \in Tokens
    BY <1>0, <1>1 DEF SignFits
  <2>2. sign.what = "login" => sign.user \in Users
    BY <1>1 DEF SignFits
  <2> QED BY <2>1, <2>2 DEF TakeSign, Reads, vars
<1>3. \A q \in Requests : q # r => req'[q] = req[q]
  BY <1>0, <1>2, OneMoves
<1>4. SignFits' /\ sign'.post.by \in {r, NoOne}
  <2> DEFINE x == sign.post
  <2>0. issued' = issued
    BY DEF TakeSign, Login, Logout, Starts, vars, tokens
  <2>1. CASE sign.what = "login" /\ Login(r, sign.user) /\ sign' = [sign EXCEPT !.post = ServedBy(@, r)]
    <3>1. sign'.what = "login" /\ sign'.user = sign.user /\ sign'.post = ServedBy(x, r)
      BY <1>1, <2>1
    <3>2. /\ sign'.post.at = "served" /\ sign'.post.by = r /\ sign'.post.got = 0
      BY <1>0, <1>1, <3>1, Exchanges DEF Pairs
    <3>3. sign.user \in Users
      BY <1>1, <2>1 DEF SignFits
    <3>4. req'[r].pc = "issue" /\ req'[r].tok = 0 /\ req'[r].user = sign.user
      BY <1>0, <2>1, <3>3, Taken
    <3>5. ExchangeFits(sign'.post, issued')
      BY <1>0, <2>0, <3>2 DEF ExchangeFits
    <3> QED BY <3>1, <3>2, <3>3, <3>4, <3>5 DEF SignFits
  <2>2. CASE sign.what = "logout" /\ Logout(r, x.token) /\ sign' = [sign EXCEPT !.post = ServedBy(@, r)]
    <3>1. sign'.what = "logout" /\ sign'.post = ServedBy(x, r)
      BY <1>1, <2>2
    <3>2. /\ sign'.post.at = "served" /\ sign'.post.by = r /\ sign'.post.got = 0
          /\ sign'.post.token = x.token
      BY <1>0, <1>1, <3>1, Exchanges DEF Pairs
    <3>3. x.token \in 1..issued /\ x.token \in Tokens
      BY <1>0, <1>1, <2>2 DEF SignFits
    <3>4. req'[r].pc = "logout" /\ req'[r].tok = x.token
      BY <1>0, <2>2, <3>3, Taken
    <3>5. ExchangeFits(sign'.post, issued')
      BY <1>0, <2>0, <3>2 DEF ExchangeFits
    <3> QED BY <2>0, <3>1, <3>2, <3>3, <3>4, <3>5 DEF SignFits
  <2>3. CASE sign.what = "logout" /\ sign' = [sign EXCEPT !.post = Answered(@, 0)]
    <3>1. sign'.what = "logout" /\ sign'.post = Answered(x, 0)
      BY <1>1, <2>3
    <3>2. /\ sign'.post.at = "answered" /\ sign'.post.by = NoOne /\ sign'.post.got = 0
          /\ sign'.post.token = x.token
      BY <1>0, <1>1, <3>1, Exchanges DEF Pairs
    <3>3. x.token \in 1..issued
      BY <1>1, <2>3 DEF SignFits
    <3>4. ExchangeFits(sign'.post, issued')
      BY <1>0, <2>0, <3>2 DEF ExchangeFits
    <3> QED BY <2>0, <3>1, <3>2, <3>3, <3>4 DEF SignFits
  <2> QED BY <2>1, <2>2, <2>3 DEF TakeSign
<1>5. ASSUME NEW c \in Calls PROVE RefreshFits(c)'
  <2>1. RefreshFits(c)
    BY DEF IInv, Wired
  <2>2. refresh[c].at = "served" => refresh[c].by \in Requests /\ refresh[c].by # r
    BY <1>1, <2>1 DEF Ours, RefreshFits, ExchangeFits
  <2>3. refresh[c].at = "served" =>
          /\ sign'.post.by # refresh[c].by
          /\ \A d \in Calls : refresh'[d].by = refresh[c].by => d = c
    BY <1>1, <1>4, <2>1, <2>2 DEF RefreshFits
  <2>4. refresh[c].got \notin stale'
    BY <1>1, <2>1 DEF RefreshFits
  <2> QED BY <1>0, <1>1, <1>3, <2>2, <2>3, <2>4, RefreshKept
<1> QED BY <1>0, <1>1, <1>4, <1>5, BrowserKept DEF InFlight

LEMMA AnswerSignSteps ==
  ASSUME IInv, NEW r \in Requests, AnswerSign(r)
  PROVE  Wired'
<1>0. TypeOK /\ [Next]_vars /\ issued \in Nat /\ issued' \in Nat /\ issued <= issued' /\ sign.post \in Exchange
  BY StepIsAuths, RowsStay DEF IInv, Types, ClientTypes, ClientNext, Service
<1>1. /\ UNCHANGED <<store, stale, call, refresh, promise>> /\ sign.post.by = r
      /\ SignFits /\ sign.post.at = "served"
      /\ sign \in [what : {"none", "login", "logout"}, user : Users \union {NoUser}, post : Exchange]
  BY DEF AnswerSign, IInv, Wired, SignFits, ExchangeFits, Types, ClientTypes
<1>2. \A q \in Requests : q # r => req'[q] = req[q]
  BY <1>0, OneMoves DEF AnswerSign, Commits
<1>3. issued' \in Pairs /\ 0 \in Pairs
  <2>1. TypeOK'
    BY <1>0, NextType
  <2> QED BY <2>1 DEF TypeOK, TokensOK, Pairs
<1>4. PICK n \in {0, issued'} : /\ sign' = [sign EXCEPT !.post = Answered(@, n)]
                                /\ sign.what = "logout" => n = 0
  <2>1. IssueSession(r) => sign.what # "logout"
    BY <1>1 DEF IssueSession, SignFits
  <2> QED BY <2>1 DEF AnswerSign
<1>5. /\ sign'.what = sign.what /\ sign'.user = sign.user
      /\ sign'.post.at = "answered" /\ sign'.post.by = NoOne /\ sign'.post.got = n
      /\ sign'.post.token = sign.post.token
  <2>1. sign'.what = sign.what /\ sign'.user = sign.user /\ sign'.post = Answered(sign.post, n)
    BY <1>1, <1>4
  <2> QED BY <1>0, <1>3, <2>1, Exchanges
<1>6. SignFits'
  <2>1. ExchangeFits(sign'.post, issued')
    BY <1>0, <1>5 DEF ExchangeFits
  <2>2. sign.post.token \in 1..issued => sign.post.token \in 1..issued'
    BY <1>0
  <2>3. sign.what # "none"
    BY <1>1 DEF SignFits, Nothing
  <2> QED BY <1>1, <1>4, <1>5, <2>1, <2>2, <2>3 DEF SignFits
<1>7. ASSUME NEW c \in Calls PROVE RefreshFits(c)'
  <2>1. RefreshFits(c)
    BY DEF IInv, Wired
  <2>2. refresh[c].at = "served" => refresh[c].by \in Requests /\ refresh[c].by # r
    BY <1>1, <2>1 DEF RefreshFits, ExchangeFits
  <2>3. refresh[c].at = "served" =>
          /\ sign'.post.by # refresh[c].by
          /\ \A d \in Calls : refresh'[d].by = refresh[c].by => d = c
    BY <1>1, <1>5, <2>1, <2>2 DEF RefreshFits
  <2>4. refresh[c].got \notin stale'
    BY <1>1, <2>1 DEF RefreshFits
  <2> QED BY <1>0, <1>1, <1>2, <2>2, <2>3, <2>4, RefreshKept
<1> QED BY <1>0, <1>1, <1>6, <1>7, BrowserKept DEF InFlight

(* One refresh moves on: the others are left as they are. *)
LEMMA TakeRefreshSteps ==
  ASSUME IInv, NEW r \in Requests, NEW c \in Calls, TakeRefresh(r, c)
  PROVE  Wired'
<1>0. /\ TypeOK /\ [Next]_vars /\ issued \in Nat /\ 1..issued \subseteq Tokens
      /\ refresh \in [Calls -> Exchange] /\ refresh[c] \in Exchange /\ 0 \in Pairs
  BY StepIsAuths, RowsStay DEF IInv, Types, ClientTypes, ClientNext, Service, Pairs
<1>1. /\ UNCHANGED <<store, stale, call, sign, promise, issued, session>> /\ ~Ours(r)
      /\ RefreshFits(c) /\ refresh[c].at = "sent" /\ refresh[c].got = 0 /\ refresh[c].token \in 1..issued
      /\ promise[Tab(c)] = c
  BY DEF TakeRefresh, IInv, Wired, RefreshFits, ExchangeFits, InFlight, Refresh, Replay, Starts, vars, tokens
<1>2. req' = req \/ Reads(r)
  <2>1. refresh[c].token \in Tokens
    BY <1>0, <1>1
  <2> QED BY <2>1 DEF TakeRefresh, Reads, vars
<1>3. \A q \in Requests : q # r => req'[q] = req[q]
  BY <1>0, <1>2, OneMoves
<1>4. \E x : /\ refresh' = [refresh EXCEPT ![c] = x]
             /\ x.token = refresh[c].token /\ x.got = 0
             /\ \/ x.at = "answered" /\ x.by = NoOne
                \/ x.at = "served" /\ x.by = r /\ (Refresh(r, x.token) \/ Replay(r, x.token))
  <2>1. /\ ServedBy(refresh[c], r).at = "served" /\ ServedBy(refresh[c], r).by = r
        /\ ServedBy(refresh[c], r).token = refresh[c].token /\ ServedBy(refresh[c], r).got = refresh[c].got
    BY <1>0, Exchanges
  <2>2. /\ Answered(refresh[c], 0).at = "answered" /\ Answered(refresh[c], 0).by = NoOne
        /\ Answered(refresh[c], 0).token = refresh[c].token /\ Answered(refresh[c], 0).got = 0
    BY <1>0, Exchanges
  <2>3. CASE Refresh(r, refresh[c].token) \/ Replay(r, refresh[c].token)
    <3>1. req[r].pc = "idle" /\ req'[r].pc # "idle"
      BY <1>0, <1>1, <2>3, Taken DEF Refresh, Replay, Starts
    <3>2. refresh' = [refresh EXCEPT ![c] = ServedBy(refresh[c], r)]
      BY <1>0, <3>1 DEF TakeRefresh, vars
    <3> QED BY <1>1, <2>1, <2>3, <3>2
  <2>4. CASE ~(Refresh(r, refresh[c].token) \/ Replay(r, refresh[c].token))
    <3>1. refresh' = [refresh EXCEPT ![c] = Answered(refresh[c], 0)]
      BY <1>0, <2>4 DEF TakeRefresh
    <3> QED BY <1>1, <2>2, <3>1
  <2> QED BY <2>3, <2>4
<1>5. PICK x : /\ refresh' = [refresh EXCEPT ![c] = x]
             /\ x.token = refresh[c].token /\ x.got = 0
             /\ \/ x.at = "answered" /\ x.by = NoOne
                \/ x.at = "served" /\ x.by = r /\ (Refresh(r, x.token) \/ Replay(r, x.token))
  BY <1>4
<1>6. refresh'[c] = x /\ \A d \in Calls : d # c => refresh'[d] = refresh[d]
  BY <1>0, <1>5
<1>7. SignFits'
  <2>1. sign.post.at = "served" => sign.post.by \in Requests /\ sign.post.by # r
    BY <1>1 DEF Ours, IInv, Wired, SignFits, ExchangeFits
  <2> QED BY <1>0, <1>1, <1>3, <2>1, SignKept
<1>8. RefreshFits(c)'
  <2>1. CASE x.at = "answered" /\ x.by = NoOne
    BY <1>0, <1>1, <1>5, <1>6, <2>1 DEF RefreshFits, ExchangeFits, InFlight
  <2>2. CASE x.at = "served" /\ x.by = r /\ (Refresh(r, x.token) \/ Replay(r, x.token))
    <3>1. /\ req'[r].pc \in {"issue", "sweep", "sweeping"} /\ req'[r].tok = x.token
          /\ req'[r].pc = "issue" => req'[r].user = session'[x.token].user
      BY <1>0, <1>1, <1>5, <2>2, Taken
    <3>2. sign'.post.by # r /\ \A d \in Calls : refresh'[d].by = r => d = c
      BY <1>1, <1>6 DEF Ours
    <3> QED BY <1>0, <1>1, <1>5, <1>6, <2>2, <3>1, <3>2 DEF RefreshFits, ExchangeFits, InFlight
  <2> QED BY <1>5, <2>1, <2>2
<1>9. ASSUME NEW d \in Calls, d # c PROVE RefreshFits(d)'
  <2>1. RefreshFits(d) /\ refresh'[d] = refresh[d]
    BY <1>6, <1>9 DEF IInv, Wired
  <2>2. refresh[d].at = "served" => refresh[d].by \in Requests /\ refresh[d].by # r
    BY <1>1, <2>1 DEF Ours, RefreshFits, ExchangeFits
  <2>3. refresh[d].at = "served" => sign'.post.by # refresh[d].by
    BY <1>1, <2>1 DEF RefreshFits
  <2>4. refresh[d].at = "served" => \A e \in Calls : refresh'[e].by = refresh[d].by => e = d
    BY <1>5, <1>6, <2>1, <2>2 DEF RefreshFits
  <2>5. refresh[d].got \notin stale'
    BY <1>1, <2>1 DEF RefreshFits
  <2> QED BY <1>0, <1>1, <1>3, <2>1, <2>2, <2>3, <2>4, <2>5, RefreshKept
<1>10. \A d \in Calls : InFlight(d) => InFlight(d)'
  BY <1>5, <1>6 DEF InFlight
<1> QED BY <1>0, <1>1, <1>7, <1>8, <1>9, <1>10, BrowserKept

(* The UPDATE that ends the sessions answers nothing yet. *)
LEMMA SweepSteps ==
  ASSUME IInv, NEW r \in Requests, NEW c \in Calls, AnswerRefresh(r, c), RevokeAll(r)
  PROVE  Wired'
<1>0. /\ TypeOK /\ [Next]_vars /\ ClientTypes
      /\ \A q \in Requests : q # r => req'[q] = req[q]
  <2>1. TypeOK /\ [Next]_vars /\ ClientTypes
    BY StepIsAuths DEF IInv, Types, ClientNext, Service
  <2> QED BY <2>1, OneMoves DEF Commits
<1>1. refresh[c].at = "served" /\ RefreshFits(c) /\ refresh[c].by = r
  BY DEF AnswerRefresh, IInv, Wired, RefreshFits, ExchangeFits
<1>2. /\ req'[r].pc = "sweeping" /\ req'[r].tok = req[r].tok
      /\ UNCHANGED tokens
  BY <1>0, <1>1, Updated DEF RefreshFits
<1>3. UNCHANGED refresh
  <2>1. ~(IssueSession(r) \/ EndAllSessions(r) \/ RolledBack(r) \/ AuditFails(r))
    BY <1>0, <1>2 DEF IssueSession, EndAllSessions, RolledBack, AuditFails, Ends, Idle, TypeOK, RequestsOK
  <2> QED BY <2>1 DEF AnswerRefresh
<1>4. UNCHANGED <<store, stale, call, promise, sign>>
  BY DEF AnswerRefresh
<1>5. RefreshFits(c)'
  BY <1>1, <1>2, <1>3, <1>4 DEF RefreshFits, ExchangeFits, InFlight, tokens
<1>6. ASSUME NEW d \in Calls, d # c PROVE RefreshFits(d)'
  <2>1. RefreshFits(d)
    BY DEF IInv, Wired
  <2>2. refresh[d].at = "served" => refresh[d].by \in Requests /\ refresh[d].by # r
    BY <1>1, <1>6, <2>1 DEF RefreshFits, ExchangeFits
  <2> QED BY <1>0, <1>3, <1>4, <2>1, <2>2, RefreshKept DEF RefreshFits
<1>7. SignFits'
  <2>1. sign.post.at = "served" => sign.post.by \in Requests /\ sign.post.by # r
    BY <1>1 DEF RefreshFits, IInv, Wired, SignFits, ExchangeFits
  <2> QED BY <1>0, <1>4, <2>1, SignKept
<1>8. \A d \in Calls : InFlight(d) => InFlight(d)'
  BY <1>3 DEF InFlight
<1> QED BY <1>0, <1>4, <1>5, <1>6, <1>7, <1>8, BrowserKept

LEMMA AnswerRefreshSteps ==
  ASSUME IInv, NEW r \in Requests, NEW c \in Calls, AnswerRefresh(r, c), ~RevokeAll(r)
  PROVE  Wired'
<1>0. /\ TypeOK /\ [Next]_vars /\ issued \in Nat /\ issued' \in Nat /\ issued <= issued'
      /\ refresh \in [Calls -> Exchange] /\ refresh[c] \in Exchange /\ 0 \in Pairs
  BY StepIsAuths, RowsStay DEF IInv, Types, ClientTypes, ClientNext, Service, Pairs
<1>1. /\ UNCHANGED <<store, stale, call, sign, promise>> /\ refresh[c].by = r
      /\ RefreshFits(c) /\ refresh[c].at = "served" /\ refresh[c].token \in 1..issued
      /\ promise[Tab(c)] = c
  BY DEF AnswerRefresh, IInv, Wired, RefreshFits, ExchangeFits, InFlight
<1>2. \A q \in Requests : q # r => req'[q] = req[q]
  BY <1>0, OneMoves DEF AnswerRefresh, Commits
<1>3. issued' \in Pairs
  <2>1. TypeOK'
    BY <1>0, NextType
  <2> QED BY <2>1 DEF TypeOK, TokensOK, Pairs
<1>4. PICK n \in {0, issued'} : /\ refresh' = [refresh EXCEPT ![c] = Answered(refresh[c], n)]
                                /\ n # 0 => IssueSession(r)
  BY <1>0 DEF AnswerRefresh
<1>5. /\ refresh'[c].at = "answered" /\ refresh'[c].by = NoOne /\ refresh'[c].got = n
      /\ refresh'[c].token = refresh[c].token
      /\ \A d \in Calls : d # c => refresh'[d] = refresh[d]
  <2>1. refresh'[c] = Answered(refresh[c], n)
    BY <1>0, <1>4
  <2> QED BY <1>0, <1>3, <1>4, <2>1, Exchanges
<1>6. n \notin stale'
  <2>1. stale \subseteq 1..issued
    BY DEF IInv, Wired
  <2>2. IssueSession(r) => issued' = issued + 1
    BY DEF IssueSession
  <2> QED BY <1>0, <1>1, <1>4, <2>1, <2>2
<1>7. SignFits'
  <2>1. sign.post.at = "served" => sign.post.by \in Requests /\ sign.post.by # r
    BY <1>1 DEF IInv, Wired, SignFits, RefreshFits, ExchangeFits
  <2> QED BY <1>0, <1>1, <1>2, <2>1, SignKept
<1>8. RefreshFits(c)'
  BY <1>0, <1>1, <1>5, <1>6 DEF RefreshFits, ExchangeFits, InFlight
<1>9. ASSUME NEW d \in Calls, d # c PROVE RefreshFits(d)'
  <2>1. RefreshFits(d) /\ refresh'[d] = refresh[d]
    BY <1>5, <1>9 DEF IInv, Wired
  <2>2. refresh[d].at = "served" => refresh[d].by \in Requests /\ refresh[d].by # r
    BY <1>1, <1>9, <2>1 DEF RefreshFits, ExchangeFits
  <2>3. refresh[d].at = "served" => sign'.post.by # refresh[d].by
    BY <1>1, <2>1 DEF RefreshFits
  <2>4. refresh[d].at = "served" => \A e \in Calls : refresh'[e].by = refresh[d].by => e = d
    BY <1>5, <2>1, <2>2 DEF RefreshFits
  <2>5. refresh[d].got \notin stale'
    BY <1>1, <2>1 DEF RefreshFits
  <2> QED BY <1>0, <1>1, <1>2, <2>1, <2>2, <2>3, <2>4, <2>5, RefreshKept
<1>10. \A d \in Calls : InFlight(d) => InFlight(d)'
  BY <1>5 DEF InFlight
<1> QED BY <1>0, <1>1, <1>7, <1>8, <1>9, <1>10, BrowserKept

LEMMA WiredStep == ASSUME IInv, ClientNext PROVE Wired'
BY CallSteps, RefreshEnds, RefreshStarts, SignSteps, OthersSteps, TimeSteps, TakeSignSteps, AnswerSignSteps,
   TakeRefreshSteps, SweepSteps, AnswerRefreshSteps DEF ClientNext, Client, Service

-----------------------------------------------------------------------------
(* The calm: what the tabs and the sign-in form do. *)

(* What the client holds names rows that were issued. *)
LEMMA InRange ==
  ASSUME IInv
  PROVE  /\ issued \in Nat /\ 1..issued \subseteq Tokens /\ session \in [Tokens -> Session]
         /\ store \in 0..issued /\ sign.post.got \in 0..issued
         /\ sign.what = "login" => sign.user \in Users
         /\ \A c \in Calls : refresh[c].got \in 0..issued
         /\ \A c \in Calls : InFlight(c) => refresh[c].token \in 1..issued
BY DEF IInv, Types, TypeOK, TokensOK, Tokens, Wired, SignFits, RefreshFits, ExchangeFits

(* Only calls move, and the stored pair may be dropped. *)
LEMMA CalmCalls ==
  ASSUME CalmInv, UNCHANGED <<session, req, refresh, sign>>, store' \in {store, 0}
  PROVE  CalmInv'
<1>1. \A c \in Calls : InFlight(c)' <=> InFlight(c)
  BY DEF InFlight
<1>2. Refreshing' <=> Refreshing
  BY <1>1 DEF Refreshing
<1>3. LoginCalm'
  BY <1>1 DEF CalmInv, LoginCalm
<1>4. StoreCalm'
  BY <1>2 DEF CalmInv, StoreCalm
<1> QED BY <1>1, <1>2, <1>3, <1>4 DEF CalmInv, RefreshCalm

LEMMA CalmCallSteps ==
  ASSUME IInv, CalmInv, calm', NEW c \in Calls,
         Send(c) \/ Reload(c) \/ Returned(c) \/ Refused(c) \/ Join(c) \/ Failed(c)
  PROVE  CalmInv'
<1>1. UNCHANGED <<session, req, sign>> /\ store' \in {store, 0}
  BY DEF Send, Reload, Returned, Refused, Join, Failed, vars, tokens
<1>2. refresh' = refresh
  <2>1. CASE Reload(c)
    <3>1. /\ refresh' = [d \in Calls |-> IF Tab(d) = Tab(c) THEN Nothing ELSE refresh[d]]
          /\ \A d \in Calls : Tab(d) = Tab(c) => ~InFlight(d)
      BY <2>1 DEF Reload
    <3>2. \A d \in Calls : ~InFlight(d) => refresh[d] = Nothing
      BY DEF IInv, Wired, RefreshFits, ExchangeFits, InFlight
    <3>3. refresh \in [Calls -> Exchange]
      BY DEF IInv, Types, ClientTypes
    <3> QED BY <3>1, <3>2, <3>3
  <2>2. CASE Send(c) \/ Returned(c) \/ Refused(c) \/ Join(c) \/ Failed(c)
    BY <2>2 DEF Send, Returned, Refused, Join, Failed
  <2> QED BY <2>1, <2>2
<1> QED BY <1>1, <1>2, CalmCalls

(* A refresh starts with the live pair of the user, and alone. *)
LEMMA CalmStart ==
  ASSUME IInv, CalmInv, calm', NEW c \in Calls, StartRefresh(c)
  PROVE  CalmInv'
<1>0. refresh \in [Calls -> Exchange]
  BY DEF IInv, Types, ClientTypes
<1>1. /\ UNCHANGED <<session, req, store, sign>> /\ store # 0
      /\ sign.what # "logout"
      /\ refresh' = [refresh EXCEPT ![c] = Posted(store)]
  BY DEF StartRefresh, Overlaps, vars, tokens
<1>2. \A d \in Calls : ~InFlight(d)
  <2>1. ASSUME NEW d \in Calls, InFlight(d), Tab(d) = Tab(c) PROVE FALSE
    BY <2>1, ClientAssumption DEF StartRefresh, Shares, IInv, Wired, RefreshFits
  <2> QED BY <2>1 DEF StartRefresh, Overlaps
<1>3. session[store].state = "live"
  BY <1>1, <1>2 DEF CalmInv, StoreCalm, Refreshing
<1>4. /\ refresh'[c].at = "sent" /\ refresh'[c].got = 0 /\ refresh'[c].token = store
      /\ \A d \in Calls : d # c => refresh'[d] = refresh[d]
  BY <1>0, <1>1 DEF Posted
<1>5. \A d \in Calls : InFlight(d)' => d = c
  BY <1>2, <1>4 DEF InFlight
<1>6. RefreshCalm(c)'
  BY <1>1, <1>3, <1>4 DEF RefreshCalm
<1>7. LoginCalm'
  BY <1>1, <1>4, <1>5 DEF CalmInv, LoginCalm
<1>8. StoreCalm'
  BY <1>1, <1>3 DEF StoreCalm
<1> QED BY <1>1, <1>5, <1>6, <1>7, <1>8 DEF CalmInv

(* A refresh settles: its new pair is stored, or the session was over. *)
LEMMA CalmSettle ==
  ASSUME IInv, CalmInv, calm', NEW c \in Calls, Refreshed(c) \/ NotRefreshed(c)
  PROVE  CalmInv'
<1>0. refresh \in [Calls -> Exchange]
  BY DEF IInv, Types, ClientTypes
<1>1. /\ UNCHANGED <<session, req, sign>> /\ InFlight(c) /\ refresh[c].at = "answered"
      /\ refresh' = [refresh EXCEPT ![c] = Nothing]
      /\ refresh[c].got # 0 => store' = refresh[c].got
      /\ refresh[c].got = 0 => store' = store
  BY DEF Refreshed, NotRefreshed, Settled, InFlight, vars, tokens
<1>2. RefreshCalm(c) /\ \A d \in Calls : InFlight(d) => d = c
  BY <1>1 DEF CalmInv
<1>3. \A d \in Calls : ~InFlight(d)'
  BY <1>0, <1>1, <1>2 DEF InFlight, Nothing
<1>4. store' # 0 => session[store'].state = "live"
  BY <1>1, <1>2 DEF RefreshCalm
<1>5. LoginCalm'
  <2>1. sign.post.got # 0 => sign.post.got # store'
    BY <1>1 DEF CalmInv, LoginCalm
  <2> QED BY <1>1, <1>3, <2>1 DEF CalmInv, LoginCalm
<1>6. StoreCalm'
  BY <1>1, <1>4 DEF StoreCalm
<1> QED BY <1>3, <1>5, <1>6 DEF CalmInv, Refreshing

LEMMA CalmSign ==
  ASSUME IInv, CalmInv, calm', \/ \E u \in Users : LoginForm(u)
                              \/ LogoutClicked \/ LoggedIn \/ NotLoggedIn \/ LoggedOut \/ NotLoggedOut
  PROVE  CalmInv'
<1>1. UNCHANGED <<session, req, refresh>>
  BY DEF LoginForm, LogoutClicked, LoggedIn, NotLoggedIn, LoggedOut, NotLoggedOut, vars, tokens
<1>2. /\ \A c \in Calls : InFlight(c)' <=> InFlight(c)
      /\ Refreshing' <=> Refreshing
  BY <1>1 DEF InFlight, Refreshing
<1>3. sign'.post.got = 0
  <2>1. ASSUME NEW u \in Users, LoginForm(u) PROVE sign'.post.got = 0
    BY <2>1 DEF LoginForm, Posted
  <2>2. CASE LogoutClicked
    BY <2>2 DEF LogoutClicked, Posted
  <2>3. CASE LoggedIn \/ NotLoggedIn \/ LoggedOut \/ NotLoggedOut
    <3>1. sign' = NoSign
      BY <2>3 DEF LoggedIn, NotLoggedIn, LoggedOut, NotLoggedOut
    <3> QED BY <3>1 DEF NoSign, Nothing
  <2> QED BY <2>1, <2>2, <2>3
<1>4. LoginCalm'
  BY <1>3 DEF LoginCalm
<1>5. CASE (\E u \in Users : LoginForm(u)) \/ NotLoggedIn
  <2>1. UNCHANGED <<store>> /\ sign'.what # "logout" /\ sign.what # "logout"
    <3>1. ASSUME NEW u \in Users, LoginForm(u)
          PROVE UNCHANGED <<store>> /\ sign'.what # "logout" /\ sign.what # "logout"
      <4>1. NoSign.what # "logout"
        BY DEF NoSign
      <4> QED BY <3>1, <4>1 DEF LoginForm
    <3>2. CASE NotLoggedIn
      <4>1. NoSign.what # "logout"
        BY DEF NoSign
      <4> QED BY <3>2, <4>1 DEF NotLoggedIn
    <3> QED BY <1>5, <3>1, <3>2
  <2>2. StoreCalm'
    BY <1>1, <1>2, <2>1 DEF CalmInv, StoreCalm
  <2>3. \A c \in Calls : InFlight(c)' => RefreshCalm(c)'
    BY <1>1, <1>2, <2>1 DEF CalmInv, RefreshCalm
  <2> QED BY <1>2, <1>4, <2>1, <2>2, <2>3 DEF CalmInv
<1>6. CASE LogoutClicked \/ LoggedIn \/ LoggedOut \/ NotLoggedOut
  <2>1. ~Refreshing
    BY <1>6 DEF LogoutClicked, LoggedIn, LoggedOut, NotLoggedOut, CalmInv
  <2>2. StoreCalm'
    <3>1. CASE LogoutClicked
      <4>1. UNCHANGED <<store>> /\ sign'.what = "logout"
        BY <3>1 DEF LogoutClicked
      <4> QED BY <1>1, <4>1 DEF CalmInv, StoreCalm
    <3>2. CASE LoggedIn
      <4>1. store' = sign.post.got /\ sign.post.got # 0
        BY <3>2 DEF LoggedIn
      <4> QED BY <1>1, <4>1 DEF CalmInv, LoginCalm, StoreCalm
    <3>3. CASE LoggedOut
      BY <3>3 DEF LoggedOut, StoreCalm
    <3> QED BY <1>6, <3>1, <3>2, <3>3 DEF NotLoggedOut
  <2> QED BY <1>2, <1>4, <2>1, <2>2 DEF CalmInv, Refreshing
<1> QED BY <1>5, <1>6

-----------------------------------------------------------------------------
(* The calm: what the service and the clock do. *)

(* Nothing the browser relies on ends. *)
LEMMA CalmKept ==
  ASSUME IInv, TypeOK, [Next]_vars, CalmInv, UNCHANGED <<store, refresh, sign>>,
         \A t \in 1..issued : session[t].state = "live" => session'[t].state = "live",
         \A c \in Calls : refresh[c].at = "served" => req'[refresh[c].by] = req[refresh[c].by]
  PROVE  CalmInv'
<1>1. /\ \A c \in Calls : InFlight(c)' <=> InFlight(c)
      /\ Refreshing' <=> Refreshing
  BY DEF InFlight, Refreshing
<1>2. /\ store \in 0..issued /\ sign.post.got \in 0..issued
      /\ \A c \in Calls : refresh[c].got \in 0..issued
      /\ \A c \in Calls : InFlight(c) => refresh[c].token \in 1..issued
      /\ \A t \in 0..issued : t # 0 => t \in 1..issued
  BY InRange
<1>3. \A t \in 1..issued : /\ session'[t].user = session[t].user
                           /\ session[t].expired => session'[t].expired
  BY RowsStay
<1>4. ASSUME NEW c \in Calls, InFlight(c) PROVE RefreshCalm(c)'
  <2>1. RefreshCalm(c)
    BY <1>4 DEF CalmInv
  <2>2. refresh[c].token \in 1..issued /\ (refresh[c].got # 0 => refresh[c].got \in 1..issued)
    BY <1>2, <1>4
  <2> QED BY <1>3, <2>1, <2>2 DEF RefreshCalm
<1>5. LoginCalm'
  BY <1>1, <1>2, <1>3 DEF CalmInv, LoginCalm
<1>6. StoreCalm'
  BY <1>1, <1>2, <1>3 DEF CalmInv, StoreCalm
<1> QED BY <1>1, <1>4, <1>5, <1>6 DEF CalmInv

LEMMA CalmOthers ==
  ASSUME IInv, CalmInv, calm', \/ \E r \in Requests : Others(r)
                              \/ TimePasses
  PROVE  CalmInv'
<1>0. TypeOK /\ [Next]_vars /\ session \in [Tokens -> Session] /\ 1..issued \subseteq Tokens
  BY StepIsAuths, InRange DEF IInv, Types, ClientNext, Service
<1>1. ASSUME NEW r \in Requests, Others(r) PROVE CalmInv'
  <2>1. UNCHANGED <<store, refresh, sign>> /\ ~Ours(r)
    BY <1>1 DEF Others, browser
  <2>2. \A t \in 1..issued : session[t].state = "live" => session'[t].state = "live"
    BY <1>0, <1>1 DEF Others
  <2>3. \A q \in Requests : q # r => req'[q] = req[q]
    BY <1>0, <1>1, OneMoves DEF Others
  <2>4. \A c \in Calls : refresh[c].at = "served" => refresh[c].by \in Requests /\ refresh[c].by # r
    BY <1>1 DEF Others, Ours, IInv, Wired, RefreshFits, ExchangeFits
  <2> QED BY <1>0, <2>1, <2>2, <2>3, <2>4, CalmKept
<1>2. CASE TimePasses
  <2>1. UNCHANGED <<store, refresh, sign, req>>
    BY <1>2 DEF TimePasses, GoStale, Expire, browser, vars
  <2>2. \A t \in 1..issued : session'[t].state = session[t].state
    <3>1. ASSUME NEW n \in Tokens, Expire(n)
          PROVE \A t \in 1..issued : session'[t].state = session[t].state
      BY <1>0, <3>1 DEF Expire, Session
    <3> QED BY <1>2, <3>1 DEF TimePasses, GoStale, vars, tokens
  <2> QED BY <1>0, <2>1, <2>2, CalmKept
<1> QED BY <1>1, <1>2

(* A row is issued, and the one it rotates is burned. *)
LEMMA IssuedRow ==
  ASSUME TypeOK, NEW r \in Requests, IssueSession(r)
  PROVE  /\ issued' = issued + 1
         /\ session'[issued'].state = "live" /\ session'[issued'].user = req[r].user
         /\ \A t \in 1..issued : t # req[r].tok => session'[t] = session[t]
<1>1. issued \in Nat /\ 1..issued \subseteq Tokens /\ issued + 1 \in Tokens
  BY DEF TypeOK, TokensOK, Tokens, IssueSession
<1>2. issued' = issued + 1
  BY DEF IssueSession
<1>3. session'[issued + 1] = Rotated(req[r].user, req[r].tok, req[r].era)
  BY <1>1 DEF IssueSession
<1>4. \A t \in 1..issued : t # req[r].tok => session'[t] = session[t]
  BY <1>1 DEF IssueSession
<1> QED BY <1>2, <1>3, <1>4 DEF Rotated

LEMMA CalmTakeSign ==
  ASSUME IInv, CalmInv, NEW r \in Requests, TakeSign(r)
  PROVE  CalmInv'
<1>0. /\ TypeOK /\ [Next]_vars /\ sign.post \in Exchange /\ 0 \in Pairs
      /\ sign \in [what : {"none", "login", "logout"}, user : Users \union {NoUser}, post : Exchange]
  BY StepIsAuths DEF IInv, Types, ClientTypes, ClientNext, Service, Pairs
<1>1. /\ UNCHANGED <<session, store, refresh>> /\ sign.post.at = "sent" /\ ~Ours(r)
  BY DEF TakeSign, Login, Logout, Starts, vars, tokens
<1>2. sign'.what = sign.what /\ sign'.post.got = 0
  <2>1. sign.post.got = 0
    BY <1>1 DEF IInv, Wired, SignFits, ExchangeFits
  <2>2. \/ sign' = [sign EXCEPT !.post = ServedBy(sign.post, r)]
        \/ sign' = [sign EXCEPT !.post = Answered(sign.post, 0)]
    BY DEF TakeSign
  <2>3. ServedBy(sign.post, r).got = 0 /\ Answered(sign.post, 0).got = 0
    BY <1>0, <2>1, Exchanges
  <2> QED BY <1>0, <2>2, <2>3
<1>3. \A q \in Requests : q # r => req'[q] = req[q]
  <2>1. req' = req \/ Reads(r)
    <3>1. sign.what = "logout" => sign.post.token \in Tokens
      BY InRange DEF IInv, Wired, SignFits
    <3>2. sign.what = "login" => sign.user \in Users
      BY DEF IInv, Wired, SignFits
    <3> QED BY <3>1, <3>2 DEF TakeSign, Reads, vars
  <2> QED BY <1>0, <2>1, OneMoves
<1>4. \A c \in Calls : refresh[c].at = "served" => refresh[c].by \in Requests /\ refresh[c].by # r
  BY <1>1 DEF Ours, IInv, Wired, RefreshFits, ExchangeFits
<1>5. /\ \A c \in Calls : InFlight(c)' <=> InFlight(c)
      /\ Refreshing' <=> Refreshing
  BY <1>1 DEF InFlight, Refreshing
<1>6. ASSUME NEW c \in Calls, InFlight(c) PROVE RefreshCalm(c)'
  BY <1>1, <1>3, <1>4, <1>6 DEF CalmInv, RefreshCalm
<1>7. LoginCalm' /\ StoreCalm'
  BY <1>1, <1>2, <1>5 DEF CalmInv, LoginCalm, StoreCalm
<1> QED BY <1>2, <1>5, <1>6, <1>7 DEF CalmInv

(* The answer of a login is a new live pair of that user; of a logout, that   *)
(* the stored one is over.                                                    *)
LEMMA CalmAnswerSign ==
  ASSUME IInv, CalmInv, calm', NEW r \in Requests, AnswerSign(r)
  PROVE  CalmInv'
<1>0. /\ TypeOK /\ [Next]_vars /\ sign.post \in Exchange
      /\ sign \in [what : {"none", "login", "logout"}, user : Users \union {NoUser}, post : Exchange]
  BY StepIsAuths DEF IInv, Types, ClientTypes, ClientNext, Service
<1>1. /\ UNCHANGED <<store, refresh>> /\ sign.post.by = r /\ sign.post.at = "served" /\ SignFits
      /\ sign.what # "none"
  BY DEF AnswerSign, IInv, Wired, SignFits, ExchangeFits, Nothing
<1>2. /\ issued \in Nat /\ store \in 0..issued /\ 0 \in Pairs
      /\ \A c \in Calls : refresh[c].got \in 0..issued
      /\ \A c \in Calls : InFlight(c) => refresh[c].token \in 1..issued
      /\ \A t \in 0..issued : t # 0 => t \in 1..issued
  BY InRange DEF Pairs
<1>3. \A q \in Requests : q # r => req'[q] = req[q]
  BY <1>0, OneMoves DEF AnswerSign, Commits
<1>4. \A c \in Calls : refresh[c].at = "served" => refresh[c].by \in Requests /\ refresh[c].by # r
  BY <1>1 DEF IInv, Wired, RefreshFits, ExchangeFits
<1>5. /\ \A c \in Calls : InFlight(c)' <=> InFlight(c)
      /\ Refreshing' <=> Refreshing
  BY <1>1 DEF InFlight, Refreshing
<1>6. \A t \in 1..issued : session'[t].user = session[t].user
  BY <1>0, RowsStay
<1>7. CASE sign.what = "login"
  <2>1. req[r].pc = "issue" /\ req[r].tok = 0 /\ req[r].user = sign.user
    BY <1>1, <1>7 DEF SignFits
  <2>2. IssueSession(r) /\ sign' = [sign EXCEPT !.post = Answered(sign.post, issued')]
    BY <2>1 DEF AnswerSign, Copes, EndSession
  <2>3. /\ issued' = issued + 1
        /\ session'[issued'].state = "live" /\ session'[issued'].user = sign.user
        /\ \A t \in 1..issued : session'[t] = session[t]
    BY <1>0, <1>2, <2>1, <2>2, IssuedRow
  <2>4. sign'.what = "login" /\ sign'.user = sign.user /\ sign'.post.got = issued'
    <3>1. sign'.what = "login" /\ sign'.user = sign.user /\ sign'.post = Answered(sign.post, issued')
      BY <1>0, <1>7, <2>2
    <3>2. TypeOK'
      BY <1>0, NextType
    <3>3. issued' \in Pairs
      BY <3>2 DEF TypeOK, TokensOK, Pairs
    <3>4. Answered(sign.post, issued').got = issued'
      BY <1>0, <3>3, Exchanges
    <3> QED BY <3>1, <3>4
  <2>5. ASSUME NEW c \in Calls, InFlight(c) PROVE RefreshCalm(c)'
    <3>1. RefreshCalm(c) /\ refresh[c].token \in 1..issued /\ (refresh[c].got # 0 => refresh[c].got \in 1..issued)
      BY <1>2, <2>5 DEF CalmInv
    <3> QED BY <1>1, <1>3, <1>4, <2>3, <3>1 DEF RefreshCalm
  <2>6. LoginCalm'
    <3>1. issued' # store' /\ \A c \in Calls : refresh'[c].got # issued'
      BY <1>1, <1>2, <2>3
    <3>2. \A c \in Calls : InFlight(c)' => refresh'[c].token # issued'
      BY <1>1, <1>2, <1>5, <2>3
    <3> QED BY <2>3, <2>4, <3>1, <3>2 DEF LoginCalm
  <2>7. StoreCalm'
    BY <1>1, <1>2, <1>5, <1>7, <2>3, <2>4 DEF CalmInv, StoreCalm
  <2> QED BY <1>5, <2>4, <2>5, <2>6, <2>7 DEF CalmInv
<1>8. CASE sign.what = "logout"
  <2>1. ~Refreshing
    BY <1>8 DEF CalmInv
  <2>2. sign' = [sign EXCEPT !.post = Answered(sign.post, 0)]
    <3>1. req[r].pc = "logout"
      BY <1>1, <1>8 DEF SignFits
    <3> QED BY <3>1 DEF AnswerSign, IssueSession
  <2>3. sign'.what = "logout" /\ sign'.post.got = 0
    <3>1. sign'.what = "logout" /\ sign'.post = Answered(sign.post, 0)
      BY <1>0, <1>8, <2>2
    <3> QED BY <1>0, <1>2, <3>1, Exchanges
  <2>4. StoreCalm'
    BY <1>1, <1>2, <1>6, <2>3 DEF CalmInv, StoreCalm
  <2>5. LoginCalm'
    BY <2>3 DEF LoginCalm
  <2> QED BY <1>5, <2>1, <2>4, <2>5 DEF CalmInv, Refreshing
<1> QED BY <1>0, <1>1, <1>7, <1>8

(* The pair that a refresh presents is live, so it is not taken for a replay. *)
LEMMA CalmTakeRefresh ==
  ASSUME IInv, CalmInv, NEW r \in Requests, NEW c \in Calls, TakeRefresh(r, c)
  PROVE  CalmInv'
<1>0. /\ TypeOK /\ refresh \in [Calls -> Exchange] /\ refresh[c] \in Exchange /\ 0 \in Pairs
  BY DEF IInv, Types, ClientTypes, Pairs
<1>1. /\ UNCHANGED <<session, store, sign>> /\ InFlight(c) /\ refresh[c].at = "sent"
  BY DEF TakeRefresh, Refresh, Replay, Starts, InFlight, vars, tokens
<1>2. /\ RefreshCalm(c) /\ refresh[c].got = 0 /\ session[refresh[c].token].state = "live"
      /\ refresh[c].token \in Tokens /\ \A d \in Calls : InFlight(d) => d = c
  <2>1. RefreshCalm(c) /\ refresh[c].got = 0
    BY <1>1 DEF CalmInv, IInv, Wired, RefreshFits, ExchangeFits
  <2> QED BY <1>1, <2>1, InRange DEF CalmInv, RefreshCalm
<1>3. \/ refresh' = [refresh EXCEPT ![c] = ServedBy(refresh[c], r)] /\ req'[r].pc = "issue"
      \/ refresh' = [refresh EXCEPT ![c] = Answered(refresh[c], 0)] /\ session[refresh[c].token].expired
  <2>1. ~Replay(r, refresh[c].token)
    BY <1>2 DEF Replay
  <2>2. Refresh(r, refresh[c].token) => req'[r].pc = "issue"
    BY <1>0, <1>2, Taken
  <2> QED BY <2>1, <2>2 DEF TakeRefresh
<1>4. /\ refresh'[c].token = refresh[c].token /\ refresh'[c].got = 0
      /\ refresh'[c].at \in {"served", "answered"}
      /\ refresh'[c].at = "served" => refresh'[c].by = r /\ req'[r].pc = "issue"
      /\ refresh'[c].at = "answered" => session[refresh[c].token].expired
      /\ \A d \in Calls : d # c => refresh'[d] = refresh[d]
  <2>1. /\ ServedBy(refresh[c], r).at = "served" /\ ServedBy(refresh[c], r).by = r
        /\ ServedBy(refresh[c], r).token = refresh[c].token /\ ServedBy(refresh[c], r).got = 0
        /\ Answered(refresh[c], 0).at = "answered"
        /\ Answered(refresh[c], 0).token = refresh[c].token /\ Answered(refresh[c], 0).got = 0
    BY <1>0, <1>2, Exchanges
  <2> QED BY <1>0, <1>3, <2>1
<1>5. \A d \in Calls : InFlight(d)' <=> d = c
  BY <1>1, <1>2, <1>4 DEF InFlight
<1>6. RefreshCalm(c)'
  BY <1>1, <1>2, <1>4 DEF RefreshCalm
<1>7. LoginCalm'
  BY <1>1, <1>2, <1>4, <1>5 DEF CalmInv, LoginCalm
<1>8. StoreCalm'
  BY <1>1, <1>5 DEF CalmInv, StoreCalm, Refreshing
<1>9. sign'.what # "logout"
  BY <1>1 DEF CalmInv, Refreshing
<1> QED BY <1>5, <1>6, <1>7, <1>8, <1>9 DEF CalmInv

(* Its answer is a new live pair of the same user. *)
LEMMA CalmAnswerRefresh ==
  ASSUME IInv, CalmInv, calm', NEW r \in Requests, NEW c \in Calls, AnswerRefresh(r, c)
  PROVE  CalmInv'
<1>0. /\ TypeOK /\ [Next]_vars /\ refresh \in [Calls -> Exchange] /\ refresh[c] \in Exchange
  BY StepIsAuths DEF IInv, Types, ClientTypes, ClientNext, Service
<1>1. /\ UNCHANGED <<store, sign>> /\ refresh[c].by = r /\ refresh[c].at = "served" /\ InFlight(c)
      /\ RefreshFits(c)
  BY DEF AnswerRefresh, IInv, Wired, RefreshFits, ExchangeFits, InFlight
<1>2. /\ RefreshCalm(c) /\ \A d \in Calls : InFlight(d) => d = c
  BY <1>1 DEF CalmInv
<1>3. /\ issued \in Nat /\ store \in 0..issued /\ sign.post.got \in 0..issued
      /\ refresh[c].token \in 1..issued
      /\ \A t \in 0..issued : t # 0 => t \in 1..issued
  BY <1>1, InRange
<1>4. req[r].pc = "issue" /\ req[r].tok = refresh[c].token
  BY <1>1, <1>2 DEF RefreshFits, RefreshCalm
<1>5. IssueSession(r) /\ refresh' = [refresh EXCEPT ![c] = Answered(refresh[c], issued')]
  BY <1>4 DEF AnswerRefresh, Copes, RevokeAll, EndAllSessions
<1>6. /\ issued' = issued + 1
      /\ session'[issued'].state = "live"
      /\ \A t \in 1..issued : t # refresh[c].token => session'[t] = session[t]
      /\ \A t \in 1..issued : session'[t].user = session[t].user
  BY <1>0, <1>4, <1>5, IssuedRow, RowsStay
<1>7. /\ refresh'[c].token = refresh[c].token /\ refresh'[c].got = issued'
      /\ refresh'[c].at = "answered"
      /\ \A d \in Calls : d # c => refresh'[d] = refresh[d]
  <2>1. TypeOK'
    BY <1>0, NextType
  <2>2. issued' \in Pairs
    BY <2>1 DEF TypeOK, TokensOK, Pairs
  <2>3. refresh'[c] = Answered(refresh[c], issued')
    BY <1>0, <1>5
  <2> QED BY <1>0, <1>5, <2>2, <2>3, Exchanges
<1>8. \A d \in Calls : InFlight(d)' <=> d = c
  BY <1>2, <1>7 DEF InFlight
<1>9. RefreshCalm(c)'
  BY <1>1, <1>2, <1>3, <1>6, <1>7 DEF RefreshCalm
<1>10. LoginCalm'
  <2>1. CASE sign.post.got = 0
    BY <1>1, <2>1 DEF LoginCalm
  <2>2. CASE sign.post.got # 0
    <3>1. /\ sign.post.got \in 1..issued /\ sign.post.got # refresh[c].token /\ sign.post.got # issued'
          /\ session[sign.post.got].state = "live" /\ session[sign.post.got].user = sign.user
          /\ sign.post.got # store
      BY <1>1, <1>3, <1>6, <2>2 DEF CalmInv, LoginCalm
    <3> QED BY <1>1, <1>6, <1>7, <1>8, <3>1 DEF LoginCalm
  <2> QED BY <2>1, <2>2
<1>11. StoreCalm'
  BY <1>1, <1>3, <1>6, <1>8 DEF CalmInv, StoreCalm, Refreshing
<1>12. sign'.what # "logout"
  BY <1>1 DEF CalmInv, Refreshing
<1> QED BY <1>8, <1>9, <1>10, <1>11, <1>12 DEF CalmInv

LEMMA CalmStep == ASSUME IInv, ClientNext, calm' PROVE CalmInv'
<1>1. calm
  BY DEF ClientNext, Client, Service, TimePasses, Send, Reload, Returned, Refused, Join, StartRefresh,
     Refreshed, NotRefreshed, Failed, LoginForm, LogoutClicked, LoggedIn, NotLoggedIn, LoggedOut,
     NotLoggedOut, TakeSign, AnswerSign, Others, TakeRefresh, AnswerRefresh, Copes, GoStale
<1>2. CalmInv
  BY <1>1 DEF IInv
<1> QED
  BY <1>2, CalmCallSteps, CalmStart, CalmSettle, CalmSign, CalmOthers, CalmTakeSign, CalmAnswerSign,
     CalmTakeRefresh, CalmAnswerRefresh DEF ClientNext, Client, Service

-----------------------------------------------------------------------------
(* The theorems. *)

LEMMA ClientStarts == ASSUME ClientInit PROVE IInv
<1>1. TypeOK
  BY InitType DEF ClientInit
<1>2. /\ issued = 0 /\ 0 \in Nat /\ 0 \in Pairs
  BY DEF ClientInit, Init, Pairs
<1>3. NoCall \in Call /\ Nothing \in Exchange
  BY <1>2 DEF Call, NoCall, Exchange, Nothing
<1>4. ClientTypes
  BY <1>2, <1>3 DEF ClientInit, ClientTypes, NoSign
<1>5. Wired
  <2>1. /\ \A c \in Calls : refresh[c] = Nothing
        /\ sign.what = "none" /\ sign.post = Nothing /\ stale = {} /\ store = 0
        /\ \A t \in Tabs : promise[t] = NoOne
        /\ \A c \in Calls : call[c].pc = "idle"
    BY DEF ClientInit, NoSign, NoCall
  <2>2. /\ ExchangeFits(Nothing, issued) /\ Nothing.at = "none"
    BY <1>2, NothingFits
  <2>3. \A c \in Calls : RefreshFits(c)
    BY <2>1, <2>2 DEF RefreshFits, InFlight
  <2>4. SignFits
    BY <2>1, <2>2 DEF SignFits
  <2>5. \A c \in Calls : CallFits(c)
    BY <2>1 DEF CallFits
  <2> QED BY <1>2, <2>1, <2>3, <2>4, <2>5 DEF Wired
<1>6. CalmInv
  <2>1. /\ \A c \in Calls : ~InFlight(c)
        /\ sign.what = "none" /\ sign.post.got = 0 /\ store = 0
    BY DEF ClientInit, InFlight, NoSign, Nothing
  <2> QED BY <2>1 DEF CalmInv, Refreshing, LoginCalm, StoreCalm
<1> QED BY <1>1, <1>4, <1>5, <1>6 DEF IInv, Types

LEMMA ClientSteps == ASSUME IInv, [ClientNext]_clientVars PROVE IInv'
<1>1. TypeOK'
  BY StepIsAuths, NextType DEF IInv, Types
<1>2. CASE ClientNext
  BY <1>1, <1>2, TypesStep, WiredStep, CalmStep DEF IInv, Types
<1>3. CASE UNCHANGED clientVars
  BY <1>1, <1>3 DEF clientVars, browser, vars, tokens, IInv, Types, ClientTypes, Wired, RefreshFits, SignFits,
     CallFits, InFlight, ExchangeFits, CalmInv, RefreshCalm, LoginCalm, StoreCalm, Refreshing
<1> QED BY <1>2, <1>3

LEMMA ClientInvariant == ClientSpec => []IInv
BY ClientStarts, ClientSteps, PTL DEF ClientSpec

(* The composition does nothing the service would not: what AuthProofs says   *)
(* of every behaviour of Auth holds behind this client.                       *)
THEOREM ClientUsesAuth == ClientSpec => Spec
<1>1. ClientInit => Init
  BY DEF ClientInit
<1>2. IInv /\ [ClientNext]_clientVars => [Next]_vars
  BY StepIsAuths
<1> QED BY <1>1, <1>2, ClientInvariant, PTL DEF ClientSpec, Spec

(* However many tabs, calls and server requests there are: as long as nothing *)
(* happens that the client has no answer to, the refresh token in             *)
(* localStorage is not a burned one (api.ts 9).                               *)
THEOREM CalmPairStaysLive == ClientSpec => []CalmPairIsLive
<1>1. IInv => CalmPairIsLive
  BY DEF IInv, CalmInv, StoreCalm, CalmPairIsLive
<1> QED BY <1>1, ClientInvariant, PTL

(* ... and no call ends in a 401 while the session could still be refreshed.  *)
THEOREM CalmCallsAlwaysSucceed == ClientSpec => CalmCallsSucceed
<1> DEFINE Good == \A c \in Calls :
       calm' /\ call[c].pc # "refused" /\ call'[c].pc = "refused" /\ store # 0
         => session[store].expired
<1>1. IInv /\ [ClientNext]_clientVars => [Good]_clientVars
  <2>1. SUFFICES ASSUME IInv, ClientNext, NEW c \in Calls,
                        calm', call[c].pc # "refused", call'[c].pc = "refused", store # 0
                 PROVE  session[store].expired
    OBVIOUS
  <2>2. call \in [Calls -> Call] /\ CallFits(c) /\ NoCall.pc = "idle"
    BY <2>1 DEF IInv, Types, ClientTypes, Wired, NoCall
  <2>3. ASSUME NEW d \in Calls, Refused(d) PROVE FALSE
    <3>1. d = c
      BY <2>1, <2>2, <2>3 DEF Refused
    <3> QED BY <2>1, <2>2, <2>3, <3>1 DEF Refused, Unauthorized, CallFits
  <2>4. ASSUME NEW d \in Calls, NotRefreshed(d) PROVE session[store].expired
    <3>1. calm /\ refresh[d].at = "answered" /\ refresh[d].got = 0 /\ InFlight(d)
      BY <2>1, <2>4 DEF NotRefreshed, InFlight
    <3>2. RefreshCalm(d)
      BY <2>1, <3>1 DEF IInv, CalmInv
    <3> QED BY <2>1, <3>1, <3>2 DEF RefreshCalm
  <2>5. ASSUME NEW d \in Calls,
               \/ Send(d) \/ Reload(d) \/ Returned(d) \/ Join(d) \/ StartRefresh(d) \/ Refreshed(d)
               \/ Failed(d)
        PROVE  FALSE
    <3>1. CASE Send(d) \/ Returned(d) \/ Failed(d)
      <4>1. \E x : call' = [call EXCEPT ![d] = x] /\ x.pc # "refused"
        <5>1. [NoCall EXCEPT !.pc = "sent", !.pair = store].pc # "refused" /\ NoCall.pc # "refused"
          BY DEF NoCall
        <5> QED BY <3>1, <5>1 DEF Send, Returned, Failed
      <4> QED BY <2>1, <2>2, <4>1
    <3>2. CASE Reload(d)
      BY <2>1, <2>2, <3>2 DEF Reload
    <3>3. CASE Join(d) \/ StartRefresh(d)
      <4>1. PICK e : call' = [call EXCEPT ![d] = [call[d] EXCEPT !.pc = "waiting", !.on = e]]
        BY <2>2, <3>3 DEF Join, StartRefresh
      <4>2. [call[d] EXCEPT !.pc = "waiting", !.on = e].pc # "refused"
        BY <2>2 DEF Call
      <4> QED BY <2>1, <2>2, <4>1, <4>2
    <3>4. CASE Refreshed(d)
      <4>1. call[c] \in Call /\ call' = Awoken(d, "again", refresh[d].got)
        BY <2>2, <3>4 DEF Refreshed
      <4>2. CASE call[c].pc = "waiting" /\ call[c].on = d
        <5>1. call'[c] = [call[c] EXCEPT !.pc = "again", !.pair = refresh[d].got, !.on = NoOne]
          BY <4>1, <4>2 DEF Awoken
        <5>2. call'[c].pc = "again"
          BY <4>1, <5>1 DEF Call
        <5> QED BY <2>1, <5>2
      <4>3. CASE ~(call[c].pc = "waiting" /\ call[c].on = d)
        <5>1. call'[c] = call[c]
          BY <4>1, <4>3 DEF Awoken
        <5> QED BY <2>1, <5>1
      <4> QED BY <4>2, <4>3
    <3> QED BY <2>5, <3>1, <3>2, <3>3, <3>4
  <2>6. ASSUME UNCHANGED call PROVE FALSE
    BY <2>1, <2>6
  <2>7. CASE Client
    BY <2>3, <2>4, <2>5, <2>6, <2>7 DEF Client, LoginForm, LogoutClicked, LoggedIn, NotLoggedIn, LoggedOut,
       NotLoggedOut
  <2>8. CASE Service
    BY <2>6, <2>8 DEF Service, TakeSign, AnswerSign, Others, TakeRefresh, AnswerRefresh, browser
  <2>9. CASE TimePasses
    BY <2>6, <2>9 DEF TimePasses, GoStale, browser
  <2> QED BY <2>1, <2>7, <2>8, <2>9 DEF ClientNext
<1>2. ClientSpec => [][Good]_clientVars
  BY <1>1, ClientInvariant, PTL DEF ClientSpec
<1> QED BY <1>2 DEF CalmCallsSucceed

=============================================================================
