------------------------------ MODULE ApiClient ------------------------------
(***************************************************************************)
(* The browser's side of authentication (lib/api.ts, auth-context.tsx), on *)
(* top of the service in Auth.  The tabs of one browser share the token    *)
(* pair in localStorage; each tab has its own refreshPromise, by which the *)
(* calls of that tab that get a 401 share one refresh.  What a tab does    *)
(* between two awaits is one step; requests and answers may be lost.       *)
(***************************************************************************)
EXTENDS AuthProps

CONSTANTS
  Tabs,     \* tabs of the browser
  Calls,    \* requests under way
  TabOf,    \* the tab each is made in
  NoOne     \* no call, no server request

ASSUME ClientAssumption ==
  /\ TabOf \in [Calls -> Tabs]
  /\ NoOne \notin Calls
  /\ NoOne \notin Requests

VARIABLES
  store,    \* localStorage: the token pair, by the number of its refresh token; 0: none
  stale,    \* pairs whose access token has expired
  call,     \* request(): what each call is doing
  refresh,  \* the POST /auth/refresh a call has started
  promise,  \* refreshPromise of each tab: the call that started it
  sign,     \* the login or logout under way
  calm      \* ghost: nothing has happened that the client cannot cope with

browser == <<store, stale, call, refresh, promise, sign>>
clientVars == <<vars, browser, calm>>

Pairs == 0..MaxSessions
Tab(c) == TabOf[c]

(* pair: what its header carries; load: the me() of a mount, whose failure    *)
(* clears the tokens; on: the refresh it waits for.                           *)
Call == [pc : {"idle", "sent", "waiting", "again", "refused"},
         pair : Pairs, load : BOOLEAN, on : Calls \union {NoOne}]

NoCall == [pc |-> "idle", pair |-> 0, load |-> FALSE, on |-> NoOne]

(* An exchange with the service: the token presented, the request that serves *)
(* it, and the pair it answers (0: none).                                     *)
Exchange == [at : {"none", "sent", "served", "answered"}, token : Pairs,
             by : Requests \union {NoOne}, got : Pairs]

Nothing == [at |-> "none", token |-> 0, by |-> NoOne, got |-> 0]
Posted(t) == [at |-> "sent", token |-> t, by |-> NoOne, got |-> 0]
ServedBy(x, r) == [x EXCEPT !.at = "served", !.by = r]
Answered(x, n) == [x EXCEPT !.at = "answered", !.by = NoOne, !.got = n]

ClientTypes ==
  /\ store \in Pairs /\ stale \subseteq Tokens
  /\ call \in [Calls -> Call] /\ refresh \in [Calls -> Exchange]
  /\ promise \in [Tabs -> Calls \union {NoOne}]
  /\ sign \in [what : {"none", "login", "logout"}, user : Users \union {NoUser}, post : Exchange]
  /\ calm \in BOOLEAN

NoSign == [what |-> "none", user |-> NoUser, post |-> Nothing]

ClientInit ==
  /\ Init
  /\ store = 0 /\ stale = {}
  /\ call = [c \in Calls |-> NoCall]
  /\ refresh = [c \in Calls |-> Nothing]
  /\ promise = [t \in Tabs |-> NoOne]
  /\ sign = NoSign
  /\ calm = TRUE

InFlight(c) == refresh[c].at # "none"
Refreshing == \E c \in Calls : InFlight(c)

-----------------------------------------------------------------------------
(* request *)

(* doFetch: the access token that is stored now, if there is one. *)
Send(c) ==
  /\ call[c].pc = "idle"
  /\ call' = [call EXCEPT ![c] = [NoCall EXCEPT !.pc = "sent", !.pair = store]]
  /\ UNCHANGED <<vars, store, stale, refresh, promise, sign, calm>>

(* A tab is reloaded: what it waited for is gone, and AuthProvider validates  *)
(* the stored token.                                                          *)
Reload(c) ==
  LET tab == {d \in Calls : Tab(d) = Tab(c)} IN
  /\ store # 0
  /\ call' = [d \in Calls |->
       IF d = c THEN [pc |-> "sent", pair |-> store, load |-> TRUE, on |-> NoOne]
       ELSE IF d \in tab THEN NoCall ELSE call[d]]
  /\ refresh' = [d \in Calls |-> IF d \in tab THEN Nothing ELSE refresh[d]]
  /\ promise' = [promise EXCEPT ![Tab(c)] = NoOne]
  /\ calm' = (calm /\ \A d \in tab : ~InFlight(d))
  /\ UNCHANGED <<vars, store, stale, sign>>

Returned(c) ==
  /\ call[c].pc \in {"sent", "again"}
  /\ call[c].pair # 0 /\ call[c].pair \notin stale
  /\ call' = [call EXCEPT ![c] = NoCall]
  /\ UNCHANGED <<vars, store, stale, refresh, promise, sign, calm>>

(* get_current_user: no token, or one that has expired *)
Unauthorized(c) == call[c].pc \in {"sent", "again"}
                   /\ (call[c].pair = 0 \/ call[c].pair \in stale)

(* The 401 is final: it was a replay, or there is no refresh token. *)
Refused(c) ==
  /\ Unauthorized(c)
  /\ call[c].pc = "again" \/ store = 0
  /\ call' = [call EXCEPT ![c].pc = "refused"]
  /\ UNCHANGED <<vars, store, stale, refresh, promise, sign, calm>>

(* Mutant of Shares: every 401 starts a refresh of its own. *)
Shares_Never(c) == FALSE /\ c = c

(* tryRefresh: "concurrent 401s share a single in-flight refresh" *)
Shares(c) == promise[Tab(c)] # NoOne

Join(c) ==
  /\ Unauthorized(c) /\ call[c].pc = "sent" /\ store # 0
  /\ Shares(c)
  /\ call' = [call EXCEPT ![c].pc = "waiting", ![c].on = promise[Tab(c)]]
  /\ UNCHANGED <<vars, store, stale, refresh, promise, sign, calm>>

(* Another tab's refresh, or a logout, under way: both present one token. *)
Overlaps(c) == sign.what = "logout" \/ \E d \in Calls : InFlight(d) /\ Tab(d) # Tab(c)

StartRefresh(c) ==
  /\ Unauthorized(c) /\ call[c].pc = "sent" /\ store # 0
  /\ ~Shares(c) /\ ~InFlight(c)
  /\ refresh' = [refresh EXCEPT ![c] = Posted(store)]
  /\ promise' = [promise EXCEPT ![Tab(c)] = c]
  /\ call' = [call EXCEPT ![c].pc = "waiting", ![c].on = c]
  /\ calm' = (calm /\ ~Overlaps(c))
  /\ UNCHANGED <<vars, store, stale, sign>>

(* Those that await the refresh of c: they go on in one go. *)
Awoken(c, pc, pair) ==
  [d \in Calls |-> IF call[d].pc = "waiting" /\ call[d].on = c
                   THEN [call[d] EXCEPT !.pc = pc, !.pair = pair, !.on = NoOne] ELSE call[d]]

Settled(c) ==
  /\ refresh' = [refresh EXCEPT ![c] = Nothing]
  /\ promise' = [promise EXCEPT ![Tab(c)] = NoOne]

(* Mutant of Refreshed: the refresh token is kept, as if it were not rotated. *)
Refreshed_KeepsToken(c) ==
  /\ refresh[c].at = "answered" /\ refresh[c].got # 0
  /\ call' = Awoken(c, "again", store)
  /\ Settled(c)
  /\ UNCHANGED <<vars, store, stale, sign, calm>>

(* tokenStore.set, and every caller replays with the new access token. *)
Refreshed(c) ==
  /\ refresh[c].at = "answered" /\ refresh[c].got # 0
  /\ store' = refresh[c].got
  /\ call' = Awoken(c, "again", refresh[c].got)
  /\ Settled(c)
  /\ UNCHANGED <<vars, stale, sign, calm>>

(* !res.ok, or the catch: the callers keep their 401. *)
NotRefreshed(c) ==
  /\ \/ refresh[c].at = "answered" /\ refresh[c].got = 0 /\ calm' = calm
     \/ InFlight(c) /\ calm' = FALSE    \* request or answer lost
  /\ call' = Awoken(c, "refused", 0)
  /\ Settled(c)
  /\ UNCHANGED <<vars, store, stale, sign>>

(* ApiClientError.  Only the load's handler does anything about it. *)
Failed(c) ==
  /\ \/ call[c].pc = "refused" /\ calm' = calm
     \/ call[c].pc \in {"sent", "again"} /\ calm' = FALSE    \* no answer, or an error
  /\ store' = IF call[c].load THEN 0 ELSE store
  /\ call' = [call EXCEPT ![c] = NoCall]
  /\ UNCHANGED <<vars, stale, refresh, promise, sign>>

-----------------------------------------------------------------------------
(* login, logout *)

LoginForm(u) ==
  /\ sign = NoSign
  /\ sign' = [what |-> "login", user |-> u, post |-> Posted(0)]
  /\ UNCHANGED <<vars, store, stale, call, refresh, promise, calm>>

LogoutClicked ==
  /\ sign = NoSign /\ store # 0
  /\ sign' = [what |-> "logout", user |-> NoUser, post |-> Posted(store)]
  /\ calm' = (calm /\ ~Refreshing)
  /\ UNCHANGED <<vars, store, stale, call, refresh, promise>>

LoggedIn ==
  /\ sign.what = "login" /\ sign.post.at = "answered" /\ sign.post.got # 0
  /\ store' = sign.post.got
  /\ sign' = NoSign
  /\ calm' = (calm /\ ~Refreshing)
  /\ UNCHANGED <<vars, stale, call, refresh, promise>>

NotLoggedIn ==
  /\ sign.what = "login" /\ (sign.post.got = 0 \/ sign.post.at # "answered")
  /\ sign' = NoSign
  /\ UNCHANGED <<vars, store, stale, call, refresh, promise, calm>>

(* Any answer of the service is good enough... *)
LoggedOut ==
  /\ sign.what = "logout" /\ sign.post.at = "answered"
  /\ store' = 0
  /\ sign' = NoSign
  /\ UNCHANGED <<vars, stale, call, refresh, promise, calm>>

(* ...but none: the error is thrown on and the tokens stay. *)
NotLoggedOut ==
  /\ sign.what = "logout"
  /\ sign' = NoSign
  /\ calm' = FALSE
  /\ UNCHANGED <<vars, store, stale, call, refresh, promise>>

-----------------------------------------------------------------------------
(* The service at work for the browser. *)

Ours(r) == sign.post.by = r \/ \E c \in Calls : refresh[c].by = r

(* endpoint refresh: the row is looked up *)
TakeRefresh(r, c) ==
  LET t == refresh[c].token IN
  /\ refresh[c].at = "sent" /\ ~Ours(r)
  /\ \/ /\ Refresh(r, t) \/ Replay(r, t)
        /\ refresh' = [refresh EXCEPT ![c] = ServedBy(@, r)]
     \/ /\ session[t].state = "live" /\ session[t].expired
        /\ refresh' = [refresh EXCEPT ![c] = Answered(@, 0)]
        /\ UNCHANGED vars
  /\ UNCHANGED <<store, stale, call, promise, sign, calm>>

(* A failure of the service, too, is more than the client can cope with. *)
Copes(r) == calm' = (calm /\ ~RolledBack(r) /\ ~AuditFails(r))

(* RevokeAll, on the way to ending the sessions, answers nothing yet. *)
AnswerRefresh(r, c) ==
  /\ refresh[c].by = r
  /\ \/ IssueSession(r) /\ refresh' = [refresh EXCEPT ![c] = Answered(@, issued')]
     \/ /\ EndAllSessions(r) \/ RolledBack(r) \/ AuditFails(r)
        /\ refresh' = [refresh EXCEPT ![c] = Answered(@, 0)]
     \/ RevokeAll(r) /\ UNCHANGED refresh
  /\ Copes(r)
  /\ UNCHANGED <<store, stale, call, promise, sign>>

TakeSign(r) ==
  LET t == sign.post.token IN
  /\ sign.post.at = "sent" /\ ~Ours(r)
  /\ \/ sign.what = "login" /\ Login(r, sign.user) /\ sign' = [sign EXCEPT !.post = ServedBy(@, r)]
     \/ sign.what = "logout" /\ Logout(r, t) /\ sign' = [sign EXCEPT !.post = ServedBy(@, r)]
     \/ /\ sign.what = "logout" /\ session[t].state = "revoked"
        /\ sign' = [sign EXCEPT !.post = Answered(@, 0)]
        /\ UNCHANGED vars
  /\ UNCHANGED <<store, stale, call, refresh, promise, calm>>

AnswerSign(r) ==
  /\ sign.post.by = r
  /\ \/ IssueSession(r) /\ sign' = [sign EXCEPT !.post = Answered(@, issued')]
     \/ /\ EndSession(r) \/ RolledBack(r) \/ AuditFails(r)
        /\ sign' = [sign EXCEPT !.post = Answered(@, 0)]
  /\ Copes(r)
  /\ UNCHANGED <<store, stale, call, refresh, promise>>

(* Everyone else, and what the browser has given up: the client cannot know   *)
(* that they end a session.                                                   *)
Others(r) ==
  /\ ~Ours(r)
  /\ Reads(r) \/ Commits(r)
  /\ calm' = (calm /\ \A t \in Tokens : session[t].state = "live" => session'[t].state = "live")
  /\ UNCHANGED browser

(* An access token expires; it lasts longer than a refresh takes with its replay. *)
GoStale(n) ==
  /\ n \in 1..issued /\ n \notin stale
  /\ n = store \/ \E c \in Calls : call[c].pair = n    \* what is not used cannot matter
  /\ \A c \in Calls : refresh[c].got # n /\ (call[c].pc = "again" => call[c].pair # n)
  /\ stale' = stale \union {n}
  /\ UNCHANGED <<vars, store, call, refresh, promise, sign, calm>>

TimePasses ==
  \/ \E n \in Tokens : GoStale(n)
  \/ /\ \E t \in Tokens : Expire(t)
     /\ UNCHANGED <<browser, calm>>

-----------------------------------------------------------------------------
Client ==
  \/ \E c \in Calls :
       \/ Send(c) \/ Reload(c) \/ Returned(c) \/ Refused(c) \/ Join(c) \/ StartRefresh(c)
       \/ Refreshed(c) \/ NotRefreshed(c) \/ Failed(c)
  \/ \E u \in Users : LoginForm(u)
  \/ LogoutClicked \/ LoggedIn \/ NotLoggedIn \/ LoggedOut \/ NotLoggedOut

Service ==
  \E r \in Requests :
    \/ TakeSign(r) \/ AnswerSign(r) \/ Others(r)
    \/ \E c \in Calls : TakeRefresh(r, c) \/ AnswerRefresh(r, c)

ClientNext == Client \/ Service \/ TimePasses

ClientSpec == ClientInit /\ [][ClientNext]_clientVars

-----------------------------------------------------------------------------
(* A client to which nothing happens that the code has no answer to never     *)
(* holds a burned refresh token: what is stored is live, or is being rotated  *)
(* by the one refresh under way, or the user is logging out.  "So we never    *)
(* fire N refreshes and trip the backend's reuse-detection" (api.ts 9).       *)
CalmPairIsLive ==
  calm /\ store # 0 /\ ~Refreshing /\ sign.what # "logout" => session[store].state = "live"

(* A 401 reaches the application only when the session is over: an expired    *)
(* access token is renewed and the call replayed, however many calls meet it, *)
(* and a page load never drops a session that is good.                        *)
CalmCallsSucceed ==
  [][\A c \in Calls :
       calm' /\ call[c].pc # "refused" /\ call'[c].pc = "refused" /\ store # 0
         => session[store].expired]_clientVars

=============================================================================
