------------------------------ MODULE ChatProofs ------------------------------
(***************************************************************************)
(* Proofs about the chat service, for every number of users, meetings,     *)
(* sessions and questions, and that the page beside other clients is one   *)
(* of its clients, so that what is proved of the service holds there.      *)
(* Rows are ordered by the clock their transaction began at, which no two  *)
(* share (ClockInv); a page on which nothing overlaps is at rest, loading  *)
(* a history or waiting for one answer (CalmInv).                          *)
(***************************************************************************)
EXTENDS ChatPage, FiniteSetTheorems, SequenceTheorems, TLAPS

(* What a request has read of its session stays true of it, as long as the    *)
(* session is there; and a session that was asked never comes back.           *)
AskInv ==
  \A a \in Asks : ask[a].pc \in {"asked", "answered"} =>
    LET s == session[ask[a].session]
    IN /\ s # Absent
       /\ s.is = "open" =>
            /\ ask[a].found \subseteq Where(OrgOf[s.user], s.meeting)
            /\ ask[a].pc = "asked" /\ s.title = Untitled => ask[a].title = Untitled

(* The rows in the table are those of answered requests, whole exchanges of   *)
(* sessions that are there.                                                   *)
RowsInv ==
  \A x \in messages :
    /\ ask[x.ask].pc = "answered"
    /\ x \in Rows(x.ask)
    /\ Rows(x.ask) \subseteq messages
    /\ session[x.session].is = "open"

ChatInv == ChatOK /\ AskInv /\ RowsInv /\ NamedByQuestion

-----------------------------------------------------------------------------
(* What the initial state satisfies. *)
LEMMA InitInv == ChatInit => ChatInv
  BY DEF ChatInit, ChatInv, ChatOK, AskInv, RowsInv, NamedByQuestion, Absent, New,
         Request, Message

(* Rows(a) as two named rows. *)
LEMMA RowsType ==
  ASSUME NEW a \in Asks, ask[a] \in Request
  PROVE  /\ Rows(a) \subseteq Message
         /\ Rows(a) # {}
         /\ \A x \in Rows(a) : x.ask = a /\ x.session = ask[a].session
                               /\ x.citations \subseteq ask[a].found
  BY DEF Rows, Message, Request

-----------------------------------------------------------------------------
(* Each operation keeps the invariant. *)
LEMMA CreateSessionKeeps ==
  ASSUME ChatInv, NEW s \in Sessions, NEW u \in Users,
         NEW m \in Meetings \union {NoMeeting}, NEW t \in {NoTitle, Named},
         CreateSession(s, u, m, t)
  PROVE  ChatInv'
<1> USE DEF CreateSession
<1>1. ChatOK'
  BY DEF ChatInv, ChatOK, SessionRow, Absent, Gone, NoTitle, Named, Untitled
<1>2. AskInv'
  <2> SUFFICES ASSUME NEW b \in Asks, ask[b].pc \in {"asked", "answered"}
               PROVE  /\ ask[b].session \in Sessions
                      /\ ask[b].session # s
    BY DEF ChatInv, ChatOK, AskInv
  <2>1. ask[b] \in Request
    BY DEF ChatInv, ChatOK, New, Refused
  <2>2. session[ask[b].session] # Absent
    BY DEF ChatInv, AskInv
  <2> QED BY <2>1, <2>2 DEF Request
<1>3. RowsInv'
  BY DEF ChatInv, ChatOK, RowsInv, Rows, Absent, Message
<1>4. NamedByQuestion'
  <2>1. \A x \in messages : x.session # s
    BY DEF ChatInv, ChatOK, RowsInv, Absent
  <2>2. {y \in messages : y.session = s} = {}
    BY <2>1
  <2>3. /\ session'[s].title \in {Untitled, Named}
        /\ \A z \in Sessions : z # s => session'[z] = session[z]
    BY DEF ChatInv, ChatOK
  <2> SUFFICES ASSUME NEW z \in Sessions, session'[z].is = "open",
                      session'[z].title # Named
               PROVE  LET asked == {x.ask : x \in {y \in messages : y.session = z}}
                      IN IF asked = {} THEN session'[z].title = Untitled
                                       ELSE session'[z].title \in asked
    BY DEF NamedByQuestion
  <2>4. CASE z = s
    BY <2>2, <2>3, <2>4
  <2>5. CASE z # s
    BY <2>3, <2>5 DEF ChatInv, NamedByQuestion
  <2> QED BY <2>4, <2>5
<1> QED BY <1>1, <1>2, <1>3, <1>4 DEF ChatInv

LEMMA DeleteSessionKeeps ==
  ASSUME ChatInv, NEW s \in Sessions, NEW u \in Users, DeleteSession(s, u)
  PROVE  ChatInv'
<1> USE DEF DeleteSession
<1>1. ChatOK'
  BY DEF ChatInv, ChatOK
<1>2. AskInv'
  BY DEF ChatInv, ChatOK, AskInv, Request, New, Refused, Absent, Gone, Where
<1>3. RowsInv'
  <2> SUFFICES ASSUME NEW x \in messages, x.session # s
               PROVE  /\ ask[x.ask].pc = "answered"
                      /\ x \in Rows(x.ask)
                      /\ Rows(x.ask) \subseteq messages'
                      /\ session'[x.session].is = "open"
    BY DEF ChatInv, ChatOK, RowsInv, Rows
  <2>1. x.ask \in Asks /\ x.session \in Sessions
    BY DEF ChatInv, ChatOK, Message
  <2>2. /\ ask[x.ask].pc = "answered" /\ x \in Rows(x.ask)
        /\ Rows(x.ask) \subseteq messages /\ session[x.session].is = "open"
    BY DEF ChatInv, RowsInv
  <2>3. \A y \in Rows(x.ask) : y.session = x.session
    BY <2>2 DEF Rows
  <2> QED BY <2>1, <2>2, <2>3 DEF ChatInv, ChatOK
<1>4. NamedByQuestion'
  <2> SUFFICES ASSUME NEW z \in Sessions, session'[z].is = "open",
                      session'[z].title # Named
               PROVE  LET asked == {x.ask : x \in {y \in messages' : y.session = z}}
                      IN IF asked = {} THEN session'[z].title = Untitled
                                       ELSE session'[z].title \in asked
    BY DEF NamedByQuestion
  <2>1. z # s
    BY DEF ChatInv, ChatOK, Gone
  <2>2. session'[z] = session[z]
    BY <2>1 DEF ChatInv, ChatOK
  <2>3. {y \in messages' : y.session = z} = {y \in messages : y.session = z}
    BY <2>1
  <2> QED BY <2>2, <2>3 DEF ChatInv, NamedByQuestion
<1> QED BY <1>1, <1>2, <1>3, <1>4 DEF ChatInv

LEMMA BeginKeeps ==
  ASSUME ChatInv, NEW a \in Asks, NEW u \in Users, NEW s \in Sessions, Begin(a, u, s)
  PROVE  ChatInv'
<1>1. PICK found \in Found(OrgOf[u], session[s].meeting) :
        ask' = [ask EXCEPT ![a] =
          [pc |-> "asked", session |-> s, user |-> u, at |-> begun + 1,
           title |-> session[s].title, found |-> found]]
  BY DEF Begin
<1>a. found \subseteq Where(OrgOf[u], session[s].meeting)
  BY DEF Found
<1>2. /\ ask[a] = New /\ Owns(u, s) /\ begun' = begun + 1
      /\ UNCHANGED <<session, messages>>
  BY DEF Begin
<1>3. ChatOK'
  <2>1. session[s].title \in Asks \union {Untitled, Named}
    BY <1>2 DEF ChatInv, ChatOK, Owns, SessionRow, Absent, Gone
  <2>2. found \subseteq Meetings
    BY <1>a DEF Where
  <2> QED BY <1>1, <1>2, <2>1, <2>2 DEF ChatInv, ChatOK, Request
<1>4. AskInv'
  <2> SUFFICES ASSUME NEW b \in Asks, ask'[b].pc \in {"asked", "answered"}
               PROVE  LET z == session[ask'[b].session]
                      IN /\ z # Absent
                         /\ z.is = "open" =>
                              /\ ask'[b].found \subseteq Where(OrgOf[z.user], z.meeting)
                              /\ ask'[b].pc = "asked" /\ z.title = Untitled
                                   => ask'[b].title = Untitled
    BY <1>2 DEF AskInv
  <2>1. CASE b = a
    <3>1. ask'[a] = [pc |-> "asked", session |-> s, user |-> u, at |-> begun + 1,
                     title |-> session[s].title, found |-> found]
      BY <1>1 DEF ChatInv, ChatOK
    <3>2. session[s] # Absent /\ session[s].user = u
      BY <1>2 DEF Owns, Absent
    <3>3. /\ ask'[a].session = s /\ ask'[a].found \subseteq Where(OrgOf[u], session[s].meeting)
          /\ session[s].title = Untitled => ask'[a].title = Untitled
      BY <3>1, <1>a
    <3> QED BY <3>2, <3>3, <2>1
  <2>2. CASE b # a
    <3>1. ask'[b] = ask[b]
      BY <1>1, <2>2 DEF ChatInv, ChatOK
    <3> QED BY <3>1 DEF ChatInv, AskInv
  <2> QED BY <2>1, <2>2
<1>5. \A x \in messages : x.ask # a /\ x.ask \in Asks
  BY <1>2 DEF ChatInv, ChatOK, RowsInv, New, Message
<1>6. \A b \in Asks : b # a => ask'[b] = ask[b]
  BY <1>1 DEF ChatInv, ChatOK
<1>7. RowsInv'
  BY <1>2, <1>5, <1>6 DEF ChatInv, RowsInv, Rows
<1>8. NamedByQuestion'
  BY <1>2 DEF ChatInv, NamedByQuestion
<1> QED BY <1>3, <1>4, <1>7, <1>8 DEF ChatInv

(* A request that stores nothing. *)
LEMMA EndsKeeps ==
  ASSUME ChatInv, NEW a \in Asks, Refuse(a) \/ Fail(a)
  PROVE  ChatInv'
<1>1. /\ UNCHANGED <<session, messages, begun>>
      /\ ask[a].pc \in {"new", "asked"}
      /\ ask' = [ask EXCEPT ![a] = Refused] \/ ask' = [ask EXCEPT ![a].pc = "failed"]
      /\ ask'[a] \in Request \union {Refused}
      /\ ask'[a].pc \in {"refused", "failed"}
  <2>1. CASE Refuse(a)
    BY <2>1 DEF Refuse, ChatInv, ChatOK, New, Refused
  <2>2. CASE Fail(a)
    BY <2>2 DEF Fail, ChatInv, ChatOK, New, Refused, Request
  <2> QED BY <2>1, <2>2
<1>2. \A b \in Asks : b # a => ask'[b] = ask[b]
  BY <1>1 DEF ChatInv, ChatOK
<1>3. ChatOK'
  BY <1>1, <1>2 DEF ChatInv, ChatOK
<1>4. AskInv'
  BY <1>1, <1>2 DEF ChatInv, AskInv
<1>5. \A x \in messages : x.ask # a /\ x.ask \in Asks
  BY <1>1 DEF ChatInv, ChatOK, RowsInv, Message
<1>6. RowsInv'
  BY <1>1, <1>2, <1>5 DEF ChatInv, RowsInv, Rows
<1>7. NamedByQuestion'
  BY <1>1 DEF ChatInv, NamedByQuestion
<1> QED BY <1>3, <1>4, <1>6, <1>7 DEF ChatInv

LEMMA PersistKeeps ==
  ASSUME ChatInv, NEW a \in Asks, Persist(a)
  PROVE  ChatInv'
<1> DEFINE s == ask[a].session
<1>1. /\ ask[a] \in Request /\ ask[a].pc = "asked" /\ s \in Sessions
      /\ session[s].is = "open" /\ session[s] \in SessionRow
  BY DEF Persist, ChatInv, ChatOK, New, Refused, Request, Absent, Gone
<1>2. /\ messages' = messages \union Rows(a)
      /\ session' = IF ask[a].title = Untitled THEN [session EXCEPT ![s].title = a] ELSE session
      /\ ask' = [ask EXCEPT ![a].pc = "answered"]
      /\ begun' = begun
  BY DEF Persist
<1>3. /\ ask'[a] = [ask[a] EXCEPT !.pc = "answered"] /\ ask'[a] \in Request
      /\ \A b \in Asks : b # a => ask'[b] = ask[b]
  BY <1>1, <1>2 DEF ChatInv, ChatOK, Request
<1>4. /\ session'[s] \in SessionRow /\ session'[s].is = "open"
      /\ session'[s].user = session[s].user /\ session'[s].meeting = session[s].meeting
      /\ session'[s].title = IF ask[a].title = Untitled THEN a ELSE session[s].title
      /\ \A z \in Sessions : z # s => session'[z] = session[z]
  BY <1>1, <1>2 DEF ChatInv, ChatOK, SessionRow
<1>5. ChatOK'
  <2>1. session' \in [Sessions -> SessionRow \union {Absent, Gone}]
    BY <1>2, <1>4, <1>1 DEF ChatInv, ChatOK
  <2>2. messages' \subseteq Message
    BY <1>1, <1>2, RowsType DEF ChatInv, ChatOK
  <2>3. ask' \in [Asks -> Request \union {New, Refused}]
    BY <1>2, <1>3 DEF ChatInv, ChatOK
  <2> QED BY <2>1, <2>2, <2>3, <1>2 DEF ChatInv, ChatOK
<1>6. \A b \in Asks : Rows(b)' = Rows(b)
  BY <1>1, <1>3 DEF Rows, Request
<1>7. AskInv'
  <2> SUFFICES ASSUME NEW b \in Asks, ask'[b].pc \in {"asked", "answered"}
               PROVE  LET z == session'[ask'[b].session]
                      IN /\ z # Absent
                         /\ z.is = "open" =>
                              /\ ask'[b].found \subseteq Where(OrgOf[z.user], z.meeting)
                              /\ ask'[b].pc = "asked" /\ z.title = Untitled
                                   => ask'[b].title = Untitled
    BY DEF AskInv
  <2>1. /\ ask[b].pc \in {"asked", "answered"} /\ ask'[b].session = ask[b].session
        /\ ask'[b].found = ask[b].found /\ ask'[b].title = ask[b].title
        /\ ask'[b].pc = "asked" => ask[b].pc = "asked" /\ b # a
        /\ ask[b].session \in Sessions
    BY <1>1, <1>3 DEF ChatInv, ChatOK, Request, New, Refused
  <2>2. CASE ask[b].session # s
    BY <2>1, <2>2, <1>4 DEF ChatInv, AskInv
  <2>3. CASE ask[b].session = s
    <3>1. session'[s] # Absent
      BY <1>4 DEF Absent
    <3>2. ask[b].found \subseteq Where(OrgOf[session[s].user], session[s].meeting)
      BY <2>1, <2>3, <1>1 DEF ChatInv, AskInv
    <3>3. ask[a].title = Untitled \/ session[s].title # Untitled
      BY <1>1 DEF ChatInv, AskInv
    <3>4. ask'[b].pc = "asked" /\ session'[s].title = Untitled => ask[b].title = Untitled
      <4>1. CASE session[s].title = Untitled
        BY <4>1, <2>1, <2>3, <1>1 DEF ChatInv, AskInv
      <4>2. CASE session[s].title # Untitled /\ ask[a].title # Untitled
        BY <4>2, <1>4
      <4>3. CASE session[s].title # Untitled /\ ask[a].title = Untitled
        BY <4>3, <1>4, TitleAssumption
      <4> QED BY <4>1, <4>2, <4>3
    <3> QED BY <3>1, <3>2, <3>4, <2>1, <2>3, <1>4
  <2> QED BY <2>2, <2>3
<1>8. RowsInv'
  <2> SUFFICES ASSUME NEW x \in messages'
               PROVE  /\ ask'[x.ask].pc = "answered"
                      /\ x \in Rows(x.ask)'
                      /\ Rows(x.ask)' \subseteq messages'
                      /\ session'[x.session].is = "open"
    BY DEF RowsInv
  <2>1. CASE x \in messages
    <3>1. x.ask \in Asks /\ x.session \in Sessions
      BY <2>1 DEF ChatInv, ChatOK, Message
    <3>2. /\ ask[x.ask].pc = "answered" /\ x \in Rows(x.ask)
          /\ Rows(x.ask) \subseteq messages /\ session[x.session].is = "open"
      BY <2>1 DEF ChatInv, RowsInv
    <3>3. x.ask # a
      BY <3>2, <1>1
    <3> QED BY <3>1, <3>2, <3>3, <1>2, <1>3, <1>4, <1>6
  <2>2. CASE x \in Rows(a)
    <3>1. x.ask = a /\ x.session = s
      BY <2>2, <1>1, RowsType
    <3> QED BY <3>1, <2>2, <1>1, <1>2, <1>3, <1>4, <1>6 DEF Request
  <2> QED BY <2>1, <2>2, <1>2
<1>9. NamedByQuestion'
  <2> SUFFICES ASSUME NEW z \in Sessions, session'[z].is = "open",
                      session'[z].title # Named
               PROVE  LET asked == {x.ask : x \in {y \in messages' : y.session = z}}
                      IN IF asked = {} THEN session'[z].title = Untitled
                                       ELSE session'[z].title \in asked
    BY DEF NamedByQuestion
  <2> DEFINE In(M) == {x.ask : x \in {y \in M : y.session = z}}
  <2>1. CASE z # s
    <3>1. {y \in messages' : y.session = z} = {y \in messages : y.session = z}
      BY <2>1, <1>1, <1>2, RowsType
    <3> QED BY <3>1, <2>1, <1>4 DEF ChatInv, NamedByQuestion
  <2>2. CASE z = s
    <3>1. In(messages') # {}
      <4>1. PICK x \in Rows(a) : x.ask = a /\ x.session = s
        BY <1>1, RowsType
      <4> QED BY <4>1, <2>2, <1>2
    <3>2. a \in In(messages')
      <4>1. PICK x \in Rows(a) : x.ask = a /\ x.session = s
        BY <1>1, RowsType
      <4> QED BY <4>1, <2>2, <1>2
    <3>3. session'[z].title \in In(messages')
      <4>1. CASE ask[a].title = Untitled
        BY <4>1, <3>2, <2>2, <1>4
      <4>2. CASE ask[a].title # Untitled
        <5>1. session[s].title # Untitled
          BY <4>2, <1>1 DEF ChatInv, AskInv
        <5>2. session[s].title # Named
          BY <4>2, <2>2, <1>4
        <5>3. session[s].title \in In(messages)
          BY <5>1, <5>2, <2>2, <1>1 DEF ChatInv, NamedByQuestion
        <5> QED BY <5>3, <4>2, <2>2, <1>2, <1>4
      <4> QED BY <4>1, <4>2
    <3> QED BY <3>1, <3>3
  <2> QED BY <2>1, <2>2
<1> QED BY <1>5, <1>7, <1>8, <1>9 DEF ChatInv

LEMMA StepKeeps == ChatInv /\ [ChatStep]_chatVars => ChatInv'
<1> SUFFICES ASSUME ChatInv, [ChatStep]_chatVars PROVE ChatInv'
  OBVIOUS
<1>1. CASE UNCHANGED chatVars
  BY <1>1 DEF chatVars, ChatInv, ChatOK, AskInv, RowsInv, Rows, NamedByQuestion
<1>2. CASE ChatStep
  BY <1>2, CreateSessionKeeps, DeleteSessionKeeps, BeginKeeps, EndsKeeps, PersistKeeps
     DEF ChatStep, AskStep
<1> QED BY <1>1, <1>2

LEMMA ChatAlways == ChatSpec => []ChatInv
  BY InitInv, StepKeeps, PTL DEF ChatSpec

-----------------------------------------------------------------------------
(* Rows, requests and sessions are what they should be. *)
THEOREM ChatTypes == ChatSpec => []ChatOK
<1>1. ChatInv => ChatOK
  BY DEF ChatInv
<1> QED BY <1>1, ChatAlways, PTL

(* However many questions are answered at a time, and whatever is deleted     *)
(* meanwhile, only whole exchanges of existing sessions are stored            *)
(* (ask 153-167 and delete_session 111-121).                                  *)
THEOREM StoresWholeExchanges == ChatSpec => []WholeExchanges
<1>1. ChatInv => WholeExchanges
  BY DEF ChatInv, RowsInv, WholeExchanges
<1> QED BY <1>1, ChatAlways, PTL

(* No answer cites a meeting of another organization, or outside the scope of *)
(* its session (search 67-74, get_for_user 36-43).                            *)
THEOREM AnswersCiteOwn == ChatSpec => []CitesOwn
<1>1. ChatInv => CitesOwn
  <2> SUFFICES ASSUME ChatInv, NEW x \in messages, session[x.session].is = "open",
                      NEW m \in x.citations
               PROVE  /\ OrgOf[m] = OrgOf[session[x.session].user]
                      /\ session[x.session].meeting \in {m, NoMeeting}
    BY DEF CitesOwn
  <2>1. x.ask \in Asks /\ ask[x.ask].pc = "answered" /\ x \in Rows(x.ask)
    BY DEF ChatInv, ChatOK, RowsInv, Message
  <2>2. x.session = ask[x.ask].session /\ x.citations \subseteq ask[x.ask].found
    BY <2>1 DEF Rows
  <2>3. m \in Where(OrgOf[session[x.session].user], session[x.session].meeting)
    BY <2>1, <2>2 DEF ChatInv, AskInv
  <2> QED BY <2>3 DEF Where
<1> QED BY <1>1, ChatAlways, PTL

(* A session without a name of its own is named by a question it shows, as    *)
(* soon as it shows one (ask 164-166).                                        *)
THEOREM NamedByItsQuestion == ChatSpec => []NamedByQuestion
<1>1. ChatInv => NamedByQuestion
  BY DEF ChatInv
<1> QED BY <1>1, ChatAlways, PTL

(* Whatever the page and the other clients do, the service does one of its    *)
(* operations or nothing: the specification of the page implements ChatSpec.  *)
THEOREM PageIsAClient == Spec => ChatSpec
<1>1. Init => ChatInit
  BY DEF Init
<1>2. [Next]_vars => [ChatStep]_chatVars
  <2> SUFFICES ASSUME Next, chatVars' # chatVars PROVE ChatStep
    BY DEF vars
  <2> USE PageAssumption
  <2>1. CASE Page
    <3>1. ASSUME NEW s \in Sessions, NewChat(s) PROVE ChatStep
      BY <3>1 DEF NewChat, Create, ChatStep
    <3>2. ASSUME NEW a \in PageAsks, NEW s \in Sessions, Created(a, s) PROVE ChatStep
      BY <3>2 DEF Created, Create, ChatStep
    <3>3. ASSUME Deleted PROVE ChatStep
      BY <3>3 DEF Deleted, ChatStep
    <3>4. ASSUME NotDeleted PROVE ChatStep
      BY <3>4 DEF NotDeleted, ChatStep, chatVars
    <3> QED
      BY <2>1, <3>1, <3>2, <3>3, <3>4
         DEF Page, Select, Delete, Send, SendFirst, NotCreated
  <2>2. CASE Answers
    <3>1. ASSUME NEW a \in PageAsks, Receive(a) PROVE ChatStep
      BY <3>1 DEF Receive, ChatStep
    <3> QED
      BY <2>2, <3>1
         DEF Answers, Answered, NotAnswered, ReadHistory, ShowHistory, ShowList
  <2>3. CASE Others
    BY <2>3 DEF Others, Create, ChatStep
  <2>4. ASSUME NEW a \in Asks, Serve(a) PROVE ChatStep
    BY <2>4 DEF Serve, ChatStep
  <2> QED BY <2>1, <2>2, <2>3, <2>4 DEF Next
<1> QED BY <1>1, <1>2, PTL DEF Spec, ChatSpec

-----------------------------------------------------------------------------
(* The order of a history *)

Began(a) == ask[a].pc \in {"asked", "answered", "failed"}

(* created_at is the time a transaction began, and no two began at one time. *)
ClockInv ==
  /\ IsFiniteSet(messages)
  /\ \A a \in Asks : Began(a) => ask[a].at <= begun
  /\ \A a, b \in Asks : Began(a) /\ Began(b) /\ a # b => ask[a].at # ask[b].at

LEMMA RowsOf ==
  ASSUME NEW a \in Asks
  PROVE  \E q, r : /\ Rows(a) = {q, r} /\ q # r
                   /\ q.session = ask[a].session /\ r.session = ask[a].session
                   /\ q.ask = a /\ r.ask = a /\ q.role = "user" /\ r.role = "assistant"
                   /\ q.created_at = ask[a].at /\ r.created_at = ask[a].at
<1> DEFINE q == [session |-> ask[a].session, ask |-> a, role |-> "user",
                 created_at |-> ask[a].at, citations |-> {}]
           r == [session |-> ask[a].session, ask |-> a, role |-> "assistant",
                 created_at |-> ask[a].at, citations |-> ask[a].found]
<1>1. /\ Rows(a) = {q, r}
      /\ q.session = ask[a].session /\ r.session = ask[a].session
      /\ q.ask = a /\ r.ask = a /\ q.role = "user" /\ r.role = "assistant"
      /\ q.created_at = ask[a].at /\ r.created_at = ask[a].at
  BY DEF Rows
<1>2. q # r
  <2>1. q.role # r.role
    BY <1>1
  <2> QED BY <2>1
<1> HIDE DEF q, r
<1> QED BY <1>1, <1>2

LEMMA ClockKept ==
  ASSUME ChatInv, ClockInv, [ChatStep]_chatVars PROVE ClockInv'
<1>1. CASE begun' = begun /\ messages' \subseteq messages
           /\ \A a \in Asks : Began(a)' => Began(a) /\ ask'[a].at = ask[a].at
  BY <1>1, FS_Subset DEF ClockInv
<1>2. ASSUME NEW a \in Asks, NEW u \in Users, NEW s \in Sessions, Begin(a, u, s) PROVE ClockInv'
  <2>1. /\ begun' = begun + 1 /\ ask'[a].at = begun + 1 /\ messages' = messages
        /\ \A b \in Asks \ {a} : ask'[b] = ask[b]
        /\ ask \in [Asks -> Request \union {New, Refused}] /\ begun \in Nat
    BY <1>2 DEF Begin, ChatInv, ChatOK
  <2>2. \A b \in Asks : Began(b) => ask[b].at \in Nat /\ ask[b].at <= begun
    BY <2>1 DEF ClockInv, Began, Request, New, Refused
  <2> QED BY <2>1, <2>2 DEF ClockInv, Began
<1>3. ASSUME NEW a \in Asks, Persist(a) PROVE ClockInv'
  <2>1. IsFiniteSet(messages')
    <3>1. PICK q, r : Rows(a) = {q, r}
      BY DEF Rows
    <3>2. messages' = (messages \union {q}) \union {r}
      BY <1>3, <3>1 DEF Persist
    <3> QED BY <3>2, FS_AddElement DEF ClockInv
  <2>2. begun' = begun /\ \A b \in Asks : Began(b)' => Began(b) /\ ask'[b].at = ask[b].at
    BY <1>3 DEF Persist, Began, ChatInv, ChatOK, Request, New, Refused
  <2> QED BY <2>1, <2>2 DEF ClockInv
<1>4. ASSUME NEW a \in Asks, Fail(a) \/ Refuse(a) PROVE ClockInv'
  <2>1. \A b \in Asks : Began(b)' => Began(b) /\ ask'[b].at = ask[b].at
    BY <1>4 DEF Fail, Refuse, Began, ChatInv, ChatOK, Request, New, Refused
  <2> QED BY <1>1, <1>4, <2>1 DEF Fail, Refuse
<1>5. ASSUME NEW s \in Sessions, NEW u \in Users, DeleteSession(s, u) PROVE ClockInv'
  BY <1>1, <1>5 DEF DeleteSession, Began
<1>6. ASSUME NEW s \in Sessions, NEW u \in Users, NEW m \in Meetings \union {NoMeeting},
             NEW t \in {NoTitle, Named}, CreateSession(s, u, m, t)
      PROVE  ClockInv'
  BY <1>1, <1>6 DEF CreateSession, Began
<1>7. CASE UNCHANGED chatVars
  BY <1>1, <1>7 DEF chatVars, Began
<1> QED BY <1>2, <1>3, <1>4, <1>5, <1>6, <1>7 DEF ChatStep, AskStep

LEMMA ClockAlways == ChatSpec => [](ChatInv /\ ClockInv)
<1>1. ChatInit => ClockInv
  BY FS_EmptySet DEF ChatInit, ClockInv, Began, New
<1>2. ChatInv /\ ClockInv /\ [ChatStep]_chatVars => ChatInv' /\ ClockInv'
  BY StepKeeps, ClockKept
<1> QED BY <1>1, <1>2, InitInv, PTL DEF ChatSpec

(* A history is a numbering of the rows of its session, in order of time. *)
RowsIn(s) == {x \in messages : x.session = s}

LEMMA HistoryShape ==
  ASSUME ClockInv, NEW s, NEW h \in Histories(s)
  PROVE  /\ Cardinality(RowsIn(s)) \in Nat /\ DOMAIN h = 1 .. Cardinality(RowsIn(s))
         /\ \A i \in DOMAIN h : h[i] \in RowsIn(s)
         /\ \A i, j \in DOMAIN h : i # j => h[i] # h[j]
         /\ \A i, j \in DOMAIN h : i < j => h[i].created_at <= h[j].created_at
<1>1. IsFiniteSet(RowsIn(s))
  BY FS_Subset DEF ClockInv, RowsIn
<1>2. Cardinality(RowsIn(s)) \in Nat
  BY <1>1, FS_CardinalityType
<1> QED BY <1>2 DEF Histories, SetToSeqs, RowsIn

LEMMA ExchangeTogether == ChatInv /\ ClockInv => HistoryByExchange
<1> SUFFICES ASSUME ChatInv, ClockInv, NEW s \in Sessions, NEW h \in Histories(s),
                    NEW i \in DOMAIN h, NEW j \in DOMAIN h, i < j, h[i].ask = h[j].ask,
                    j # i + 1
             PROVE  FALSE
  BY DEF HistoryByExchange
<1>0. PICK k : k = i + 1
  OBVIOUS
<1>1. /\ k \in DOMAIN h /\ i < k /\ k < j
      /\ h[i] \in messages /\ h[j] \in messages /\ h[k] \in messages
      /\ h[i] # h[j] /\ h[i] # h[k] /\ h[j] # h[k]
      /\ h[i].created_at <= h[k].created_at /\ h[k].created_at <= h[j].created_at
  <2>1. Cardinality(RowsIn(s)) \in Nat /\ DOMAIN h = 1 .. Cardinality(RowsIn(s))
    BY HistoryShape
  <2>2. /\ k \in DOMAIN h /\ i < k /\ k < j /\ i # k /\ k # j /\ i # j
    BY <1>0, <2>1
  <2>3. \A n \in DOMAIN h : h[n] \in messages
    BY HistoryShape DEF RowsIn
  <2> QED BY <2>2, <2>3, HistoryShape
<1>2. PICK a \in Asks, b \in Asks : a = h[i].ask /\ b = h[k].ask
  BY <1>1 DEF ChatInv, ChatOK, Message
<1>3. \A x \in messages : /\ x \in Rows(x.ask) /\ x.created_at = ask[x.ask].at /\ x.created_at \in Nat
                          /\ Began(x.ask)
  <2> TAKE x \in messages
  <2>1. x.ask \in Asks /\ x \in Rows(x.ask) /\ ask[x.ask].pc = "answered" /\ x.created_at \in Nat
    BY DEF ChatInv, ChatOK, RowsInv, Message
  <2> QED BY <2>1, RowsOf DEF Began
<1>4. a = b
  BY <1>1, <1>2, <1>3 DEF ClockInv
<1>5. h[i] \in Rows(a) /\ h[j] \in Rows(a) /\ h[k] \in Rows(a)
  BY <1>1, <1>2, <1>3, <1>4
<1>6. PICK q, r : Rows(a) = {q, r}
  BY DEF Rows
<1> QED BY <1>1, <1>5, <1>6

(* However two clients ask in one session, nothing comes between a question   *)
(* and its answer in its history (list_for_session, TimestampMixin).          *)
THEOREM ExchangesStayTogether == Spec => []HistoryByExchange
BY PageIsAClient, ClockAlways, ExchangeTogether, PTL

-----------------------------------------------------------------------------
(* The page: what the proofs need of its variables whatever overlaps *)

PageInv ==
  /\ active \in Sessions \union {NoSession} /\ listed \subseteq Sessions
  /\ typed \in [PageAsks -> {"no", "creating", "posted", "done"}]
  /\ target \in [PageAsks -> Sessions \union {NoSession}]
  /\ loads = [i \in 1..MaxLoads |-> loads[i]]
  /\ \A i \in 1..MaxLoads :
       loads[i] = NoLoad \/ (loads[i].pc \in {"sent", "read"} /\ loads[i].s \in Sessions)
  /\ deleting # NoDelete =>
       deleting.s \in Sessions /\ deleting.remaining \subseteq Sessions \ {deleting.s}
  /\ \A a \in PageAsks :
       /\ typed[a] \in {"no", "creating"} => target[a] = NoSession
       /\ typed[a] = "posted" => target[a] \in Sessions
       /\ ask[a].pc # "new" => target[a] \in Sessions
       /\ Began(a) => ask[a].session = target[a]

Under(a) ==
  typed[a] \in {"creating", "posted"} \/ (target[a] # NoSession /\ ask[a].pc \in {"new", "asked"})
NoUnder == \A a \in PageAsks : ~Under(a)
NoLoads == \A i \in 1..MaxLoads : loads[i] = NoLoad

LEMMA NotInFlight == ~InFlight <=> NoUnder /\ NoLoads /\ deleting = NoDelete
BY DEF InFlight, NoUnder, Under, NoLoads

(* A list that holds no question that was not sent yet *)
Plain(list) ==
  /\ list \in Seq(Item)
  /\ \A a \in PageAsks : typed[a] \in {"no", "creating"} =>
       \A i \in DOMAIN list : list[i] # Question(a)

(* In calm one thing at most is under way: nothing, *)
Resting ==
  /\ NoUnder /\ NoLoads
  /\ deleting # NoDelete => deleting.open = active
  /\ active # NoSession => Owns(Me, active) /\ Plain(shown) /\ Shows(shown, active)

(* or the history of the open session, *)
Loading ==
  /\ NoUnder /\ deleting = NoDelete /\ active \in Sessions
  /\ \E i \in 1..MaxLoads :
       /\ \A j \in 1..MaxLoads : loads[j] # NoLoad <=> j = i
       /\ loads[i].s = active
       /\ loads[i].pc = "read" =>
            Owns(Me, active) /\ Plain(loads[i].history) /\ Shows(loads[i].history, active)

(* or a question in it. *)
Asked(a, base) ==
  /\ typed[a] = "posted" /\ target[a] = active
  /\ \A b \in PageAsks : Under(b) => b = a
  /\ ask[a].pc = "asked" => \A x \in messages : x.created_at < ask[a].at
  /\ shown = Append(base, Question(a))
  /\ Plain(base) /\ \A i \in DOMAIN base : base[i] # Question(a)
  /\ IF ask[a].pc = "answered" THEN Shows(Append(shown, Answer(a)), active)
                               ELSE Shows(base, active)

Asking ==
  /\ NoLoads /\ deleting = NoDelete /\ active \in Sessions /\ Owns(Me, active)
  /\ \E a \in PageAsks, base \in Seq(Item) : Asked(a, base)

CalmInv == calm => Resting \/ Loading \/ Asking

LEMMA InitPage == Init => PageInv /\ CalmInv
<1> SUFFICES ASSUME Init PROVE PageInv /\ CalmInv
  OBVIOUS
<1>1. PageInv
  BY PageAssumption DEF Init, ChatInit, PageInv, Began, New, NoDelete
<1>2. Resting
  BY DEF Init, Resting, NoUnder, Under, NoLoads
<1> QED BY <1>1, <1>2 DEF CalmInv

LEMMA ShowsKept ==
  ASSUME NEW s, NEW list, RowsIn(s)' = RowsIn(s), Shows(list, s)
  PROVE  Shows(list, s)'
<1>1. Histories(s)' = Histories(s)
  BY DEF Histories, RowsIn
<1> QED BY <1>1 DEF Shows

(* Taking back the question that was put last *)
LEMMA TakenBack ==
  ASSUME NEW base \in Seq(Item), NEW q \in Item, \A i \in DOMAIN base : base[i] # q
  PROVE  RemoveFirst(Append(base, q), q) = base
<1> DEFINE n == Len(base)
           list == Append(base, q)
<1>1. /\ n \in Nat /\ DOMAIN base = 1 .. n /\ list \in Seq(Item) /\ Len(list) = n + 1
      /\ \A i \in 1 .. n : list[i] = base[i] /\ list[i] # q
      /\ list[n + 1] = q
  BY AppendProperties, LenProperties
<1>2. {i \in 1 .. Len(list) : list[i] = q} = {n + 1}
  BY <1>1
<1>3. Min({n + 1}) = n + 1
  BY <1>1 DEF Min
<1>4. RemoveFirst(list, q) = RemoveAt(list, n + 1)
  BY <1>1, <1>2, <1>3 DEF RemoveFirst, SelectInSeq
<1>5. SubSeq(list, 1, n) = base
  BY <1>1, SubSeqProperties, SeqEqual
<1>6. SubSeq(list, n + 2, n + 1) = <<>>
  BY <1>1, SubSeqEmpty
<1> QED BY <1>1, <1>4, <1>5, <1>6, ConcatEmptySeq DEF RemoveAt

(* The exchange that is stored is the end of a history. *)
LEMMA OneExchangeMore ==
  ASSUME ChatInv, ClockInv, NEW a \in Asks, Persist(a), NEW s, s = ask[a].session,
         \A x \in messages : x.created_at < ask[a].at,
         NEW base \in Seq(Item), Shows(base, s)
  PROVE  Shows(Append(Append(base, Question(a)), Answer(a)), s)'
<1>1. PICK h \in Histories(s) :
        DOMAIN base = DOMAIN h /\ \A i \in DOMAIN h : base[i].ask = h[i].ask /\ base[i].role = h[i].role
  BY DEF Shows
<1>2. PICK n : n = Cardinality(RowsIn(s)) /\ n \in Nat
  BY HistoryShape
<1>3. /\ DOMAIN h = 1 .. n /\ \A i \in 1 .. n : h[i] \in RowsIn(s)
      /\ \A i, j \in 1 .. n : i # j => h[i] # h[j]
      /\ \A i, j \in 1 .. n : i < j => h[i].created_at <= h[j].created_at
  BY <1>2, HistoryShape
<1>4. PICK q, r : /\ Rows(a) = {q, r} /\ q # r /\ q.session = s /\ r.session = s
                  /\ q.ask = a /\ r.ask = a /\ q.role = "user" /\ r.role = "assistant"
                  /\ q.created_at = ask[a].at /\ r.created_at = ask[a].at
  BY RowsOf
<1>5. /\ \A x \in RowsIn(s) : x.created_at \in Nat /\ x.created_at < ask[a].at
      /\ ask[a].at \in Nat /\ q \notin RowsIn(s) /\ r \notin RowsIn(s)
  <2>1. ask[a] \in Request
    BY DEF Persist, ChatInv, ChatOK, New, Refused
  <2>2. \A x \in RowsIn(s) : x \in messages /\ x \in Message
    BY DEF RowsIn, ChatInv, ChatOK
  <2> QED BY <1>4, <2>1, <2>2 DEF Request, Message
<1>6. RowsIn(s)' = (RowsIn(s) \union {q}) \union {r}
  BY <1>4 DEF Persist, RowsIn
<1>7. Cardinality(RowsIn(s)') = n + 2
  <2>1. IsFiniteSet(RowsIn(s))
    BY FS_Subset DEF ClockInv, RowsIn
  <2>2. /\ IsFiniteSet(RowsIn(s) \union {q}) /\ Cardinality(RowsIn(s) \union {q}) = n + 1
        /\ r \notin RowsIn(s) \union {q}
    BY <1>2, <1>4, <1>5, <2>1, FS_AddElement
  <2>3. Cardinality((RowsIn(s) \union {q}) \union {r}) = (n + 1) + 1
    BY <2>2, FS_AddElement
  <2> QED BY <1>2, <1>6, <2>3
<1>8. PICK g : g = [i \in 1 .. n + 2 |-> IF i <= n THEN h[i] ELSE IF i = n + 1 THEN q ELSE r]
  OBVIOUS
<1>9. /\ DOMAIN g = 1 .. n + 2 /\ g \in [1 .. n + 2 -> RowsIn(s)']
      /\ \A i \in 1 .. n : g[i] = h[i]
      /\ g[n + 1] = q /\ g[n + 2] = r
      /\ \A i \in 1 .. n + 2 : i \in 1 .. n \/ i = n + 1 \/ i = n + 2
  BY <1>2, <1>3, <1>6, <1>8
<1>10. \A i, j \in 1 .. n + 2 : i # j => g[i] # g[j]
  BY <1>2, <1>3, <1>4, <1>5, <1>9
<1>11. \A i, j \in 1 .. n + 2 : i < j => g[i].created_at <= g[j].created_at
  BY <1>2, <1>3, <1>4, <1>5, <1>9
<1>12. g \in Histories(s)'
  <2>1. g \in SetToSeqs(RowsIn(s)')
    BY <1>7, <1>9, <1>10 DEF SetToSeqs
  <2>2. RowsIn(s)' = {x \in messages' : x.session = s}
    BY DEF RowsIn
  <2> QED BY <1>9, <1>11, <2>1, <2>2 DEF Histories
<1>13. PICK list : list = Append(Append(base, Question(a)), Answer(a))
  OBVIOUS
<1>14. /\ DOMAIN list = 1 .. n + 2 /\ \A i \in 1 .. n : list[i] = base[i]
       /\ list[n + 1] = Question(a) /\ list[n + 2] = Answer(a)
  <2>1. Question(a) \in Item /\ Answer(a) \in Item /\ Len(base) = n
    BY <1>1, <1>2, <1>3, LenProperties DEF Question, Answer, Item
  <2>2. PICK one : one = Append(base, Question(a))
    OBVIOUS
  <2>3. /\ one \in Seq(Item) /\ Len(one) = n + 1
        /\ \A i \in 1 .. n : one[i] = base[i]
        /\ one[n + 1] = Question(a)
    BY <2>1, <2>2, AppendProperties
  <2>4. /\ list \in Seq(Item) /\ Len(list) = (n + 1) + 1
        /\ \A i \in 1 .. n + 1 : list[i] = one[i]
        /\ list[(n + 1) + 1] = Answer(a)
    BY <1>13, <2>1, <2>2, <2>3, AppendProperties
  <2>5. DOMAIN list = 1 .. n + 2
    BY <1>2, <2>4, LenProperties
  <2> QED BY <1>2, <2>3, <2>4, <2>5
<1>15. \A i \in 1 .. n + 2 : list[i].ask = g[i].ask /\ list[i].role = g[i].role
  BY <1>1, <1>3, <1>4, <1>9, <1>14 DEF Question, Answer
<1> QED BY <1>9, <1>12, <1>13, <1>14, <1>15 DEF Shows

-----------------------------------------------------------------------------
(* Each operation of the page keeps PageInv. *)

(* The asks and the questions that were typed stay as they are. *)
SameAsks == UNCHANGED <<typed, target>> /\ \A a \in PageAsks : ask'[a] = ask[a]

LEMMA SlotTaken ==
  ASSUME PageInv, NEW s \in Sessions, StartLoad(s)
  PROVE  /\ loads' = [i \in 1..MaxLoads |-> loads'[i]]
         /\ \A i \in 1..MaxLoads :
              loads'[i] = NoLoad \/ (loads'[i].pc \in {"sent", "read"} /\ loads'[i].s \in Sessions)
         /\ NoLoads => \E i \in 1..MaxLoads :
              /\ \A j \in 1..MaxLoads : loads'[j] # NoLoad <=> j = i
              /\ loads'[i].s = s /\ loads'[i].pc = "sent"
<1>1. PICK i \in 1..MaxLoads : loads' = [loads EXCEPT ![i] = [pc |-> "sent", s |-> s]]
  BY DEF StartLoad
<1>2. loads'[i] = [pc |-> "sent", s |-> s] /\ \A j \in (1..MaxLoads) \ {i} : loads'[j] = loads[j]
  BY <1>1 DEF PageInv
<1>3. [pc |-> "sent", s |-> s].pc # NoLoad.pc
  BY DEF NoLoad
<1> QED BY <1>1, <1>2, <1>3 DEF PageInv, NoLoads

LEMMA OpensKinds ==
  ASSUME PageInv, NEW s \in Sessions \union {NoSession}, Opens(s)
  PROVE  /\ loads' = [i \in 1..MaxLoads |-> loads'[i]]
         /\ \A i \in 1..MaxLoads :
              loads'[i] = NoLoad \/ (loads'[i].pc \in {"sent", "read"} /\ loads'[i].s \in Sessions)
         /\ active' = s
BY SlotTaken DEF Opens, PageInv

LEMMA ReadKinds ==
  ASSUME PageInv, NEW i \in 1..MaxLoads, ReadHistory(i) \/ ShowHistory(i)
  PROVE  /\ loads' = [j \in 1..MaxLoads |-> loads'[j]]
         /\ \A j \in 1..MaxLoads :
              loads'[j] = NoLoad \/ (loads'[j].pc \in {"sent", "read"} /\ loads'[j].s \in Sessions)
         /\ \A j \in (1..MaxLoads) \ {i} : loads'[j] = loads[j]
<1>1. loads[i].s \in Sessions
  BY DEF PageInv, ReadHistory, ShowHistory, NoLoad
<1>2. PICK x : loads' = [loads EXCEPT ![i] = x] /\ (x = NoLoad \/ (x.pc = "read" /\ x.s = loads[i].s))
  BY DEF ReadHistory, ShowHistory
<1> QED BY <1>1, <1>2 DEF PageInv

LEMMA PageInvKept == ASSUME ChatInv, PageInv, [Next]_vars PROVE PageInv'
<1> USE PageAssumption
<1>1. ASSUME SameAsks, UNCHANGED <<active, listed, loads, deleting>> PROVE PageInv'
  BY <1>1 DEF SameAsks, PageInv, Began
<1>2. ASSUME NEW s \in Sessions, Select(s) PROVE PageInv'
  BY <1>2, OpensKinds DEF Select, chatVars, PageInv, Began
<1>3. ASSUME NEW s \in Sessions, NewChat(s) PROVE PageInv'
  BY <1>3, SlotTaken DEF NewChat, Create, CreateSession, PageInv, Began
<1>4. ASSUME NEW s \in Sessions, Delete(s) PROVE PageInv'
  <2>1. deleting'.s = s /\ deleting'.remaining \subseteq Sessions \ {s}
    BY <1>4 DEF Delete, PageInv
  <2> QED BY <1>4, <2>1 DEF Delete, chatVars, PageInv, Began
<1>5. CASE Deleted
  <2>1. /\ UNCHANGED <<ask, typed, target>> /\ deleting' = NoDelete
        /\ listed' = deleting.remaining /\ deleting # NoDelete
    BY <1>5 DEF Deleted, DeleteSession, NoDelete
  <2>2. listed' \subseteq Sessions
    BY <2>1 DEF PageInv
  <2>3. /\ loads' = [i \in 1..MaxLoads |-> loads'[i]]
        /\ \A i \in 1..MaxLoads :
             loads'[i] = NoLoad \/ (loads'[i].pc \in {"sent", "read"} /\ loads'[i].s \in Sessions)
        /\ active' \in Sessions \union {NoSession}
    <3>1. \/ UNCHANGED <<active, loads>>
          \/ \E s \in Sessions \union {NoSession} : Opens(s)
      BY <1>5, <2>1 DEF Deleted, PageInv
    <3> QED BY <3>1, OpensKinds DEF PageInv
  <2> QED BY <2>1, <2>2, <2>3 DEF PageInv, Began
<1>6. CASE NotDeleted
  BY <1>6 DEF NotDeleted, DeleteSession, chatVars, PageInv, Began
<1>7. ASSUME NEW a \in PageAsks, Send(a) PROVE PageInv'
  BY <1>7 DEF Send, chatVars, PageInv, Began
<1>8. ASSUME NEW a \in PageAsks, SendFirst(a) PROVE PageInv'
  BY <1>8 DEF SendFirst, chatVars, PageInv, Began
<1>9. ASSUME NEW a \in PageAsks, NotCreated(a) PROVE PageInv'
  BY <1>9 DEF NotCreated, chatVars, PageInv, Began
<1>10. ASSUME NEW a \in PageAsks, NEW s \in Sessions, Created(a, s) PROVE PageInv'
  <2>1. ask[a].pc = "new" /\ ask' = ask
    BY <1>10 DEF Created, Create, CreateSession, PageInv
  <2>2. /\ loads' = [i \in 1..MaxLoads |-> loads'[i]]
        /\ \A i \in 1..MaxLoads :
             loads'[i] = NoLoad \/ (loads'[i].pc \in {"sent", "read"} /\ loads'[i].s \in Sessions)
        /\ active' = s
    BY <1>10, OpensKinds DEF Created
  <2> QED BY <1>10, <2>1, <2>2 DEF Created, PageInv, Began
<1>11. ASSUME NEW a \in PageAsks, Receive(a) PROVE PageInv'
  <2>1. UNCHANGED <<active, listed, loads, deleting, typed, target>> /\ target[a] \in Sessions
    BY <1>11 DEF Receive, pageVars
  <2>2. /\ \A b \in PageAsks \ {a} : ask'[b] = ask[b]
        /\ Began(a)' => ask'[a].session = target[a]
    <3>1. CASE Begin(a, Me, target[a])
      BY <3>1 DEF Begin, ChatInv, ChatOK
    <3>2. CASE Refuse(a)
      BY <3>2 DEF Refuse, Refused, Began, ChatInv, ChatOK
    <3> QED BY <1>11, <3>1, <3>2 DEF Receive
  <2> QED BY <2>1, <2>2 DEF PageInv, Began
<1>12. ASSUME NEW a \in PageAsks, Answered(a) PROVE PageInv'
  BY <1>12 DEF Answered, chatVars, PageInv, Began
<1>13. ASSUME NEW a \in PageAsks, NotAnswered(a) PROVE PageInv'
  BY <1>13 DEF NotAnswered, chatVars, PageInv, Began
<1>14. ASSUME NEW i \in 1..MaxLoads, ReadHistory(i) \/ ShowHistory(i) PROVE PageInv'
  <2>1. UNCHANGED <<ask, active, listed, deleting, typed, target>>
    BY <1>14 DEF ReadHistory, ShowHistory, chatVars
  <2> QED BY <1>14, <2>1, ReadKinds DEF PageInv, Began
<1>15. CASE Others
  <2>1. SameAsks
    BY <1>15 DEF Others, SameAsks, Create, CreateSession, DeleteSession, Begin, ChatInv, ChatOK
  <2> QED BY <1>1, <1>15, <2>1 DEF Others
<1>16. ASSUME NEW a \in Asks, Serve(a) PROVE PageInv'
  <2>1. \A b \in Asks : ask'[b] = ask[b] \/
          (Began(b) /\ ask'[b].pc # "new" /\ ask'[b].session = ask[b].session)
    <3>1. ask[a] \in Request
      BY <1>16 DEF Serve, AskStep, Persist, Fail, ChatInv, ChatOK, New, Refused
    <3>2. PICK p \in {"answered", "failed"} : ask' = [ask EXCEPT ![a].pc = p]
      BY <1>16 DEF Serve, AskStep, Persist, Fail
    <3>3. ask'[a].pc = p /\ ask'[a].session = ask[a].session
          /\ \A b \in Asks \ {a} : ask'[b] = ask[b]
      BY <3>1, <3>2 DEF Request, ChatInv, ChatOK
    <3> QED BY <3>1, <3>3 DEF Began, Request
  <2>2. UNCHANGED <<active, listed, loads, deleting, typed, target>>
    BY <1>16 DEF Serve
  <2>3. \A b \in PageAsks : Began(b) => ask[b].pc # "new"
    BY DEF Began
  <2> QED BY <2>1, <2>2, <2>3 DEF PageInv, Began
<1>17. CASE UNCHANGED vars
  BY <1>1, <1>17 DEF vars, chatVars, pageVars, SameAsks
<1>18. CASE ShowList
  BY <1>18 DEF ShowList, chatVars, PageInv, Began
<1> QED BY <1>2, <1>3, <1>4, <1>5, <1>6, <1>7, <1>8, <1>9, <1>10, <1>11, <1>12, <1>13, <1>14,
           <1>15, <1>16, <1>17, <1>18 DEF Next, Page, Answers

-----------------------------------------------------------------------------
(* Each operation keeps what calm says. *)

LEMMA OpensCalm ==
  ASSUME PageInv, NEW s \in Sessions, StartLoad(s), active' = s, NoLoads,
         NoUnder', deleting' = NoDelete
  PROVE  Loading'
BY SlotTaken DEF Loading

LEMMA SelectCalm ==
  ASSUME PageInv, PageInv', NEW s \in Sessions, Select(s) \/ NewChat(s), calm' PROVE CalmInv'
<1> USE PageAssumption
<1>1. /\ NoUnder /\ NoLoads /\ deleting = NoDelete /\ StartLoad(s) /\ active' = s
      /\ UNCHANGED <<ask, typed, target, deleting>>
  BY NotInFlight DEF Select, NewChat, Opens, Create, CreateSession, chatVars
<1>2. NoUnder'
  BY <1>1 DEF NoUnder, Under
<1> QED BY <1>1, <1>2, OpensCalm DEF CalmInv

LEMMA DeleteCalm ==
  ASSUME CalmInv, NEW s \in Sessions, Delete(s), calm' PROVE CalmInv'
<1>1. /\ NoUnder /\ NoLoads /\ deleting = NoDelete /\ calm /\ deleting'.open = active'
      /\ UNCHANGED <<chatVars, active, shown, typed, target, loads>>
  BY NotInFlight DEF Delete
<1>2. Resting
  BY <1>1 DEF CalmInv, Loading, Asking, Asked, NoLoads, NoUnder, Under
<1>3. Resting'
  BY <1>1, <1>2 DEF Resting, NoUnder, Under, NoLoads, Plain, Shows, Histories, Owns, chatVars
<1> QED BY <1>3 DEF CalmInv

LEMMA NotDeletedCalm ==
  ASSUME CalmInv, NotDeleted, calm' PROVE CalmInv'
<1>1. /\ deleting # NoDelete /\ calm /\ deleting' = NoDelete
      /\ UNCHANGED <<chatVars, active, shown, typed, target, loads>>
  <2>1. deleting # NoDelete
    BY PageAssumption DEF NotDeleted, NoDelete
  <2>2. UNCHANGED <<chatVars, calm>>
    BY Zenon DEF NotDeleted
  <2> QED BY <2>1, <2>2 DEF NotDeleted
<1>2. Resting
  BY <1>1 DEF CalmInv, Loading, Asking
<1>3. Resting'
  BY <1>1, <1>2 DEF Resting, NoUnder, Under, NoLoads, Plain, Shows, Histories, Owns, chatVars
<1> QED BY <1>3 DEF CalmInv

LEMMA DeletedCalm ==
  ASSUME ChatInv, PageInv, CalmInv, Deleted, calm' PROVE CalmInv'
<1> USE PageAssumption
<1>1. /\ calm /\ deleting # NoDelete /\ deleting' = NoDelete /\ deleting.s \in Sessions
      /\ DeleteSession(deleting.s, Me) /\ UNCHANGED <<ask, typed, target>>
  BY DEF Deleted, NoDelete, DeleteSession
<1>2. Resting /\ deleting.open = active
  BY <1>1 DEF CalmInv, Loading, Asking, Resting
<1>3. NoUnder'
  BY <1>1, <1>2 DEF Resting, NoUnder, Under
<1>4. CASE active # deleting.s
  <2>1. UNCHANGED <<active, shown, loads>>
    BY <1>2, <1>4 DEF Deleted
  <2>2. ASSUME active # NoSession
        PROVE  Owns(Me, active)' /\ Plain(shown)' /\ Shows(shown, active)'
    <3>1. Owns(Me, active) /\ Plain(shown) /\ Shows(shown, active)
      BY <1>2, <2>2 DEF Resting
    <3>2. Owns(Me, active)'
      BY <1>1, <1>4, <2>1, <3>1 DEF DeleteSession, Owns, ChatInv, ChatOK
    <3>3. PICK s, list : s = active /\ list = shown
      OBVIOUS
    <3>4. RowsIn(s)' = RowsIn(s)
      BY <1>1, <1>4, <3>3 DEF DeleteSession, RowsIn
    <3>5. Shows(list, s)'
      BY <3>1, <3>3, <3>4, ShowsKept
    <3>6. Shows(shown, active)'
      BY <2>1, <3>3, <3>5 DEF Shows, Histories
    <3> QED BY <1>1, <2>1, <3>1, <3>2, <3>6 DEF Plain
  <2> QED BY <1>1, <1>2, <1>3, <2>1, <2>2 DEF CalmInv, Resting, NoLoads
<1>5. CASE active = deleting.s
  <2>1. PICK s \in Sessions \union {NoSession} : Opens(s) /\ s # active
    BY <1>1, <1>2, <1>5 DEF Deleted, PageInv
  <2>2. CASE s = NoSession
    BY <1>1, <1>2, <1>3, <2>1, <2>2 DEF Opens, CalmInv, Resting, NoLoads
  <2>3. CASE s \in Sessions
    <3>1. StartLoad(s) /\ active' = s
      BY <2>1, <2>3 DEF Opens
    <3>2. Loading'
      BY <1>1, <1>2, <1>3, <2>3, <3>1, OpensCalm DEF Resting
    <3> QED BY <3>2 DEF CalmInv
  <2> QED BY <2>2, <2>3
<1> QED BY <1>4, <1>5

LEMMA ReadHistoryCalm ==
  ASSUME ChatInv, ClockInv, PageInv, CalmInv, NEW i \in 1..MaxLoads, ReadHistory(i), calm'
  PROVE  CalmInv'
<1>0. /\ Owns(Me, loads[i].s) /\ calm' = calm
      /\ \E h \in Histories(loads[i].s) :
           loads' = [loads EXCEPT ![i] = [pc |-> "read", s |-> loads[i].s, history |-> Items(h)]]
  BY Zenon DEF ReadHistory
<1>1. /\ calm /\ loads[i] # NoLoad /\ Owns(Me, loads[i].s)
      /\ UNCHANGED <<chatVars, active, shown, typed, target, deleting>>
  BY <1>0 DEF ReadHistory, NoLoad
<1>2. PICK h \in Histories(loads[i].s) :
        loads' = [loads EXCEPT ![i] = [pc |-> "read", s |-> loads[i].s, history |-> Items(h)]]
  BY <1>0
<1>3. /\ NoUnder /\ deleting = NoDelete /\ active \in Sessions /\ loads[i].s = active
      /\ \A j \in 1..MaxLoads : loads[j] # NoLoad <=> j = i
  BY <1>1 DEF CalmInv, Resting, Asking, Loading, NoLoads
<1>4. PICK list, s : list = Items(h) /\ s = active
  OBVIOUS
<1>5. h \in Histories(s) /\ loads'[i] = [pc |-> "read", s |-> s, history |-> list]
      /\ \A j \in (1..MaxLoads) \ {i} : loads'[j] = loads[j]
  BY <1>2, <1>3, <1>4 DEF PageInv
<1>6. /\ list \in Seq(Item) /\ DOMAIN list = DOMAIN h
      /\ \A k \in DOMAIN h : list[k].ask = h[k].ask /\ list[k].role = h[k].role /\ list[k].tmp = FALSE
  <2>0. PICK n : n = Cardinality(RowsIn(s))
    OBVIOUS
  <2>1. n \in Nat /\ DOMAIN h = 1 .. n
    BY <1>5, <2>0, HistoryShape
  <2>2. \A k \in 1 .. n : h[k].ask \in Asks /\ h[k].role \in {"user", "assistant"}
    <3>1. \A k \in 1 .. n : h[k] \in RowsIn(s)
      BY <1>5, <2>1, HistoryShape
    <3>2. RowsIn(s) \subseteq Message
      BY DEF RowsIn, ChatInv, ChatOK
    <3> QED BY <3>1, <3>2 DEF Message
  <2>3. list \in [1 .. n -> Item]
    BY <1>4, <2>1, <2>2 DEF Items, Item
  <2> QED BY <1>4, <2>1, <2>3, IsASeq DEF Items
<1>7. Plain(list)'
  BY <1>6 DEF Plain, Question
<1>8. Shows(list, s)'
  <2>1. Shows(list, s)
    BY <1>5, <1>6 DEF Shows
  <2> QED BY <1>1, <2>1, ShowsKept DEF RowsIn, chatVars
<1>9. loads'[i].pc = "read" /\ loads'[i].s = active' /\ loads'[i].history = list /\ loads'[i] # NoLoad
  BY <1>1, <1>4, <1>5 DEF NoLoad
<1>10. Loading'
  <2>1. NoUnder' /\ deleting' = NoDelete /\ active' \in Sessions /\ active' = s /\ Owns(Me, active)'
    BY <1>1, <1>3, <1>4 DEF NoUnder, Under, chatVars, Owns
  <2>2. Plain(loads[i].history)' /\ Shows(loads[i].history, active)'
    BY <1>7, <1>8, <1>9, <2>1 DEF Plain, Shows
  <2>3. \A j \in 1..MaxLoads : loads'[j] # NoLoad <=> j = i
    BY <1>3, <1>5, <1>9
  <2> QED BY <1>9, <2>1, <2>2, <2>3 DEF Loading
<1> QED BY <1>10 DEF CalmInv

LEMMA ShowHistoryCalm ==
  ASSUME PageInv, CalmInv, NEW i \in 1..MaxLoads, ShowHistory(i), calm'
  PROVE  CalmInv'
<1>1. /\ calm /\ loads[i] # NoLoad /\ loads[i].pc = "read" /\ shown' = loads[i].history
      /\ loads' = [loads EXCEPT ![i] = NoLoad]
      /\ UNCHANGED <<chatVars, active, typed, target, deleting>>
  BY DEF ShowHistory, NoLoad
<1>2. /\ NoUnder /\ deleting = NoDelete /\ active \in Sessions /\ loads[i].s = active
      /\ \A j \in 1..MaxLoads : loads[j] # NoLoad <=> j = i
      /\ Owns(Me, active) /\ Plain(loads[i].history) /\ Shows(loads[i].history, active)
  BY <1>1 DEF CalmInv, Resting, Asking, Loading, NoLoads
<1>3. NoUnder' /\ NoLoads'
  BY <1>1, <1>2 DEF NoUnder, Under, NoLoads, chatVars, PageInv
<1>4. Owns(Me, active)' /\ Plain(shown)' /\ Shows(shown, active)'
  BY <1>1, <1>2 DEF Owns, Plain, Shows, Histories, chatVars
<1> QED BY <1>1, <1>2, <1>3, <1>4 DEF CalmInv, Resting

LEMMA SendCalm ==
  ASSUME ChatInv, PageInv, CalmInv, NEW a \in PageAsks, Send(a), calm' PROVE CalmInv'
<1> USE PageAssumption
<1>1. /\ calm /\ NoUnder /\ NoLoads /\ deleting = NoDelete /\ active # NoSession
      /\ typed[a] = "no" /\ shown' = Append(shown, Question(a))
      /\ typed' = [typed EXCEPT ![a] = "posted"] /\ target' = [target EXCEPT ![a] = active]
      /\ UNCHANGED <<chatVars, active, loads, deleting>>
  BY NotInFlight DEF Send
<1>2. /\ active \in Sessions /\ target[a] = NoSession /\ ask[a].pc = "new"
  BY <1>1 DEF PageInv
<1>3. Owns(Me, active) /\ Plain(shown) /\ Shows(shown, active)
  BY <1>1, <1>2 DEF CalmInv, Resting, Loading, Asking, Asked, NoUnder, Under, NoLoads
<1>4. PICK base : base = shown
  OBVIOUS
<1>5. /\ typed'[a] = "posted" /\ target'[a] = active' /\ ask' = ask
      /\ \A b \in PageAsks \ {a} : typed'[b] = typed[b] /\ target'[b] = target[b]
  BY <1>1 DEF PageInv, chatVars
<1>6. Plain(base)' /\ Plain(base) /\ \A i \in DOMAIN base : base[i] # Question(a)
  BY <1>1, <1>3, <1>4, <1>5 DEF Plain
<1>7. Shows(base, active)'
  BY <1>1, <1>3, <1>4 DEF Shows, Histories, chatVars
<1>8. Asked(a, base)'
  BY <1>1, <1>2, <1>4, <1>5, <1>6, <1>7 DEF Asked, NoUnder, Under
<1>9. NoLoads' /\ deleting' = NoDelete /\ active' \in Sessions /\ Owns(Me, active)'
  BY <1>1, <1>2, <1>3 DEF NoLoads, Owns, chatVars
<1> QED BY <1>6, <1>8, <1>9 DEF CalmInv, Asking, Plain

LEMMA SameShown ==
  ASSUME UNCHANGED <<messages, active>>, NEW list
  PROVE  Shows(list, active)' = Shows(list, active)
BY DEF Shows, Histories

LEMMA ShownThere ==
  ASSUME NEW s, active' = s, NEW list, Shows(list, s)'
  PROVE  Shows(list, active)'
BY DEF Shows, Histories

(* What is under way while one question is *)
LEMMA AskingOne ==
  ASSUME PageInv, CalmInv, calm, NEW a \in PageAsks, Under(a)
  PROVE  Asking /\ \E base \in Seq(Item) : Asked(a, base)
BY DEF CalmInv, Resting, Loading, Asking, Asked, NoUnder

(* A step of the service in which the question stays under way *)
LEMMA StillAsking ==
  ASSUME Asking, NEW a \in PageAsks, NEW base \in Seq(Item), Asked(a, base),
         UNCHANGED <<active, shown, typed, target, loads, deleting>>,
         \A b \in PageAsks \ {a} : ask'[b] = ask[b],
         Owns(Me, active)',
         (ask[a].pc = "asked" => \A x \in messages : x.created_at < ask[a].at)',
         IF ask'[a].pc = "answered" THEN Shows(Append(shown, Answer(a)), active)'
                                    ELSE Shows(base, active)'
  PROVE  Asking'
<1>1. Asked(a, base)'
  BY DEF Asked, Under, Plain
<1> QED BY <1>1 DEF Asking, NoLoads

(* A step that leaves alone what calm speaks of: the list of the mount *)
LEMMA SameCalm ==
  ASSUME CalmInv, calm, UNCHANGED <<session, messages, ask, active, shown>>,
         UNCHANGED <<typed, target, loads, deleting>>
  PROVE  CalmInv'
<1>1. /\ UNCHANGED <<session, messages, ask, active, shown>>
      /\ UNCHANGED <<typed, target, loads, deleting>> /\ calm
  OBVIOUS
<1>2. /\ NoUnder' = NoUnder /\ NoLoads' = NoLoads /\ Owns(Me, active)' = Owns(Me, active)
      /\ \A list : Shows(list, active)' = Shows(list, active) /\ Plain(list)' = Plain(list)
      /\ \A a \in PageAsks : Under(a)' = Under(a)
  <2>1. \A a \in PageAsks : Under(a)' = Under(a)
    BY <1>1 DEF Under
  <2>2. \A list : Plain(list)' = Plain(list)
    BY <1>1 DEF Plain
  <2> QED BY <1>1, <2>1, <2>2, SameShown DEF NoUnder, NoLoads, Owns
<1>3. CASE Resting
  BY <1>1, <1>2, <1>3 DEF CalmInv, Resting
<1>4. CASE Loading
  BY <1>1, <1>2, <1>4 DEF CalmInv, Loading
<1>5. CASE Asking
  <2>1. PICK a \in PageAsks, base \in Seq(Item) : Asked(a, base)
    BY <1>5 DEF Asking
  <2>2. IF ask'[a].pc = "answered" THEN Shows(Append(shown, Answer(a)), active)'
                                   ELSE Shows(base, active)'
    BY <1>1, <2>1, SameShown DEF Asked
  <2> QED BY <1>1, <1>2, <1>5, <2>1, <2>2, StillAsking DEF CalmInv, Asked, Asking
<1> QED BY <1>1, <1>3, <1>4, <1>5 DEF CalmInv

LEMMA ReceiveCalm ==
  ASSUME ChatInv, ClockInv, PageInv, CalmInv, NEW a \in PageAsks, Receive(a), calm'
  PROVE  CalmInv'
<1> USE PageAssumption
<1>1. /\ target[a] \in Sessions /\ UNCHANGED <<active, shown, typed, target, loads, deleting>> /\ calm
      /\ Begin(a, Me, target[a]) \/ Refuse(a)
  BY DEF Receive, pageVars
<1>2. UNCHANGED <<session, messages>> /\ ask[a] = New
  BY <1>1 DEF Begin, Refuse
<1>3. PICK base \in Seq(Item) : Asking /\ Asked(a, base)
  BY <1>1, <1>2, AskingOne DEF Under, New
<1>4. /\ Owns(Me, active)' /\ Shows(base, active)'
  <2>1. Shows(base, active) /\ Owns(Me, active)
    BY <1>2, <1>3 DEF Asking, Asked, New
  <2> QED BY <1>1, <1>2, <2>1, SameShown DEF Owns
<1>5. \A b \in PageAsks \ {a} : ask'[b] = ask[b]
  BY <1>1 DEF Begin, Refuse, ChatInv, ChatOK
<1>6. /\ ask'[a].pc # "answered"
      /\ ask'[a].pc = "asked" => \A x \in messages' : x.created_at < ask'[a].at
  <2>1. CASE Refuse(a)
    BY <2>1 DEF Refuse, Refused, ChatInv, ChatOK
  <2>2. CASE Begin(a, Me, target[a])
    <3>1. ask'[a].pc = "asked" /\ ask'[a].at = begun + 1 /\ begun \in Nat
      BY <2>2 DEF Begin, ChatInv, ChatOK
    <3>2. ASSUME NEW x \in messages PROVE x.created_at \in Nat /\ x.created_at <= begun
      <4>1. x.ask \in Asks /\ x \in Rows(x.ask) /\ ask[x.ask].pc = "answered" /\ x.created_at \in Nat
        BY DEF ChatInv, ChatOK, RowsInv, Message
      <4>2. x.created_at = ask[x.ask].at
        BY <4>1, RowsOf
      <4> QED BY <4>1, <4>2 DEF ClockInv, Began
    <3> QED BY <1>2, <3>1, <3>2
  <2> QED BY <1>1, <2>1, <2>2
<1>7. Asking'
  BY <1>1, <1>3, <1>4, <1>5, <1>6, StillAsking
<1> QED BY <1>7 DEF CalmInv

LEMMA ServeCalm ==
  ASSUME ChatInv, ClockInv, PageInv, CalmInv, NEW a \in Asks, Serve(a), calm'
  PROVE  CalmInv'
<1> USE PageAssumption
<1>1. /\ a \in PageAsks /\ calm /\ AskStep(a)
      /\ UNCHANGED <<active, shown, typed, target, loads, deleting>>
  BY DEF Serve
<1>2. ask[a].pc = "asked" /\ ask[a] \in Request
  BY <1>1 DEF AskStep, Persist, Fail, ChatInv, ChatOK, New, Refused
<1>3. target[a] \in Sessions /\ ask[a].session = target[a]
  BY <1>1, <1>2 DEF PageInv, Began
<1>4. PICK base \in Seq(Item) : Asking /\ Asked(a, base)
  BY <1>1, <1>2, <1>3, AskingOne DEF Under
<1>5. PICK s : s = active /\ s = ask[a].session /\ s \in Sessions
  BY <1>3, <1>4 DEF Asked
<1>6. Shows(base, s) /\ Owns(Me, s) /\ shown = Append(base, Question(a))
  BY <1>2, <1>4, <1>5 DEF Asked, Asking
<1>7. \A b \in PageAsks \ {a} : ask'[b] = ask[b]
  BY <1>1 DEF AskStep, Persist, Fail, ChatInv, ChatOK
<1>8. CASE Persist(a)
  <2>1. ask'[a].pc = "answered"
    BY <1>2, <1>8 DEF Persist, ChatInv, ChatOK, Request
  <2>2. Owns(Me, s)'
    BY <1>5, <1>6, <1>8 DEF Persist, Owns, ChatInv, ChatOK, SessionRow
  <2>3. PICK list : list = Append(Append(base, Question(a)), Answer(a))
    OBVIOUS
  <2>4. Shows(list, s)'
    BY <1>2, <1>4, <1>5, <1>6, <1>8, <2>3, OneExchangeMore DEF Asked
  <2>5. Shows(Append(shown, Answer(a)), active)' /\ Owns(Me, active)'
    <3>1. active' = s /\ shown' = Append(base, Question(a))
      BY <1>1, <1>5, <1>6
    <3>2. Shows(list, active)'
      BY <2>4, <3>1, ShownThere
    <3>3. Append(shown', Answer(a)) = list
      BY <2>3, <3>1
    <3> QED BY <2>2, <3>1, <3>2, <3>3 DEF Shows, Owns
  <2>6. Asking'
    BY <1>1, <1>4, <1>7, <2>1, <2>5, StillAsking
  <2> QED BY <2>6 DEF CalmInv
<1>9. CASE Fail(a)
  <2>1. ask'[a].pc = "failed" /\ UNCHANGED <<session, messages>>
    BY <1>2, <1>9 DEF Fail, ChatInv, ChatOK, Request
  <2>2. Shows(base, active)' /\ Owns(Me, active)'
    <3>1. Shows(base, active) /\ Owns(Me, active)
      BY <1>5, <1>6
    <3> QED BY <1>1, <2>1, <3>1, SameShown DEF Owns
  <2>3. Asking'
    BY <1>1, <1>4, <1>7, <2>1, <2>2, StillAsking
  <2> QED BY <2>3 DEF CalmInv
<1> QED BY <1>1, <1>8, <1>9 DEF AskStep

LEMMA AnsweredCalm ==
  ASSUME PageInv, CalmInv, NEW a \in PageAsks, Answered(a) \/ NotAnswered(a), calm'
  PROVE  CalmInv'
<1> USE PageAssumption
<1>1. /\ typed[a] = "posted" /\ typed' = [typed EXCEPT ![a] = "done"] /\ calm
      /\ UNCHANGED <<chatVars, active, target, loads, deleting>>
      /\ \/ ask[a].pc = "answered" /\ shown' = Append(shown, Answer(a))
         \/ ask[a].pc \in {"failed", "refused"} /\ shown' = RemoveFirst(shown, Question(a))
  BY DEF Answered, NotAnswered
<1>2. PICK base \in Seq(Item) : Asking /\ Asked(a, base)
  BY <1>1, AskingOne DEF Under
<1>3. /\ typed'[a] = "done" /\ \A b \in PageAsks \ {a} : typed'[b] = typed[b]
  BY <1>1 DEF PageInv
<1>4. NoUnder'
  BY <1>1, <1>2, <1>3 DEF NoUnder, Under, Asked, chatVars
<1>5. /\ Question(a) \in Item /\ Answer(a) \in Item
      /\ \A b \in PageAsks : b # a => Question(a) # Question(b)
      /\ \A b \in PageAsks : Answer(a) # Question(b)
  BY DEF Question, Answer, Item
<1>6. CASE ask[a].pc = "answered"
  <2>1. PICK one, list : one = Append(base, Question(a)) /\ list = Append(one, Answer(a))
    OBVIOUS
  <2>2. /\ list \in Seq(Item)
        /\ \A i \in DOMAIN list : \/ i \in DOMAIN base /\ list[i] = base[i]
                                  \/ list[i] = Question(a) \/ list[i] = Answer(a)
    <3>1. /\ one \in Seq(Item) /\ Len(one) = Len(base) + 1 /\ Len(base) \in Nat
          /\ DOMAIN base = 1 .. Len(base)
          /\ \A i \in 1 .. Len(base) : one[i] = base[i]
          /\ one[Len(base) + 1] = Question(a)
      BY <1>5, <2>1, AppendProperties, LenProperties
    <3>2. /\ list \in Seq(Item) /\ Len(list) = Len(one) + 1 /\ DOMAIN list = 1 .. Len(list)
          /\ \A i \in 1 .. Len(one) : list[i] = one[i]
          /\ list[Len(one) + 1] = Answer(a)
      BY <1>5, <2>1, <3>1, AppendProperties, LenProperties
    <3> QED BY <3>1, <3>2
  <2>3. shown' = list /\ Shows(list, active)
    BY <1>1, <1>2, <1>6, <2>1 DEF Asked
  <2>4. Plain(list)'
    BY <1>2, <1>3, <1>5, <2>2 DEF Asked, Plain
  <2>5. Shows(shown, active)' /\ Plain(shown)'
    BY <1>1, <2>3, <2>4 DEF Shows, Histories, Plain, chatVars
  <2> QED BY <1>1, <1>2, <1>4, <2>5 DEF CalmInv, Resting, Asking, NoLoads, Owns, chatVars
<1>7. CASE ask[a].pc \in {"failed", "refused"}
  <2>1. shown' = base
    BY <1>1, <1>2, <1>5, <1>7, TakenBack DEF Asked
  <2>2. Plain(base) /\ Shows(base, active)
    BY <1>2, <1>7 DEF Asked
  <2>3. Plain(shown)'
    BY <1>2, <1>3, <2>1, <2>2 DEF Asked, Plain
  <2>4. Shows(shown, active)'
    BY <1>1, <2>1, <2>2 DEF Shows, Histories, chatVars
  <2> QED BY <1>1, <1>2, <1>4, <2>3, <2>4 DEF CalmInv, Resting, Asking, NoLoads, Owns, chatVars
<1> QED BY <1>1, <1>6, <1>7

LEMMA CalmKept ==
  ChatInv /\ ClockInv /\ PageInv /\ PageInv' /\ CalmInv /\ [Next]_vars => CalmInv'
<1> SUFFICES ASSUME ChatInv, ClockInv, PageInv, PageInv', CalmInv, [Next]_vars, calm'
             PROVE  CalmInv'
  BY DEF CalmInv
<1>1. ASSUME NEW a \in PageAsks, NEW s \in Sessions, Created(a, s) \/ NotCreated(a) PROVE FALSE
  <2>1. calm /\ typed[a] = "creating"
    BY <1>1 DEF Created, NotCreated
  <2> QED BY <2>1, AskingOne DEF Under, Asked
<1>2. CASE Page
  <2>1. \A a \in PageAsks : ~NotCreated(a) /\ ~SendFirst(a)
    <3>1. ASSUME NEW a \in PageAsks, NotCreated(a) PROVE FALSE
      <4>1. calm /\ typed[a] = "creating"
        BY <3>1 DEF NotCreated
      <4> QED BY <4>1, AskingOne DEF Under, Asked
    <3> QED BY <3>1 DEF SendFirst
  <2> QED BY <1>1, <1>2, <2>1, SelectCalm, DeleteCalm, SendCalm, DeletedCalm, NotDeletedCalm DEF Page
<1>3. CASE Answers
  <2>1. CASE ShowList
    BY <2>1, SameCalm DEF ShowList, chatVars
  <2> QED
    BY <1>3, <2>1, ReceiveCalm, AnsweredCalm, ReadHistoryCalm, ShowHistoryCalm DEF Answers
<1>4. ~Others
  BY DEF Others
<1>5. ASSUME NEW a \in Asks, Serve(a) PROVE CalmInv'
  BY <1>5, ServeCalm
<1>6. CASE UNCHANGED vars
  BY <1>6, SameCalm DEF vars, chatVars, pageVars
<1> QED BY <1>2, <1>3, <1>4, <1>5, <1>6 DEF Next

(* A page on which nothing overlaps shows a history the service could return *)
(* (effect of activeId, newChat, confirmDelete and send of chat/page.tsx).   *)
THEOREM CalmPageShowsHistory == Spec => []CalmPageIsStored
<1>1. ChatInv /\ ClockInv /\ PageInv /\ CalmInv /\ [Next]_vars => PageInv' /\ CalmInv'
  BY PageInvKept, CalmKept
<1>2. Spec => [](ChatInv /\ ClockInv)
  BY PageIsAClient, ClockAlways
<1>3. Init => PageInv /\ CalmInv
  BY InitPage
<1>4. CalmInv => CalmPageIsStored
  BY NotInFlight DEF CalmInv, CalmPageIsStored, Resting, Loading, Asking, Asked, NoUnder, Under, NoLoads
<1> QED BY <1>1, <1>2, <1>3, <1>4, PTL DEF Spec

=============================================================================
