--------------------------------- MODULE Chat ---------------------------------
(***************************************************************************)
(* Chat with one's meetings (RAGService): a user's sessions and the        *)
(* exchanges stored in them.  A question is answered by a language model   *)
(* between the read of the session and the transaction that stores the     *)
(* exchange, which takes long enough for the session to be renamed by      *)
(* another question, or to be deleted.                                     *)
(***************************************************************************)
EXTENDS Naturals, FiniteSets

CONSTANTS
  Users,      \* authenticated callers
  Meetings,   \* meetings that have vectors in the store
  Sessions,   \* chat session ids, numbered in the order in which they are given out
  Asks,       \* requests POST /chat/sessions/{id}/messages, and their questions
  OrgOf,      \* the organization of each user and meeting
  TopK,       \* how many meetings a query finds, if there are as many
  NoMeeting   \* a session over all meetings of the organization

NoTitle == ""         \* the client sent none
Untitled == "New chat"
Named == "named"      \* a title the client chose

(* A question that reads "New chat" would not count as a name; it is left out. *)
ASSUME TitleAssumption == Untitled \notin Asks

ASSUME SessionsAssumption == Sessions \subseteq Nat \ {0}

VARIABLES
  session,    \* chat_sessions
  messages,   \* chat_messages
  ask,        \* the requests that carry a question
  begun       \* how many of them have begun: the clock of created_at

chatVars == <<session, messages, ask, begun>>

Absent == [is |-> "absent"]
Gone == [is |-> "gone"]
SessionRow ==
  [is : {"open"}, user : Users, meeting : Meetings \union {NoMeeting},
   title : Asks \union {Untitled, Named}]

New == [pc |-> "new"]
Refused == [pc |-> "refused"]
Request ==
  [pc : {"asked", "answered", "failed"}, session : Sessions, user : Users,
   at : Nat, title : Asks \union {Untitled, Named}, found : SUBSET Meetings]

Message ==
  [session : Sessions, ask : Asks, role : {"user", "assistant"},
   created_at : Nat, citations : SUBSET Meetings]

ChatOK ==
  /\ session \in [Sessions -> SessionRow \union {Absent, Gone}]
  /\ messages \subseteq Message
  /\ ask \in [Asks -> Request \union {New, Refused}]
  /\ begun \in Nat

ChatInit ==
  /\ session = [s \in Sessions |-> Absent]
  /\ messages = {}
  /\ ask = [a \in Asks |-> New]
  /\ begun = 0

-----------------------------------------------------------------------------
(* get_for_user *)
Owns(u, s) == session[s].is = "open" /\ session[s].user = u

(* Mutant of Where: the filter of a session over all meetings is empty. *)
Where_NoOrg(org, meeting) ==
  {m \in Meetings : meeting = NoMeeting \/ (OrgOf[m] = org /\ meeting = m)}

(* The meetings of which vector_store.query may return chunks: `where` names *)
(* the organization always, the meeting if the session has one.              *)
Where(org, meeting) ==
  {m \in Meetings : OrgOf[m] = org /\ meeting \in {m, NoMeeting}}

(* What query returns: the nearest of them, TopK unless there are fewer. *)
Found(org, meeting) ==
  {f \in SUBSET Where(org, meeting) :
     Cardinality(f) <= TopK /\ (Cardinality(f) < TopK => f = Where(org, meeting))}

(* create_session; meetings.get_for_org refuses a meeting of others. *)
CreateSession(s, u, meeting, title) ==
  /\ session[s] = Absent /\ \A t \in Sessions : t < s => session[t] # Absent
  /\ meeting # NoMeeting => OrgOf[meeting] = OrgOf[u]
  /\ session' = [session EXCEPT ![s] =
       [is |-> "open", user |-> u, meeting |-> meeting,
        title |-> IF title = NoTitle THEN Untitled ELSE title]]
  /\ UNCHANGED <<messages, ask, begun>>

(* delete_session, with the cascade to chat_messages *)
DeleteSession(s, u) ==
  /\ Owns(u, s)
  /\ session' = [session EXCEPT ![s] = Gone]
  /\ messages' = {x \in messages : x.session # s}
  /\ UNCHANGED <<ask, begun>>

(* Mutant of Begin: the session is named before the model is asked. *)
Begin_Names(a, u, s) ==
  /\ ask[a] = New
  /\ Owns(u, s)
  /\ begun' = begun + 1
  /\ ask' = [ask EXCEPT ![a] =
       [pc |-> "asked", session |-> s, user |-> u, at |-> begun + 1,
        title |-> Named, found |-> {}]]
  /\ session' = [session EXCEPT ![s].title = IF @ = Untitled THEN a ELSE @]
  /\ UNCHANGED messages

(* ask, up to the call of the model: the session is read, the context found. *)
(* Its transaction begins here, and created_at is the time it began.         *)
Begin(a, u, s) ==
  /\ ask[a] = New
  /\ Owns(u, s)
  /\ begun' = begun + 1
  /\ \E found \in Found(OrgOf[u], session[s].meeting) :
       ask' = [ask EXCEPT ![a] =
         [pc |-> "asked", session |-> s, user |-> u, at |-> begun + 1,
          title |-> session[s].title, found |-> found]]
  /\ UNCHANGED <<session, messages>>

(* No such session of this user, or a blank question. *)
Refuse(a) ==
  /\ ask[a] = New
  /\ ask' = [ask EXCEPT ![a] = Refused]
  /\ UNCHANGED <<session, messages, begun>>

Rows(a) ==
  {[session |-> ask[a].session, ask |-> a, role |-> "user",
    created_at |-> ask[a].at, citations |-> {}],
   [session |-> ask[a].session, ask |-> a, role |-> "assistant",
    created_at |-> ask[a].at, citations |-> ask[a].found]}

(* Mutant of Persist: chat_messages has no foreign key to chat_sessions. *)
Persist_NoForeignKey(a) ==
  /\ ask[a].pc = "asked"
  /\ messages' = messages \union Rows(a)
  /\ ask' = [ask EXCEPT ![a].pc = "answered"]
  /\ session' =
       IF ask[a].title = Untitled /\ session[ask[a].session].is = "open"
         THEN [session EXCEPT ![ask[a].session].title = a]
         ELSE session
  /\ UNCHANGED begun

(* The exchange is stored, and the first question names the session: whether *)
(* it has a name was read before the model was asked.                        *)
Persist(a) ==
  /\ ask[a].pc = "asked"
  /\ session[ask[a].session].is = "open"
  /\ messages' = messages \union Rows(a)
  /\ session' =
       IF ask[a].title = Untitled
         THEN [session EXCEPT ![ask[a].session].title = a]
         ELSE session
  /\ ask' = [ask EXCEPT ![a].pc = "answered"]
  /\ UNCHANGED begun

(* The store or the model fails, or the session is gone and the insert is    *)
(* refused by its foreign key: nothing is stored, not even the question.     *)
Fail(a) ==
  /\ ask[a].pc = "asked"
  /\ ask' = [ask EXCEPT ![a].pc = "failed"]
  /\ UNCHANGED <<session, messages, begun>>

AskStep(a) == Persist(a) \/ Fail(a)

ChatStep ==
  \/ \E s \in Sessions, u \in Users :
       \/ \E m \in Meetings \union {NoMeeting}, t \in {NoTitle, Named} :
            CreateSession(s, u, m, t)
       \/ DeleteSession(s, u)
       \/ \E a \in Asks : Begin(a, u, s)
  \/ \E a \in Asks : Refuse(a) \/ AskStep(a)

ChatSpec == ChatInit /\ [][ChatStep]_chatVars

-----------------------------------------------------------------------------
(* Properties. *)

(* A message never outlives its session, and is never alone: a question is    *)
(* stored with its answer or not at all, whatever is deleted while the model  *)
(* answers (ask 153-167, delete_session 111-121).                             *)
WholeExchanges ==
  \A x \in messages :
    /\ session[x.session].is = "open"
    /\ Rows(x.ask) \subseteq messages

(* An answer cites only meetings of its reader's organization, and only the   *)
(* meeting of a session that has one ("ALWAYS filtered by organization_id",   *)
(* rag_service 7).                                                            *)
CitesOwn ==
  \A x \in messages :
    LET s == session[x.session]
    IN s.is = "open" => \A m \in x.citations :
         OrgOf[m] = OrgOf[s.user] /\ s.meeting \in {m, NoMeeting}

(* A session is called "New chat" exactly as long as nothing was asked in it; *)
(* then by one of the questions it shows (ask 164-166).                       *)
NamedByQuestion ==
  \A s \in Sessions : session[s].is = "open" /\ session[s].title # Named =>
    LET asked == {x.ask : x \in {y \in messages : y.session = s}}
    IN IF asked = {} THEN session[s].title = Untitled ELSE session[s].title \in asked

=============================================================================
