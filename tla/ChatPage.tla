------------------------------- MODULE ChatPage -------------------------------
(***************************************************************************)
(* The chat page of one user (app/(app)/chat/page.tsx) on top of the chat   *)
(* service, next to other clients: another tab of this user, other users.  *)
(* Every handler of the page waits for an answer and then applies it to    *)
(* whatever the page shows by then.                                        *)
(***************************************************************************)
EXTENDS Chat, SequencesExt

CONSTANTS
  Me,          \* the user of the page
  PageAsks,    \* the questions typed into the page
  MaxLoads,    \* histories under way at a time
  MaxUnlisted, \* bound: sessions that are created before the list of the mount arrives
  NoSession

ASSUME PageAssumption ==
  /\ Me \in Users /\ PageAsks \subseteq Asks /\ NoSession \notin Sessions
  /\ MaxUnlisted \in Nat

VARIABLES
  active,     \* activeId
  shown,      \* messages: what the page displays
  sending,    \* the spinner; the form is disabled
  listed,     \* sessions: the sidebar
  typed,      \* how far each question of the page is
  target,     \* the session it was posted to
  loads,      \* the getSession requests under way
  deleting,   \* the deleteSession request under way
  listing,    \* the listSessions request of the mount is under way
  calm        \* history: since the session was opened nothing overlapped

pageVars ==
  <<active, shown, sending, listed, typed, target, loads, deleting, listing, calm>>
vars == <<chatVars, pageVars>>

Item == [ask : Asks, role : {"user", "assistant"}, tmp : BOOLEAN]   \* tmp: not stored yet
NoLoad == [pc |-> "none"]
NoDelete == [s |-> NoSession]

PageOK ==
  /\ active \in Sessions \union {NoSession}
  /\ \A i \in DOMAIN shown : shown[i] \in Item
  /\ sending \in BOOLEAN /\ listing \in BOOLEAN /\ calm \in BOOLEAN
  /\ listed \subseteq Sessions
  /\ typed \in [PageAsks -> {"no", "creating", "posted", "done"}]
  /\ target \in [PageAsks -> Sessions \union {NoSession}]
  /\ \A i \in 1..MaxLoads :
       loads[i] = NoLoad \/ (loads[i].pc \in {"sent", "read"} /\ loads[i].s \in Sessions)

TypeOK == ChatOK /\ PageOK

(* The page is mounted: its list of sessions is asked for. *)
Init ==
  /\ ChatInit
  /\ active = NoSession /\ shown = <<>> /\ sending = FALSE
  /\ listed = {}
  /\ typed = [a \in PageAsks |-> "no"]
  /\ target = [a \in PageAsks |-> NoSession]
  /\ loads = [i \in 1..MaxLoads |-> NoLoad]
  /\ deleting = NoDelete
  /\ listing = TRUE
  /\ calm = TRUE

-----------------------------------------------------------------------------
(* Mutant of Histories: without ORDER BY. *)
Histories_Unordered(s) == SetToSeqs({x \in messages : x.session = s})

(* list_for_session: ORDER BY created_at, which leaves the order of the two  *)
(* rows of an exchange open.                                                 *)
Histories(s) ==
  {h \in SetToSeqs({x \in messages : x.session = s}) :
     \A i, j \in DOMAIN h : i < j => h[i].created_at <= h[j].created_at}

Items(h) == [i \in DOMAIN h |-> [ask |-> h[i].ask, role |-> h[i].role, tmp |-> FALSE]]

(* optimistic: its id tells it from the row the service stores *)
Question(a) == [ask |-> a, role |-> "user", tmp |-> TRUE]
Answer(a) == [ask |-> a, role |-> "assistant", tmp |-> FALSE]

InFlight ==
  \/ \E a \in PageAsks :
       \/ typed[a] \in {"creating", "posted"}
       \/ target[a] # NoSession /\ ask[a].pc \in {"new", "asked"}
  \/ \E i \in 1..MaxLoads : loads[i] # NoLoad
  \/ deleting # NoDelete

(* A free slot sends getSession(s): the effect of setActiveId. *)
StartLoad(s) ==
  \E i \in 1..MaxLoads :
    /\ loads[i] = NoLoad
    /\ loads' = [loads EXCEPT ![i] = [pc |-> "sent", s |-> s]]

(* Mutant of Opens: the effect does not ask whether there is a session. *)
Opens_Always(s) == active' = s /\ StartLoad(s)

(* setActiveId, and the effect that runs if it changed *)
Opens(s) ==
  /\ active' = s
  /\ IF s \in {NoSession, active} THEN UNCHANGED loads ELSE StartLoad(s)

-----------------------------------------------------------------------------
(* The user picks a session of the sidebar; its history replaces what is     *)
(* shown when it arrives.                                                    *)
Select(s) ==
  /\ s \in listed \ {active}
  /\ Opens(s)
  /\ calm' = ~InFlight
  /\ UNCHANGED <<chatVars, shown, sending, listed, typed, target, deleting, listing>>

(* A session of this user, created here or in another tab *)
Create(s, m, t) ==
  CreateSession(s, Me, m, t) /\ (listing => s <= MaxUnlisted)

(* newChat: createSession was answered. *)
NewChat(s) ==
  /\ Create(s, NoMeeting, NoTitle)
  /\ listed' = listed \union {s}
  /\ active' = s
  /\ shown' = <<>>
  /\ StartLoad(s)
  /\ calm' = ~InFlight
  /\ UNCHANGED <<sending, typed, target, deleting, listing>>

(* send, with a session open: the question is shown and posted. *)
Send(a) ==
  /\ typed[a] = "no" /\ ~sending /\ active # NoSession
  /\ typed' = [typed EXCEPT ![a] = "posted"]
  /\ target' = [target EXCEPT ![a] = active]
  /\ sending' = TRUE
  /\ shown' = Append(shown, Question(a))
  /\ calm' = (calm /\ ~InFlight)
  /\ UNCHANGED <<chatVars, active, listed, loads, deleting, listing>>

(* send, with none open: a session is created first. The form stays enabled. *)
SendFirst(a) ==
  /\ typed[a] = "no" /\ ~sending /\ active = NoSession
  /\ typed' = [typed EXCEPT ![a] = "creating"]
  /\ calm' = FALSE
  /\ UNCHANGED <<chatVars, active, shown, sending, listed, target, loads, deleting, listing>>

(* It was created: it becomes the open one (whichever is open by now), its    *)
(* history is loaded, and the question goes on its way.                       *)
Created(a, s) ==
  /\ typed[a] = "creating"
  /\ Create(s, NoMeeting, NoTitle)
  /\ listed' = listed \union {s}
  /\ Opens(s)
  /\ typed' = [typed EXCEPT ![a] = "posted"]
  /\ target' = [target EXCEPT ![a] = s]
  /\ sending' = TRUE
  /\ shown' = Append(shown, Question(a))
  /\ UNCHANGED <<deleting, listing, calm>>

NotCreated(a) ==
  /\ typed[a] = "creating"
  /\ typed' = [typed EXCEPT ![a] = "done"]
  /\ UNCHANGED <<chatVars, active, shown, sending, listed, target, loads, deleting, listing, calm>>

(* The service receives it; the session may have been deleted by now. *)
Receive(a) ==
  /\ target[a] \in Sessions
  /\ \/ Begin(a, Me, target[a])
     \/ ~Owns(Me, target[a]) /\ Refuse(a)
  /\ UNCHANGED pageVars

(* The answer is appended to what is shown by now; the sidebar is read again. *)
Answered(a) ==
  /\ typed[a] = "posted" /\ ask[a].pc = "answered"
  /\ typed' = [typed EXCEPT ![a] = "done"]
  /\ shown' = Append(shown, Answer(a))
  /\ sending' = FALSE
  /\ listed' = {s \in Sessions : Owns(Me, s)}
  /\ UNCHANGED <<chatVars, active, target, loads, deleting, listing, calm>>

(* Mutant of NotAnswered: setSending(false) is not in a finally. *)
NotAnswered_StillSending(a) ==
  /\ typed[a] = "posted" /\ ask[a].pc \in {"failed", "refused"}
  /\ typed' = [typed EXCEPT ![a] = "done"]
  /\ shown' = RemoveFirst(shown, Question(a))
  /\ UNCHANGED <<chatVars, active, sending, listed, target, loads, deleting, listing, calm>>

(* Mutant of NotAnswered: the optimistic question stays. *)
NotAnswered_Stays(a) ==
  /\ typed[a] = "posted" /\ ask[a].pc \in {"failed", "refused"}
  /\ typed' = [typed EXCEPT ![a] = "done"]
  /\ sending' = FALSE
  /\ UNCHANGED <<chatVars, active, shown, listed, target, loads, deleting, listing, calm>>

(* It failed, or its answer was lost on the way: the question is taken back. *)
NotAnswered(a) ==
  /\ typed[a] = "posted"
  /\ typed' = [typed EXCEPT ![a] = "done"]
  /\ shown' = RemoveFirst(shown, Question(a))
  /\ sending' = FALSE
  /\ calm' = (calm /\ ask[a].pc \in {"failed", "refused"})
  /\ UNCHANGED <<chatVars, active, listed, target, loads, deleting, listing>>

(* The service reads a history (get_session_with_messages); or there is none. *)
ReadHistory(i) ==
  /\ loads[i].pc = "sent"
  /\ \/ /\ Owns(Me, loads[i].s)
        /\ \E h \in Histories(loads[i].s) :
             loads' = [loads EXCEPT ![i] =
               [pc |-> "read", s |-> loads[i].s, history |-> Items(h)]]
        /\ UNCHANGED calm
     \/ /\ loads' = [loads EXCEPT ![i] = NoLoad]
        /\ calm' = FALSE
  /\ UNCHANGED <<chatVars, active, shown, sending, listed, typed, target, deleting, listing>>

(* ... which replaces what is shown, whatever is open by now. *)
ShowHistory(i) ==
  /\ loads[i].pc = "read"
  /\ shown' = loads[i].history
  /\ loads' = [loads EXCEPT ![i] = NoLoad]
  /\ UNCHANGED <<chatVars, active, sending, listed, typed, target, deleting, listing, calm>>

(* confirmDelete: what remains, and what was open, are taken when it begins. *)
Delete(s) ==
  /\ deleting = NoDelete
  /\ s \in listed
  /\ deleting' = [s |-> s, remaining |-> listed \ {s}, open |-> active]
  /\ calm' = (calm /\ ~InFlight)
  /\ UNCHANGED <<chatVars, active, shown, sending, listed, typed, target, loads, listing>>

(* ... and used when the answer is there. *)
Deleted ==
  /\ deleting.s \in Sessions
  /\ DeleteSession(deleting.s, Me)
  /\ listed' = deleting.remaining
  /\ deleting' = NoDelete
  /\ IF deleting.open # deleting.s
       THEN UNCHANGED <<active, shown, loads>>
       ELSE /\ shown' = <<>>
            /\ \E s \in IF deleting.remaining = {} THEN {NoSession}
                                                   ELSE deleting.remaining : Opens(s)
  /\ UNCHANGED <<sending, typed, target, listing, calm>>

(* It failed: gone already, or no answer, whether or not it took effect.  The  *)
(* list and what is open stay.                                               *)
NotDeleted ==
  /\ deleting.s \in Sessions
  /\ deleting' = NoDelete
  /\ \/ UNCHANGED <<chatVars, calm>>
     \/ DeleteSession(deleting.s, Me) /\ calm' = FALSE
  /\ UNCHANGED <<active, shown, sending, listed, typed, target, loads, listing>>

(* What the service has read for the list at some moment since the mount: the *)
(* first n sessions had been created by then, some deleted only later.        *)
Earlier(list) ==
  \E n \in Sessions \union {0} : \A s \in Sessions :
    /\ Owns(Me, s) /\ s <= n => s \in list
    /\ s \in list => s <= n /\ (Owns(Me, s) \/ session[s] = Gone)

(* The list of the mount replaces the sidebar, or the request fails. *)
ShowList ==
  /\ listing
  /\ listing' = FALSE
  /\ \/ \E list \in SUBSET Sessions : Earlier(list) /\ listed' = list
     \/ UNCHANGED listed
  /\ UNCHANGED <<chatVars, active, shown, sending, typed, target, loads, deleting, calm>>

Page ==
  \/ \E s \in Sessions : Select(s) \/ NewChat(s) \/ Delete(s)
  \/ \E a \in PageAsks :
       \/ Send(a) \/ SendFirst(a) \/ NotCreated(a)
       \/ \E s \in Sessions : Created(a, s)
  \/ Deleted \/ NotDeleted

Answers ==
  \/ \E a \in PageAsks : Receive(a) \/ Answered(a) \/ NotAnswered(a)
  \/ \E i \in 1..MaxLoads : ReadHistory(i) \/ ShowHistory(i)
  \/ ShowList

Serve(a) ==
  /\ AskStep(a)
  /\ calm' = (calm /\ a \in PageAsks)
  /\ UNCHANGED <<active, shown, sending, listed, typed, target, loads, deleting, listing>>

(* Other clients: another tab of the user, and other users. *)
Others ==
  /\ \E s \in Sessions :
       \/ \E m \in Meetings \union {NoMeeting}, t \in {NoTitle, Named} :
            Create(s, m, t)
       \/ DeleteSession(s, Me)
       \/ \E a \in Asks \ PageAsks : Begin(a, Me, s)
  /\ calm' = FALSE
  /\ UNCHANGED <<active, shown, sending, listed, typed, target, loads, deleting, listing>>

Next == Page \/ Answers \/ Others \/ \E a \in Asks : Serve(a)

(* A request ends: the service answers it, or the connection fails.  The user *)
(* need not do anything.                                                     *)
Ends(a) ==
  Serve(a) \/ (a \in PageAsks /\ (Receive(a) \/ Answered(a) \/ NotAnswered(a)))

Spec == Init /\ [][Next]_vars /\ \A a \in Asks : WF_vars(Ends(a))

-----------------------------------------------------------------------------
(* Properties. *)

Shows(list, s) ==
  \E h \in Histories(s) :
    /\ DOMAIN list = DOMAIN h
    /\ \A i \in DOMAIN h : list[i].ask = h[i].ask /\ list[i].role = h[i].role

(* While nothing overlaps (the user waits for each answer, and nobody else    *)
(* writes to the session), what the page shows is a history the service could *)
(* return: optimistic questions are taken back when they fail and stand for   *)
(* the stored ones when they do not (send 101-121).                           *)
CalmPageIsStored ==
  calm /\ ~InFlight /\ active # NoSession => Owns(Me, active) /\ Shows(shown, active)

(* However two clients ask in one session, nothing comes between a question   *)
(* and its answer in the history of the session (list_for_session 58-65,      *)
(* TimestampMixin): both carry the time at which their transaction began.     *)
HistoryByExchange ==
  \A s \in Sessions : \A h \in Histories(s) : \A i, j \in DOMAIN h :
    i < j /\ h[i].ask = h[j].ask => j = i + 1

(* The form never stays disabled (send 119-121).                              *)
FormComesBack == sending ~> ~sending

=============================================================================
