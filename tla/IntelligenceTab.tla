--------------------------- MODULE IntelligenceTab ---------------------------
(***************************************************************************)
(* The tab that shows a meeting's analysis (intelligence-tab.tsx), on top  *)
(* of the rows of Workspace: it reads them once, when it is mounted, and   *)
(* ticks action items optimistically, putting the old item back when the   *)
(* request fails.                                                          *)
(***************************************************************************)
EXTENDS Workspace

CONSTANT Marked   \* the status "done"; Made is "open"

ASSUME TabAssumption == Marked \in Values /\ None \notin Requests

VARIABLES
  tab,    \* load: its GET, or None; shown: action items; toggles: its PATCHes
  calm    \* ghost: nothing has happened that the tab cannot know of

tabVars == <<tab, calm>>

Toggles == [q : Requests, row : Runs, before : Values \union {Made},
            next : Values \union {Made}]

Init ==
  /\ WorkspaceInit
  /\ tab = [load |-> None, shown |-> {}, toggles |-> {}]
  /\ calm = TRUE

Sent(q) == tab.load = q \/ \E x \in tab.toggles : x.q = q
Unsent(q) == req[q] = New /\ ~Sent(q)

(* The tab is mounted, a second time perhaps: the effect asks for the analysis. *)
Open(q) ==
  /\ Unsent(q)
  /\ tab' = [load |-> q, shown |-> {}, toggles |-> {}]
  /\ calm' = (tab.toggles = {})
  /\ UNCHANGED vars

(* then(setIntel); a refused request leaves the tab empty *)
Show(q) ==
  /\ tab.load = q /\ (Answered(q) \/ req[q] = Refused)
  /\ tab' = [tab EXCEPT !.load = None,
                        !.shown = IF req[q] = Refused THEN {} ELSE req[q].got[3]]
  /\ UNCHANGED <<vars, calm>>

Flip(v) == IF v = Marked THEN Made ELSE Marked
Showing(list, r, v) == {IF i[1] = r THEN <<r, v>> ELSE i : i \in list}

(* toggleItem: the item is shown ticked before the request is answered *)
Toggle(q, item) ==
  /\ Unsent(q) /\ tab.load = None /\ item \in tab.shown
  /\ tab' = [tab EXCEPT !.shown = Showing(@, item[1], Flip(item[2])),
       !.toggles = @ \union {[q |-> q, row |-> item[1], before |-> item[2], next |-> Flip(item[2])]}]
  /\ calm' = (calm /\ tab.toggles = {})
  /\ UNCHANGED vars

(* Mutant of Reverted: the item stays as it was shown. *)
Reverted_Stays(x) == tab.shown

(* catch: the item as it was rendered when it was clicked *)
Reverted(x) == Showing(tab.shown, x.row, x.before)

(* The answer to a toggle. *)
Settled(x) ==
  /\ x \in tab.toggles /\ req[x.q] \in {Done, Failed, Refused}
  /\ tab' = [tab EXCEPT !.toggles = @ \ {x},
                        !.shown = IF req[x.q] = Done THEN @ ELSE Reverted(x)]
  /\ UNCHANGED <<vars, calm>>

(* No answer: the browser reports an error, whatever the server does or did. *)
Lost(x) ==
  /\ x \in tab.toggles
  /\ tab' = [tab EXCEPT !.toggles = @ \ {x}, !.shown = Reverted(x)]
  /\ calm' = FALSE
  /\ UNCHANGED vars

Tab ==
  \/ \E q \in Requests :
       \/ Open(q) \/ Show(q)
       \/ \E item \in tab.shown : Toggle(q, item)
  \/ \E x \in tab.toggles : Settled(x) \/ Lost(x)

(* The tab's requests at the server *)
Ours(q) ==
  /\ \/ tab.load = q /\ (Refuse(q) \/ BeginRead(q, Intelligence))
     \/ \E x \in tab.toggles :
          x.q = q /\ (Refuse(q) \/ BeginEdit(q, "items", x.row, x.next))
     \/ Sent(q) /\ Serve(q)
  /\ UNCHANGED tabVars

(* Those of others, and the tab's that it has given up; an edit is news to it. *)
Theirs(q) ==
  /\ ~Sent(q)
  /\ Begin(q) \/ Serve(q)
  /\ calm' = (calm /\ attr'["items"] = attr["items"])
  /\ UNCHANGED tab

Next ==
  \/ Tab
  \/ \E q \in Requests : Ours(q) \/ Theirs(q)
  \/ \E r \in Runs : RunStep(r) /\ UNCHANGED tabVars

Spec == Init /\ [][Next]_<<vars, tabVars>>

-----------------------------------------------------------------------------
(* When the tab waits for nothing, what it shows of an item that still exists *)
(* is what is stored: the optimistic tick was right or has been taken back.   *)
(* Three things break that in the code, and are what "calm" excludes: toggles *)
(* that overlap, an answer that is lost, and another user's edit.             *)
CalmTabIsStored ==
  calm /\ tab.toggles = {} /\ tab.load = None =>
    \A item \in tab.shown :
      item[1] \in stored["items"] => item[2] = attr["items"][item[1]]
=============================================================================
