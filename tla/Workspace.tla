------------------------------ MODULE Workspace ------------------------------
(***************************************************************************)
(* The rows a meeting's page is made of: the transcript, the speakers and  *)
(* the analysis that a run of the pipeline rewrites, and what users read   *)
(* and edit of them through MeetingService meanwhile.  The grain is the    *)
(* SQL statement, under READ COMMITTED: a statement sees the rows that     *)
(* were committed when it began, a DELETE or UPDATE waits for the          *)
(* transaction that holds its row, an INSERT for one whose key is equal.   *)
(* Runs overlap when the broker delivers a task twice.  One meeting; what  *)
(* a run writes into a table is one row, named by the run.                 *)
(***************************************************************************)
EXTENDS Naturals, Sequences, FiniteSets

CONSTANTS
  Runs,      \* executions of process() for the meeting
  Requests,  \* HTTP requests about it
  Fields,    \* the columns PATCH may set
  Values,    \* what an edit may write
  Made,      \* the value of a column before any edit
  None       \* no speaker

(* What each stage rewrites: transcribe, diarize, analyze. *)
Job == << <<"segments">>, <<"speakers">>, <<"summaries", "insights", "items">> >>
Transcribe == 1
Diarize == 2
Analyze == 3

Tables == {"segments", "speakers", "summaries", "insights", "items"}
Editable == {"speakers", "items"}    \* rename_speaker, update_action_item

(* Mutant of Unique: summaries without one_per_type. *)
Unique_NotSummaries == {"segments", "speakers"}

(* segment_position, speaker_label_per_meeting, one_per_type: the rows of two *)
(* runs share a key (index 0, the label SPEAKER_00, the type FULL).           *)
Unique == {"segments", "speakers", "summaries"}

(* What a request reads, statement by statement. *)
Transcript == <<"segments", "speakers">>    \* selectinload: a second SELECT
Speakers == <<"speakers">>
Intelligence == <<"summaries", "insights", "items">>
View == {Transcript, Speakers, Intelligence}

VARIABLES
  stored,    \* the runs whose rows a table holds, committed
  link,      \* speaker_id: the run whose speaker a run's segments point to
  attr,      \* display_name of a run's speaker, status of its action item
  field,     \* title, description, tags of the meeting
  deleted,   \* deleted_at IS NOT NULL
  txn,       \* each run: its stage, its transaction
  analyses,  \* ghost: the runs whose analysis was committed, in order
  req        \* the requests

rows == <<stored, link, attr, field, deleted>>
vars == <<rows, txn, analyses, req>>

Over == [step |-> "over"]
Idle(job) ==
  [step |-> "idle", job |-> job, at |-> 1, snap |-> {}, put |-> FALSE,
   gone |-> [t \in Tables |-> {}]]

New == [op |-> "new"]
Refused == [op |-> "refused"]   \* 404
Failed == [op |-> "failed"]     \* 500: StaleDataError, or the database is down
Done == [op |-> "done"]

WorkspaceInit ==
  /\ stored = [t \in Tables |-> {}]
  /\ link = [r \in Runs |-> None]
  /\ attr = [t \in Editable |-> [r \in Runs |-> Made]]
  /\ field = [f \in Fields |-> Made]
  /\ deleted = FALSE
  /\ txn = [r \in Runs |-> Idle(Transcribe)]
  /\ analyses = <<>>
  /\ req = [q \in Requests |-> New]

-----------------------------------------------------------------------------
(* Runs *)

At(r, step) == txn[r].step = step
InJob(r, job) == txn[r].step # "over" /\ txn[r].job = job
Written(r) == {Job[txn[r].job][i] : i \in 1 .. Len(Job[txn[r].job])}
Table(r) == Job[txn[r].job][txn[r].at]

Gone(r, t) == IF At(r, "over") THEN {} ELSE txn[r].gone[t]
Put(r, t) == ~At(r, "over") /\ txn[r].put /\ t \in Written(r)

(* A row of these is deleted by another transaction that is not over. *)
Locked(r, t, ids) == \E o \in Runs \ {r} : Gone(o, t) \cap ids # {}

(* A transaction of the stage begins: the commit of _advance precedes it. *)
Start(r) ==
  /\ At(r, "idle")
  /\ txn' = [txn EXCEPT ![r].step = "delete"]
  /\ UNCHANGED <<rows, analyses, req>>

(* diarize: the diarizer failed, or heard nobody *)
Skip(r) ==
  /\ At(r, "idle") /\ InJob(r, Diarize)
  /\ txn' = [txn EXCEPT ![r] = Idle(Analyze)]
  /\ UNCHANGED <<rows, analyses, req>>

(* delete_for_meeting: the statement begins *)
Delete(r) ==
  /\ At(r, "delete")
  /\ txn' = [txn EXCEPT ![r].step = "deleting", ![r].snap = stored[Table(r)]]
  /\ UNCHANGED <<rows, analyses, req>>

(* Mutant of Deleted: the DELETE is committed with the statement. *)
Deleted_Committed(r) ==
  /\ At(r, "deleting")
  /\ stored' = [stored EXCEPT ![Table(r)] = @ \ txn[r].snap]
  /\ txn' = [txn EXCEPT
       ![r].at = IF @ < Len(Job[txn[r].job]) THEN @ + 1 ELSE @,
       ![r].step = IF txn[r].at < Len(Job[txn[r].job]) THEN "delete" ELSE "insert"]
  /\ UNCHANGED <<link, attr, field, deleted, analyses, req>>

(* and ends, the rows it saw being free *)
Deleted(r) ==
  /\ At(r, "deleting")
  /\ ~Locked(r, Table(r), txn[r].snap)
  /\ txn' = [txn EXCEPT
       ![r].gone[Table(r)] = txn[r].snap \cap stored[Table(r)],
       ![r].at = IF @ < Len(Job[txn[r].job]) THEN @ + 1 ELSE @,
       ![r].step = IF txn[r].at < Len(Job[txn[r].job]) THEN "delete" ELSE "insert"]
  /\ UNCHANGED <<rows, analyses, req>>

(* The rows that are left with a key the run is about to insert *)
Clash(r) == {t \in Unique \cap Written(r) : stored[t] \ txn[r].gone[t] # {}}

(* The flush of the new rows, once no open transaction holds an equal key; *)
(* an IntegrityError fails the run.                                        *)
Insert(r) ==
  /\ At(r, "insert")
  /\ \A t \in Unique \cap Written(r) :
       /\ ~Locked(r, t, stored[t] \ txn[r].gone[t])
       /\ \A o \in Runs \ {r} : ~Put(o, t)
  /\ txn' = [txn EXCEPT ![r] =
       IF Clash(r) # {} THEN Over
       ELSE [@ EXCEPT !.put = TRUE,
               !.step = IF txn[r].job = Diarize THEN "link" ELSE "commit"]]
  /\ UNCHANGED <<rows, analyses, req>>

(* diarize: list_for_meeting; some segments get a speaker, a silent one none *)
Link(r) ==
  /\ At(r, "link")
  /\ \E spoken \in SUBSET stored["segments"] :
       txn' = [txn EXCEPT ![r].snap = spoken, ![r].step = "commit"]
  /\ UNCHANGED <<rows, analyses, req>>

(* Mutant of Relinked: the speaker is deleted and the link is left. *)
Relinked_NoSetNull(r, ids) == [s \in Runs |-> IF s \in ids THEN r ELSE link[s]]

(* speaker_id of every segment: its new speaker, or NULL where the old one is *)
(* deleted (ON DELETE SET NULL) and no new one was assigned.                  *)
Relinked(r, ids) ==
  [s \in Runs |-> CASE s \in ids -> r
                    [] s \notin ids /\ link[s] \in Gone(r, "speakers") -> None
                    [] OTHER -> link[s]]

(* What is committed once the transaction is. *)
Stored(r) ==
  [t \in Tables |->
     IF t \in Written(r) THEN (stored[t] \ txn[r].gone[t]) \union {r} ELSE stored[t]]

(* The commit.  That of diarize first flushes UPDATEs of the segments it has  *)
(* linked: one that another run has deleted raises StaleDataError.            *)
Commit(r) ==
  /\ At(r, "commit")
  /\ InJob(r, Diarize) => /\ ~Locked(r, "segments", txn[r].snap)
                          /\ txn[r].snap \subseteq stored["segments"]
  /\ stored' = Stored(r)
  /\ link' = IF InJob(r, Diarize) THEN Relinked(r, txn[r].snap) ELSE link
  /\ analyses' = IF InJob(r, Analyze) THEN Append(analyses, r) ELSE analyses
  /\ txn' = [txn EXCEPT ![r] = IF InJob(r, Analyze) THEN Over ELSE Idle(@.job + 1)]
  /\ UNCHANGED <<attr, field, deleted, req>>

(* An exception, StaleDataError or any other: rollback, the run is over. *)
Fail(r) ==
  /\ ~At(r, "over")
  /\ txn' = [txn EXCEPT ![r] = Over]
  /\ UNCHANGED <<rows, analyses, req>>

RunStep(r) ==
  \/ Start(r) \/ Skip(r) \/ Delete(r) \/ Deleted(r) \/ Insert(r)
  \/ Link(r) \/ Commit(r) \/ Fail(r)

-----------------------------------------------------------------------------
(* Requests.  get_for_org comes first: a deleted meeting is not found. *)

Refuse(q) ==
  /\ req[q] = New /\ deleted
  /\ req' = [req EXCEPT ![q] = Refused]
  /\ UNCHANGED <<rows, txn, analyses>>

(* get_intelligence, get_transcript, list_speakers *)
BeginRead(q, view) ==
  /\ req[q] = New /\ ~deleted
  /\ req' = [req EXCEPT ![q] = [op |-> "read", view |-> view, got |-> <<>>]]
  /\ UNCHANGED <<rows, txn, analyses>>

(* list_for_meeting *)
Rows(t) == {<<r, IF t \in Editable THEN attr[t][r] ELSE Made>> : r \in stored[t]}

(* of the next table *)
NextRead(q) == req[q].view[Len(req[q].got) + 1]

Read(q) ==
  /\ req[q].op = "read" /\ Len(req[q].got) < Len(req[q].view)
  /\ req' = [req EXCEPT ![q].got = Append(@, Rows(NextRead(q)))]
  /\ UNCHANGED <<rows, txn, analyses>>

(* rename_speaker, update_action_item: the row is looked up... *)
BeginEdit(q, t, r, v) ==
  /\ req[q] = New /\ ~deleted
  /\ req' = [req EXCEPT ![q] =
       IF r \in stored[t] THEN [op |-> "edit", table |-> t, row |-> r, old |-> attr[t][r], value |-> v]
       ELSE Refused]
  /\ UNCHANGED <<rows, txn, analyses>>

RenameSpeaker(q, r, v) == v # Made /\ BeginEdit(q, "speakers", r, v)   \* min_length=1
UpdateActionItem(q, r, v) == BeginEdit(q, "items", r, v)

Unchanged(q) == req[q].value = req[q].old

(* ...and the commit flushes an UPDATE, if the value is not the one read; it *)
(* may fail, and does where the row is gone.                                 *)
Edit(q) ==
  /\ req[q].op = "edit"
  /\ LET t == req[q].table r == req[q].row IN
       /\ Unchanged(q) \/ \A o \in Runs : r \notin Gone(o, t)
       /\ \/ /\ Unchanged(q) \/ r \in stored[t]
             /\ attr' = [attr EXCEPT ![t][r] = IF Unchanged(q) THEN @ ELSE req[q].value]
             /\ req' = [req EXCEPT ![q] = Done]
          \/ /\ req' = [req EXCEPT ![q] = Failed]
             /\ UNCHANGED attr
  /\ UNCHANGED <<stored, link, field, deleted, txn, analyses>>

(* update: PATCH of the meeting *)
BeginPatch(q, sent, v) ==
  /\ req[q] = New /\ ~deleted
  /\ req' = [req EXCEPT ![q] = [op |-> "patch", sent |-> sent, old |-> field, value |-> v]]
  /\ UNCHANGED <<rows, txn, analyses>>

(* Mutant of Patched: every column of the row that was read is written back. *)
Patched_WholeRow(q) ==
  [f \in Fields |-> IF f \in req[q].sent THEN req[q].value ELSE req[q].old[f]]

(* The UPDATE names the columns whose value is not the one read. *)
Patched(q) ==
  [f \in Fields |-> IF f \in req[q].sent /\ req[q].value # req[q].old[f]
                    THEN req[q].value ELSE field[f]]

Patch(q) ==
  /\ req[q].op = "patch"
  /\ field' = Patched(q)
  /\ req' = [req EXCEPT ![q] = Done]
  /\ UNCHANGED <<stored, link, attr, deleted, txn, analyses>>

(* delete: soft_delete stamps the row it has read *)
BeginDelete(q) ==
  /\ req[q] = New /\ ~deleted
  /\ req' = [req EXCEPT ![q] = [op |-> "delete"]]
  /\ UNCHANGED <<rows, txn, analyses>>

SoftDelete(q) ==
  /\ req[q].op = "delete"
  /\ deleted' = TRUE
  /\ req' = [req EXCEPT ![q] = Done]
  /\ UNCHANGED <<stored, link, attr, field, txn, analyses>>

Begin(q) ==
  \/ Refuse(q) \/ BeginDelete(q)
  \/ \E view \in View : BeginRead(q, view)
  \/ \E r \in Runs, v \in Values \union {Made} :
       RenameSpeaker(q, r, v) \/ UpdateActionItem(q, r, v)
  \/ \E sent \in SUBSET Fields, v \in Values : BeginPatch(q, sent, v)

Serve(q) == Read(q) \/ Edit(q) \/ Patch(q) \/ SoftDelete(q)

WorkspaceNext ==
  \/ \E r \in Runs : RunStep(r)
  \/ \E q \in Requests : Begin(q) \/ Serve(q)

WorkspaceSpec == WorkspaceInit /\ [][WorkspaceNext]_vars

-----------------------------------------------------------------------------
(* However the statements of two runs interleave, what is committed is one   *)
(* analysis, whole: summaries, insights and action items are all there of    *)
(* the same run, and of one run only.  Of the three tables only summaries    *)
(* has a key that says so.                                                   *)
OneAnalysis ==
  /\ stored["insights"] = stored["summaries"]
  /\ stored["items"] = stored["summaries"]
  /\ \A t \in Tables : \A a, b \in stored[t] : a = b

(* A segment points to a speaker that exists, though runs replace speakers   *)
(* and transcripts under each other, and users rename speakers meanwhile     *)
(* ("so segment links never break").                                         *)
LinksHold ==
  \A s \in stored["segments"] : link[s] = None \/ link[s] \in stored["speakers"]

Answered(q) == req[q].op = "read" /\ Len(req[q].got) = Len(req[q].view)

(* Nothing, or the position of what was read in the order of the commits *)
Version(list) == {i \in 1 .. Len(analyses) : \E row \in list : row[1] = analyses[i]}

(* get_intelligence reads three tables in three statements.  Its answer may   *)
(* mix two analyses when one was committed between them, but only forwards:   *)
(* no list is older than the one before it, and none is missing once there    *)
(* are summaries.                                                             *)
ForwardAnswer ==
  \A q \in Requests :
    Answered(q) /\ req[q].view = Job[Analyze] =>
      \A i, j \in DOMAIN req[q].got : i < j =>
        \A a \in Version(req[q].got[i]) : \E b \in Version(req[q].got[j]) : a <= b

(* "PATCH semantics (only sent fields change)": two edits of one meeting that *)
(* have both read it keep each other's fields.                                *)
OnlySentFieldsChange ==
  [][\A f \in Fields :
       field'[f] # field[f] =>
         \E q \in Requests :
           req[q].op = "patch" /\ req'[q] # req[q] /\ f \in req[q].sent]_vars
=============================================================================
