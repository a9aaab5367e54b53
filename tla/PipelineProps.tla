--------------------------- MODULE PipelineProps ---------------------------
(***************************************************************************)
(* What the pipeline is expected to guarantee.  Properties come in two     *)
(* groups: those that hold however many workers run one meeting at a time, *)
(* and those that need the runs of a meeting not to overlap (RunsApart,    *)
(* which one worker process, or a first task with its retries, ensures).   *)
(***************************************************************************)
EXTENDS Pipeline

InFlight == {"uploaded"} \union Stages

Busy(w) == run[w].pc # "idle"

-----------------------------------------------------------------------------
(* With any number of workers. *)

(* For a meeting shown as COMPLETED a transcription and an analysis were      *)
(* committed, whichever runs raced to complete it: analysis, unlike           *)
(* diarization and embedding, is not best-effort (pipeline_service 217-224).  *)
(* The committed transcript of a silent recording has no segments.            *)
CompletedHasResults ==
  \A m \in Meetings : status[m] = "completed" => transcript[m] > 0 /\ intel[m] > 0

(* "An illegal jump - e.g. COMPLETED straight back to TRANSCRIBING, or         *)
(* advancing a FAILED meeting - is caught in ONE place" (pipeline_state 4-7):  *)
(* a meeting that is COMPLETED or FAILED enters no stage but EXTRACTING.       *)
NoIllegalJump ==
  [][\A m \in Meetings :
       status[m] \in Terminal => status'[m] \in {status[m], "extracting", "failed"}]_vars

(* "No silently lost meetings" (celery_app 6-8): while a meeting that was not *)
(* deleted waits or is in a stage, a request, a message or a worker still     *)
(* carries it.                                                                *)
Carried(m) ==
  \/ unsent[m] > 0
  \/ \E t \in 0..MaxRetries : queue[m][t] > 0
  \/ \E w \in Workers : Busy(w) /\ run[w].m = m

NoLostMeeting ==
  \A m \in Meetings : status[m] \in InFlight /\ ~deleted[m] => Carried(m)

(* Every uploaded meeting ends up, and finally stays, COMPLETED or FAILED     *)
(* (or is deleted), through failing stages, retries and worker losses.        *)
EventuallySettled ==
  \A m \in Meetings :
    (status[m] # "absent") ~> [](status[m] \in Terminal \/ deleted[m])

(* Why they are invariants: what a worker's record r says about the rows.     *)

(* A run past a stage has the results of that stage behind it, in the         *)
(* transcripts t and the analyses i that are stored.                          *)
Running == {"advance", "work", "persist"}

Backed(r, t, i) ==
  /\ r.pc = "build" => r.at = "extracting"
  /\ r.pc \in Running /\ r.at \in {"diarizing", "analyzing", "embedding", "completed"}
       => t[r.m] > 0
  /\ r.pc \in Running /\ r.at \in {"embedding", "completed"} => i[r.m] > 0
  /\ r.pc = "persist" /\ r.at = "analyzing" => r.snap > 0

ResultsInv ==
  CompletedHasResults /\ \A w \in Workers : Backed(run[w], transcript, intel)

(* A run knows its own last status, until embedding may expire the object.    *)
KnowsStatus(r) ==
  /\ r.pc = "build" => r.at = "extracting"
  /\ r.pc \in {"work", "persist"} => r.mem = r.at
  /\ r.pc = "advance" /\ r.at \notin {"extracting", "completed"}
       => r.mem \in Stages /\ After[r.mem] = r.at

(* A worker will still write a terminal status, unless its process dies; its  *)
(* message then goes back to the queue.                                       *)
WillSettle(r) ==
  \/ r.pc \in {"build", "advance", "persist", "failing"}
  \/ r.pc = "work" /\ r.at # "completed"
  \/ r.pc = "marking" /\ r.mem # "failed"

CarriedInv ==
  /\ \A w \in Workers : Busy(w) => run[w].owned
  /\ \A m \in Meetings : status[m] \in InFlight /\ ~deleted[m] =>
       \/ unsent[m] > 0
       \/ \E t \in 0..MaxRetries : queue[m][t] > 0
       \/ \E w \in Workers : WillSettle(run[w]) /\ run[w].m = m

-----------------------------------------------------------------------------
(* With runs that do not overlap. *)

(* No two workers hold what they have read of one meeting: no reprocess or    *)
(* redelivery meets a run that is not over yet.                               *)
Holding(r) == r.pc \in Running \union {"marking"}

RunsApart ==
  \A v, w \in Workers :
    v # w /\ Holding(run[v]) /\ Holding(run[w]) => run[v].m # run[w].m

(* The intelligence of a COMPLETED meeting was made from the transcript that  *)
(* is stored with it, across reprocessing, crashes and redeliveries.          *)
FreshWhenCompleted ==
  \A m \in Meetings : status[m] = "completed" => intel[m] = transcript[m]

(* error_message is "populated only when status=FAILED" (models/meeting 65),  *)
(* and a FAILED meeting has one ("the reason always persists", _fail).        *)
ReasonIffFailed ==
  \A m \in Meetings : reason[m] <=> status[m] = "failed"

(* "On reprocess ... we update the existing row rather than inserting a       *)
(* duplicate" (_upsert_extracted_file): a later attempt or run never trips    *)
(* over the audio row of an earlier one, wherever that one broke off.         *)
NoAudioCollision ==
  \A w \in Workers : PersistsAt(w, "extracting") => ~AudioCollides(w)

(* Runs of a meeting can overlap only after a reprocess request, a worker     *)
(* loss or a redelivery: its first task, with all its retries, is alone.      *)
FirstTaskAlone == requests = 0 /\ faults = 0 => RunsApart

(* Why these are invariants: what a worker holds is what the rows say, and    *)
(* the results of the stages behind it are those of this run.                 *)
KnowsRow(r) ==
  /\ KnowsStatus(r)
  /\ Holding(r) /\ r.mem # "expired" => r.mem = status[r.m] /\ r.err = reason[r.m]
  /\ r.pc = "marking" => r.mem # "expired"
  /\ r.pc = "advance" /\ r.at = "completed" => status[r.m] = "embedding"
  /\ r.pc = "persist" /\ r.at = "extracting" /\ r.snap = 0 => ~audio[r.m]
  /\ r.pc = "persist" /\ r.at = "analyzing" => r.snap = transcript[r.m]
  /\ r.pc \in Running /\ r.at \in {"embedding", "completed"} => intel[r.m] = transcript[r.m]

RowsInv ==
  /\ FreshWhenCompleted /\ ReasonIffFailed
  /\ \A w \in Workers : KnowsRow(run[w])

(* Why the first task is alone: a request, a message or a worker carries it,  *)
(* and only one of them.                                                      *)
Carries(w, m) == run[w].pc \notin {"idle", "ack"} /\ run[w].m = m
Queued(m) == \E t \in 0..MaxRetries : queue[m][t] > 0

Alone(m) ==
  /\ unsent[m] > 0 => unsent[m] = 1 /\ ~Queued(m) /\ \A w \in Workers : ~Carries(w, m)
  /\ Queued(m) => \A w \in Workers : ~Carries(w, m)
  /\ \A s, t \in 0..MaxRetries : queue[m][s] > 0 /\ queue[m][t] > 0 => s = t /\ queue[m][t] = 1
  /\ \A v, w \in Workers : Carries(v, m) /\ Carries(w, m) => v = w

AloneInv == requests = 0 /\ faults = 0 => \A m \in Meetings : Alone(m)

(* The pipeline implements the lifecycle its clients are promised.            *)
Lifecycle == INSTANCE MeetingLifecycle
               WITH status <- status, transcript <- transcript, intel <- intel
ImplementsLifecycle == Lifecycle!Spec

=============================================================================
