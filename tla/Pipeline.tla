------------------------------ MODULE Pipeline ------------------------------
(***************************************************************************)
(* The processing pipeline of a meeting: the API requests that start it,   *)
(* the Celery queue that carries it, the worker processes that run it and  *)
(* the Postgres rows they share.                                           *)
(*                                                                         *)
(* A worker step is what happens between two commits of its session, or    *)
(* between a read and the commit that depends on it.  Database             *)
(* transactions that replace rows (transcript, speakers, intelligence) are *)
(* one step: they commit as a whole or the stage fails.                    *)
(***************************************************************************)
EXTENDS Naturals, PipelineState

CONSTANTS
  Meetings,      \* meeting ids
  Workers,       \* worker processes of the ai_pipeline queue
  NoMeeting,     \* the meeting of an idle worker
  MaxRetries,    \* max_retries of the task
  MaxRequests,   \* bound: reprocess requests of a behaviour
  MaxFaults,     \* bound: worker losses and redeliveries of a behaviour
  Faults         \* the kinds of fault the environment may inject

FaultKinds ==
  { "enqueue",   \* the broker refuses send_task
    "build",     \* a provider or the first read raises before process() guards
    "mark",      \* the transaction of _fail itself fails
    "limit",     \* the task's soft, then hard time limit
    "lost",      \* the worker process dies; the broker requeues its message
    "restore" }  \* the broker's visibility timeout delivers the message again

ASSUME PipelineAssumption ==
  /\ NoMeeting \notin Meetings
  /\ MaxRetries \in Nat
  /\ MaxRequests \in Nat
  /\ MaxFaults \in Nat
  /\ Faults \subseteq FaultKinds

VARIABLES
  status,      \* meetings.status
  reason,      \* whether meetings.error_message is set
  deleted,     \* whether meetings.deleted_at is set
  audio,       \* whether files has an EXTRACTED_AUDIO row
  transcript,  \* version of the stored segments, which may be none at all for
               \* a silent recording; 0: no transcription was ever committed
  speakers,    \* stored Speaker rows, and whether segments link to them
  intel,       \* version of the transcript the stored analysis was made from
  unsent,      \* API requests that committed and have not called send_task
  queue,       \* copies of the task in the broker, by retry count
  run,         \* what each worker process is doing
  requests,    \* reprocess requests so far
  faults       \* losses and redeliveries so far

row     == <<status, reason, deleted>>
results == <<audio, transcript, speakers, intel>>
broker  == <<unsent, queue>>
counts  == <<requests, faults>>
vars    == <<row, results, broker, run, counts>>

-----------------------------------------------------------------------------
(* A worker's record.  at: the status it advances to or works at; mem, err: *)
(* status and error_message of its ORM object, "expired" after a rollback;  *)
(* snap: what it read before the commit to come; owned: the broker still    *)
(* holds its delivery unacknowledged; soft: the soft limit has fired.       *)

Phases == {"idle", "build", "advance", "work", "persist",
           "failing", "marking", "raise", "ack"}

Run == [pc : Phases, m : Meetings \union {NoMeeting}, tries : 0..MaxRetries,
        at : Stages \union {"completed"}, mem : Status \union {"expired"},
        err : BOOLEAN, snap : Nat, owned : BOOLEAN, soft : BOOLEAN]

Delivered(m, t) ==
  [pc |-> "build", m |-> m, tries |-> t, at |-> "extracting",
   mem |-> "expired", err |-> FALSE, snap |-> 0, owned |-> TRUE, soft |-> FALSE]

Idle ==
  [pc |-> "idle", m |-> NoMeeting, tries |-> 0, at |-> "extracting",
   mem |-> "expired", err |-> FALSE, snap |-> 0, owned |-> FALSE, soft |-> FALSE]

(* The record of worker w becomes r. *)
Becomes(w, r) == run' = [run EXCEPT ![w] = r]

DataOK ==
  /\ status \in [Meetings -> Status \union {"absent"}]
  /\ reason \in [Meetings -> BOOLEAN]
  /\ deleted \in [Meetings -> BOOLEAN]
  /\ audio \in [Meetings -> BOOLEAN]
  /\ transcript \in [Meetings -> Nat]
  /\ speakers \in [Meetings -> {"none", "linked", "unlinked"}]
  /\ intel \in [Meetings -> Nat]
  /\ unsent \in [Meetings -> Nat]
  /\ queue \in [Meetings -> [0..MaxRetries -> Nat]]
  /\ requests \in 0..MaxRequests
  /\ faults \in 0..MaxFaults

(* A task is sent only for a meeting that has a row. *)
SentOK ==
  \A m \in Meetings : status[m] = "absent" =>
    unsent[m] = 0 /\ \A t \in 0..MaxRetries : queue[m][t] = 0

RunsOK ==
  /\ run \in [Workers -> Run]
  /\ \A w \in Workers : run[w].pc # "idle" =>
       run[w].m \in Meetings /\ status[run[w].m] # "absent"

TypeOK == DataOK /\ SentOK /\ RunsOK

Init ==
  /\ status = [m \in Meetings |-> "absent"]
  /\ reason = [m \in Meetings |-> FALSE]
  /\ deleted = [m \in Meetings |-> FALSE]
  /\ audio = [m \in Meetings |-> FALSE]
  /\ transcript = [m \in Meetings |-> 0]
  /\ speakers = [m \in Meetings |-> "none"]
  /\ intel = [m \in Meetings |-> 0]
  /\ unsent = [m \in Meetings |-> 0]
  /\ queue = [m \in Meetings |-> [t \in 0..MaxRetries |-> 0]]
  /\ run = [w \in Workers |-> Idle]
  /\ requests = 0
  /\ faults = 0

-----------------------------------------------------------------------------
(* The API. *)

(* Mutant of Upload: the task is sent before the row is committed. *)
Upload_BeforeCommit(m) ==
  /\ status[m] = "absent"
  /\ unsent' = [unsent EXCEPT ![m] = @ + 1]
  /\ UNCHANGED <<row, results, queue, run, counts>>

(* create_from_upload committed the row; the endpoint enqueues next *)
Upload(m) ==
  /\ status[m] = "absent"
  /\ status' = [status EXCEPT ![m] = "uploaded"]
  /\ unsent' = [unsent EXCEPT ![m] = @ + 1]
  /\ UNCHANGED <<reason, deleted, results, queue, run, counts>>

(* request_reprocess: only validates; the status stays what it is *)
RequestReprocess(m) ==
  /\ requests < MaxRequests
  /\ status[m] # "absent"
  /\ ~deleted[m]
  /\ CanTransition(status[m], "extracting")
  /\ requests' = requests + 1
  /\ unsent' = [unsent EXCEPT ![m] = @ + 1]
  /\ UNCHANGED <<row, results, queue, run, faults>>

(* MeetingService.delete: a soft delete, whatever the pipeline is doing *)
Delete(m) ==
  /\ status[m] # "absent"
  /\ ~deleted[m]
  /\ deleted' = [deleted EXCEPT ![m] = TRUE]
  /\ UNCHANGED <<status, reason, results, broker, run, counts>>

(* enqueue_processing after the commit of an upload or a reprocess *)
Enqueue(m) ==
  /\ unsent[m] > 0
  /\ unsent' = [unsent EXCEPT ![m] = @ - 1]
  /\ queue' = [queue EXCEPT ![m][0] = @ + 1]
  /\ UNCHANGED <<row, results, run, counts>>

(* send_task raises: the request answers 500, the committed row stays *)
EnqueueFails(m) ==
  /\ "enqueue" \in Faults
  /\ unsent[m] > 0
  /\ unsent' = [unsent EXCEPT ![m] = @ - 1]
  /\ UNCHANGED <<row, results, queue, run, counts>>

-----------------------------------------------------------------------------
(* The task, up to process(). *)

(* A worker takes a message; acks_late: it stays unacknowledged. *)
Deliver(w, m, t) ==
  /\ run[w].pc = "idle"
  /\ queue[m][t] > 0
  /\ queue' = [queue EXCEPT ![m][t] = @ - 1]
  /\ Becomes(w, Delivered(m, t))
  /\ UNCHANGED <<row, results, unsent, counts>>

(* A provider factory or one of the first two queries raises: autoretry, but no _fail *)
BuildFails(w) ==
  /\ "build" \in Faults
  /\ run[w].pc = "build"
  /\ Becomes(w, [run[w] EXCEPT !.pc = "raise"])
  /\ UNCHANGED <<row, results, broker, counts>>

(* process(): the meeting was deleted; a permanent failure, not retried *)
NotProcessable(w) ==
  /\ run[w].pc = "build"
  /\ deleted[run[w].m]
  /\ Becomes(w, [run[w] EXCEPT !.pc = "ack"])
  /\ UNCHANGED <<row, results, broker, counts>>

(* process(): the ORM object is loaded; it is not refreshed before a rollback *)
Load(w) ==
  /\ run[w].pc = "build"
  /\ ~deleted[run[w].m]
  /\ Becomes(w, [run[w] EXCEPT !.pc = "advance", !.mem = status[run[w].m],
                               !.err = reason[run[w].m]])
  /\ UNCHANGED <<row, results, broker, counts>>

-----------------------------------------------------------------------------
(* The stages. *)

(* The status and error_message _advance sees: those of the ORM object, read *)
(* again from the row only when a rollback expired it.                       *)
SeenStatus(w) == IF run[w].mem = "expired" THEN status[run[w].m] ELSE run[w].mem
SeenReason(w) == IF run[w].mem = "expired" THEN reason[run[w].m] ELSE run[w].err

(* Mutants of Advance: the transition is not validated; error_message stays. *)
Advance_Unvalidated(w) ==
  LET m == run[w].m IN
  /\ run[w].pc = "advance"
  /\ status' = [status EXCEPT ![m] = run[w].at]
  /\ reason' = [reason EXCEPT ![m] = @ /\ ~SeenReason(w)]
  /\ Becomes(w, [run[w] EXCEPT !.pc = "work", !.mem = run[w].at, !.err = FALSE])
  /\ UNCHANGED <<deleted, results, broker, counts>>

Advance_KeepsReason(w) ==
  LET m == run[w].m IN
  /\ run[w].pc = "advance"
  /\ CanTransition(SeenStatus(w), run[w].at)
  /\ status' = [status EXCEPT ![m] = run[w].at]
  /\ Becomes(w, [run[w] EXCEPT !.pc = "work", !.mem = run[w].at])
  /\ UNCHANGED <<reason, deleted, results, broker, counts>>

(* _advance: validate the status seen, write the new one and commit.  The     *)
(* UPDATE holds error_message only if the object had one to clear.            *)
Advance(w) ==
  LET m == run[w].m IN
  /\ run[w].pc = "advance"
  /\ CanTransition(SeenStatus(w), run[w].at)
  /\ status' = [status EXCEPT ![m] = run[w].at]
  /\ reason' = [reason EXCEPT ![m] = @ /\ ~SeenReason(w)]
  /\ Becomes(w, [run[w] EXCEPT !.pc = "work", !.mem = run[w].at, !.err = FALSE])
  /\ UNCHANGED <<deleted, results, broker, counts>>

(* assert_transition raises ConflictError inside process() *)
IllegalJump(w) ==
  /\ run[w].pc = "advance"
  /\ ~CanTransition(SeenStatus(w), run[w].at)
  /\ Becomes(w, [run[w] EXCEPT !.pc = "failing"])
  /\ UNCHANGED <<row, results, broker, counts>>

WorksAt(w, stage)    == run[w].pc = "work" /\ run[w].at = stage
PersistsAt(w, stage) == run[w].pc = "persist" /\ run[w].at = stage

(* Worker w read `value` and commits a change that depends on it later. *)
Reads(w, value) ==
  /\ Becomes(w, [run[w] EXCEPT !.pc = "persist", !.snap = value])
  /\ UNCHANGED <<row, results, broker, counts>>

(* Worker w has done its stage and goes on with ORM status `mem`. *)
GoesOn(w, mem) ==
  /\ Becomes(w, [run[w] EXCEPT !.pc = "advance", !.at = After[run[w].at],
                               !.mem = mem, !.snap = 0])
  /\ UNCHANGED <<row, broker, counts>>

(* Mutant of Extract: no row is looked for. *)
Extract_NoLookup(w) ==
  /\ WorksAt(w, "extracting")
  /\ Reads(w, 0)

(* _extract_stage: the audio is uploaded, _upsert_extracted_file looks for a row *)
Extract(w) ==
  /\ WorksAt(w, "extracting")
  /\ Reads(w, IF audio[run[w].m] THEN 1 ELSE 0)

(* It inserts a row where it saw none.  The storage key is the same for every  *)
(* run of the meeting, and unique.                                             *)
AudioCollides(w) == run[w].snap = 0 /\ audio[run[w].m]

(* ... the row is inserted or updated *)
SaveAudio(w) ==
  /\ PersistsAt(w, "extracting")
  /\ ~AudioCollides(w)
  /\ audio' = [audio EXCEPT ![run[w].m] = TRUE]
  /\ GoesOn(w, run[w].mem)
  /\ UNCHANGED <<transcript, speakers, intel>>

(* ... or refused: IntegrityError inside process() *)
AudioRefused(w) ==
  /\ PersistsAt(w, "extracting")
  /\ AudioCollides(w)
  /\ Becomes(w, [run[w] EXCEPT !.pc = "failing"])
  /\ UNCHANGED <<row, results, broker, counts>>

(* _transcribe_stage: delete and insert the segments, in one transaction;   *)
(* the new segments link to no speaker.  A recording without speech commits *)
(* a transcript of no segments, and goes on like any other.                 *)
Transcribe(w) ==
  LET m == run[w].m IN
  /\ WorksAt(w, "transcribing")
  /\ transcript' = [transcript EXCEPT ![m] = @ + 1]
  /\ speakers' = [speakers EXCEPT ![m] = IF @ = "linked" THEN "unlinked" ELSE @]
  /\ GoesOn(w, run[w].mem)
  /\ UNCHANGED <<audio, intel>>

(* _diarize_stage: speakers were found and replace the stored ones, or the *)
(* diarizer raised or found none and the stored rows stay as they are      *)
Diarize(w) ==
  /\ WorksAt(w, "diarizing")
  /\ \/ speakers' = [speakers EXCEPT ![run[w].m] = "linked"]
     \/ UNCHANGED speakers
  /\ GoesOn(w, run[w].mem)
  /\ UNCHANGED <<audio, transcript, intel>>

(* analyze_and_store: the transcript goes to the LLM ... *)
ReadTranscript(w) ==
  /\ WorksAt(w, "analyzing")
  /\ Reads(w, transcript[run[w].m])

(* Mutant of SaveIntelligence: an analysis that exists is kept. *)
SaveIntelligence_Once(w) ==
  /\ PersistsAt(w, "analyzing")
  /\ intel' = [intel EXCEPT ![run[w].m] = IF @ = 0 THEN run[w].snap ELSE @]
  /\ GoesOn(w, run[w].mem)
  /\ UNCHANGED <<audio, transcript, speakers>>

(* ... and its answer replaces the stored intelligence in one transaction *)
SaveIntelligence(w) ==
  /\ PersistsAt(w, "analyzing")
  /\ intel' = [intel EXCEPT ![run[w].m] = run[w].snap]
  /\ GoesOn(w, run[w].mem)
  /\ UNCHANGED <<audio, transcript, speakers>>

(* _embed_stage: done, or failed and rolled back, which expires the object *)
Embed(w) ==
  /\ WorksAt(w, "embedding")
  /\ \E mem \in {run[w].mem, "expired"} : GoesOn(w, mem)
  /\ UNCHANGED results

(* _finalize: the audit record is committed and the task returns *)
Finalize(w) ==
  /\ WorksAt(w, "completed")
  /\ Becomes(w, [run[w] EXCEPT !.pc = "ack"])
  /\ UNCHANGED <<row, results, broker, counts>>

(* Mutant of StageFails: analysis is best-effort, as diarization is. *)
StageFails_AnalysisOptional(w) ==
  /\ run[w].pc \in {"advance", "work", "persist"}
  /\ ~WorksAt(w, "embedding")
  /\ IF WorksAt(w, "analyzing")
       THEN GoesOn(w, run[w].mem) /\ UNCHANGED results
       ELSE /\ Becomes(w, [run[w] EXCEPT !.pc = "failing"])
            /\ UNCHANGED <<row, results, broker, counts>>

(* An exception in a stage that process() catches; embed_meeting's are swallowed. *)
StageFails(w) ==
  /\ run[w].pc \in {"advance", "work", "persist"}
  /\ ~WorksAt(w, "embedding")
  /\ Becomes(w, [run[w] EXCEPT !.pc = "failing"])
  /\ UNCHANGED <<row, results, broker, counts>>

-----------------------------------------------------------------------------
(* The time limits. *)

(* SoftTimeLimitExceeded is raised in the task: process() catches it (in    *)
(* _diarize_stage too, while it replaces the speakers) ...                  *)
SoftLimit(w) ==
  /\ "limit" \in Faults
  /\ ~run[w].soft
  /\ run[w].pc \in {"advance", "work", "persist"}
  /\ ~WorksAt(w, "embedding")
  /\ Becomes(w, [run[w] EXCEPT !.pc = "failing", !.soft = TRUE])
  /\ UNCHANGED <<row, results, broker, counts>>

(* ... unless diarize() or embed_meeting() is running: it is swallowed there *)
SoftLimitSwallowed(w) ==
  /\ "limit" \in Faults
  /\ ~run[w].soft
  /\ WorksAt(w, "diarizing") \/ WorksAt(w, "embedding")
  /\ Becomes(w, [run[w] EXCEPT !.pc = "advance", !.at = After[run[w].at], !.soft = TRUE,
                               !.mem = IF run[w].at = "embedding" THEN "expired" ELSE @])
  /\ UNCHANGED <<row, results, broker, counts>>

(* Five minutes later the process is killed and its message acknowledged. *)
HardLimit(w) ==
  /\ "limit" \in Faults
  /\ run[w].soft
  /\ run[w].pc \in {"advance", "work", "persist", "failing", "marking"}
  /\ Becomes(w, Idle)
  /\ UNCHANGED <<row, results, broker, counts>>

-----------------------------------------------------------------------------
(* Failure, retry, acknowledgement. *)

(* _fail: roll back, read the row again *)
RollBack(w) ==
  /\ run[w].pc = "failing"
  /\ Becomes(w, [run[w] EXCEPT !.pc = "marking", !.mem = status[run[w].m],
                               !.err = reason[run[w].m]])
  /\ UNCHANGED <<row, results, broker, counts>>

(* _fail: FAILED and the reason are stamped and committed; the UPDATE holds *)
(* only what differs from the row as it was read                            *)
MarkFailed(w) ==
  LET m == run[w].m IN
  /\ run[w].pc = "marking"
  /\ status' = [status EXCEPT ![m] = IF run[w].mem = "failed" THEN @ ELSE "failed"]
  /\ \/ reason' = [reason EXCEPT ![m] = TRUE]
     \/ run[w].err /\ UNCHANGED reason     \* the same reason as before
  /\ Becomes(w, [run[w] EXCEPT !.pc = "raise"])
  /\ UNCHANGED <<deleted, results, broker, counts>>

(* _fail: its own transaction fails, which is swallowed *)
MarkFails(w) ==
  /\ "mark" \in Faults
  /\ run[w].pc \in {"failing", "marking"}
  /\ Becomes(w, [run[w] EXCEPT !.pc = "raise"])
  /\ UNCHANGED <<row, results, broker, counts>>

(* Mutant of Retry: the failed delivery is requeued as well. *)
Retry_Requeues(w) ==
  /\ run[w].pc = "raise"
  /\ run[w].tries < MaxRetries
  /\ queue' = [queue EXCEPT ![run[w].m] = [@ EXCEPT ![run[w].tries] = @ + 1,
                                                   ![run[w].tries + 1] = @ + 1]]
  /\ Becomes(w, [run[w] EXCEPT !.pc = "ack"])
  /\ UNCHANGED <<row, results, unsent, counts>>

(* autoretry_for: publish the next attempt, then acknowledge this one *)
Retry(w) ==
  /\ run[w].pc = "raise"
  /\ run[w].tries < MaxRetries
  /\ queue' = [queue EXCEPT ![run[w].m][run[w].tries + 1] = @ + 1]
  /\ Becomes(w, [run[w] EXCEPT !.pc = "ack"])
  /\ UNCHANGED <<row, results, unsent, counts>>

(* max_retries is exhausted *)
GiveUp(w) ==
  /\ run[w].pc = "raise"
  /\ run[w].tries = MaxRetries
  /\ Becomes(w, [run[w] EXCEPT !.pc = "ack"])
  /\ UNCHANGED <<row, results, broker, counts>>

(* acks_late: the message leaves the broker (a copy delivered again does not) *)
Ack(w) ==
  /\ run[w].pc = "ack"
  /\ Becomes(w, Idle)
  /\ UNCHANGED <<row, results, broker, counts>>

(* Mutant of WorkerLost: the message was acknowledged when it was taken. *)
WorkerLost_AckedEarly(w) ==
  /\ "lost" \in Faults
  /\ faults < MaxFaults
  /\ run[w].pc # "idle"
  /\ faults' = faults + 1
  /\ Becomes(w, Idle)
  /\ UNCHANGED <<row, results, broker, requests>>

(* The process dies.  reject_on_worker_lost puts its message back, if it is *)
(* still this delivery that holds it.                                       *)
WorkerLost(w) ==
  /\ "lost" \in Faults
  /\ faults < MaxFaults
  /\ run[w].pc # "idle"
  /\ faults' = faults + 1
  /\ queue' = IF run[w].owned
                THEN [queue EXCEPT ![run[w].m][run[w].tries] = @ + 1]
                ELSE queue
  /\ Becomes(w, Idle)
  /\ UNCHANGED <<row, results, unsent, requests>>

(* The task outlives the broker's visibility timeout (one hour; a task may  *)
(* take two) in a stage: the message is delivered again, the worker goes on *)
Redeliver(w) ==
  /\ "restore" \in Faults
  /\ faults < MaxFaults
  /\ run[w].pc \in {"work", "persist"}
  /\ run[w].owned
  /\ faults' = faults + 1
  /\ queue' = [queue EXCEPT ![run[w].m][run[w].tries] = @ + 1]
  /\ Becomes(w, [run[w] EXCEPT !.owned = FALSE])
  /\ UNCHANGED <<row, results, unsent, requests>>

-----------------------------------------------------------------------------

Api(m) == Upload(m) \/ RequestReprocess(m) \/ Delete(m) \/ EnqueueFails(m)

Work(w) ==
  \/ Extract(w) \/ SaveAudio(w) \/ AudioRefused(w) \/ Transcribe(w) \/ Diarize(w)
  \/ ReadTranscript(w) \/ SaveIntelligence(w) \/ Embed(w) \/ Finalize(w)

(* What a living worker process does, by itself, with the message it has. *)
WorkerStep(w) ==
  \/ BuildFails(w) \/ NotProcessable(w) \/ Load(w)
  \/ Advance(w) \/ IllegalJump(w) \/ Work(w) \/ StageFails(w)
  \/ RollBack(w) \/ MarkFailed(w) \/ MarkFails(w)
  \/ Retry(w) \/ GiveUp(w) \/ Ack(w)

Take(w) == \E m \in Meetings, t \in 0..MaxRetries : Deliver(w, m, t)

Disturb(w) ==
  \/ SoftLimit(w) \/ SoftLimitSwallowed(w) \/ HardLimit(w)
  \/ WorkerLost(w) \/ Redeliver(w)

Next ==
  \/ \E m \in Meetings : Api(m) \/ Enqueue(m)
  \/ \E w \in Workers : Take(w) \/ WorkerStep(w) \/ Disturb(w)

Spec == Init /\ [][Next]_vars

(* A request handler that committed goes on to send its task; a worker takes  *)
(* what is queued and does not stop in the middle of a task.  Users, and the  *)
(* faults, are under no obligation.                                           *)
Fairness ==
  /\ \A m \in Meetings : WF_vars(Enqueue(m))
  /\ \A w \in Workers : WF_vars(Take(w)) /\ WF_vars(WorkerStep(w))

FairSpec == Spec /\ Fairness

=============================================================================
