--------------------------- MODULE PipelineProofs ---------------------------
(***************************************************************************)
(* Proofs about the pipeline, for any number of meetings, workers,         *)
(* requests, retries and faults: what holds whichever runs overlap, and    *)
(* what holds where they do not (RunsApart), which includes that the       *)
(* pipeline implements MeetingLifecycle.                                   *)
(***************************************************************************)
EXTENDS PipelineProps, TLAPS

USE PipelineAssumption

-----------------------------------------------------------------------------
(* Type correctness. *)

LEMMA InitType == Init => TypeOK
BY DEF Init, TypeOK, DataOK, SentOK, RunsOK, Idle, Run, Phases, Status, Stages, Terminal

LEMMA IdleRun == Idle \in Run /\ Idle.pc = "idle"
<1>1. 0 \in 0..MaxRetries
  OBVIOUS
<1>2. QED
  BY <1>1 DEF Idle, Run, Phases, Stages

(* Worker w's record becomes r, which is idle or about a meeting with a row; *)
(* no meeting loses its row.                                                 *)
LEMMA BecomesRuns ==
  ASSUME RunsOK, NEW w \in Workers, NEW r \in Run, Becomes(w, r),
         r.pc # "idle" => r.m \in Meetings /\ status'[r.m] # "absent",
         \A m \in Meetings : status[m] # "absent" => status'[m] # "absent"
  PROVE  RunsOK'
BY DEF RunsOK, Becomes

(* ... and every other variable stays as it is *)
LEMMA QuietType ==
  ASSUME TypeOK, NEW w \in Workers, NEW r \in Run, Becomes(w, r),
         r.pc # "idle" => run[w].pc # "idle" /\ r.m = run[w].m,
         UNCHANGED <<row, results, broker, counts>>
  PROVE  TypeOK'
<1>1. UNCHANGED <<status, reason, deleted, audio, transcript, speakers, intel,
                  unsent, queue, requests, faults>>
  BY DEF row, results, broker, counts
<1>2. r.pc # "idle" => r.m \in Meetings /\ status'[r.m] # "absent"
  BY <1>1 DEF TypeOK, RunsOK
<1>3. RunsOK'
  BY <1>1, <1>2, BecomesRuns DEF TypeOK
<1>4. QED
  BY <1>1, <1>3 DEF TypeOK, DataOK, SentOK

(* The two commonest steps: only the phase changes, or the worker turns idle. *)
LEMMA PhaseType ==
  ASSUME TypeOK, NEW w \in Workers, NEW p \in Phases, run[w].pc # "idle",
         Becomes(w, [run[w] EXCEPT !.pc = p]),
         UNCHANGED <<row, results, broker, counts>>
  PROVE  TypeOK'
<1> DEFINE r == [run[w] EXCEPT !.pc = p]
<1>0. run[w] \in Run
  BY DEF TypeOK, RunsOK
<1>1. r \in Run /\ r.m = run[w].m
  BY <1>0 DEF Run
<1>2. Becomes(w, r)
  OBVIOUS
<1> HIDE DEF r
<1>3. QED
  BY <1>1, <1>2, QuietType

LEMMA IdleType ==
  ASSUME TypeOK, NEW w \in Workers, Becomes(w, Idle),
         UNCHANGED <<row, results, broker, counts>>
  PROVE  TypeOK'
BY IdleRun, QuietType

(* A message of a meeting that has a row is put into the queue. *)
LEMMA QueueType ==
  ASSUME DataOK, SentOK, NEW m \in Meetings, status[m] # "absent",
         NEW t \in 0..MaxRetries, queue' = [queue EXCEPT ![m][t] = @ + 1],
         UNCHANGED <<status, reason, deleted, audio, transcript, speakers, intel,
                     unsent, requests>>,
         faults' \in 0..MaxFaults
  PROVE  DataOK' /\ SentOK'
<1>1. queue' \in [Meetings -> [0..MaxRetries -> Nat]]
  <2>1. queue' = [queue EXCEPT ![m] = [queue[m] EXCEPT ![t] = queue[m][t] + 1]]
    BY DEF DataOK
  <2>2. [queue[m] EXCEPT ![t] = queue[m][t] + 1] \in [0..MaxRetries -> Nat]
    BY DEF DataOK
  <2>3. QED
    BY <2>1, <2>2 DEF DataOK
<1>2. \A n \in Meetings : n # m => queue'[n] = queue[n]
  BY DEF DataOK
<1>3. QED
  BY <1>1, <1>2 DEF DataOK, SentOK

LEMMA ApiType ==
  ASSUME TypeOK, NEW m \in Meetings, Api(m) \/ Enqueue(m)
  PROVE  TypeOK'
<1> USE DEF row, results, counts, broker, TypeOK, DataOK, SentOK, RunsOK
<1>0. 0 \in 0..MaxRetries
  OBVIOUS
<1>1. CASE Upload(m)
  BY <1>1 DEF Upload, Status
<1>2. CASE RequestReprocess(m)
  BY <1>2 DEF RequestReprocess
<1>3. CASE Delete(m)
  BY <1>3 DEF Delete
<1>4. CASE EnqueueFails(m)
  BY SMTT(30), <1>4 DEF EnqueueFails
<1>5. CASE Enqueue(m)
  BY SMTT(30), <1>0, <1>5 DEF Enqueue
<1>6. QED
  BY <1>1, <1>2, <1>3, <1>4, <1>5 DEF Api

LEMMA TakeType ==
  ASSUME TypeOK, NEW w \in Workers, Take(w)
  PROVE  TypeOK'
<1>1. PICK m \in Meetings, t \in 0..MaxRetries : Deliver(w, m, t)
  BY DEF Take
<1> DEFINE r == Delivered(m, t)
<1>2. r \in Run /\ r.m = m
  BY DEF Delivered, Run, Phases, Stages
<1>3. status[m] # "absent"
  BY <1>1 DEF TypeOK, SentOK, DataOK, Deliver
<1>4. Becomes(w, r) /\ UNCHANGED <<status, reason, deleted, audio, transcript, speakers,
                                   intel, unsent, requests, faults>>
  BY <1>1 DEF Deliver, row, results, counts
<1> HIDE DEF r
<1>5. RunsOK'
  BY <1>2, <1>3, <1>4, BecomesRuns DEF TypeOK
<1>6. DataOK' /\ SentOK'
  BY SMTT(30), <1>1, <1>3, <1>4 DEF TypeOK, DataOK, SentOK, Deliver
<1>7. QED
  BY <1>5, <1>6 DEF TypeOK

(* A stage ends: its results keep their types and its worker goes on. *)
LEMMA GoesOnType ==
  ASSUME TypeOK, NEW w \in Workers, run[w].pc # "idle", run[w].at \in Stages,
         NEW mem \in Status \union {"expired"}, GoesOn(w, mem),
         audio' \in [Meetings -> BOOLEAN], transcript' \in [Meetings -> Nat],
         speakers' \in [Meetings -> {"none", "linked", "unlinked"}],
         intel' \in [Meetings -> Nat]
  PROVE  TypeOK'
<1> DEFINE r == [run[w] EXCEPT !.pc = "advance", !.at = After[run[w].at],
                               !.mem = mem, !.snap = 0]
<1>0. run[w] \in Run /\ run[w].m \in Meetings /\ status[run[w].m] # "absent"
  BY DEF TypeOK, RunsOK
<1>1. After[run[w].at] \in Stages \union {"completed"}
  BY DEF After, Stages
<1>2. r \in Run /\ r.m = run[w].m
  BY <1>0, <1>1 DEF Run, Phases
<1>3. Becomes(w, r) /\ UNCHANGED <<status, reason, deleted, unsent, queue, requests, faults>>
  BY DEF GoesOn, row, broker, counts
<1> HIDE DEF r
<1>4. RunsOK'
  BY <1>0, <1>2, <1>3, BecomesRuns DEF TypeOK
<1>5. DataOK' /\ SentOK'
  BY <1>3 DEF TypeOK, DataOK, SentOK
<1>6. QED
  BY <1>4, <1>5 DEF TypeOK

LEMMA ReadsType ==
  ASSUME TypeOK, NEW w \in Workers, run[w].pc # "idle", NEW n \in Nat, Reads(w, n)
  PROVE  TypeOK'
<1> DEFINE r == [run[w] EXCEPT !.pc = "persist", !.snap = n]
<1>0. run[w] \in Run
  BY DEF TypeOK, RunsOK
<1>1. r \in Run /\ r.m = run[w].m
  BY <1>0 DEF Run, Phases
<1>2. Becomes(w, r) /\ UNCHANGED <<row, results, broker, counts>>
  BY DEF Reads
<1> HIDE DEF r
<1>3. QED
  BY <1>1, <1>2, QuietType

LEMMA WorkType ==
  ASSUME TypeOK, NEW w \in Workers, Work(w)
  PROVE  TypeOK'
<1>0. run[w].pc # "idle"
  BY DEF Work, Extract, SaveAudio, AudioRefused, Transcribe, Diarize, ReadTranscript,
         SaveIntelligence, Embed, Finalize, WorksAt, PersistsAt
<1>a. run[w] \in Run /\ run[w].m \in Meetings
  BY <1>0 DEF TypeOK, RunsOK
<1>b. run[w].mem \in Status \union {"expired"} /\ run[w].snap \in Nat
  BY <1>a DEF Run
<1>c. /\ audio \in [Meetings -> BOOLEAN] /\ transcript \in [Meetings -> Nat]
      /\ speakers \in [Meetings -> {"none", "linked", "unlinked"}]
      /\ intel \in [Meetings -> Nat]
  BY DEF TypeOK, DataOK
<1>1. CASE Extract(w)
  BY <1>0, <1>a, <1>c, <1>1, ReadsType DEF Extract
<1>2. CASE SaveAudio(w)
  BY <1>0, <1>a, <1>b, <1>c, <1>2, GoesOnType DEF SaveAudio, PersistsAt, Stages
<1>3. CASE Transcribe(w)
  BY <1>0, <1>a, <1>b, <1>c, <1>3, GoesOnType DEF Transcribe, WorksAt, Stages
<1>4. CASE Diarize(w)
  BY <1>0, <1>a, <1>b, <1>c, <1>4, GoesOnType DEF Diarize, WorksAt, Stages
<1>5. CASE ReadTranscript(w)
  BY <1>0, <1>a, <1>c, <1>5, ReadsType DEF ReadTranscript
<1>6. CASE SaveIntelligence(w)
  BY <1>0, <1>a, <1>b, <1>c, <1>6, GoesOnType DEF SaveIntelligence, PersistsAt, Stages
<1>7. CASE Embed(w)
  BY <1>0, <1>b, <1>c, <1>7, GoesOnType DEF Embed, WorksAt, Stages, results
<1>8. CASE Finalize(w)
  BY <1>0, <1>8, PhaseType DEF Finalize, Phases
<1>9. CASE AudioRefused(w)
  BY <1>0, <1>9, PhaseType DEF AudioRefused, Phases
<1>10. QED
  BY <1>1, <1>2, <1>3, <1>4, <1>5, <1>6, <1>7, <1>8, <1>9 DEF Work

LEMMA StepType ==
  ASSUME TypeOK, NEW w \in Workers, WorkerStep(w)
  PROVE  TypeOK'
<1> USE DEF Phases
<1>0. run[w] \in Run /\ (run[w].pc # "idle" => run[w].m \in Meetings /\ status[run[w].m] # "absent")
  BY DEF TypeOK, RunsOK
<1>1. CASE BuildFails(w)
  BY <1>1, PhaseType DEF BuildFails
<1>2. CASE NotProcessable(w)
  BY <1>2, PhaseType DEF NotProcessable
<1>3. CASE Load(w)
  <2> DEFINE r == [run[w] EXCEPT !.pc = "advance", !.mem = status[run[w].m],
                                 !.err = reason[run[w].m]]
  <2>1. status[run[w].m] \in Status /\ reason[run[w].m] \in BOOLEAN /\ run[w].pc # "idle"
    BY <1>0, <1>3 DEF Load, TypeOK, DataOK
  <2>2. r \in Run /\ r.m = run[w].m
    BY <1>0, <2>1 DEF Run
  <2>3. Becomes(w, r) /\ UNCHANGED <<row, results, broker, counts>>
    BY <1>3 DEF Load
  <2> HIDE DEF r
  <2>4. QED
    BY <2>1, <2>2, <2>3, QuietType
<1>4. CASE Advance(w)
  <2> DEFINE r == [run[w] EXCEPT !.pc = "work", !.mem = run[w].at, !.err = FALSE]
  <2>0. run[w].m \in Meetings /\ status[run[w].m] # "absent"
    BY <1>0, <1>4 DEF Advance
  <2>1. run[w].at \in Status \union {"expired"}
    BY <1>0 DEF Run, Status, Terminal
  <2>2. r \in Run /\ r.m = run[w].m
    BY <1>0, <2>1 DEF Run
  <2>3. Becomes(w, r) /\ UNCHANGED <<deleted, audio, transcript, speakers, intel,
                                     unsent, queue, requests, faults>>
    BY <1>4 DEF Advance, results, broker, counts
  <2>4. run[w].at \in Status
    BY <1>0 DEF Run, Status, Terminal
  <2> HIDE DEF r
  <2>5. \A m \in Meetings : status'[m] = "absent" <=> status[m] = "absent"
    BY <2>0, <2>4, <1>4 DEF Advance, TypeOK, DataOK, Status, Stages, Terminal
  <2>6. DataOK' /\ SentOK'
    BY <2>0, <2>3, <2>4, <2>5, <1>4 DEF Advance, TypeOK, DataOK, SentOK
  <2>7. RunsOK'
    BY <2>0, <2>2, <2>3, <2>5, BecomesRuns DEF TypeOK
  <2>8. QED
    BY <2>6, <2>7 DEF TypeOK
<1>5. CASE IllegalJump(w)
  BY <1>5, PhaseType DEF IllegalJump
<1>6. CASE Work(w)
  BY <1>6, WorkType
<1>7. CASE StageFails(w)
  BY <1>7, PhaseType DEF StageFails
<1>8. CASE RollBack(w)
  <2> DEFINE r == [run[w] EXCEPT !.pc = "marking", !.mem = status[run[w].m],
                                 !.err = reason[run[w].m]]
  <2>1. status[run[w].m] \in Status /\ reason[run[w].m] \in BOOLEAN /\ run[w].pc # "idle"
    BY <1>0, <1>8 DEF RollBack, TypeOK, DataOK
  <2>2. r \in Run /\ r.m = run[w].m
    BY <1>0, <2>1 DEF Run
  <2>3. Becomes(w, r) /\ UNCHANGED <<row, results, broker, counts>>
    BY <1>8 DEF RollBack
  <2> HIDE DEF r
  <2>4. QED
    BY <2>1, <2>2, <2>3, QuietType
<1>9. CASE MarkFailed(w)
  <2> DEFINE r == [run[w] EXCEPT !.pc = "raise"]
  <2>0. run[w].m \in Meetings /\ status[run[w].m] # "absent"
    BY <1>0, <1>9 DEF MarkFailed
  <2>1. r \in Run /\ r.m = run[w].m
    BY <1>0 DEF Run
  <2>2. Becomes(w, r) /\ UNCHANGED <<deleted, audio, transcript, speakers, intel,
                                     unsent, queue, requests, faults>>
    BY <1>9 DEF MarkFailed, results, broker, counts
  <2> HIDE DEF r
  <2>3. \A m \in Meetings : status'[m] = "absent" <=> status[m] = "absent"
    BY <2>0, <1>9 DEF MarkFailed, TypeOK, DataOK
  <2>4. DataOK' /\ SentOK'
    BY ZenonT(60), <2>0, <2>2, <2>3, <1>9 DEF MarkFailed, TypeOK, DataOK, SentOK, Status, Terminal
  <2>5. RunsOK'
    BY <2>0, <2>1, <2>2, <2>3, BecomesRuns DEF TypeOK
  <2>6. QED
    BY <2>4, <2>5 DEF TypeOK
<1>10. CASE MarkFails(w)
  BY <1>10, PhaseType DEF MarkFails
<1>11. CASE Retry(w)
  <2> DEFINE r == [run[w] EXCEPT !.pc = "ack"]
  <2>0. run[w].m \in Meetings /\ status[run[w].m] # "absent" /\ run[w].tries + 1 \in 0..MaxRetries
    BY <1>0, <1>11 DEF Retry, Run
  <2>1. r \in Run /\ r.m = run[w].m
    BY <1>0 DEF Run
  <2>2. Becomes(w, r) /\ UNCHANGED <<status, reason, deleted, audio, transcript, speakers,
                                     intel, unsent, requests, faults>>
    BY <1>11 DEF Retry, row, results, counts
  <2> HIDE DEF r
  <2>3. DataOK' /\ SentOK'
    BY <2>0, <2>2, <1>11, QueueType DEF Retry, TypeOK, DataOK
  <2>4. RunsOK'
    BY <2>0, <2>1, <2>2, BecomesRuns DEF TypeOK
  <2>5. QED
    BY <2>3, <2>4 DEF TypeOK
<1>12. CASE GiveUp(w)
  BY <1>12, PhaseType DEF GiveUp
<1>13. CASE Ack(w)
  BY <1>13, IdleType DEF Ack
<1>14. QED
  BY <1>1, <1>2, <1>3, <1>4, <1>5, <1>6, <1>7, <1>8, <1>9, <1>10, <1>11, <1>12, <1>13
     DEF WorkerStep

LEMMA DisturbType ==
  ASSUME TypeOK, NEW w \in Workers, Disturb(w)
  PROVE  TypeOK'
<1> USE DEF Phases
<1>0. run[w] \in Run /\ (run[w].pc # "idle" => run[w].m \in Meetings /\ status[run[w].m] # "absent")
  BY DEF TypeOK, RunsOK
<1>1. CASE SoftLimit(w)
  <2> DEFINE r == [run[w] EXCEPT !.pc = "failing", !.soft = TRUE]
  <2>1. r \in Run /\ r.m = run[w].m
    BY <1>0 DEF Run
  <2>2. Becomes(w, r) /\ run[w].pc # "idle" /\ UNCHANGED <<row, results, broker, counts>>
    BY <1>1 DEF SoftLimit
  <2> HIDE DEF r
  <2>3. QED
    BY <2>1, <2>2, QuietType
<1>2. CASE SoftLimitSwallowed(w)
  <2> DEFINE r == [run[w] EXCEPT !.pc = "advance", !.at = After[run[w].at], !.soft = TRUE,
                                 !.mem = IF run[w].at = "embedding" THEN "expired" ELSE @]
  <2>0. After[run[w].at] \in Stages \union {"completed"} /\ run[w].pc # "idle"
    BY <1>2 DEF SoftLimitSwallowed, WorksAt, After, Stages
  <2>1. r \in Run /\ r.m = run[w].m
    BY <1>0, <2>0 DEF Run
  <2>2. Becomes(w, r) /\ UNCHANGED <<row, results, broker, counts>>
    BY <1>2 DEF SoftLimitSwallowed
  <2> HIDE DEF r
  <2>3. QED
    BY <2>0, <2>1, <2>2, QuietType
<1>3. CASE HardLimit(w)
  BY <1>3, IdleType DEF HardLimit
<1>4. CASE WorkerLost(w)
  <2>0. run[w].m \in Meetings /\ status[run[w].m] # "absent" /\ run[w].tries \in 0..MaxRetries
    BY <1>0, <1>4 DEF WorkerLost, Run
  <2>1. Becomes(w, Idle) /\ UNCHANGED <<status, reason, deleted, audio, transcript,
                                        speakers, intel, unsent, requests>>
    BY <1>4 DEF WorkerLost, row, results
  <2>2. DataOK' /\ SentOK'
    <3>1. faults' \in 0..MaxFaults
      BY <1>4 DEF WorkerLost, TypeOK, DataOK
    <3>2. CASE run[w].owned
      BY <2>0, <2>1, <1>4, <3>1, <3>2, QueueType DEF WorkerLost, TypeOK
    <3>3. CASE ~run[w].owned
      BY <2>1, <1>4, <3>1, <3>3 DEF WorkerLost, TypeOK, DataOK, SentOK
    <3>4. QED
      BY <3>2, <3>3
  <2>3. RunsOK'
    BY <2>1, IdleRun, BecomesRuns DEF TypeOK
  <2>4. QED
    BY <2>2, <2>3 DEF TypeOK
<1>5. CASE Redeliver(w)
  <2> DEFINE r == [run[w] EXCEPT !.owned = FALSE]
  <2>0. run[w].m \in Meetings /\ status[run[w].m] # "absent" /\ run[w].tries \in 0..MaxRetries
    BY <1>0, <1>5 DEF Redeliver, Run
  <2>1. r \in Run /\ r.m = run[w].m
    BY <1>0 DEF Run
  <2>2. Becomes(w, r) /\ UNCHANGED <<status, reason, deleted, audio, transcript, speakers,
                                     intel, unsent, requests>>
    BY <1>5 DEF Redeliver, row, results
  <2> HIDE DEF r
  <2>3. DataOK' /\ SentOK'
    <3>1. faults' \in 0..MaxFaults
      BY <1>5 DEF Redeliver, TypeOK, DataOK
    <3>2. QED
      BY <2>0, <2>2, <1>5, <3>1, QueueType DEF Redeliver, TypeOK
  <2>4. RunsOK'
    BY <2>0, <2>1, <2>2, BecomesRuns DEF TypeOK
  <2>5. QED
    BY <2>3, <2>4 DEF TypeOK
<1>6. QED
  BY <1>1, <1>2, <1>3, <1>4, <1>5 DEF Disturb

LEMMA NextType == TypeOK /\ [Next]_vars => TypeOK'
<1>1. ASSUME TypeOK, Next
      PROVE  TypeOK'
  BY <1>1, ApiType, TakeType, StepType, DisturbType DEF Next
<1>2. ASSUME TypeOK, UNCHANGED vars
      PROVE  TypeOK'
  BY <1>2 DEF TypeOK, DataOK, SentOK, RunsOK, vars, row, results, broker, counts
<1>3. QED
  BY <1>1, <1>2

(* In every reachable state the variables have their types, every busy worker *)
(* works for a meeting that has a row, and nothing was sent for one that has  *)
(* none: a task is enqueued only after the upload committed.                  *)
THEOREM TypeCorrect == Spec => []TypeOK
BY InitType, NextType, PTL DEF Spec

-----------------------------------------------------------------------------
(* A COMPLETED meeting has its results, however runs overlap. *)

LEMMA ResultsWork ==
  ASSUME TypeOK, ResultsInv, NEW w \in Workers, Work(w)
  PROVE  ResultsInv'
<1> USE DEF Becomes, ResultsInv, CompletedHasResults, Backed, DataOK, RunsOK, Run, Running,
            row, results, WorksAt, PersistsAt
<1>0. DataOK /\ RunsOK /\ run[w] \in Run /\ (run[w].pc # "idle" => run[w].m \in Meetings)
  BY DEF TypeOK
<1>1. CASE Extract(w)
  BY <1>0, <1>1 DEF Extract, Reads
<1>2. CASE SaveAudio(w)
  BY <1>0, <1>2 DEF SaveAudio, GoesOn, After
<1>3. CASE Transcribe(w)
  BY <1>0, <1>3 DEF Transcribe, GoesOn, After
<1>4. CASE Diarize(w)
  BY <1>0, <1>4 DEF Diarize, GoesOn, After
<1>5. CASE ReadTranscript(w)
  BY <1>0, <1>5 DEF ReadTranscript, Reads
<1>6. CASE SaveIntelligence(w)
  BY ZenonT(60), <1>0, <1>6 DEF SaveIntelligence, GoesOn, After
<1>7. CASE Embed(w)
  BY <1>0, <1>7 DEF Embed, GoesOn, After
<1>8. CASE Finalize(w)
  BY <1>0, <1>8 DEF Finalize
<1>9. CASE AudioRefused(w)
  BY <1>0, <1>9 DEF AudioRefused
<1>10. QED
  BY <1>1, <1>2, <1>3, <1>4, <1>5, <1>6, <1>7, <1>8, <1>9 DEF Work

LEMMA ResultsStep ==
  ASSUME TypeOK, ResultsInv, NEW w \in Workers, WorkerStep(w) \/ Disturb(w)
  PROVE  ResultsInv'
<1> USE DEF Becomes, ResultsInv, CompletedHasResults, Backed, DataOK, RunsOK, Run, Running,
            row, results
<1>0. DataOK /\ RunsOK /\ run[w] \in Run /\ (run[w].pc # "idle" => run[w].m \in Meetings)
  BY DEF TypeOK
<1>1. CASE BuildFails(w)
  BY <1>0, <1>1 DEF BuildFails
<1>2. CASE NotProcessable(w)
  BY <1>0, <1>2 DEF NotProcessable
<1>3. CASE Load(w)
  BY <1>0, <1>3 DEF Load
<1>4. CASE Advance(w)
  BY ZenonT(60), <1>0, <1>4 DEF Advance
<1>5. CASE IllegalJump(w)
  BY <1>0, <1>5 DEF IllegalJump
<1>6. CASE StageFails(w)
  BY <1>0, <1>6 DEF StageFails
<1>7. CASE RollBack(w)
  BY <1>0, <1>7 DEF RollBack
<1>8. CASE MarkFailed(w)
  BY <1>0, <1>8 DEF MarkFailed
<1>9. CASE MarkFails(w)
  BY <1>0, <1>9 DEF MarkFails
<1>10. CASE Retry(w)
  BY <1>0, <1>10 DEF Retry
<1>11. CASE GiveUp(w)
  BY <1>0, <1>11 DEF GiveUp
<1>12. CASE Ack(w)
  BY <1>0, <1>12 DEF Ack, Idle
<1>13. CASE SoftLimit(w)
  BY <1>0, <1>13 DEF SoftLimit
<1>14. CASE SoftLimitSwallowed(w)
  BY <1>0, <1>14 DEF SoftLimitSwallowed, WorksAt, After
<1>15. CASE HardLimit(w)
  BY <1>0, <1>15 DEF HardLimit, Idle
<1>16. CASE WorkerLost(w)
  BY <1>0, <1>16 DEF WorkerLost, Idle
<1>17. CASE Redeliver(w)
  BY ZenonT(60), <1>0, <1>17 DEF Redeliver
<1>18. CASE Work(w)
  BY <1>18, ResultsWork
<1>19. QED
  BY <1>1, <1>2, <1>3, <1>4, <1>5, <1>6, <1>7, <1>8, <1>9, <1>10, <1>11, <1>12, <1>13, <1>14, <1>15, <1>16, <1>17, <1>18
     DEF WorkerStep, Disturb

LEMMA ResultsApi ==
  ASSUME TypeOK, ResultsInv, NEW m \in Meetings, Api(m) \/ Enqueue(m)
  PROVE  ResultsInv'
<1> USE DEF ResultsInv, CompletedHasResults, row, results
<1>1. CASE Upload(m)
  BY <1>1 DEF Upload, TypeOK, DataOK
<1>2. CASE RequestReprocess(m)
  BY <1>2 DEF RequestReprocess
<1>3. CASE Delete(m)
  BY <1>3 DEF Delete
<1>4. CASE EnqueueFails(m)
  BY <1>4 DEF EnqueueFails
<1>5. CASE Enqueue(m)
  BY <1>5 DEF Enqueue
<1>6. QED
  BY <1>1, <1>2, <1>3, <1>4, <1>5 DEF Api

LEMMA ResultsTake ==
  ASSUME TypeOK, ResultsInv, NEW w \in Workers, Take(w)
  PROVE  ResultsInv'
<1>1. PICK m \in Meetings, t \in 0..MaxRetries : Deliver(w, m, t)
  BY DEF Take
<1>2. QED
  BY <1>1 DEF Deliver, Delivered, Becomes, ResultsInv, CompletedHasResults, Backed, Running,
              TypeOK, RunsOK, row, results

LEMMA ResultsKept == Spec => []ResultsInv
<1>1. Init => ResultsInv
  BY DEF Init, ResultsInv, CompletedHasResults, Backed, Running, Idle
<1>2. TypeOK /\ ResultsInv /\ [Next]_vars => ResultsInv'
  <2>1. ASSUME TypeOK, ResultsInv, Next
        PROVE  ResultsInv'
    BY <2>1, ResultsApi, ResultsTake, ResultsStep DEF Next
  <2>2. ASSUME ResultsInv, UNCHANGED vars
        PROVE  ResultsInv'
    BY <2>2 DEF ResultsInv, CompletedHasResults, vars, row, results
  <2>3. QED
    BY <2>1, <2>2
<1>3. QED
  BY <1>1, <1>2, TypeCorrect, PTL DEF Spec

(* Whatever the number of workers, redeliveries, crashes and reprocess        *)
(* requests, a meeting shown as COMPLETED has a transcript and intelligence.  *)
THEOREM CompletedIsBacked == Spec => []CompletedHasResults
<1>1. ResultsInv => CompletedHasResults
  BY DEF ResultsInv
<1>2. QED
  BY <1>1, ResultsKept, PTL

-----------------------------------------------------------------------------
(* Where worker losses are the only faults, no meeting is lost. *)

(* Worker w's record becomes r: enough for CarriedInv to survive.             *)
Keeps(w, r, m) ==
  \/ WillSettle(r) /\ r.m = m
  \/ \E t \in 0..MaxRetries : queue'[m][t] > 0
  \/ /\ status[m] \in InFlight /\ ~deleted[m]
     /\ ~(WillSettle(run[w]) /\ run[w].m = m)
     /\ \A t \in 0..MaxRetries : queue[m][t] > 0 => queue'[m][t] > 0

LEMMA KeepsCarried ==
  ASSUME TypeOK, CarriedInv, NEW w \in Workers, NEW r, Becomes(w, r), unsent' = unsent,
         r.pc = "idle" \/ r.owned,
         \A m \in Meetings : status'[m] \in InFlight /\ ~deleted'[m] => Keeps(w, r, m)
  PROVE  CarriedInv'
<1>1. run' = [run EXCEPT ![w] = r] /\ run'[w] = r
  BY DEF Becomes, TypeOK, RunsOK
<1>2. \A v \in Workers : Busy(v)' => run'[v].owned
  BY <1>1 DEF CarriedInv, Busy, TypeOK, RunsOK
<1>3. ASSUME NEW m \in Meetings, status'[m] \in InFlight, ~deleted'[m]
      PROVE  \/ unsent'[m] > 0
             \/ \E t \in 0..MaxRetries : queue'[m][t] > 0
             \/ \E v \in Workers : WillSettle(run'[v]) /\ run'[v].m = m
  <2>1. CASE WillSettle(r) /\ r.m = m
    BY <1>1, <2>1
  <2>2. CASE \E t \in 0..MaxRetries : queue'[m][t] > 0
    BY <2>2
  <2>3. CASE /\ status[m] \in InFlight /\ ~deleted[m]
             /\ ~(WillSettle(run[w]) /\ run[w].m = m)
             /\ \A t \in 0..MaxRetries : queue[m][t] > 0 => queue'[m][t] > 0
    <3>1. CASE unsent[m] > 0
      BY <3>1
    <3>2. CASE \E t \in 0..MaxRetries : queue[m][t] > 0
      BY <2>3, <3>2
    <3>3. CASE \E v \in Workers : WillSettle(run[v]) /\ run[v].m = m
      <4>1. PICK v \in Workers : WillSettle(run[v]) /\ run[v].m = m
        BY <3>3
      <4>2. v # w /\ run'[v] = run[v]
        BY <1>1, <2>3, <4>1 DEF TypeOK, RunsOK
      <4>3. QED
        BY <4>1, <4>2
    <3>4. QED
      BY <2>3, <3>1, <3>2, <3>3 DEF CarriedInv
  <2>4. QED
    BY <1>3, <2>1, <2>2, <2>3 DEF Keeps
<1>4. QED
  BY <1>2, <1>3 DEF CarriedInv

LEMMA CarriedWork ==
  ASSUME TypeOK, CarriedInv, NEW w \in Workers, Work(w)
  PROVE  CarriedInv'
<1>0. run[w] \in Run /\ run[w].pc \in {"work", "persist"} /\ run[w].owned
  BY DEF TypeOK, RunsOK, CarriedInv, Busy, Work, Extract, SaveAudio, AudioRefused, Transcribe, Diarize,
         ReadTranscript, SaveIntelligence, Embed, Finalize, WorksAt, PersistsAt
<1>1. UNCHANGED <<status, deleted, unsent, queue>>
  BY DEF Work, Extract, SaveAudio, AudioRefused, Transcribe, Diarize, ReadTranscript, SaveIntelligence,
         Embed, Finalize, Reads, GoesOn, row, broker
<1>2. CASE Finalize(w)
  <2> DEFINE r == [run[w] EXCEPT !.pc = "ack"]
  <2>1. Becomes(w, r)
    BY <1>2 DEF Finalize
  <2>2. r.owned /\ ~WillSettle(run[w])
    BY <1>0, <1>2 DEF Run, WillSettle, Finalize, WorksAt
  <2> HIDE DEF r
  <2>3. QED
    BY <1>1, <2>1, <2>2, KeepsCarried DEF Keeps
<1>3. CASE ~Finalize(w)
  <2>1. PICK r : Becomes(w, r) /\ r.pc \in {"persist", "advance", "failing"} /\ r.owned /\ r.m = run[w].m
    <3>1. ASSUME NEW value, Reads(w, value)
          PROVE  \E r : Becomes(w, r) /\ r.pc \in {"persist", "advance", "failing"} /\ r.owned
                                      /\ r.m = run[w].m
      <4> DEFINE r == [run[w] EXCEPT !.pc = "persist", !.snap = value]
      <4>1. r.pc = "persist" /\ r.owned /\ r.m = run[w].m
        BY <1>0 DEF Run
      <4>2. Becomes(w, r)
        BY <3>1 DEF Reads
      <4> HIDE DEF r
      <4>3. QED
        BY <4>1, <4>2
    <3>2. ASSUME NEW mem, GoesOn(w, mem)
          PROVE  \E r : Becomes(w, r) /\ r.pc \in {"persist", "advance", "failing"} /\ r.owned
                                      /\ r.m = run[w].m
      <4> DEFINE r == [run[w] EXCEPT !.pc = "advance", !.at = After[run[w].at],
                                     !.mem = mem, !.snap = 0]
      <4>1. r.pc = "advance" /\ r.owned /\ r.m = run[w].m
        BY <1>0 DEF Run
      <4>2. Becomes(w, r)
        BY <3>2 DEF GoesOn
      <4> HIDE DEF r
      <4>3. QED
        BY <4>1, <4>2
    <3>3. CASE AudioRefused(w)
      <4> DEFINE r == [run[w] EXCEPT !.pc = "failing"]
      <4>1. r.pc = "failing" /\ r.owned /\ r.m = run[w].m
        BY <1>0 DEF Run
      <4>2. Becomes(w, r)
        BY <3>3 DEF AudioRefused
      <4> HIDE DEF r
      <4>3. QED
        BY <4>1, <4>2
    <3>4. QED
      BY <1>3, <3>1, <3>2, <3>3 DEF Work, Extract, SaveAudio, Transcribe, Diarize, ReadTranscript,
                              SaveIntelligence, Embed
  <2>2. ASSUME NEW m \in Meetings, status'[m] \in InFlight, ~deleted'[m]
        PROVE  Keeps(w, r, m)
    BY <1>1, <2>1, <2>2 DEF Keeps, WillSettle
  <2>3. QED
    BY <1>1, <2>1, <2>2, KeepsCarried
<1>4. QED
  BY <1>2, <1>3

LEMMA CarriedStep ==
  ASSUME Faults \subseteq {"lost"}, TypeOK, CarriedInv, NEW w \in Workers,
         WorkerStep(w) \/ Disturb(w)
  PROVE  CarriedInv'
<1>0. /\ run[w] \in Run
      /\ run[w].pc # "idle" => run[w].owned /\ run[w].m \in Meetings
      /\ status \in [Meetings -> Status \union {"absent"}]
      /\ queue \in [Meetings -> [0..MaxRetries -> Nat]]
  BY DEF TypeOK, DataOK, RunsOK, CarriedInv, Busy
<1>1. CASE NotProcessable(w)
  <2> DEFINE r == [run[w] EXCEPT !.pc = "ack"]
  <2>1. Becomes(w, r) /\ run[w].pc # "idle"
    BY <1>1 DEF NotProcessable
  <2>2. r.owned /\ r.m = run[w].m /\ r.pc = "ack"
    BY <1>0, <2>1 DEF Run
  <2> HIDE DEF r
  <2>3. QED
    BY <1>0, <1>1, <2>1, <2>2, KeepsCarried DEF NotProcessable, Keeps, WillSettle, row, broker
<1>2. CASE Load(w)
  <2> DEFINE r == [run[w] EXCEPT !.pc = "advance", !.mem = status[run[w].m],
                                 !.err = reason[run[w].m]]
  <2>1. Becomes(w, r) /\ run[w].pc # "idle"
    BY <1>2 DEF Load
  <2>2. r.owned /\ r.m = run[w].m /\ r.pc = "advance"
    BY <1>0, <2>1 DEF Run
  <2> HIDE DEF r
  <2>3. QED
    BY <1>0, <1>2, <2>1, <2>2, KeepsCarried DEF Load, Keeps, WillSettle, row, broker
<1>3. CASE Advance(w)
  <2> DEFINE r == [run[w] EXCEPT !.pc = "work", !.mem = run[w].at, !.err = FALSE]
  <2>1. Becomes(w, r) /\ run[w].pc # "idle"
    BY <1>3 DEF Advance
  <2>2. r.owned /\ r.m = run[w].m /\ r.pc = "work" /\ r.at = run[w].at
    BY <1>0, <2>1 DEF Run
  <2> HIDE DEF r
  <2>3. QED
    BY <1>0, <1>3, <2>1, <2>2, KeepsCarried DEF Advance, Keeps, WillSettle, row, broker, InFlight, Stages
<1>4. CASE IllegalJump(w)
  <2> DEFINE r == [run[w] EXCEPT !.pc = "failing"]
  <2>1. Becomes(w, r) /\ run[w].pc # "idle"
    BY <1>4 DEF IllegalJump
  <2>2. r.owned /\ r.m = run[w].m /\ r.pc = "failing"
    BY <1>0, <2>1 DEF Run
  <2> HIDE DEF r
  <2>3. QED
    BY <1>0, <1>4, <2>1, <2>2, KeepsCarried DEF IllegalJump, Keeps, WillSettle, row, broker
<1>5. CASE StageFails(w)
  <2> DEFINE r == [run[w] EXCEPT !.pc = "failing"]
  <2>1. Becomes(w, r) /\ run[w].pc # "idle"
    BY <1>5 DEF StageFails
  <2>2. r.owned /\ r.m = run[w].m /\ r.pc = "failing"
    BY <1>0, <2>1 DEF Run
  <2> HIDE DEF r
  <2>3. QED
    BY <1>0, <1>5, <2>1, <2>2, KeepsCarried DEF StageFails, Keeps, WillSettle, row, broker
<1>6. CASE RollBack(w)
  <2> DEFINE r == [run[w] EXCEPT !.pc = "marking", !.mem = status[run[w].m],
                                 !.err = reason[run[w].m]]
  <2>1. Becomes(w, r) /\ run[w].pc # "idle"
    BY <1>6 DEF RollBack
  <2>2. r.owned /\ r.m = run[w].m /\ r.pc = "marking" /\ r.mem = status[run[w].m]
    BY <1>0, <2>1 DEF Run
  <2> HIDE DEF r
  <2>3. QED
    BY <1>0, <1>6, <2>1, <2>2, KeepsCarried DEF RollBack, Keeps, WillSettle, row, broker, InFlight, Stages
<1>7. CASE MarkFailed(w)
  <2> DEFINE r == [run[w] EXCEPT !.pc = "raise"]
  <2>1. Becomes(w, r) /\ run[w].pc # "idle"
    BY <1>7 DEF MarkFailed
  <2>2. r.owned /\ r.m = run[w].m /\ r.pc = "raise"
    BY <1>0, <2>1 DEF Run
  <2> HIDE DEF r
  <2>3. QED
    BY <1>0, <1>7, <2>1, <2>2, KeepsCarried DEF MarkFailed, Keeps, WillSettle, row, broker, InFlight, Stages
<1>8. CASE Retry(w)
  <2> DEFINE r == [run[w] EXCEPT !.pc = "ack"]
  <2>1. Becomes(w, r) /\ run[w].pc # "idle" /\ UNCHANGED <<status, deleted, unsent>>
    BY <1>8 DEF Retry, row
  <2>2. r.owned
    BY <1>0, <2>1 DEF Run
  <2> HIDE DEF r
  <2>3. run[w].tries + 1 \in 0..MaxRetries /\ ~WillSettle(run[w])
    BY <1>0, <1>8 DEF Retry, Run, WillSettle
  <2>4. \A m \in Meetings, t \in 0..MaxRetries : queue[m][t] > 0 => queue'[m][t] > 0
    BY <1>0, <1>8, <2>3 DEF Retry
  <2>5. QED
    BY <2>1, <2>2, <2>3, <2>4, KeepsCarried DEF Keeps
<1>9. CASE GiveUp(w)
  <2> DEFINE r == [run[w] EXCEPT !.pc = "ack"]
  <2>1. Becomes(w, r) /\ run[w].pc # "idle"
    BY <1>9 DEF GiveUp
  <2>2. r.owned /\ r.m = run[w].m /\ r.pc = "ack"
    BY <1>0, <2>1 DEF Run
  <2> HIDE DEF r
  <2>3. QED
    BY <1>0, <1>9, <2>1, <2>2, KeepsCarried DEF GiveUp, Keeps, WillSettle, row, broker
<1>10. CASE Ack(w)
  BY <1>0, <1>10, KeepsCarried DEF Ack, Idle, Keeps, WillSettle, row, broker
<1>11. CASE WorkerLost(w)
  <2>1. /\ Becomes(w, Idle) /\ Idle.pc = "idle" /\ UNCHANGED <<status, deleted, unsent>>
        /\ run[w].owned /\ run[w].m \in Meetings /\ run[w].tries \in 0..MaxRetries
        /\ queue' = [queue EXCEPT ![run[w].m][run[w].tries] = @ + 1]
    BY <1>0, <1>11 DEF WorkerLost, Idle, Run, row
  <2>2. /\ queue'[run[w].m][run[w].tries] > 0
        /\ \A m \in Meetings, t \in 0..MaxRetries : queue[m][t] > 0 => queue'[m][t] > 0
    BY <1>0, <2>1
  <2>3. QED
    BY <2>1, <2>2, KeepsCarried DEF Keeps
<1>12. CASE Work(w)
  BY <1>12, CarriedWork
<1>13. QED
  BY <1>1, <1>2, <1>3, <1>4, <1>5, <1>6, <1>7, <1>8, <1>9, <1>10, <1>11, <1>12
     DEF WorkerStep, Disturb, BuildFails, MarkFails, SoftLimit, SoftLimitSwallowed, HardLimit,
         Redeliver

LEMMA CarriedApi ==
  ASSUME Faults \subseteq {"lost"}, TypeOK, CarriedInv,
         NEW m \in Meetings, Api(m) \/ Enqueue(m)
  PROVE  CarriedInv'
<1>0. unsent \in [Meetings -> Nat] /\ queue \in [Meetings -> [0..MaxRetries -> Nat]]
      /\ status \in [Meetings -> Status \union {"absent"}] /\ 0 \in 0..MaxRetries
      /\ deleted \in [Meetings -> BOOLEAN]
  BY DEF TypeOK, DataOK
<1>1. CASE Upload(m)
  BY <1>0, <1>1 DEF Upload, CarriedInv, Busy
<1>2. CASE RequestReprocess(m)
  BY <1>0, <1>2 DEF RequestReprocess, CarriedInv, Busy, row
<1>3. CASE Delete(m)
  BY <1>0, <1>3 DEF Delete, CarriedInv, Busy, broker
<1>4. CASE Enqueue(m)
  <2>1. /\ queue'[m][0] > 0
        /\ \A n \in Meetings \ {m} : unsent'[n] = unsent[n] /\ queue'[n] = queue[n]
    BY <1>0, <1>4 DEF Enqueue
  <2>2. UNCHANGED <<status, deleted, run>>
    BY <1>4 DEF Enqueue, row
  <2>3. QED
    BY <1>0, <2>1, <2>2 DEF CarriedInv, Busy
<1>5. QED
  BY <1>1, <1>2, <1>3, <1>4 DEF Api, EnqueueFails

LEMMA CarriedTake ==
  ASSUME TypeOK, CarriedInv, NEW w \in Workers, Take(w)
  PROVE  CarriedInv'
<1>1. PICK m \in Meetings, t \in 0..MaxRetries : Deliver(w, m, t)
  BY DEF Take
<1>2. UNCHANGED <<status, deleted, unsent>> /\ Becomes(w, Delivered(m, t)) /\ run[w].pc = "idle"
  BY <1>1 DEF Deliver, row
<1>3. Delivered(m, t).pc = "build" /\ Delivered(m, t).owned /\ Delivered(m, t).m = m
  BY DEF Delivered
<1>4. \A n \in Meetings \ {m} : queue'[n] = queue[n]
  BY <1>1 DEF Deliver, TypeOK, DataOK
<1>5. QED
  BY <1>2, <1>3, <1>4, KeepsCarried DEF Keeps, WillSettle

(* "No silently lost meetings" (celery_app 6-8) holds for every number of     *)
(* workers, requests, retries and worker losses, as long as worker losses are *)
(* all that goes wrong: no failing broker or database, no time limit and no   *)
(* visibility timeout.                                                        *)
THEOREM NothingLost == Faults \subseteq {"lost"} => (Spec => []NoLostMeeting)
<1> SUFFICES ASSUME Faults \subseteq {"lost"}
             PROVE  Spec => []NoLostMeeting
  OBVIOUS
<1>1. Init => CarriedInv
  BY DEF Init, CarriedInv, Busy, Idle, InFlight, Stages
<1>2. TypeOK /\ CarriedInv /\ [Next]_vars => CarriedInv'
  <2>1. ASSUME TypeOK, CarriedInv, Next
        PROVE  CarriedInv'
    BY <2>1, CarriedApi, CarriedTake, CarriedStep DEF Next
  <2>2. ASSUME CarriedInv, UNCHANGED vars
        PROVE  CarriedInv'
    BY <2>2 DEF CarriedInv, Busy, vars, row, broker
  <2>3. QED
    BY <2>1, <2>2
<1>3. TypeOK /\ CarriedInv => NoLostMeeting
  BY DEF CarriedInv, NoLostMeeting, Carried, Busy, WillSettle
<1>4. QED
  BY <1>1, <1>2, <1>3, TypeCorrect, PTL DEF Spec

-----------------------------------------------------------------------------
(* Where the runs of a meeting do not overlap, its rows fit together. *)

RowSame(m) ==
  /\ status'[m] = status[m] /\ reason'[m] = reason[m] /\ audio'[m] = audio[m]
  /\ transcript'[m] = transcript[m] /\ intel'[m] = intel[m]

RowFits(m) ==
  /\ status[m] = "completed" => intel[m] = transcript[m]
  /\ reason[m] <=> status[m] = "failed"

(* Worker w writes to the rows of the meeting it holds, if to any: what other *)
(* workers know is not about this meeting.                                    *)
LEMMA RowsKept ==
  ASSUME TypeOK, RowsInv, RunsApart, NEW w \in Workers, \E r : Becomes(w, r),
         KnowsRow(run[w])',
         \A m \in Meetings : RowSame(m) \/ (Holding(run[w]) /\ m = run[w].m /\ RowFits(m)')
  PROVE  RowsInv'
<1>1. \A v \in Workers : v # w => run'[v] = run[v]
  BY DEF Becomes, TypeOK, RunsOK
<1>2. ASSUME NEW m \in Meetings
      PROVE  RowFits(m)'
  <2>1. RowFits(m)
    BY DEF RowsInv, FreshWhenCompleted, ReasonIffFailed, RowFits
  <2>2. QED
    BY <2>1 DEF RowFits, RowSame
<1>3. ASSUME NEW v \in Workers, v # w
      PROVE  KnowsRow(run[v])'
  <2>1. run'[v] = run[v] /\ KnowsRow(run[v])
    BY <1>1, <1>3 DEF RowsInv
  <2>2. CASE ~Holding(run[v])
    BY <2>1, <2>2 DEF KnowsRow, Holding, KnowsStatus, Running
  <2>3. CASE Holding(run[v])
    <3>1. run[v].m \in Meetings
      BY <2>3 DEF Holding, Running, TypeOK, RunsOK
    <3>2. RowSame(run[v].m)
      BY <1>3, <2>3, <3>1 DEF RunsApart
    <3>3. QED
      BY <2>1, <3>2 DEF KnowsRow, RowSame
  <2>4. QED
    BY <2>2, <2>3
<1>4. QED
  BY <1>2, <1>3 DEF RowsInv, RowFits, FreshWhenCompleted, ReasonIffFailed

(* The record of a worker after the commonest steps. *)
Turns(w, p) ==
  /\ run'[w].pc = p /\ run'[w].m = run[w].m /\ run'[w].at = run[w].at
  /\ run'[w].mem = run[w].mem /\ run'[w].err = run[w].err

Proceeds(w, mem) ==
  /\ run'[w].pc = "advance" /\ run'[w].m = run[w].m /\ run'[w].at = After[run[w].at]
  /\ run'[w].mem = mem /\ run'[w].err = run[w].err

LEMMA Turned ==
  ASSUME TypeOK, NEW w \in Workers, NEW p, Becomes(w, [run[w] EXCEPT !.pc = p])
  PROVE  Turns(w, p) /\ \E r : Becomes(w, r)
<1>1. run[w] \in Run /\ run'[w] = [run[w] EXCEPT !.pc = p]
  BY DEF TypeOK, RunsOK, Becomes
<1>2. Turns(w, p)
  BY <1>1 DEF Run, Turns
<1>3. QED
  BY <1>2

LEMMA HasRead ==
  ASSUME TypeOK, NEW w \in Workers, NEW value, Reads(w, value)
  PROVE  Turns(w, "persist") /\ run'[w].snap = value /\ \E r : Becomes(w, r)
<1>1. run[w] \in Run /\ run'[w] = [run[w] EXCEPT !.pc = "persist", !.snap = value]
  BY DEF TypeOK, RunsOK, Becomes, Reads
<1>2. Turns(w, "persist") /\ run'[w].snap = value
  BY <1>1 DEF Run, Turns
<1>3. QED
  BY <1>2 DEF Reads

LEMMA GoneOn ==
  ASSUME TypeOK, NEW w \in Workers, NEW mem, GoesOn(w, mem)
  PROVE  /\ Proceeds(w, mem) /\ \E r : Becomes(w, r)
         /\ UNCHANGED <<status, reason, deleted>>
<1>1. /\ run[w] \in Run
      /\ run'[w] = [run[w] EXCEPT !.pc = "advance", !.at = After[run[w].at],
                                  !.mem = mem, !.snap = 0]
  BY DEF TypeOK, RunsOK, Becomes, GoesOn
<1>2. Proceeds(w, mem)
  BY <1>1 DEF Run, Proceeds
<1>3. QED
  BY <1>2 DEF GoesOn, row

LEMMA RowsWork ==
  ASSUME TypeOK, RowsInv, RunsApart, NEW w \in Workers, Work(w)
  PROVE  RowsInv'
<1> DEFINE m == run[w].m
<1> USE DEF WorksAt, PersistsAt
<1>0. /\ run[w] \in Run /\ m \in Meetings /\ Holding(run[w])
      /\ KnowsRow(run[w]) /\ RowFits(m) /\ DataOK
  BY DEF TypeOK, RunsOK, Work, Extract, SaveAudio, AudioRefused, Transcribe, Diarize, ReadTranscript,
         SaveIntelligence, Embed, Finalize, RowsInv, RowFits, FreshWhenCompleted,
         ReasonIffFailed, Holding, Running
<1>a. /\ run[w].pc \in {"work", "persist"} => run[w].mem = run[w].at /\ run[w].at # "expired"
      /\ run[w].pc \in {"work", "persist"} => status[m] = run[w].at
  BY <1>0 DEF KnowsRow, KnowsStatus, Run, Stages, Holding, Running
<1> HIDE DEF m
<1> SUFFICES /\ KnowsRow(run[w])' /\ \E r : Becomes(w, r)
             /\ \A n \in Meetings : RowSame(n) \/ (n = m /\ RowFits(n)')
  BY <1>0, RowsKept DEF m
<1> USE <1>0, <1>a DEF RowSame, row, results, KnowsRow, KnowsStatus, Holding, Running
<1>1. CASE Extract(w)
  <2>1. /\ Turns(w, "persist") /\ run'[w].snap = (IF audio[m] THEN 1 ELSE 0)
        /\ \E r : Becomes(w, r)
    BY <1>1, HasRead DEF Extract, m
  <2>2. QED
    BY <1>1, <2>1 DEF Extract, Reads, Turns, m
<1>2. CASE SaveAudio(w)
  <2>1. /\ Proceeds(w, run[w].mem) /\ UNCHANGED <<status, reason>> /\ \E r : Becomes(w, r)
        /\ run[w].pc = "persist" /\ run[w].at = "extracting" /\ After["extracting"] = "transcribing"
    BY <1>2, GoneOn DEF SaveAudio, After
  <2>2. audio' = [audio EXCEPT ![m] = TRUE] /\ UNCHANGED <<transcript, intel>>
    BY <1>2 DEF SaveAudio, m
  <2>3. KnowsRow(run[w])'
    BY <2>1, <2>2 DEF Proceeds, Stages, After, m
  <2>4. \A n \in Meetings : RowSame(n) \/ (n = m /\ RowFits(n)')
    BY <2>1, <2>2 DEF RowFits, DataOK
  <2>5. QED
    BY <2>1, <2>3, <2>4
<1>3. CASE Transcribe(w)
  <2>1. /\ Proceeds(w, run[w].mem) /\ UNCHANGED <<status, reason>> /\ \E r : Becomes(w, r)
        /\ run[w].pc = "work" /\ run[w].at = "transcribing" /\ After["transcribing"] = "diarizing"
    BY <1>3, GoneOn DEF Transcribe, After
  <2>2. transcript' = [transcript EXCEPT ![m] = @ + 1] /\ UNCHANGED <<audio, intel>>
    BY <1>3 DEF Transcribe, m
  <2>3. KnowsRow(run[w])'
    BY <2>1, <2>2 DEF Proceeds, Stages, After, m
  <2>4. \A n \in Meetings : RowSame(n) \/ (n = m /\ RowFits(n)')
    BY <2>1, <2>2 DEF RowFits, DataOK
  <2>5. QED
    BY <2>1, <2>3, <2>4
<1>4. CASE Diarize(w)
  <2>1. /\ Proceeds(w, run[w].mem) /\ UNCHANGED <<status, reason>> /\ \E r : Becomes(w, r)
        /\ run[w].pc = "work" /\ run[w].at = "diarizing" /\ After["diarizing"] = "analyzing"
    BY <1>4, GoneOn DEF Diarize, After
  <2>2. QED
    BY <1>4, <2>1 DEF Diarize, Proceeds, Stages, After, m
<1>5. CASE ReadTranscript(w)
  <2>1. Turns(w, "persist") /\ run'[w].snap = transcript[m] /\ \E r : Becomes(w, r)
    BY <1>5, HasRead DEF ReadTranscript, m
  <2>2. QED
    BY <1>5, <2>1 DEF ReadTranscript, Reads, Turns, m
<1>6. CASE SaveIntelligence(w)
  <2>1. /\ Proceeds(w, run[w].mem) /\ UNCHANGED <<status, reason>> /\ \E r : Becomes(w, r)
        /\ run[w].pc = "persist" /\ run[w].at = "analyzing" /\ After["analyzing"] = "embedding"
    BY <1>6, GoneOn DEF SaveIntelligence, After
  <2>2. /\ intel' = [intel EXCEPT ![m] = run[w].snap] /\ run[w].snap = transcript[m]
        /\ UNCHANGED <<audio, transcript>>
    BY <1>6 DEF SaveIntelligence, m
  <2>3. KnowsRow(run[w])'
    BY <2>1, <2>2 DEF Proceeds, Stages, After, m, DataOK
  <2>4. \A n \in Meetings : RowSame(n) \/ (n = m /\ RowFits(n)')
    BY <2>1, <2>2 DEF RowFits, DataOK
  <2>5. QED
    BY <2>1, <2>3, <2>4
<1>7. CASE Embed(w)
  <2>1. PICK mem \in {run[w].mem, "expired"} : GoesOn(w, mem)
    BY <1>7 DEF Embed
  <2>2. /\ Proceeds(w, mem) /\ UNCHANGED <<status, reason>> /\ \E r : Becomes(w, r)
        /\ run[w].pc = "work" /\ run[w].at = "embedding" /\ After["embedding"] = "completed"
    BY <1>7, <2>1, GoneOn DEF Embed, After
  <2>3. QED
    BY <1>7, <2>2 DEF Embed, Proceeds, m
<1>8. CASE Finalize(w)
  <2>1. Turns(w, "ack") /\ \E r : Becomes(w, r)
    BY <1>8, Turned DEF Finalize
  <2>2. QED
    BY <1>8, <2>1 DEF Finalize, Turns
<1>9. CASE AudioRefused(w)
  <2>1. Turns(w, "failing") /\ \E r : Becomes(w, r)
    BY <1>9, Turned DEF AudioRefused
  <2>2. QED
    BY <1>9, <2>1 DEF AudioRefused, Turns
<1>10. QED
  BY <1>1, <1>2, <1>3, <1>4, <1>5, <1>6, <1>7, <1>8, <1>9 DEF Work

(* Worker w lets go of its meeting and writes to none. *)
LEMMA LetsGo ==
  ASSUME TypeOK, RowsInv, RunsApart, NEW w \in Workers, \E r : Becomes(w, r),
         run'[w].pc \in {"idle", "raise", "ack", "failing"}, UNCHANGED <<row, results>>
  PROVE  RowsInv'
<1>1. KnowsRow(run[w])'
  BY DEF KnowsRow, KnowsStatus, Holding, Running
<1>2. \A m \in Meetings : RowSame(m)
  BY DEF RowSame, row, results
<1>3. QED
  BY <1>1, <1>2, RowsKept

(* ... which every step does that ends or breaks off the run or a stage. *)
LEMMA RowsRelease ==
  ASSUME TypeOK, RowsInv, RunsApart, NEW w \in Workers,
         \/ BuildFails(w) \/ NotProcessable(w) \/ IllegalJump(w) \/ StageFails(w)
         \/ MarkFails(w) \/ Retry(w) \/ GiveUp(w) \/ Ack(w)
         \/ SoftLimit(w) \/ HardLimit(w) \/ WorkerLost(w)
  PROVE  RowsInv'
<1>1. UNCHANGED <<row, results>>
  BY DEF BuildFails, NotProcessable, IllegalJump, StageFails, MarkFails, Retry, GiveUp, Ack,
         SoftLimit, HardLimit, WorkerLost
<1>2. /\ \E r : Becomes(w, r)
      /\ run'[w].pc \in {"idle", "raise", "ack", "failing"}
  <2>1. ASSUME NEW p \in {"raise", "ack", "failing"}, Becomes(w, [run[w] EXCEPT !.pc = p])
        PROVE  run'[w].pc = p /\ \E r : Becomes(w, r)
    BY <2>1, Turned DEF Turns
  <2>2. ASSUME Becomes(w, Idle)
        PROVE  run'[w].pc = "idle"
    BY <2>2, IdleRun DEF Becomes, TypeOK, RunsOK
  <2>3. CASE SoftLimit(w)
    <3>1. /\ Becomes(w, [run[w] EXCEPT !.pc = "failing", !.soft = TRUE])
          /\ run \in [Workers -> Run]
      BY <2>3 DEF SoftLimit, TypeOK, RunsOK
    <3>2. run'[w] = [run[w] EXCEPT !.pc = "failing", !.soft = TRUE] /\ run[w] \in Run
      BY <3>1 DEF Becomes
    <3>3. run'[w].pc = "failing"
      BY <3>2 DEF Run
    <3>4. QED
      BY <3>1, <3>3
  <2>4. CASE BuildFails(w) \/ MarkFails(w)
    BY <2>1, <2>4 DEF BuildFails, MarkFails
  <2>5. CASE NotProcessable(w) \/ Retry(w) \/ GiveUp(w)
    BY <2>1, <2>5 DEF NotProcessable, Retry, GiveUp
  <2>6. CASE IllegalJump(w) \/ StageFails(w)
    BY <2>1, <2>6 DEF IllegalJump, StageFails
  <2>7. CASE Ack(w) \/ HardLimit(w) \/ WorkerLost(w)
    BY <2>2, <2>7 DEF Ack, HardLimit, WorkerLost
  <2>8. QED
    BY <2>3, <2>4, <2>5, <2>6, <2>7
<1>3. QED
  BY <1>1, <1>2, LetsGo

LEMMA RowsAdvance ==
  ASSUME TypeOK, RowsInv, RunsApart, NEW w \in Workers, Advance(w)
  PROVE  RowsInv'
<1> DEFINE m == run[w].m
<1>0. /\ run[w] \in Run /\ m \in Meetings /\ run[w].pc = "advance" /\ Holding(run[w])
      /\ KnowsRow(run[w]) /\ RowFits(m) /\ DataOK
  BY DEF TypeOK, RunsOK, RowsInv, RowFits, FreshWhenCompleted, ReasonIffFailed,
         Holding, Running, Advance
<1>1. /\ run'[w].pc = "work" /\ run'[w].m = m /\ run'[w].at = run[w].at
      /\ run'[w].mem = run[w].at /\ run'[w].err = FALSE
  <2>1. /\ run \in [Workers -> Run]
        /\ run' = [run EXCEPT ![w] = [run[w] EXCEPT !.pc = "work", !.mem = run[w].at, !.err = FALSE]]
    BY DEF Advance, Becomes, TypeOK, RunsOK
  <2>2. run'[w] = [run[w] EXCEPT !.pc = "work", !.mem = run[w].at, !.err = FALSE]
    BY <2>1
  <2>3. QED
    BY <1>0, <2>2 DEF Run
<1>2. SeenReason(w) = reason[m] /\ run[w].at \in Stages \union {"completed"}
  BY <1>0 DEF SeenReason, KnowsRow, Run
<1> HIDE DEF m
<1>3. /\ status' = [status EXCEPT ![m] = run[w].at] /\ reason'[m] = FALSE
      /\ \A n \in Meetings : n # m => reason'[n] = reason[n]
      /\ UNCHANGED <<audio, transcript, intel>>
  BY <1>0, <1>2 DEF Advance, DataOK, results, m
<1>4. status'[m] = run[w].at /\ \A n \in Meetings : n # m => status'[n] = status[n]
  BY <1>0, <1>3 DEF DataOK
<1>5. KnowsRow(run[w])'
  BY <1>0, <1>1, <1>3, <1>4 DEF KnowsRow, KnowsStatus, Holding, Running, m
<1>6. \A n \in Meetings : RowSame(n) \/ (n = m /\ RowFits(n)')
  BY <1>0, <1>2, <1>3, <1>4 DEF RowSame, RowFits, KnowsRow, Stages, Running, m
<1>7. \E r : Becomes(w, r)
  BY DEF Advance
<1>8. QED
  BY <1>0, <1>5, <1>6, <1>7, RowsKept DEF m

LEMMA RowsMark ==
  ASSUME TypeOK, RowsInv, RunsApart, NEW w \in Workers, MarkFailed(w)
  PROVE  RowsInv'
<1> DEFINE m == run[w].m
<1>0. /\ run[w] \in Run /\ m \in Meetings /\ run[w].pc = "marking" /\ Holding(run[w])
      /\ KnowsRow(run[w]) /\ RowFits(m) /\ DataOK
  BY DEF TypeOK, RunsOK, RowsInv, RowFits, FreshWhenCompleted, ReasonIffFailed,
         Holding, Running, MarkFailed
<1>1. run'[w].pc = "raise" /\ \E r : Becomes(w, r)
  BY Turned DEF MarkFailed, Turns
<1>2. run[w].mem = status[m] /\ run[w].err = reason[m]
  BY <1>0 DEF KnowsRow
<1> HIDE DEF m
<1>3. /\ status' = [status EXCEPT ![m] = "failed"]
      /\ reason' = [reason EXCEPT ![m] = TRUE]
      /\ UNCHANGED <<audio, transcript, intel>>
  <2>1. status' = [status EXCEPT ![m] = IF run[w].mem = "failed" THEN @ ELSE "failed"]
    BY DEF MarkFailed, m
  <2>2. reason' = [reason EXCEPT ![m] = TRUE] \/ (reason[m] /\ UNCHANGED reason)
    BY <1>2 DEF MarkFailed, m
  <2>3. status' = [status EXCEPT ![m] = "failed"]
    BY <1>0, <1>2, <2>1 DEF DataOK
  <2>4. reason' = [reason EXCEPT ![m] = TRUE]
    BY <1>0, <2>2 DEF DataOK
  <2>5. QED
    BY <2>3, <2>4 DEF MarkFailed, results
<1>4. KnowsRow(run[w])'
  BY <1>1 DEF KnowsRow, KnowsStatus, Holding, Running
<1>5. \A n \in Meetings : RowSame(n) \/ (n = m /\ RowFits(n)')
  BY <1>0, <1>3 DEF RowSame, RowFits, DataOK
<1>6. QED
  BY <1>0, <1>1, <1>4, <1>5, RowsKept DEF m

LEMMA RowsStep ==
  ASSUME TypeOK, RowsInv, RunsApart, NEW w \in Workers, WorkerStep(w) \/ Disturb(w)
  PROVE  RowsInv'
<1>0. /\ run \in [Workers -> Run] /\ run[w] \in Run /\ KnowsRow(run[w])
      /\ run[w].pc # "idle" => status[run[w].m] \in Status
  BY DEF TypeOK, RunsOK, DataOK, RowsInv
<1>1. CASE Load(w) \/ RollBack(w)
  <2>1. PICK p \in {"advance", "marking"} :
          /\ Becomes(w, [run[w] EXCEPT !.pc = p, !.mem = status[run[w].m],
                                       !.err = reason[run[w].m]])
          /\ p = "advance" => run[w].pc = "build"
          /\ run[w].pc # "idle" /\ UNCHANGED <<row, results>>
    BY <1>1 DEF Load, RollBack
  <2>2. run'[w] = [run[w] EXCEPT !.pc = p, !.mem = status[run[w].m], !.err = reason[run[w].m]]
    BY <1>0, <2>1 DEF Becomes
  <2>3. /\ run'[w].pc = p /\ run'[w].m = run[w].m /\ run'[w].at = run[w].at
        /\ run'[w].mem = status[run[w].m] /\ run'[w].err = reason[run[w].m]
    BY <1>0, <2>2 DEF Run
  <2>4. KnowsRow(run[w])'
    BY <1>0, <2>1, <2>3
       DEF KnowsRow, KnowsStatus, Holding, Running, row, results, Status, Stages, Terminal
  <2>5. QED
    BY <2>1, <2>4, RowsKept DEF RowSame, row, results
<1>2. CASE SoftLimitSwallowed(w)
  <2>1. /\ run'[w] = [run[w] EXCEPT !.pc = "advance", !.at = After[run[w].at], !.soft = TRUE,
                            !.mem = IF run[w].at = "embedding" THEN "expired" ELSE @]
        /\ \E r : Becomes(w, r)
    BY <1>0, <1>2 DEF SoftLimitSwallowed, Becomes
  <2>2. /\ run'[w].pc = "advance" /\ run'[w].m = run[w].m /\ run'[w].at = After[run[w].at]
        /\ run'[w].mem = IF run[w].at = "embedding" THEN "expired" ELSE run[w].mem
        /\ run'[w].err = run[w].err
    BY <1>0, <2>1 DEF Run
  <2>3. KnowsRow(run[w])'
    BY <1>0, <1>2, <2>2 DEF SoftLimitSwallowed, WorksAt, KnowsRow, KnowsStatus, Holding, Running,
                             After, Stages, row, results
  <2>4. QED
    BY <1>2, <2>1, <2>3, RowsKept DEF SoftLimitSwallowed, RowSame, row, results
<1>3. CASE Redeliver(w)
  <2>1. /\ run'[w] = [run[w] EXCEPT !.owned = FALSE] /\ \E r : Becomes(w, r)
        /\ UNCHANGED <<row, results>>
    BY <1>0, <1>3 DEF Redeliver, Becomes
  <2>2. /\ run'[w].pc = run[w].pc /\ run'[w].m = run[w].m /\ run'[w].at = run[w].at
        /\ run'[w].mem = run[w].mem /\ run'[w].err = run[w].err /\ run'[w].snap = run[w].snap
    BY <1>0, <2>1 DEF Run
  <2>3. KnowsRow(run[w])'
    BY <1>0, <2>1, <2>2 DEF KnowsRow, KnowsStatus, Holding, Running, row, results
  <2>4. QED
    BY <2>1, <2>3, RowsKept DEF RowSame, row, results
<1>4. QED
  BY <1>1, <1>2, <1>3, RowsRelease, RowsAdvance, RowsMark, RowsWork DEF WorkerStep, Disturb

LEMMA RowsApi ==
  ASSUME TypeOK, RowsInv, NEW m \in Meetings, Api(m) \/ Enqueue(m)
  PROVE  RowsInv'
<1>0. UNCHANGED <<reason, audio, transcript, intel, run>>
  BY DEF Api, Upload, RequestReprocess, Delete, EnqueueFails, Enqueue, row, results
<1>1. CASE Upload(m)
  <2>1. /\ status' = [status EXCEPT ![m] = "uploaded"] /\ status[m] = "absent"
        /\ status \in [Meetings -> Status \union {"absent"}]
    BY <1>1 DEF Upload, TypeOK, DataOK
  <2>2. ASSUME NEW w \in Workers
        PROVE  KnowsRow(run[w])'
    <3>1. CASE run[w].pc = "idle"
      BY <1>0, <3>1 DEF KnowsRow, KnowsStatus, Holding, Running
    <3>2. CASE run[w].pc # "idle"
      <4>1. run[w].m \in Meetings /\ run[w].m # m
        BY <2>1, <3>2 DEF TypeOK, RunsOK
      <4>2. status'[run[w].m] = status[run[w].m]
        BY <2>1, <4>1
      <4>3. QED
        BY <1>0, <4>2 DEF RowsInv, KnowsRow, KnowsStatus, Holding, Running
    <3>3. QED
      BY <3>1, <3>2
  <2>3. QED
    BY <1>0, <2>1, <2>2 DEF RowsInv, FreshWhenCompleted, ReasonIffFailed
<1>2. CASE UNCHANGED status
  BY <1>0, <1>2 DEF RowsInv, FreshWhenCompleted, ReasonIffFailed,
                    KnowsRow, KnowsStatus, Holding, Running
<1>3. QED
  BY <1>1, <1>2 DEF Api, RequestReprocess, Delete, EnqueueFails, Enqueue, row

LEMMA RowsTake ==
  ASSUME TypeOK, RowsInv, RunsApart, NEW w \in Workers, Take(w)
  PROVE  RowsInv'
<1>1. PICK m \in Meetings, t \in 0..MaxRetries : Deliver(w, m, t)
  BY DEF Take
<1>2. run'[w] = Delivered(m, t) /\ UNCHANGED <<row, results>> /\ \E r : Becomes(w, r)
  BY <1>1 DEF Deliver, Becomes, TypeOK, RunsOK
<1>3. KnowsRow(run[w])'
  BY <1>2 DEF Delivered, KnowsRow, KnowsStatus, Holding, Running
<1>4. QED
  BY <1>2, <1>3, RowsKept DEF RowSame, row, results

LEMMA RowsInit == Init => RowsInv
<1> SUFFICES ASSUME Init
             PROVE  RowsInv
  OBVIOUS
<1>1. \A w \in Workers : run[w].pc = "idle"
  BY IdleRun DEF Init
<1>2. \A w \in Workers : KnowsRow(run[w])
  BY <1>1 DEF KnowsRow, KnowsStatus, Holding, Running
<1>3. FreshWhenCompleted /\ ReasonIffFailed
  BY DEF Init, FreshWhenCompleted, ReasonIffFailed
<1>4. QED
  BY <1>2, <1>3 DEF RowsInv

LEMMA RowsNext == TypeOK /\ RowsInv /\ RunsApart /\ [Next]_vars => RowsInv'
<1>1. ASSUME TypeOK, RowsInv, RunsApart, Next
      PROVE  RowsInv'
  BY <1>1, RowsApi, RowsTake, RowsStep DEF Next
<1>2. ASSUME RowsInv, UNCHANGED vars
      PROVE  RowsInv'
  BY <1>2 DEF RowsInv, FreshWhenCompleted, ReasonIffFailed, KnowsRow, KnowsStatus,
              Holding, Running, vars, row, results
<1>3. QED
  BY <1>1, <1>2

LEMMA ApartRows == Spec /\ []RunsApart => []RowsInv
BY RowsInit, RowsNext, TypeCorrect, PTL DEF Spec

(* In every behaviour in which no two workers ever hold the same meeting, the *)
(* analysis of a COMPLETED meeting was made from its transcript, whatever     *)
(* crashed, was retried or processed again.                                   *)
THEOREM FreshWhereApart == Spec /\ []RunsApart => []FreshWhenCompleted
BY ApartRows, PTL DEF RowsInv

(* ... a meeting has an error message exactly when it is FAILED,              *)
THEOREM ReasonWhereApart == Spec /\ []RunsApart => []ReasonIffFailed
BY ApartRows, PTL DEF RowsInv

(* ... and no run inserts an audio row next to that of an earlier one.        *)
THEOREM AudioWhereApart == Spec /\ []RunsApart => []NoAudioCollision
<1>1. RowsInv => NoAudioCollision
  BY DEF RowsInv, KnowsRow, NoAudioCollision, PersistsAt, AudioCollides
<1>2. QED
  BY <1>1, ApartRows, PTL

-----------------------------------------------------------------------------
(* ... and the pipeline implements the lifecycle of a meeting. *)

(* What a client can see of a meeting, but for the audio and the speakers.    *)
visible == <<status, transcript, intel>>

LEMMA SameStages == Stages = Lifecycle!Stages
BY DEF Stages, Lifecycle!Stages

LEMMA SameGraph ==
  ASSUME NEW s, NEW t
  PROVE  CanTransition(s, t) <=> Lifecycle!CanTransition(s, t)
BY DEF CanTransition, Allowed, Lifecycle!CanTransition, Lifecycle!Allowed

LEMMA AdvanceMaps ==
  ASSUME TypeOK, ResultsInv, RowsInv, NEW w \in Workers, Advance(w)
  PROVE  Lifecycle!Next
<1> DEFINE m == run[w].m
<1>0. /\ run[w] \in Run /\ m \in Meetings /\ status[m] # "absent" /\ run[w].pc = "advance"
      /\ KnowsRow(run[w])
  BY DEF TypeOK, RunsOK, RowsInv, Advance
<1>1. SeenStatus(w) = status[m] /\ run[w].at \in Stages \union {"completed"}
  BY <1>0 DEF SeenStatus, KnowsRow, Holding, Running, Run
<1>2. /\ CanTransition(status[m], run[w].at)
      /\ status' = [status EXCEPT ![m] = run[w].at] /\ UNCHANGED <<transcript, intel>>
  BY <1>1 DEF Advance, results
<1>3. CASE run[w].at \in Stages
  <2>1. Lifecycle!Enter(m, run[w].at)
    BY <1>0, <1>2, SameGraph DEF Lifecycle!Enter
  <2>2. QED
    BY <1>0, <1>3, <2>1, SameStages DEF Lifecycle!Next
<1>4. CASE run[w].at = "completed"
  <2>1. status[m] = "embedding" /\ transcript[m] > 0 /\ intel[m] = transcript[m]
    BY <1>0, <1>4 DEF KnowsRow, Running, ResultsInv, Backed
  <2>2. Lifecycle!Complete(m)
    BY <1>0, <1>2, <1>4, <2>1 DEF Lifecycle!Complete
  <2>3. QED
    BY <1>0, <2>2 DEF Lifecycle!Next
<1>5. QED
  BY <1>1, <1>3, <1>4

LEMMA WorkMaps ==
  ASSUME TypeOK, ResultsInv, RowsInv, NEW w \in Workers, Work(w)
  PROVE  Lifecycle!Next \/ UNCHANGED visible
<1> DEFINE m == run[w].m
<1> USE DEF WorksAt, PersistsAt
<1>0. /\ run[w] \in Run /\ m \in Meetings /\ KnowsRow(run[w])
      /\ Backed(run[w], transcript, intel)
      /\ run[w].pc \in {"work", "persist"} => status[m] = run[w].at
  <2>1. /\ run[w] \in Run /\ m \in Meetings /\ KnowsRow(run[w])
        /\ Backed(run[w], transcript, intel)
    BY DEF TypeOK, RunsOK, RowsInv, ResultsInv, Work, Extract, SaveAudio, AudioRefused, Transcribe, Diarize,
           ReadTranscript, SaveIntelligence, Embed, Finalize
  <2>2. QED
    BY <2>1 DEF KnowsRow, KnowsStatus, Holding, Running, Run, Stages
<1>1. CASE Transcribe(w)
  <2>1. Lifecycle!StoreTranscript(m)
    BY <1>0, <1>1 DEF Transcribe, GoesOn, row, Lifecycle!StoreTranscript
  <2>2. QED
    BY <1>0, <2>1 DEF Lifecycle!Next
<1>2. CASE SaveIntelligence(w)
  <2>1. run[w].snap = transcript[m] /\ transcript[m] > 0 /\ status[m] = "analyzing"
    BY <1>0, <1>2 DEF SaveIntelligence, KnowsRow, Backed
  <2>2. Lifecycle!StoreIntelligence(m)
    BY <1>2, <2>1 DEF SaveIntelligence, GoesOn, row, Lifecycle!StoreIntelligence
  <2>3. QED
    BY <1>0, <2>2 DEF Lifecycle!Next
<1>3. CASE \/ Extract(w) \/ SaveAudio(w) \/ AudioRefused(w) \/ Diarize(w) \/ ReadTranscript(w)
           \/ Embed(w) \/ Finalize(w)
  BY <1>3 DEF Extract, SaveAudio, AudioRefused, Diarize, ReadTranscript, Embed, Finalize, Reads, GoesOn,
              row, results, visible
<1>4. QED
  BY <1>1, <1>2, <1>3 DEF Work

LEMMA StepMaps ==
  ASSUME TypeOK, ResultsInv, RowsInv, NEW w \in Workers,
         Take(w) \/ WorkerStep(w) \/ Disturb(w)
  PROVE  Lifecycle!Next \/ UNCHANGED visible
<1>1. CASE MarkFailed(w)
  <2> DEFINE m == run[w].m
  <2>0. m \in Meetings /\ status[m] # "absent" /\ run[w].mem = status[m]
    BY <1>1 DEF MarkFailed, TypeOK, RunsOK, RowsInv, KnowsRow, Holding
  <2>1. status' = [status EXCEPT ![m] = "failed"]
    BY <1>1, <2>0 DEF MarkFailed, TypeOK, DataOK
  <2>2. Lifecycle!Fail(m)
    BY <1>1, <2>0, <2>1 DEF MarkFailed, results, Lifecycle!Fail
  <2>3. QED
    BY <2>0, <2>2 DEF Lifecycle!Next
<1>2. CASE \/ BuildFails(w) \/ NotProcessable(w) \/ Load(w) \/ IllegalJump(w) \/ StageFails(w)
           \/ RollBack(w) \/ MarkFails(w) \/ Retry(w) \/ GiveUp(w) \/ Ack(w)
  BY <1>2 DEF BuildFails, NotProcessable, Load, IllegalJump, StageFails, RollBack, MarkFails,
              Retry, GiveUp, Ack, row, results, visible
<1>3. CASE Take(w) \/ Disturb(w)
  BY <1>3 DEF Take, Deliver, Disturb, SoftLimit, SoftLimitSwallowed, HardLimit, WorkerLost,
              Redeliver, row, results, visible
<1>4. QED
  BY <1>1, <1>2, <1>3, AdvanceMaps, WorkMaps DEF WorkerStep

LEMMA ApiMaps ==
  ASSUME NEW m \in Meetings, Api(m) \/ Enqueue(m)
  PROVE  Lifecycle!Next \/ UNCHANGED visible
<1>1. CASE Upload(m)
  <2>1. Lifecycle!Create(m)
    BY <1>1 DEF Upload, results, Lifecycle!Create
  <2>2. QED
    BY <2>1 DEF Lifecycle!Next
<1>2. CASE RequestReprocess(m) \/ Delete(m) \/ EnqueueFails(m) \/ Enqueue(m)
  BY <1>2 DEF RequestReprocess, Delete, EnqueueFails, Enqueue, row, results, visible
<1>3. QED
  BY <1>1, <1>2 DEF Api

(* Where no two workers hold a meeting at the same time, all that its clients *)
(* can see is the abstract meeting: no queue, worker, retry or crash shows.   *)
THEOREM RefinesLifecycle == Spec /\ []RunsApart => ImplementsLifecycle
<1>1. Init => Lifecycle!Init
  BY DEF Init, Lifecycle!Init
<1>2. TypeOK /\ ResultsInv /\ RowsInv /\ [Next]_vars => [Lifecycle!Next]_(Lifecycle!lifecycle)
  <2>1. ASSUME TypeOK, ResultsInv, RowsInv, Next
        PROVE  Lifecycle!Next \/ UNCHANGED visible
    BY <2>1, ApiMaps, StepMaps DEF Next
  <2>2. ASSUME UNCHANGED vars
        PROVE  UNCHANGED visible
    BY <2>2 DEF vars, row, results, visible
  <2>3. QED
    BY <2>1, <2>2 DEF visible, Lifecycle!lifecycle
<1>3. QED
  BY <1>1, <1>2, TypeCorrect, ResultsKept, ApartRows, PTL DEF Spec, ImplementsLifecycle, Lifecycle!Spec

-----------------------------------------------------------------------------
(* With any number of workers, the first task of a meeting is alone. *)

Quiet == requests = 0 /\ faults = 0

(* The counters only grow.                                                    *)
LEMMA QuietBefore ==
  ASSUME TypeOK, [Next]_vars, Quiet'
  PROVE  /\ Quiet
         /\ \A m \in Meetings : ~RequestReprocess(m)
         /\ \A w \in Workers : ~WorkerLost(w) /\ ~Redeliver(w)
<1>1. requests \in Nat /\ faults \in Nat
  BY DEF TypeOK, DataOK
<1>2. /\ \A m \in Meetings : ~RequestReprocess(m)
      /\ \A w \in Workers : ~WorkerLost(w) /\ ~Redeliver(w)
  BY <1>1 DEF Quiet, RequestReprocess, WorkerLost, Redeliver
<1>3. CASE UNCHANGED vars
  BY <1>2, <1>3 DEF vars, counts, Quiet
<1>4. ASSUME NEW m \in Meetings, Api(m) \/ Enqueue(m)
      PROVE  UNCHANGED counts
  BY <1>2, <1>4 DEF Api, Upload, Delete, EnqueueFails, Enqueue
<1>5. ASSUME NEW w \in Workers, Take(w) \/ WorkerStep(w) \/ Disturb(w)
      PROVE  UNCHANGED counts
  <2>1. CASE Work(w)
    BY <2>1 DEF Work, Extract, SaveAudio, AudioRefused, Transcribe, Diarize, ReadTranscript,
                SaveIntelligence, Embed, Finalize, Reads, GoesOn
  <2>2. CASE Take(w)
    BY <2>2 DEF Take, Deliver
  <2>3. QED
    BY <1>2, <1>5, <2>1, <2>2
       DEF WorkerStep, BuildFails, NotProcessable, Load, Advance, IllegalJump, StageFails,
           RollBack, MarkFailed, MarkFails, Retry, GiveUp, Ack, Disturb, SoftLimit,
           SoftLimitSwallowed, HardLimit
<1>6. QED
  BY <1>2, <1>3, <1>4, <1>5 DEF Next, counts, Quiet

(* A step that sends nothing and starts no run leaves a meeting alone.        *)
LEMMA AloneKept ==
  ASSUME NEW m \in Meetings, Alone(m), UNCHANGED broker,
         \A v \in Workers : Carries(v, m)' => Carries(v, m)
  PROVE  Alone(m)'
<1>1. unsent' = unsent /\ queue' = queue
  BY DEF broker
<1>2. QED
  BY <1>1 DEF Alone, Queued

(* A worker that goes on with its meeting, or lets go of it, starts no run.   *)
LEMMA SameCarriers ==
  ASSUME TypeOK, NEW w \in Workers, NEW r, Becomes(w, r),
         \/ r.pc \in {"idle", "ack"}
         \/ run[w].pc \notin {"idle", "ack"} /\ r.m = run[w].m
  PROVE  \A m \in Meetings, v \in Workers : Carries(v, m)' => Carries(v, m)
<1>1. \A v \in Workers : run'[v] = IF v = w THEN r ELSE run[v]
  BY DEF Becomes, TypeOK, RunsOK
<1>2. QED
  BY <1>1 DEF Carries

LEMMA WorkCarriers ==
  ASSUME TypeOK, NEW w \in Workers, Work(w)
  PROVE  /\ UNCHANGED broker
         /\ \A m \in Meetings, v \in Workers : Carries(v, m)' => Carries(v, m)
<1> USE DEF WorksAt, PersistsAt
<1>0. run[w] \in Run /\ run[w].pc \in {"work", "persist"}
  BY DEF TypeOK, RunsOK, Work, Extract, SaveAudio, AudioRefused, Transcribe, Diarize,
         ReadTranscript, SaveIntelligence, Embed, Finalize
<1>1. UNCHANGED broker
  BY DEF Work, Extract, SaveAudio, AudioRefused, Transcribe, Diarize, ReadTranscript,
         SaveIntelligence, Embed, Finalize, Reads, GoesOn
<1>2. \E r : Becomes(w, r) /\ r.m = run[w].m
  <2>1. ASSUME NEW value, Reads(w, value)
        PROVE  \E r : Becomes(w, r) /\ r.m = run[w].m
    <3>1. [run[w] EXCEPT !.pc = "persist", !.snap = value].m = run[w].m
      BY <1>0 DEF Run
    <3>2. QED
      BY <2>1, <3>1 DEF Reads
  <2>2. ASSUME NEW mem, GoesOn(w, mem)
        PROVE  \E r : Becomes(w, r) /\ r.m = run[w].m
    <3>1. [run[w] EXCEPT !.pc = "advance", !.at = After[run[w].at], !.mem = mem, !.snap = 0].m
             = run[w].m
      BY <1>0 DEF Run
    <3>2. QED
      BY <2>2, <3>1 DEF GoesOn
  <2>3. ASSUME NEW p, Becomes(w, [run[w] EXCEPT !.pc = p])
        PROVE  \E r : Becomes(w, r) /\ r.m = run[w].m
    <3>1. [run[w] EXCEPT !.pc = p].m = run[w].m
      BY <1>0 DEF Run
    <3>2. QED
      BY <2>3, <3>1
  <2>4. QED
    BY <2>1, <2>2, <2>3 DEF Work, Extract, SaveAudio, AudioRefused, Transcribe, Diarize,
                            ReadTranscript, SaveIntelligence, Embed, Finalize
<1>3. QED
  BY <1>0, <1>1, <1>2, SameCarriers

(* The steps of a worker that publish nothing.                                *)
LEMMA StepCarriers ==
  ASSUME TypeOK, NEW w \in Workers, WorkerStep(w) \/ Disturb(w),
         ~Retry(w), ~WorkerLost(w), ~Redeliver(w)
  PROVE  /\ UNCHANGED broker
         /\ \A m \in Meetings, v \in Workers : Carries(v, m)' => Carries(v, m)
<1>0. run[w] \in Run
  BY DEF TypeOK, RunsOK
<1>1. CASE Work(w)
  BY <1>1, WorkCarriers
<1>2. ASSUME NEW p, Becomes(w, [run[w] EXCEPT !.pc = p]),
             p = "ack" \/ run[w].pc \notin {"idle", "ack"}
      PROVE  \A m \in Meetings, v \in Workers : Carries(v, m)' => Carries(v, m)
  <2>1. [run[w] EXCEPT !.pc = p].m = run[w].m /\ [run[w] EXCEPT !.pc = p].pc = p
    BY <1>0 DEF Run
  <2>2. QED
    BY <1>2, <2>1, SameCarriers
<1>3. CASE BuildFails(w) \/ NotProcessable(w) \/ IllegalJump(w) \/ StageFails(w) \/ MarkFails(w)
           \/ GiveUp(w)
  <2>1. UNCHANGED broker
    BY <1>3 DEF BuildFails, NotProcessable, IllegalJump, StageFails, MarkFails, GiveUp
  <2>2. \E p : Becomes(w, [run[w] EXCEPT !.pc = p]) /\ run[w].pc \notin {"idle", "ack"}
    BY <1>3 DEF BuildFails, NotProcessable, IllegalJump, StageFails, MarkFails, GiveUp
  <2>3. QED
    BY <1>2, <2>1, <2>2
<1>4. CASE MarkFailed(w)
  BY <1>2, <1>4 DEF MarkFailed
<1>5. CASE Ack(w) \/ HardLimit(w)
  <2>1. Becomes(w, Idle) /\ UNCHANGED broker
    BY <1>5 DEF Ack, HardLimit
  <2>2. QED
    BY <2>1, IdleRun, SameCarriers
<1>6. ASSUME NEW r, Becomes(w, r), r.m = run[w].m, run[w].pc \notin {"idle", "ack"}
      PROVE  \A m \in Meetings, v \in Workers : Carries(v, m)' => Carries(v, m)
  BY <1>6, SameCarriers
<1>7. CASE Load(w) \/ RollBack(w)
  <2>1. \A p : [run[w] EXCEPT !.pc = p, !.mem = status[run[w].m], !.err = reason[run[w].m]].m
                 = run[w].m
    BY <1>0 DEF Run
  <2>2. QED
    BY <1>6, <1>7, <2>1 DEF Load, RollBack
<1>8. CASE Advance(w)
  <2>1. [run[w] EXCEPT !.pc = "work", !.mem = run[w].at, !.err = FALSE].m = run[w].m
    BY <1>0 DEF Run
  <2>2. QED
    BY <1>6, <1>8, <2>1 DEF Advance
<1>9. CASE SoftLimit(w)
  <2>1. [run[w] EXCEPT !.pc = "failing", !.soft = TRUE].m = run[w].m
    BY <1>0 DEF Run
  <2>2. QED
    BY <1>6, <1>9, <2>1 DEF SoftLimit
<1>10. CASE SoftLimitSwallowed(w)
  <2>1. [run[w] EXCEPT !.pc = "advance", !.at = After[run[w].at], !.soft = TRUE,
                       !.mem = IF run[w].at = "embedding" THEN "expired" ELSE @].m = run[w].m
    BY <1>0 DEF Run
  <2>2. QED
    BY <1>6, <1>10, <2>1 DEF SoftLimitSwallowed, WorksAt
<1>11. QED
  BY <1>1, <1>3, <1>4, <1>5, <1>7, <1>8, <1>9, <1>10 DEF WorkerStep, Disturb

(* The next attempt replaces the one that failed.                             *)
LEMMA AloneRetry ==
  ASSUME TypeOK, NEW w \in Workers, Retry(w), NEW n \in Meetings, Alone(n)
  PROVE  Alone(n)'
<1> DEFINE r == [run[w] EXCEPT !.pc = "ack"]
<1>a. run[w] \in Run /\ run[w].m \in Meetings /\ run[w].tries + 1 \in 0..MaxRetries
  BY DEF TypeOK, RunsOK, Retry, Run
<1>b. PICK m \in Meetings, t \in 0..MaxRetries : m = run[w].m /\ t = run[w].tries + 1
  BY <1>a
<1>0. /\ run[w] \in Run /\ run[w].pc = "raise"
      /\ unsent' = unsent /\ queue' = [queue EXCEPT ![m][t] = @ + 1]
      /\ queue \in [Meetings -> [0..MaxRetries -> Nat]]
  BY <1>a, <1>b DEF TypeOK, DataOK, Retry
<1>1. r.pc = "ack" /\ Becomes(w, r)
  BY <1>0 DEF Run, Retry
<1> HIDE DEF r
<1>2. \A k \in Meetings, v \in Workers : Carries(v, k)' => Carries(v, k)
  BY <1>1, SameCarriers
<1>3. ~Carries(w, m)'
  BY <1>1 DEF Becomes, TypeOK, RunsOK, Carries
<1>4. Carries(w, m)
  BY <1>0, <1>b DEF Carries
<1>5. CASE n = m
  <2>0. Carries(w, n) /\ ~Carries(w, n)' /\ unsent[n] \in Nat
    BY <1>3, <1>4, <1>5 DEF TypeOK, DataOK
  <2>a. \A v \in Workers : Carries(v, n)' => Carries(v, n)
    BY <1>2
  <2>b. ~(unsent[n] > 0) /\ ~Queued(n) /\ \A v \in Workers : Carries(v, n) => v = w
    BY ZenonT(30), <2>0 DEF Alone
  <2>1. unsent[n] = 0 /\ ~Queued(n) /\ \A v \in Workers : ~Carries(v, n)'
    <3>1. unsent[n] = 0
      BY <2>0, <2>b
    <3>2. QED
      BY <2>0, <2>a, <2>b, <3>1
  <2>2. \A s \in 0..MaxRetries : queue'[n][s] = IF s = t THEN 1 ELSE 0
    BY <1>0, <1>5, <2>1 DEF Queued
  <2>3. QED
    BY <1>0, <2>1, <2>2 DEF Alone
<1>6. CASE n # m
  <2>1. queue'[n] = queue[n] /\ unsent'[n] = unsent[n]
    BY <1>0, <1>6
  <2>2. QED
    BY <1>2, <2>1 DEF Alone, Queued
<1>7. QED
  BY <1>5, <1>6

LEMMA AloneTake ==
  ASSUME TypeOK, NEW w \in Workers, Take(w), NEW n \in Meetings, Alone(n)
  PROVE  Alone(n)'
<1>1. PICK m \in Meetings, t \in 0..MaxRetries : Deliver(w, m, t)
  BY DEF Take
<1>2. /\ queue[m][t] > 0 /\ queue' = [queue EXCEPT ![m][t] = @ - 1] /\ unsent' = unsent
      /\ queue \in [Meetings -> [0..MaxRetries -> Nat]] /\ run[w].pc = "idle"
  BY <1>1 DEF Deliver, TypeOK, DataOK
<1>3. \A v \in Workers : run'[v] = IF v = w THEN Delivered(m, t) ELSE run[v]
  BY <1>1 DEF Deliver, Becomes, TypeOK, RunsOK
<1>4. Delivered(m, t).m = m /\ Delivered(m, t).pc = "build"
  BY DEF Delivered
<1>5. /\ \A v \in Workers : v # w => (Carries(v, n)' <=> Carries(v, n))
      /\ Carries(w, n)' <=> n = m
  BY <1>3, <1>4 DEF Carries
<1>6. CASE n = m
  <2>1. /\ ~(unsent[n] > 0) /\ \A v \in Workers : ~Carries(v, n)
        /\ \A s \in 0..MaxRetries : queue[n][s] > 0 => s = t /\ queue[n][t] = 1
    BY <1>2, <1>6 DEF Alone, Queued
  <2>2. queue[n][t] = 1
    BY <1>2, <1>6, <2>1
  <2>3. \A s \in 0..MaxRetries : ~(queue'[n][s] > 0)
    BY <1>2, <1>6, <2>1, <2>2
  <2>4. QED
    BY <1>2, <1>5, <2>1, <2>3 DEF Alone, Queued
<1>7. CASE n # m
  <2>1. queue'[n] = queue[n] /\ \A v \in Workers : Carries(v, n)' => Carries(v, n)
    BY <1>2, <1>5, <1>7
  <2>2. QED
    BY <1>2, <2>1 DEF Alone, Queued
<1>8. QED
  BY <1>6, <1>7

LEMMA AloneApi ==
  ASSUME TypeOK, NEW m \in Meetings, Api(m) \/ Enqueue(m), ~RequestReprocess(m),
         NEW n \in Meetings, Alone(n)
  PROVE  Alone(n)'
<1>0. /\ unsent \in [Meetings -> Nat] /\ queue \in [Meetings -> [0..MaxRetries -> Nat]]
      /\ run' = run
  BY DEF TypeOK, DataOK, Api, Upload, RequestReprocess, Delete, EnqueueFails, Enqueue
<1>1. \A k \in Meetings, v \in Workers : Carries(v, k)' <=> Carries(v, k)
  BY <1>0 DEF Carries
<1>2. CASE Upload(m)
  <2>1. unsent' = [unsent EXCEPT ![m] = @ + 1] /\ queue' = queue /\ status[m] = "absent"
    BY <1>2 DEF Upload
  <2>2. CASE n = m
    <3>1. unsent[n] = 0 /\ \A t \in 0..MaxRetries : queue[n][t] = 0
      BY <2>1, <2>2 DEF TypeOK, SentOK
    <3>2. \A v \in Workers : ~Carries(v, n)
      BY <2>1, <2>2 DEF TypeOK, RunsOK, Carries
    <3>3. QED
      BY <1>0, <1>1, <2>1, <2>2, <3>1, <3>2 DEF Alone, Queued
  <2>3. CASE n # m
    BY <1>0, <1>1, <2>1, <2>3 DEF Alone, Queued
  <2>4. QED
    BY <2>2, <2>3
<1>3. CASE Delete(m)
  BY <1>1, <1>3, AloneKept DEF Delete
<1>4. CASE EnqueueFails(m)
  <2>1. /\ unsent' = [unsent EXCEPT ![m] = @ - 1] /\ queue' = queue /\ unsent[m] > 0
    BY <1>4 DEF EnqueueFails
  <2>2. QED
    BY <1>0, <1>1, <2>1 DEF Alone, Queued
<1>5. CASE Enqueue(m)
  <2>1. /\ unsent' = [unsent EXCEPT ![m] = @ - 1] /\ queue' = [queue EXCEPT ![m][0] = @ + 1]
        /\ unsent[m] > 0
    BY <1>5 DEF Enqueue
  <2>2. CASE n = m
    <3>1. unsent[n] = 1 /\ ~Queued(n) /\ \A v \in Workers : ~Carries(v, n)
      BY <2>1, <2>2 DEF Alone
    <3>2. unsent'[n] = 0 /\ \A t \in 0..MaxRetries : queue'[n][t] = IF t = 0 THEN 1 ELSE 0
      BY <1>0, <2>1, <2>2, <3>1 DEF Queued
    <3>3. QED
      BY <1>1, <3>1, <3>2 DEF Alone
  <2>3. CASE n # m
    BY <1>0, <1>1, <2>1, <2>3 DEF Alone, Queued
  <2>4. QED
    BY <2>2, <2>3
<1>6. QED
  BY <1>2, <1>3, <1>4, <1>5 DEF Api

LEMMA AloneStep == TypeOK /\ AloneInv /\ [Next]_vars => AloneInv'
<1> SUFFICES ASSUME TypeOK, AloneInv, [Next]_vars, Quiet', NEW n \in Meetings
             PROVE  Alone(n)'
  BY DEF AloneInv, Quiet
<1>1. Alone(n)
  BY QuietBefore DEF AloneInv, Quiet
<1>2. ASSUME NEW m \in Meetings, Api(m) \/ Enqueue(m)
      PROVE  Alone(n)'
  BY <1>1, <1>2, QuietBefore, AloneApi
<1>3. ASSUME NEW w \in Workers, Take(w)
      PROVE  Alone(n)'
  BY <1>1, <1>3, AloneTake
<1>4. ASSUME NEW w \in Workers, WorkerStep(w) \/ Disturb(w)
      PROVE  Alone(n)'
  <2>1. CASE Retry(w)
    BY <1>1, <2>1, AloneRetry
  <2>2. CASE ~Retry(w)
    BY <1>1, <1>4, <2>2, QuietBefore, StepCarriers, AloneKept
  <2>3. QED
    BY <2>1, <2>2
<1>5. CASE UNCHANGED vars
  BY <1>1, <1>5, AloneKept DEF vars, Carries
<1>6. QED
  BY <1>2, <1>3, <1>4, <1>5 DEF Next

(* As long as nobody asked for a reprocess, no worker was lost and nothing    *)
(* was redelivered, no two of any number of workers hold the same meeting,    *)
(* however often its task failed and was retried.                             *)
THEOREM FirstTaskIsAlone == Spec => []FirstTaskAlone
<1>1. Init => AloneInv
  BY DEF Init, AloneInv, Alone, Queued, Carries, Idle
<1>2. TypeOK /\ AloneInv => FirstTaskAlone
  <2> SUFFICES ASSUME TypeOK, AloneInv, Quiet, NEW v \in Workers, NEW w \in Workers,
                      v # w, Holding(run[v]), Holding(run[w]), run[v].m = run[w].m
               PROVE  FALSE
    BY DEF FirstTaskAlone, RunsApart, Quiet
  <2>1. /\ run[v].m \in Meetings
        /\ Carries(v, run[v].m) /\ Carries(w, run[v].m)
    BY DEF Holding, Running, Carries, TypeOK, RunsOK
  <2>2. QED
    BY <2>1 DEF AloneInv, Quiet, Alone
<1>3. QED
  BY <1>1, <1>2, AloneStep, TypeCorrect, PTL DEF Spec

(* So whatever the number of workers and however stages and attempts fail,    *)
(* the rows of a meeting fit together until the first reprocess, worker loss  *)
(* or redelivery.                                                             *)
THEOREM FirstTaskConsistent ==
  Spec => [](requests = 0 /\ faults = 0 => FreshWhenCompleted /\ ReasonIffFailed
                                            /\ NoAudioCollision)
<1>1. Init => (Quiet => RowsInv)
  BY RowsInit
<1>2. TypeOK /\ FirstTaskAlone /\ (Quiet => RowsInv) /\ [Next]_vars => (Quiet => RowsInv)'
  <2> SUFFICES ASSUME TypeOK, FirstTaskAlone, Quiet => RowsInv, [Next]_vars, Quiet'
               PROVE  RowsInv'
    OBVIOUS
  <2>1. Quiet
    BY QuietBefore
  <2>2. RunsApart
    BY <2>1 DEF FirstTaskAlone, Quiet
  <2>3. QED
    BY <2>1, <2>2, RowsNext
<1>3. (Quiet => RowsInv) => (requests = 0 /\ faults = 0 => FreshWhenCompleted
                              /\ ReasonIffFailed /\ NoAudioCollision)
  BY DEF Quiet, RowsInv, KnowsRow, NoAudioCollision, PersistsAt, AudioCollides
<1>4. QED
  BY <1>1, <1>2, <1>3, TypeCorrect, FirstTaskIsAlone, PTL DEF Spec

=============================================================================
