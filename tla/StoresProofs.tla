----------------------------- MODULE StoresProofs -----------------------------
(***************************************************************************)
(* Proofs about what a meeting keeps in two stores, for any number of      *)
(* meetings, runs, transcripts and chunks.  The upload and the embeddings  *)
(* share no variable: each has its invariant, and a step of one leaves     *)
(* that of the other alone.                                                *)
(***************************************************************************)
EXTENDS Stores, TLAPS

USE IndexAssumption

-----------------------------------------------------------------------------
(* The upload. *)

UploadInv == UploadOK /\ RequestInv

LEMMA UploadStepKeeps ==
  ASSUME UploadInv, NEW m \in Meetings, UploadStep(m)
  PROVE  UploadInv'
<1> USE DEF UploadInv, UploadOK, RequestInv, Progress, Moves
<1>1. CASE Receive(m)
  BY <1>1 DEF Receive
<1>2. CASE Store(m)
  BY <1>2 DEF Store
<1>3. CASE StoreRaises(m)
  BY <1>3 DEF StoreRaises
<1>4. CASE Reject(m)
  BY <1>4 DEF Reject
<1>5. CASE Commit(m)
  BY <1>5 DEF Commit
<1>6. CASE Undo(m)
  BY <1>6 DEF Undo
<1>7. CASE UndoRaises(m)
  BY <1>7 DEF UndoRaises
<1>8. CASE Crash(m)
  BY <1>8 DEF Crash
<1>9. QED
  BY <1>1, <1>2, <1>3, <1>4, <1>5, <1>6, <1>7, <1>8 DEF UploadStep

LEMMA UploadInvHolds == Spec => []UploadInv
<1>1. Init => UploadInv
  BY DEF Init, UploadInit, UploadInv, UploadOK, RequestInv, Progress
<1>2. UploadInv /\ [Next]_vars => UploadInv'
  <2> SUFFICES ASSUME UploadInv, [Next]_vars PROVE UploadInv'
    OBVIOUS
  <2>1. ASSUME NEW m \in Meetings, Uploads(m) PROVE UploadInv'
    BY <2>1, UploadStepKeeps DEF Uploads
  <2>2. CASE UNCHANGED uploadVars
    BY <2>2 DEF uploadVars, UploadInv, UploadOK, RequestInv
  <2>3. QED
    BY <2>1, <2>2 DEF Next, Processes, Embeds, vars
<1>3. QED
  BY <1>1, <1>2, PTL DEF Spec

(* No row is ever without its recording, whatever raises or dies on the way.  *)
THEOREM UploadKeepsObject == Spec => []RowHasObject
<1>1. UploadInv => RowHasObject
  BY DEF UploadInv, UploadOK, RequestInv, RowHasObject
<1>2. QED
  BY <1>1, UploadInvHolds, PTL

(* Once an upload request has answered there are both or neither.             *)
THEOREM UploadKeepsBoth == Spec => []AgreeAtRest
<1>1. UploadInv => AgreeAtRest
  BY DEF UploadInv, UploadOK, RequestInv, AgreeAtRest
<1>2. QED
  BY <1>1, UploadInvHolds, PTL

-----------------------------------------------------------------------------
(* The embeddings. *)

IndexInv == IndexOK /\ TwinsInv

(* Vectors of a text that a run has read are vectors.                         *)
LEMMA ChunkVectors ==
  ASSUME NEW text \in Text, text.version > 0
  PROVE  ChunksOf(text) \subseteq Vector
BY DEF ChunksOf, Vector, Index, Text

LEMMA UpsertedVectors ==
  ASSUME NEW text \in Text, text.version > 0, NEW old \in SUBSET Vector
  PROVE  Upserted(old, text) \in SUBSET Vector
BY ChunkVectors DEF Upserted

(* The rows of a commit are a complete set, and new.                          *)
LEMMA NewRows ==
  ASSUME NEW text \in Text, text.version > 0, commits \in Nat, commits < MaxCommits
  PROVE  /\ NewTwins(text) \subseteq Twin
         /\ \A t \in NewTwins(text) : t.commit = commits + 1
         /\ \A t \in NewTwins(text) : \A i \in 0..t.index : \E c \in NewTwins(text) : c.index = i
<1> DEFINE Rows == {[index |-> i, version |-> text.version, commit |-> commits + 1] :
                      i \in 0..(text.chunks - 1)}
<1>1. NewTwins(text) = Rows
  <2>1. ASSUME NEW i \in 0..(text.chunks - 1)
        PROVE  /\ [index |-> i, version |-> text.version] \in ChunksOf(text)
               /\ [index |-> i, version |-> text.version, commit |-> commits + 1] \in NewTwins(text)
    <3> DEFINE v == [index |-> i, version |-> text.version]
    <3>1. v \in ChunksOf(text) /\ v.index = i /\ v.version = text.version
      BY DEF ChunksOf
    <3>2. [index |-> v.index, version |-> v.version, commit |-> commits + 1] \in NewTwins(text)
      BY <3>1 DEF NewTwins
    <3>3. QED
      BY <3>1, <3>2
  <2>2. ASSUME NEW t \in NewTwins(text) PROVE t \in Rows
    BY DEF NewTwins, ChunksOf
  <2>3. QED
    BY <2>1, <2>2
<1>2. text.chunks \in 0..MaxChunks /\ text.version \in 1..MaxTranscripts
  BY DEF Text
<1>3. ASSUME NEW t \in NewTwins(text) PROVE t \in Twin /\ t.commit = commits + 1
  <2>1. PICK k \in 0..(text.chunks - 1) :
          t = [index |-> k, version |-> text.version, commit |-> commits + 1]
    BY <1>1
  <2>2. k \in Index /\ commits + 1 \in 1..MaxCommits
    BY <1>2 DEF Index
  <2>3. QED
    BY <2>1, <2>2, <1>2 DEF Twin
<1>4. ASSUME NEW t \in NewTwins(text), NEW i \in 0..t.index
      PROVE  \E c \in NewTwins(text) : c.index = i
  <2>1. PICK k \in 0..(text.chunks - 1) :
          t = [index |-> k, version |-> text.version, commit |-> commits + 1]
    BY <1>1
  <2>2. i \in 0..(text.chunks - 1)
    BY <2>1, <1>2, <1>4
  <2>3. [index |-> i, version |-> text.version, commit |-> commits + 1] \in NewTwins(text)
    BY <2>2, <1>1
  <2>4. QED
    BY <2>3
<1>5. QED
  BY <1>3, <1>4

(* What is left of the rows once the DELETE of a run is applied: all or none. *)
LEMMA LeftRows ==
  ASSUME IndexInv, NEW w \in Workers, job[w].pc \in {"dropped", "upserted"}
  PROVE  Left(w) = {} \/ Left(w) = twins[job[w].m]
BY DEF IndexInv, TwinsInv, AllOrNothing, Left

(* chunk_position lets a run insert only where no row is left.                *)
LEMMA InsertsIntoNone ==
  ASSUME IndexInv, NEW w \in Workers, job[w].pc = "upserted", ~ChunkPositionTaken(w)
  PROVE  Left(w) = {}
<1> SUFFICES ASSUME Left(w) # {} PROVE FALSE
  OBVIOUS
<1>1. Left(w) = twins[job[w].m] /\ job[w].m \in Meetings
  BY LeftRows DEF IndexInv, IndexOK
<1>2. PICK t \in Left(w) : TRUE
  OBVIOUS
<1>3. t.index \in Nat
  BY <1>1, <1>2 DEF IndexInv, IndexOK, Twin, Index
<1>4. PICK c \in twins[job[w].m] : c.index = 0
  BY <1>1, <1>2, <1>3 DEF IndexInv, TwinsInv, OneTwinSet
<1>5. job[w].text.chunks > 0
  BY DEF IndexInv, TwinsInv
<1>6. QED
  BY <1>1, <1>4, <1>5 DEF ChunkPositionTaken

(* A step that changes no rows, and what the runs read of them in no way.     *)
LEMMA RowsStay ==
  ASSUME IndexInv, IndexOK', UNCHANGED <<twins, commits>>, NEW w \in Workers,
         \A v \in Workers : v # w => job'[v] = job[v],
         \A t \in job'[w].gone : t.commit <= commits,
         job'[w].pc = "upserted" => job'[w].text.chunks > 0,
         job'[w].pc \in {"dropped", "upserted"} =>
           \/ job'[w].gone = twins[job'[w].m]
           \/ job'[w].gone \intersect twins[job'[w].m] = {}
  PROVE  IndexInv'
<1>1. OneTwinSet'
  BY DEF IndexInv, TwinsInv, OneTwinSet
<1>2. ASSUME NEW v \in Workers
      PROVE  /\ \A t \in job'[v].gone : t.commit <= commits'
             /\ job'[v].pc = "upserted" => job'[v].text.chunks > 0
             /\ job'[v].pc \in {"dropped", "upserted"} => AllOrNothing(job[v])'
  <2>1. CASE v = w
    BY <2>1 DEF AllOrNothing
  <2>2. CASE v # w
    BY <2>2 DEF IndexInv, TwinsInv, AllOrNothing
  <2>3. QED
    BY <2>1, <2>2
<1>3. QED
  BY <1>1, <1>2 DEF IndexInv, TwinsInv

(* A meeting's rows are replaced by a complete new set, or by none.           *)
LEMMA RowsReplaced ==
  ASSUME IndexInv, IndexOK', NEW w \in Workers, job[w].pc \in {"dropped", "upserted"},
         job' = [job EXCEPT ![w] = Idle],
         NEW rows \in SUBSET Twin, twins' = [twins EXCEPT ![job[w].m] = rows],
         \/ commits' = commits /\ (rows = {} \/ rows = twins[job[w].m])
         \/ /\ commits' = commits + 1
            /\ \A t \in rows : t.commit = commits + 1
            /\ \A t \in rows : \A i \in 0..t.index : \E c \in rows : c.index = i
  PROVE  IndexInv'
<1> DEFINE m == job[w].m
<1>1. m \in Meetings /\ commits \in Nat /\ commits' >= commits /\ commits' \in Nat
  BY DEF IndexInv, IndexOK
<1>2. twins'[m] = rows /\ \A n \in Meetings : n # m => twins'[n] = twins[n]
  BY <1>1 DEF IndexInv, IndexOK
<1>3. OneTwinSet'
  BY <1>1, <1>2 DEF IndexInv, TwinsInv, OneTwinSet
<1>4. ASSUME NEW n \in Meetings, NEW t \in twins'[n] PROVE t.commit <= commits'
  <2>1. \A u \in twins[n] : u.commit \in Nat /\ u.commit <= commits
    BY DEF IndexInv, IndexOK, TwinsInv, Twin
  <2>2. QED
    BY <2>1, <1>1, <1>2
<1>5. job'[w] = Idle /\ \A v \in Workers : v # w => job'[v] = job[v]
  BY DEF IndexInv, IndexOK
<1>6. ASSUME NEW v \in Workers
      PROVE  /\ \A t \in job'[v].gone : t.commit <= commits'
             /\ job'[v].pc = "upserted" => job'[v].text.chunks > 0
             /\ job'[v].pc \in {"dropped", "upserted"} => AllOrNothing(job[v])'
  <2>1. CASE v = w
    BY <2>1, <1>5 DEF Idle
  <2>2. CASE v # w
    <3>1. job'[v] = job[v] /\ job[v].gone \in SUBSET Twin
      BY <2>2, <1>5 DEF IndexInv, IndexOK, Job
    <3>2. \A t \in job[v].gone : t.commit \in Nat /\ t.commit <= commits
      BY <3>1 DEF IndexInv, TwinsInv, Twin
    <3>3. \A t \in job'[v].gone : t.commit <= commits'
      BY <3>1, <3>2, <1>1
    <3>4. ASSUME job[v].pc \in {"dropped", "upserted"} PROVE AllOrNothing(job[v])'
      <4>1. job[v].m \in Meetings /\ AllOrNothing(job[v])
        BY <3>4 DEF IndexInv, IndexOK, TwinsInv
      <4>2. CASE job[v].m # m \/ rows = twins[m]
        BY <4>1, <4>2, <3>1, <1>2 DEF AllOrNothing
      <4>3. CASE job[v].m = m /\ rows # twins[m]
        <5>1. \A t \in rows : t \notin job[v].gone
          BY <4>3, <3>2, <1>1
        <5>2. QED
          BY <5>1, <4>3, <3>1, <1>2 DEF AllOrNothing
      <4>4. QED
        BY <4>2, <4>3
    <3>5. QED
      BY <3>1, <3>3, <3>4 DEF IndexInv, TwinsInv
  <2>3. QED
    BY <2>1, <2>2
<1>7. QED
  BY <1>3, <1>4, <1>6 DEF IndexInv, TwinsInv

-----------------------------------------------------------------------------
(* Every step keeps the invariant. *)

LEMMA MeetingStepKeeps ==
  ASSUME IndexInv, NEW m \in Meetings, Transcribe(m) \/ SoftDelete(m)
  PROVE  IndexInv'
<1>1. IndexOK'
  <2>1. CASE Transcribe(m)
    <3>1. PICK n \in 0..MaxChunks : transcript' =
            [transcript EXCEPT ![m] = [version |-> @.version + 1, chunks |-> n]]
      BY <2>1 DEF Transcribe
    <3>2. [version |-> transcript[m].version + 1, chunks |-> n] \in Text
      BY <2>1 DEF Transcribe, IndexInv, IndexOK, Text
    <3>3. transcript' \in [Meetings -> Text]
      BY <3>1, <3>2 DEF IndexInv, IndexOK
    <3>4. QED
      BY <3>3, <2>1 DEF Transcribe, IndexInv, IndexOK
  <2>2. CASE SoftDelete(m)
    BY <2>2 DEF SoftDelete, IndexInv, IndexOK
  <2>3. QED
    BY <2>1, <2>2
<1>2. UNCHANGED <<twins, commits, job>>
  BY DEF Transcribe, SoftDelete
<1>3. TwinsInv'
  BY <1>2 DEF IndexInv, TwinsInv, OneTwinSet, AllOrNothing
<1>4. QED
  BY <1>1, <1>3 DEF IndexInv

LEMMA ReadKeeps ==
  ASSUME IndexInv, NEW m \in Meetings, NEW w \in Workers, ReadSegments(w, m)
  PROVE  IndexInv'
<1> DEFINE j == [Idle EXCEPT !.pc = "read", !.m = m, !.text = transcript[m]]
<1>1. job' = [job EXCEPT ![w] = j] /\ transcript[m] \in Text /\ transcript[m].version > 0
  BY DEF ReadSegments, IndexInv, IndexOK
<1>2. j \in Job /\ j.pc = "read" /\ j.m = m /\ j.text = transcript[m] /\ j.gone = {}
  BY <1>1 DEF Idle, Job
<1>3. job'[w] = j /\ \A v \in Workers : v # w => job'[v] = job[v]
  BY <1>1 DEF IndexInv, IndexOK
<1>4. IndexOK'
  BY <1>1, <1>2, <1>3 DEF ReadSegments, IndexInv, IndexOK
<1>5. QED
  BY <1>2, <1>3, <1>4, RowsStay DEF ReadSegments

(* The record of a run between two steps of embed_meeting.                    *)
LEMMA RunRow ==
  ASSUME IndexInv, NEW w \in Workers, job[w].pc # "idle"
  PROVE  /\ job[w].m \in Meetings /\ job[w].text \in Text /\ job[w].text.version > 0
         /\ job[w].gone \in SUBSET Twin
         /\ vectors[job[w].m] \in SUBSET Vector /\ twins[job[w].m] \in SUBSET Twin
         /\ commits \in Nat
BY DEF IndexInv, IndexOK, Job

LEMMA EndedRow ==
  ASSUME IndexInv, NEW w \in Workers, job[w].pc # "idle", NEW text \in Text,
         EndsWith(w, text)
  PROVE  /\ indexed' \in [Meetings -> Text]
         /\ job' = [job EXCEPT ![w] = Idle]
         /\ job' \in [Workers -> Job]
         /\ job'[w] = Idle /\ \A v \in Workers : v # w => job'[v] = job[v]
         /\ \A v \in Workers : job'[v].pc # "idle" =>
              job'[v].m \in Meetings /\ job'[v].text.version > 0
<1>1. Idle \in Job /\ Idle.pc = "idle"
  BY DEF Idle, Job, NoText, Text
<1>2. QED
  BY <1>1, RunRow DEF EndsWith, IndexInv, IndexOK

LEMMA ClearKeeps ==
  ASSUME IndexInv, NEW w \in Workers, ClearVectors(w)
  PROVE  IndexInv'
<1>1. job' = [job EXCEPT ![w].pc = "cleared"] /\ job[w].pc = "read"
  BY DEF ClearVectors
<1>2. job'[w] = [job[w] EXCEPT !.pc = "cleared"] /\ \A v \in Workers : v # w => job'[v] = job[v]
  BY <1>1 DEF IndexInv, IndexOK
<1>3. IndexOK'
  BY <1>1, <1>2, RunRow DEF ClearVectors, IndexInv, IndexOK, Job
<1>4. job'[w].gone = job[w].gone /\ job'[w].pc = "cleared"
  BY <1>2 DEF IndexInv, IndexOK, Job
<1>5. QED
  BY <1>2, <1>3, <1>4, RowsStay DEF ClearVectors, IndexInv, TwinsInv

LEMMA DropKeeps ==
  ASSUME IndexInv, NEW w \in Workers, DropTwins(w)
  PROVE  IndexInv'
<1> DEFINE m == job[w].m
<1>1. job[w].pc = "cleared" /\ UNCHANGED <<twins, commits>>
  BY DEF DropTwins
<1>2. /\ job'[w] = [job[w] EXCEPT !.pc = "dropped", !.gone = twins[m]]
      /\ \A v \in Workers : v # w => job'[v] = job[v]
  BY DEF DropTwins, IndexInv, IndexOK
<1>3. job'[w].pc = "dropped" /\ job'[w].m = m /\ job'[w].text = job[w].text /\ job'[w].gone = twins[m]
  BY <1>2 DEF IndexInv, IndexOK, Job
<1>4. job'[w] \in Job
  BY <1>1, <1>2, RunRow DEF IndexInv, IndexOK, Job
<1>5. IndexOK'
  BY <1>1, <1>2, <1>3, <1>4, RunRow DEF DropTwins, IndexInv, IndexOK
<1>6. \A t \in twins[m] : t.commit <= commits
  BY <1>1, RunRow DEF IndexInv, TwinsInv
<1>7. QED
  BY <1>1, <1>2, <1>3, <1>5, <1>6, RowsStay

LEMMA UpsertKeeps ==
  ASSUME IndexInv, NEW w \in Workers, UpsertVectors(w)
  PROVE  IndexInv'
<1> DEFINE m == job[w].m
<1>1. job[w].pc = "dropped" /\ job[w].text.chunks > 0 /\ UNCHANGED <<twins, commits>>
  BY DEF UpsertVectors
<1>2. job'[w] = [job[w] EXCEPT !.pc = "upserted"] /\ \A v \in Workers : v # w => job'[v] = job[v]
  BY DEF UpsertVectors, IndexInv, IndexOK
<1>3. /\ job'[w].pc = "upserted" /\ job'[w].m = m
      /\ job'[w].text = job[w].text /\ job'[w].gone = job[w].gone
  BY <1>2 DEF IndexInv, IndexOK, Job
<1>4. job'[w] \in Job
  BY <1>1, <1>2, RunRow DEF IndexInv, IndexOK, Job
<1>5. Upserted(vectors[m], job[w].text) \in SUBSET Vector
  BY <1>1, RunRow, UpsertedVectors
<1>6. IndexOK'
  BY <1>1, <1>2, <1>3, <1>4, <1>5, RunRow DEF UpsertVectors, IndexInv, IndexOK
<1>7. (\A t \in job[w].gone : t.commit <= commits) /\ AllOrNothing(job[w])
  BY <1>1 DEF IndexInv, TwinsInv
<1>8. QED
  BY <1>1, <1>2, <1>3, <1>6, <1>7, RowsStay DEF AllOrNothing

LEMMA CommitKeeps ==
  ASSUME IndexInv, NEW w \in Workers, CommitTwins(w)
  PROVE  IndexInv'
<1> DEFINE m == job[w].m
           rows == NewTwins(job[w].text)
<1>1. job[w].pc = "upserted" /\ commits < MaxCommits /\ commits' = commits + 1
  BY DEF CommitTwins
<1>2. twins' = [twins EXCEPT ![m] = rows]
  BY <1>1, InsertsIntoNone DEF CommitTwins
<1>3. /\ rows \in SUBSET Twin
      /\ \A t \in rows : t.commit = commits + 1
      /\ \A t \in rows : \A i \in 0..t.index : \E c \in rows : c.index = i
  BY <1>1, RunRow, NewRows
<1>4. EndsWith(w, job[w].text) /\ job[w].text \in Text
  BY <1>1, RunRow DEF CommitTwins
<1>5. IndexOK'
  BY <1>1, <1>2, <1>3, <1>4, EndedRow DEF CommitTwins, IndexInv, IndexOK
<1>6. job' = [job EXCEPT ![w] = Idle]
  BY <1>1, <1>4, EndedRow
<1>7. QED
  BY <1>1, <1>2, <1>3, <1>5, <1>6, RowsReplaced

LEMMA NoChunksKeeps ==
  ASSUME IndexInv, NEW w \in Workers, CommitNoChunks(w)
  PROVE  IndexInv'
<1> DEFINE m == job[w].m
<1>1. job[w].pc = "dropped" /\ commits' = commits /\ twins' = [twins EXCEPT ![m] = Left(w)]
  BY DEF CommitNoChunks
<1>2. Left(w) \in SUBSET Twin /\ (Left(w) = {} \/ Left(w) = twins[m])
  BY <1>1, RunRow, LeftRows
<1>3. EndsWith(w, job[w].text) /\ job[w].text \in Text
  BY <1>1, RunRow DEF CommitNoChunks
<1>4. IndexOK'
  BY <1>1, <1>2, <1>3, EndedRow DEF CommitNoChunks, IndexInv, IndexOK
<1>5. job' = [job EXCEPT ![w] = Idle]
  BY <1>1, <1>3, EndedRow
<1>6. QED
  BY <1>1, <1>2, <1>4, <1>5, RowsReplaced

LEMMA FailureKeeps ==
  ASSUME IndexInv, NEW w \in Workers, CommitRefused(w) \/ EmbedFails(w)
  PROVE  IndexInv'
<1> DEFINE m == job[w].m
<1>1. job[w].pc # "idle" /\ EndsWith(w, NoText) /\ UNCHANGED <<twins, commits>>
  BY DEF CommitRefused, EmbedFails
<1>2. NoText \in Text
  BY DEF NoText, Text
<1>3. Upserted(vectors[m], job[w].text) \in SUBSET Vector
  BY <1>1, RunRow, UpsertedVectors
<1>4. vectors' \in [Meetings -> SUBSET Vector]
  BY <1>1, <1>3 DEF CommitRefused, EmbedFails, IndexInv, IndexOK
<1>5. IndexOK'
  BY <1>1, <1>2, <1>4, EndedRow DEF CommitRefused, EmbedFails, IndexInv, IndexOK
<1>6. job'[w] = Idle /\ \A v \in Workers : v # w => job'[v] = job[v]
  BY <1>1, <1>2, EndedRow
<1>7. QED
  BY <1>1, <1>5, <1>6, RowsStay DEF Idle

LEMMA IndexInvHolds == Spec => []IndexInv
<1>1. Init => IndexInv
  <2>1. IndexInit => IndexOK
    BY DEF IndexInit, IndexOK, Idle, Job, NoText, Text
  <2>2. IndexInit => TwinsInv
    BY DEF IndexInit, TwinsInv, OneTwinSet, Idle
  <2>3. QED
    BY <2>1, <2>2 DEF Init, IndexInv
<1>2. IndexInv /\ [Next]_vars => IndexInv'
  <2> SUFFICES ASSUME IndexInv, [Next]_vars PROVE IndexInv'
    OBVIOUS
  <2>1. CASE UNCHANGED indexVars
    BY <2>1 DEF indexVars, IndexInv, IndexOK, TwinsInv, OneTwinSet, AllOrNothing
  <2>2. ASSUME NEW m \in Meetings, Processes(m) PROVE IndexInv'
    BY <2>2, MeetingStepKeeps, ReadKeeps DEF Processes
  <2>3. ASSUME NEW w \in Workers, Embeds(w) PROVE IndexInv'
    BY <2>3, ClearKeeps, DropKeeps, UpsertKeeps, CommitKeeps, NoChunksKeeps, FailureKeeps
       DEF Embeds, EmbedStep
  <2>4. QED
    BY <2>1, <2>2, <2>3 DEF Next, Uploads, vars
<1>3. QED
  BY <1>1, <1>2, PTL DEF Spec

(* Types of all variables; a run that embeds has a meeting and a transcript.  *)
THEOREM StoresTypeCorrect == Spec => []TypeOK
<1>1. UploadInv /\ IndexInv => TypeOK
  BY DEF UploadInv, IndexInv, TypeOK
<1>2. QED
  BY <1>1, UploadInvHolds, IndexInvHolds, PTL

(* However many runs embed a meeting at once, and whatever fails, its rows in *)
(* Postgres are the complete set of one run.                                  *)
THEOREM TwinsAreWhole == Spec => []OneTwinSet
<1>1. IndexInv => OneTwinSet
  BY DEF IndexInv, TwinsInv
<1>2. QED
  BY <1>1, IndexInvHolds, PTL

-----------------------------------------------------------------------------
(* Where no two embeddings of a meeting overlap. *)

Agree(m) ==
  /\ vectors[m] = ChunksOf(indexed[m])
  /\ {[index |-> t.index, version |-> t.version] : t \in twins[m]} = vectors[m]

OneText(m) == \A a, b \in vectors[m] : a.version = b.version

(* What is left of AloneInv for a meeting that run w has taken a step with.   *)
Fits(w, m) ==
  /\ OneText(m)
  /\ job[w].pc # "idle" => Progressed(job[w])
  /\ job[w].pc = "idle" /\ indexed[m].version > 0 => Agree(m)

LEMMA AloneStep ==
  ASSUME IndexInv, AloneInv, NEW w \in Workers, NEW m \in Meetings,
         alone' \subseteq alone, \A v \in Workers : v # w => job'[v] = job[v],
         job[w].pc = "idle" \/ job[w].m = m, job'[w].pc = "idle" \/ job'[w].m = m,
         \A n \in Meetings : n # m =>
           vectors'[n] = vectors[n] /\ twins'[n] = twins[n] /\ indexed'[n] = indexed[n],
         m \in alone' => \A v \in Workers : job[v].pc # "idle" /\ job[v].m = m => v = w,
         m \in alone' => Fits(w, m)'
  PROVE  AloneInv'
<1>0. alone \subseteq Meetings
  BY DEF IndexInv, IndexOK
<1>1. ASSUME NEW n \in alone', n # m
      PROVE  /\ Embedding(n)' <=> Embedding(n)
             /\ OneText(n)'
             /\ indexed'[n].version > 0 /\ ~Embedding(n)' => Agree(n)'
  <2>1. Embedding(n)' <=> Embedding(n)
    BY <1>1 DEF Embedding
  <2>2. OneText(n) /\ (indexed[n].version > 0 /\ ~Embedding(n) => Agree(n))
    BY <1>1 DEF AloneInv, OneTextFound, Found, StoresAgree, OneText, Agree
  <2>3. n \in Meetings
    BY <1>0, <1>1
  <2>4. QED
    BY <1>1, <2>1, <2>2, <2>3 DEF OneText, Agree
<1>2. ASSUME m \in alone'
      PROVE  /\ OneText(m)'
             /\ indexed'[m].version > 0 /\ ~Embedding(m)' => Agree(m)'
  BY <1>2 DEF Fits, Embedding
<1>3. ASSUME NEW v \in Workers, job'[v].pc # "idle", job'[v].m \in alone'
      PROVE  /\ Progressed(job[v])'
             /\ \A u \in Workers : job'[u].pc # "idle" /\ job'[u].m = job'[v].m => u = v
  <2>1. CASE v = w
    BY <1>3, <2>1 DEF Fits
  <2>2. CASE v # w
    <3>1. /\ job'[v] = job[v] /\ job[v].pc # "idle" /\ job[v].m \in alone
          /\ job[v].m \in Meetings /\ job[v].m # m
      BY <1>0, <1>3, <2>2
    <3>2. /\ Progressed(job[v])
          /\ \A u \in Workers : job[u].pc # "idle" /\ job[u].m = job[v].m => u = v
      BY <3>1 DEF AloneInv
    <3>3. Progressed(job[v])'
      BY <3>1, <3>2 DEF Progressed
    <3>4. QED
      BY <3>1, <3>2, <3>3
  <2>3. QED
    BY <2>1, <2>2
<1>4. QED
  BY <1>1, <1>2, <1>3 DEF AloneInv, OneTextFound, Found, StoresAgree, OneText, Agree

(* The rows of a commit are the chunks of the text.                           *)
LEMMA NewRowsMatch ==
  ASSUME NEW text
  PROVE  {[index |-> t.index, version |-> t.version] : t \in NewTwins(text)} = ChunksOf(text)
<1> DEFINE Shown(t) == [index |-> t.index, version |-> t.version]
<1>1. ASSUME NEW t \in NewTwins(text) PROVE Shown(t) \in ChunksOf(text)
  BY DEF NewTwins, ChunksOf
<1>2. ASSUME NEW v \in ChunksOf(text) PROVE \E t \in NewTwins(text) : Shown(t) = v
  <2>1. PICK i \in 0..(text.chunks - 1) : v = [index |-> i, version |-> text.version]
    BY DEF ChunksOf
  <2> DEFINE t == [index |-> v.index, version |-> v.version, commit |-> commits + 1]
  <2>2. t \in NewTwins(text)
    BY DEF NewTwins
  <2>3. Shown(t) = v
    BY <2>1
  <2>4. QED
    BY <2>2, <2>3
<1>3. QED
  BY <1>1, <1>2

LEMMA ChunksAreOneText ==
  ASSUME NEW text
  PROVE  /\ \A a, b \in ChunksOf(text) : a.version = b.version
         /\ Upserted({}, text) = ChunksOf(text)
         /\ text.chunks = 0 => ChunksOf(text) = {}
BY DEF ChunksOf, Upserted

(* A run that goes on with its meeting.                                       *)
LEMMA AloneRuns ==
  ASSUME IndexInv, AloneInv, NEW w \in Workers,
         ClearVectors(w) \/ DropTwins(w) \/ UpsertVectors(w)
  PROVE  AloneInv'
<1>0. PICK m \in Meetings : m = job[w].m
  BY RunRow DEF ClearVectors, DropTwins, UpsertVectors
<1>1. /\ job[w].pc # "idle" /\ alone' = alone /\ UNCHANGED <<twins, indexed>>
      /\ vectors \in [Meetings -> SUBSET Vector]
  BY DEF ClearVectors, DropTwins, UpsertVectors, IndexInv, IndexOK
<1>2. /\ \A v \in Workers : v # w => job'[v] = job[v]
      /\ job'[w].m = m /\ job'[w].text = job[w].text /\ job'[w].pc # "idle"
      /\ job'[w].pc = "dropped" => job'[w].gone = twins[m]
      /\ job'[w].pc = "upserted" => job'[w].gone = job[w].gone
  BY <1>0 DEF ClearVectors, DropTwins, UpsertVectors, IndexInv, IndexOK, Job
<1>3. \A n \in Meetings : n # m => vectors'[n] = vectors[n]
  BY <1>0, <1>1 DEF ClearVectors, DropTwins, UpsertVectors
<1>4. ASSUME m \in alone
      PROVE  /\ OneText(m) /\ Progressed(job[w])
             /\ \A v \in Workers : job[v].pc # "idle" /\ job[v].m = m => v = w
  BY <1>0, <1>1, <1>4 DEF AloneInv, OneTextFound, Found, OneText
<1>5. ASSUME m \in alone
      PROVE  Fits(w, m)'
  <2>1. CASE ClearVectors(w)
    <3>1. vectors'[m] = {} /\ job'[w].pc = "cleared"
      BY <1>0, <1>1, <2>1 DEF ClearVectors, IndexInv, IndexOK, Job
    <3>2. QED
      BY <1>2, <3>1 DEF Fits, OneText, Progressed
  <2>2. CASE DropTwins(w)
    <3>1. vectors'[m] = {} /\ job'[w].pc = "dropped"
      BY <1>0, <1>4, <1>5, <2>2 DEF DropTwins, IndexInv, IndexOK, Job, Progressed
    <3>2. QED
      BY <1>1, <1>2, <3>1 DEF Fits, OneText, Progressed
  <2>3. CASE UpsertVectors(w)
    <3>1. vectors[m] = {} /\ job[w].gone = twins[m]
      BY <1>0, <1>4, <1>5, <2>3 DEF UpsertVectors, Progressed
    <3>2. vectors'[m] = ChunksOf(job[w].text) /\ job'[w].pc = "upserted"
      BY <1>0, <1>1, <2>3, <3>1, ChunksAreOneText DEF UpsertVectors, IndexInv, IndexOK, Job
    <3>3. QED
      BY <1>1, <1>2, <3>1, <3>2, ChunksAreOneText DEF Fits, OneText, Progressed
  <2>4. QED
    BY <2>1, <2>2, <2>3
<1>6. QED
  BY <1>0, <1>1, <1>2, <1>3, <1>4, <1>5, AloneStep

(* A run that ends: what it leaves in the two stores, if it was alone.        *)
LEMMA AloneEnds ==
  ASSUME IndexInv, AloneInv, NEW w \in Workers, job[w].pc # "idle", NEW m \in Meetings,
         m = job[w].m, NEW text \in Text, EndsWith(w, text), alone' = alone,
         \A n \in Meetings : n # m => vectors'[n] = vectors[n] /\ twins'[n] = twins[n],
         m \in alone => OneText(m)' /\ (text.version > 0 =>
           /\ vectors'[m] = ChunksOf(text)
           /\ {[index |-> t.index, version |-> t.version] : t \in twins'[m]} = vectors'[m])
  PROVE  AloneInv'
<1>1. /\ job'[w] = Idle /\ Idle.pc = "idle" /\ \A v \in Workers : v # w => job'[v] = job[v]
  BY EndedRow DEF Idle
<1>2. indexed'[m] = text /\ \A n \in Meetings : n # m => indexed'[n] = indexed[n]
  BY DEF EndsWith, IndexInv, IndexOK
<1>3. m \in alone => Fits(w, m)'
  BY <1>1, <1>2 DEF Fits, Agree
<1>4. m \in alone => \A v \in Workers : job[v].pc # "idle" /\ job[v].m = m => v = w
  BY DEF AloneInv
<1>5. QED
  BY <1>1, <1>2, <1>3, <1>4, AloneStep

(* What a run that is alone knows of its meeting's vectors and rows.          *)
LEMMA AloneKnows ==
  ASSUME AloneInv, NEW w \in Workers, job[w].pc # "idle", job[w].m \in alone
  PROVE  OneText(job[w].m) /\ Progressed(job[w])
BY DEF AloneInv, OneTextFound, Found, OneText

LEMMA AloneCommits ==
  ASSUME IndexInv, AloneInv, NEW w \in Workers, CommitTwins(w) \/ CommitNoChunks(w)
  PROVE  AloneInv'
<1>0. PICK m \in Meetings : m = job[w].m
  BY RunRow DEF CommitTwins, CommitNoChunks
<1> DEFINE text == job[w].text
<1>1. /\ job[w].pc # "idle" /\ EndsWith(w, text) /\ text \in Text /\ UNCHANGED <<vectors, alone>>
      /\ twins \in [Meetings -> SUBSET Twin]
  BY RunRow DEF CommitTwins, CommitNoChunks, IndexInv, IndexOK
<1>2. \A n \in Meetings : n # m => twins'[n] = twins[n]
  BY <1>0, <1>1 DEF CommitTwins, CommitNoChunks
<1>3. m \in alone => OneText(m)'
  BY <1>0, <1>1, AloneKnows DEF OneText
<1>4. ASSUME m \in alone
      PROVE  /\ vectors'[m] = ChunksOf(text)
             /\ {[index |-> t.index, version |-> t.version] : t \in twins'[m]} = vectors'[m]
  <2>0. Progressed(job[w])
    BY <1>0, <1>1, <1>4, AloneKnows
  <2>1. CASE CommitTwins(w)
    <3>1. vectors'[m] = ChunksOf(text)
      BY <1>0, <1>1, <2>0, <2>1 DEF CommitTwins, Progressed
    <3>2. twins'[m] = NewTwins(text)
      BY <1>0, <1>1, <2>1, InsertsIntoNone DEF CommitTwins
    <3>3. QED
      BY <3>1, <3>2, NewRowsMatch
  <2>2. CASE CommitNoChunks(w)
    <3>1. vectors'[m] = {} /\ ChunksOf(text) = {}
      BY <1>0, <1>1, <2>0, <2>2, ChunksAreOneText DEF CommitNoChunks, Progressed
    <3>2. twins'[m] = {}
      BY <1>0, <1>1, <2>0, <2>2 DEF CommitNoChunks, Progressed, Left
    <3>3. QED
      BY <3>1, <3>2
  <2>3. QED
    BY <2>1, <2>2
<1> HIDE DEF text
<1>5. QED
  BY <1>0, <1>1, <1>2, <1>3, <1>4, AloneEnds

LEMMA AloneFails ==
  ASSUME IndexInv, AloneInv, NEW w \in Workers, CommitRefused(w) \/ EmbedFails(w)
  PROVE  AloneInv'
<1>0. PICK m \in Meetings : m = job[w].m
  BY RunRow DEF CommitRefused, EmbedFails
<1>1. /\ job[w].pc # "idle" /\ EndsWith(w, NoText) /\ UNCHANGED <<twins, alone>>
      /\ vectors \in [Meetings -> SUBSET Vector]
  BY DEF CommitRefused, EmbedFails, IndexInv, IndexOK
<1>2. \A n \in Meetings : n # m => vectors'[n] = vectors[n]
  BY <1>0, <1>1 DEF CommitRefused, EmbedFails
<1>3. ASSUME m \in alone
      PROVE  OneText(m)'
  <2>1. OneText(m) /\ Progressed(job[w])
    BY <1>0, <1>1, <1>3, AloneKnows
  <2>2. \/ vectors'[m] = vectors[m] \/ vectors'[m] = {}
        \/ job[w].pc = "dropped" /\ vectors'[m] = Upserted(vectors[m], job[w].text)
    BY <1>0, <1>1 DEF CommitRefused, EmbedFails
  <2>3. job[w].pc = "dropped" => Upserted(vectors[m], job[w].text) = ChunksOf(job[w].text)
    BY <1>0, <2>1, ChunksAreOneText DEF Progressed
  <2>4. QED
    BY <2>1, <2>2, <2>3, ChunksAreOneText DEF OneText
<1>4. NoText \in Text /\ ~(NoText.version > 0)
  BY DEF NoText, Text
<1>5. QED
  BY <1>0, <1>1, <1>2, <1>3, <1>4, AloneEnds

LEMMA AloneProcesses ==
  ASSUME IndexInv, AloneInv, NEW m \in Meetings, Processes(m)
  PROVE  AloneInv'
<1>1. CASE Transcribe(m) \/ SoftDelete(m)
  <2>1. alone' \subseteq alone /\ UNCHANGED <<vectors, twins, indexed, job>>
    BY <1>1 DEF Transcribe, SoftDelete
  <2>2. QED
    BY <2>1 DEF AloneInv, OneTextFound, Found, StoresAgree, Embedding, Progressed
<1>2. ASSUME NEW w \in Workers, ReadSegments(w, m)
      PROVE  AloneInv'
  <2>1. /\ job[w].pc = "idle" /\ alone' \subseteq alone /\ (m \in alone' => ~Embedding(m))
        /\ UNCHANGED <<vectors, twins, indexed>>
    BY <1>2 DEF ReadSegments
  <2>2. /\ job'[w].pc = "read" /\ job'[w].m = m /\ \A v \in Workers : v # w => job'[v] = job[v]
    BY <1>2 DEF ReadSegments, IndexInv, IndexOK, Idle
  <2>3. m \in alone' => Fits(w, m)'
    BY <2>1, <2>2 DEF Fits, Progressed, AloneInv, OneTextFound, Found, OneText
  <2>4. m \in alone' => \A v \in Workers : job[v].pc # "idle" /\ job[v].m = m => v = w
    BY <2>1 DEF Embedding
  <2>5. QED
    BY <2>1, <2>2, <2>3, <2>4, AloneStep
<1>3. QED
  BY <1>1, <1>2 DEF Processes

LEMMA AloneInvHolds == Spec => []AloneInv
<1>1. Init => AloneInv
  BY DEF Init, IndexInit, AloneInv, OneTextFound, Found, StoresAgree, Idle, NoText
<1>2. IndexInv /\ AloneInv /\ [Next]_vars => AloneInv'
  <2> SUFFICES ASSUME IndexInv, AloneInv, [Next]_vars PROVE AloneInv'
    OBVIOUS
  <2>1. CASE UNCHANGED indexVars
    BY <2>1 DEF indexVars, AloneInv, OneTextFound, Found, StoresAgree, Embedding, Progressed
  <2>2. ASSUME NEW w \in Workers, Embeds(w) PROVE AloneInv'
    BY <2>2, AloneRuns, AloneCommits, AloneFails DEF Embeds, EmbedStep
  <2>3. QED
    BY <2>1, <2>2, AloneProcesses DEF Next, Uploads, vars
<1>3. QED
  BY <1>1, <1>2, IndexInvHolds, PTL DEF Spec

(* A meeting whose embeddings never overlapped is found by one transcript     *)
(* only, also while it is embedded again and after that failed.               *)
THEOREM FoundByOneText == Spec => []OneTextFound
BY AloneInvHolds, PTL DEF AloneInv

(* ... and after an embedding that succeeded its vectors and its rows are the *)
(* chunks of the transcript that was read.                                    *)
THEOREM StoresInStep == Spec => []StoresAgree
BY AloneInvHolds, PTL DEF AloneInv

=============================================================================
