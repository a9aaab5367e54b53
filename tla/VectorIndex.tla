----------------------------- MODULE VectorIndex -----------------------------
(***************************************************************************)
(* The embeddings of meetings (embedding_service.py): vectors in Chroma,   *)
(* which are changed at once, and twin rows in Postgres, which are changed *)
(* by the commit at the end.  Several runs may embed one meeting.  A       *)
(* DELETE that waits for another run's row locks is not made to wait here: *)
(* what it finds to delete is fixed when it begins.                        *)
(* The meetings are those of Upload.                                       *)
(***************************************************************************)
EXTENDS Naturals, Upload

CONSTANTS
  Workers,        \* runs that may embed at the same time
  NoMeeting,      \* the meeting of an idle run
  MaxChunks,      \* bound: chunks of a transcript
  MaxTranscripts, \* bound: transcripts of a meeting
  MaxCommits      \* bound: commits of twin rows

ASSUME IndexAssumption ==
  /\ NoMeeting \notin Meetings
  /\ MaxChunks \in Nat /\ MaxTranscripts \in Nat /\ MaxCommits \in Nat

VARIABLES
  transcript,  \* the stored transcript: its version, and how many chunks it makes
  deleted,     \* whether meetings.deleted_at is set
  vectors,     \* the meeting's vectors in Chroma
  twins,       \* the meeting's embedding_chunks rows
  commits,     \* commits that inserted rows: tells rows with equal contents apart
  indexed,     \* the transcript of the last embedding; none if it failed
  alone,       \* meetings whose embeddings never overlapped anything
  job          \* what each run is doing

indexVars == <<transcript, deleted, vectors, twins, commits, indexed, alone, job>>

Text == [version : 0..MaxTranscripts, chunks : 0..MaxChunks]
NoText == [version |-> 0, chunks |-> 0]

(* A vector's id is its meeting and index; a row has an identity of its own. *)
Index == 0..(MaxChunks - 1)
Vector == [index : Index, version : 1..MaxTranscripts]
Twin == [index : Index, version : 1..MaxTranscripts, commit : 1..MaxCommits]

(* chunk_segments, by the index and the transcript of each chunk *)
ChunksOf(text) == {[index |-> i, version |-> text.version] : i \in 0..(text.chunks - 1)}

Job == [pc : {"idle", "read", "cleared", "dropped", "upserted"},
        m : Meetings \union {NoMeeting}, text : Text, gone : SUBSET Twin]

Idle == [pc |-> "idle", m |-> NoMeeting, text |-> NoText, gone |-> {}]

IndexOK ==
  /\ transcript \in [Meetings -> Text]
  /\ deleted \in [Meetings -> BOOLEAN]
  /\ vectors \in [Meetings -> SUBSET Vector]
  /\ twins \in [Meetings -> SUBSET Twin]
  /\ commits \in 0..MaxCommits
  /\ indexed \in [Meetings -> Text]
  /\ alone \subseteq Meetings
  /\ job \in [Workers -> Job]
  /\ \A w \in Workers : job[w].pc # "idle" =>
       job[w].m \in Meetings /\ job[w].text.version > 0

IndexInit ==
  /\ transcript = [m \in Meetings |-> NoText]
  /\ deleted = [m \in Meetings |-> FALSE]
  /\ vectors = [m \in Meetings |-> {}]
  /\ twins = [m \in Meetings |-> {}]
  /\ commits = 0
  /\ indexed = [m \in Meetings |-> NoText]
  /\ alone = Meetings
  /\ job = [w \in Workers |-> Idle]

Embedding(m) == \E w \in Workers : job[w].pc # "idle" /\ job[w].m = m

-----------------------------------------------------------------------------
(* The pipeline stores another transcript of m. *)
Transcribe(m) ==
  /\ transcript[m].version < MaxTranscripts
  /\ \E n \in 0..MaxChunks :
       transcript' = [transcript EXCEPT ![m] = [version |-> @.version + 1, chunks |-> n]]
  /\ alone' = IF Embedding(m) THEN alone \ {m} ELSE alone
  /\ UNCHANGED <<deleted, vectors, twins, commits, indexed, job>>

(* MeetingService.delete *)
SoftDelete(m) ==
  /\ ~deleted[m]
  /\ deleted' = [deleted EXCEPT ![m] = TRUE]
  /\ UNCHANGED <<transcript, vectors, twins, commits, indexed, alone, job>>

-----------------------------------------------------------------------------
(* embed_meeting: the segments are read and chunked *)
ReadSegments(w, m) ==
  /\ job[w].pc = "idle"
  /\ transcript[m].version > 0
  /\ job' = [job EXCEPT ![w] = [Idle EXCEPT !.pc = "read", !.m = m, !.text = transcript[m]]]
  /\ alone' = IF Embedding(m) THEN alone \ {m} ELSE alone
  /\ UNCHANGED <<transcript, deleted, vectors, twins, commits, indexed>>

(* Mutant of ClearVectors: equal ids overwrite each other anyway. *)
ClearVectors_Skipped(w) ==
  /\ job[w].pc = "read"
  /\ job' = [job EXCEPT ![w].pc = "cleared"]
  /\ UNCHANGED <<transcript, deleted, vectors, twins, commits, indexed, alone>>

(* vector_store.delete *)
ClearVectors(w) ==
  /\ job[w].pc = "read"
  /\ vectors' = [vectors EXCEPT ![job[w].m] = {}]
  /\ job' = [job EXCEPT ![w].pc = "cleared"]
  /\ UNCHANGED <<transcript, deleted, twins, commits, indexed, alone>>

(* delete_for_meeting, not committed yet *)
DropTwins(w) ==
  /\ job[w].pc = "cleared"
  /\ job' = [job EXCEPT ![w].pc = "dropped", ![w].gone = twins[job[w].m]]
  /\ UNCHANGED <<transcript, deleted, vectors, twins, commits, indexed, alone>>

(* The vectors of a meeting once those of text are upserted over `old`. *)
Upserted(old, text) == {v \in old : v.index >= text.chunks} \union ChunksOf(text)

(* vector_store.upsert *)
UpsertVectors(w) ==
  LET m == job[w].m IN
  /\ job[w].pc = "dropped"
  /\ job[w].text.chunks > 0
  /\ vectors' = [vectors EXCEPT ![m] = Upserted(@, job[w].text)]
  /\ job' = [job EXCEPT ![w].pc = "upserted"]
  /\ UNCHANGED <<transcript, deleted, twins, commits, indexed, alone>>

(* The rows that are left when those the DELETE found are gone. *)
Left(w) == twins[job[w].m] \ job[w].gone

(* The rows bulk_add inserts. *)
NewTwins(text) ==
  {[index |-> v.index, version |-> v.version, commit |-> commits + 1] : v \in ChunksOf(text)}

(* Mutant of ChunkPositionTaken: no unique constraint. *)
ChunkPositionTaken_Never(w) == FALSE

(* chunk_position: a row of another run is in the place of one to insert *)
ChunkPositionTaken(w) == \E t \in Left(w) : t.index < job[w].text.chunks

(* embed_meeting ends, and the text it has embedded is `text`. *)
EndsWith(w, text) ==
  /\ indexed' = [indexed EXCEPT ![job[w].m] = text]
  /\ job' = [job EXCEPT ![w] = Idle]

(* bulk_add and the commit, with the DELETE *)
CommitTwins(w) ==
  LET m == job[w].m IN
  /\ job[w].pc = "upserted"
  /\ commits < MaxCommits
  /\ ~ChunkPositionTaken(w)
  /\ commits' = commits + 1
  /\ twins' = [twins EXCEPT ![m] = Left(w) \union NewTwins(job[w].text)]
  /\ EndsWith(w, job[w].text)
  /\ UNCHANGED <<transcript, deleted, vectors, alone>>

(* Mutant of CommitNoChunks: it returns without the commit. *)
CommitNoChunks_Uncommitted(w) ==
  /\ job[w].pc = "dropped"
  /\ job[w].text.chunks = 0
  /\ EndsWith(w, job[w].text)
  /\ UNCHANGED <<transcript, deleted, vectors, twins, commits, alone>>

(* "if not chunks": only the DELETE is committed *)
CommitNoChunks(w) ==
  /\ job[w].pc = "dropped"
  /\ job[w].text.chunks = 0
  /\ twins' = [twins EXCEPT ![job[w].m] = Left(w)]
  /\ EndsWith(w, job[w].text)
  /\ UNCHANGED <<transcript, deleted, vectors, commits, alone>>

(* bulk_add violates chunk_position; _embed_stage rolls back and goes on *)
CommitRefused(w) ==
  /\ job[w].pc = "upserted"
  /\ ChunkPositionTaken(w)
  /\ EndsWith(w, NoText)
  /\ UNCHANGED <<transcript, deleted, vectors, twins, commits, alone>>

(* A store, the embedder or the worker fails: rolled back, but not in Chroma, *)
(* where the call that failed may have taken effect.                          *)
EmbedFails(w) ==
  LET m == job[w].m IN
  /\ job[w].pc # "idle"
  /\ \/ UNCHANGED vectors
     \/ job[w].pc = "read" /\ vectors' = [vectors EXCEPT ![m] = {}]
     \/ job[w].pc = "dropped" /\ vectors' = [vectors EXCEPT ![m] = Upserted(@, job[w].text)]
  /\ EndsWith(w, NoText)
  /\ UNCHANGED <<transcript, deleted, twins, commits, alone>>

EmbedStep(w) ==
  \/ ClearVectors(w) \/ DropTwins(w) \/ UpsertVectors(w) \/ CommitTwins(w)
  \/ CommitNoChunks(w) \/ CommitRefused(w) \/ EmbedFails(w)

-----------------------------------------------------------------------------
(* RAGService.search: the vectors of a meeting that may be among the results *)
Found(m) == vectors[m]

=============================================================================
