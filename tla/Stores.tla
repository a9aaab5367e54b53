-------------------------------- MODULE Stores --------------------------------
(***************************************************************************)
(* Everything a meeting has in more than one store: its recording in the   *)
(* object store and its row in Postgres, its vectors in Chroma and their   *)
(* twin rows.  A meeting is transcribed and embedded once its upload is    *)
(* committed, and found by search through its vectors.                     *)
(***************************************************************************)
EXTENDS VectorIndex

vars == <<uploadVars, indexVars>>

TypeOK == UploadOK /\ IndexOK

Init == UploadInit /\ IndexInit

Uploads(m) == UploadStep(m) /\ UNCHANGED indexVars

(* get_for_org finds the row; the task is sent after its commit. *)
Processes(m) ==
  /\ row[m]
  /\ Transcribe(m) \/ SoftDelete(m) \/ \E w \in Workers : ReadSegments(w, m)
  /\ UNCHANGED uploadVars

Embeds(w) == EmbedStep(w) /\ UNCHANGED uploadVars

Next ==
  \/ \E m \in Meetings : Uploads(m) \/ Processes(m)
  \/ \E w \in Workers : Embeds(w)

Spec == Init /\ [][Next]_vars

-----------------------------------------------------------------------------
(* Properties. *)

(* No row without its recording: the object is stored before the commit and   *)
(* deleted only when nothing was committed (create_from_upload 91-137).       *)
RowHasObject == \A m \in Meetings : row[m] => object[m]

(* "so storage and DB never disagree" (133): once a request has answered,     *)
(* there are both, or neither.                                                *)
AgreeAtRest ==
  \A m \in Meetings : upload[m] \in {"created", "refused"} =>
    object[m] = row[m] /\ (row[m] <=> upload[m] = "created")

(* However runs overlap, the twin rows of a meeting are the complete set of   *)
(* one run: there is a row for each chunk, and none of another transcript     *)
(* (embed_meeting 63 and 92-105, and the constraint chunk_position).             *)
OneTwinSet ==
  \A m \in Meetings : \A a, b \in twins[m] :
    /\ a.commit = b.commit
    /\ \A i \in 0..b.index : \E c \in twins[m] : c.index = i

(* Search never mixes two transcripts of a meeting, not even while it is      *)
(* embedded again or after that failed, if no two runs overlapped.            *)
OneTextFound ==
  \A m \in alone : \A a, b \in Found(m) : a.version = b.version

(* After an embedding that succeeded, Chroma and Postgres hold the chunks of  *)
(* the transcript it read, one by one, if no two runs overlapped.             *)
StoresAgree ==
  \A m \in alone : indexed[m].version > 0 /\ ~Embedding(m) =>
    /\ vectors[m] = ChunksOf(indexed[m])
    /\ {[index |-> t.index, version |-> t.version] : t \in twins[m]} = vectors[m]

(* What makes RowHasObject and AgreeAtRest inductive: where the request is     *)
(* tells what there is.                                                       *)
RequestInv ==
  \A m \in Meetings :
    /\ row[m] <=> upload[m] = "created"
    /\ upload[m] \in {"stored", "created"} => object[m]
    /\ upload[m] \in {"new", "refused"} => ~object[m]

(* What makes OneTwinSet inductive: a DELETE takes all the rows there are, or *)
(* they were all inserted after it began.                                     *)
AllOrNothing(r) == r.gone = twins[r.m] \/ r.gone \intersect twins[r.m] = {}

TwinsInv ==
  /\ OneTwinSet
  /\ \A m \in Meetings : \A t \in twins[m] : t.commit <= commits
  /\ \A w \in Workers :
       /\ \A t \in job[w].gone : t.commit <= commits
       /\ job[w].pc = "upserted" => job[w].text.chunks > 0
       /\ job[w].pc \in {"dropped", "upserted"} => AllOrNothing(job[w])

(* What makes OneTextFound and StoresAgree inductive: where no two embeddings *)
(* overlap, the stores hold what the one under way has made of them.          *)
Progressed(r) ==
  /\ r.pc \in {"cleared", "dropped"} => vectors[r.m] = {}
  /\ r.pc = "upserted" => vectors[r.m] = ChunksOf(r.text)
  /\ r.pc \in {"dropped", "upserted"} => r.gone = twins[r.m]

AloneInv ==
  /\ OneTextFound /\ StoresAgree
  /\ \A w \in Workers : job[w].pc # "idle" /\ job[w].m \in alone =>
       /\ Progressed(job[w])
       /\ \A v \in Workers : job[v].pc # "idle" /\ job[v].m = job[w].m => v = w

(* "preventing orphaned vectors from leaking deleted meetings into future     *)
(* chat answers" (models/rag 5-7).                                            *)
DeletedNotFound == \A m \in Meetings : deleted[m] /\ ~Embedding(m) => Found(m) = {}

=============================================================================
