# TLA+ specification of the AI Meeting Intelligence Platform

The platform takes a recording of a meeting, turns it into a transcript with
speakers, an analysis and searchable embeddings, and lets users of an
organization search it and chat about it. This directory holds TLA+ models of
the parts where several actors share state (API requests, the Celery broker,
worker processes, browser tabs), the TLC configurations that check them, and
TLAPS proofs of their main properties. Paths below are relative to the
repository root (`backend/app/...`, `frontend/...`).

    tlc -workers 2 -config pipeline_overlap.cfg MCPipeline
    tlapm PipelineProofs.tla

## 1. Inventory

| part | state it keeps | operations | interacts with |
|---|---|---|---|
| Meeting status machine (`services/pipeline_state.py`, `models/enums.py`) | `meetings.status` | `can_transition`, `assert_transition` | every writer of a status |
| Pipeline service (`services/pipeline_service.py`) | `meetings`, `files`, `transcript_segments`, `speakers` rows; an ORM session that outlives its commits | `process`, five stages, `_advance`, `_fail` | storage, ffmpeg, Whisper, pyannote, intelligence and embedding services |
| Pipeline task and Celery configuration (`workers/tasks/pipeline.py`, `workers/celery_app.py`, `services/pipeline_dispatcher.py`) | messages in the Redis broker, deliveries not yet acknowledged | enqueue, deliver, retry, acknowledge, time limits, requeue | API, pipeline service |
| Meeting service (`services/meeting_service.py`) | `meetings`, `files`, `speakers`, `action_items`; the object store | upload, list, edit, soft delete, reprocess | storage, dispatcher, pipeline rows |
| Intelligence service (`services/intelligence_service.py`) | `summaries`, `action_items`, `decisions`, ... | `analyze_and_store` | LLM, transcript rows |
| Embedding service (`services/embedding_service.py`, `ai/vectorstore`) | vectors in Chroma, `embedding_chunks` rows in Postgres | `embed_meeting`, `delete_meeting_vectors` (no caller) | vector store, transcript rows |
| Search and chat (`services/rag_service.py`) | `chat_sessions`, `chat_messages` | search, ask, sessions | vector store, LLM |
| Authentication (`services/auth_service.py`, `repositories/token_repository.py`) | `organizations`, `users`, `refresh_tokens`, `password_reset_tokens` | signup, login, refresh, logout, forgot and reset password | e-mail sender, audit log |
| Frontend client (`frontend/lib/api.ts`, `auth-context.tsx`) | tokens in localStorage, one refresh in flight | requests, refresh, logout | authentication |
| Frontend pages (`frontend/app`) | copies of server rows, timers, optimistic edits | poll, load, toggle, ask | every endpoint |
| Pure algorithms (`services/chunking.py`, `speaker_assignment.py`, `transcript_formatter.py`, `file_validation.py`, `schemas/common.py`) | none | chunking, overlap assignment, merging of lines, limited reading, page arithmetic | pipeline, upload |
| Database migrations (`backend/alembic`) | the catalog: tables, ENUM types, version | upgrade, downgrade | every table |
| AI providers (`backend/app/ai`) | loaded models | one call each | pipeline, chat |
| Audit, logging, rate limiting, health (`core`, `repositories/audit_repository.py`) | write-only rows | record | every service |

The object store package (`app/storage`) is imported but not part of the
repository; it is known by its uses only.

### What is hard here

* **Two runs of one meeting.** A reprocess request validates the status and
  leaves it alone, so it is accepted while a task of the meeting is queued or
  running; a broker redelivery starts a second run as well. Two workers
  (`--concurrency=2` in `docker/docker-compose*.yml`) then write the same rows.
* **An ORM object that is older than its row.** The session is created with
  `expire_on_commit=False` (`core/database.py`): `_advance` validates and
  writes from the status it loaded or last wrote, until a rollback expires it.
* **Crashes.** Messages are acknowledged late and requeued when a worker dies;
  what the dead run committed stays.
* **Time limits.** The soft limit is an exception that the best-effort stages
  swallow like any other.
* **Read, decide, commit.** Requests of the authentication service decide on
  rows that other requests change before they commit; password hashing and LLM
  calls make the gap long.
* **Failures that are swallowed.** `_fail`, `_audit_and_commit`, the
  best-effort stages and the compensation of an upload all continue after an
  exception.
* **Two stores without a common transaction.** Object store and Postgres on
  upload; Chroma and Postgres on embedding.
* **Statements of overlapping transactions.** Under READ COMMITTED each statement
  of a run or a request sees what was committed when it began.
* **Answers that arrive late.** A page applies an answer to whatever it shows by
  then; loads overlap, and optimistic edits are undone from an old copy.
* **Tabs that share tokens.** localStorage is shared, the refresh under way is not;
  an answer that is lost leaves the client with a burned token.

Everything of this kind is listed in `PROJECT.json` under `hazards`, at its line,
with the properties that cover it.

### What makes each part correct

* Status machine and pipeline: a status moves only along the graph; a COMPLETED
  meeting has a transcript and an analysis made from that transcript; FAILED and
  `error_message` go together; nothing is lost; everything settles.
* Authentication: a rotated token stays burned and is rotated once; sessions end
  when reuse is detected or a password is reset; a reset token works once; no
  half-created organization; a link that is sent works.
* Upload: a row never lacks its object; an object without a row goes away when
  the request fails.
* Embedding, search: what search returns belongs to the organization, is the
  current transcript and is not deleted.
* Chat: a question is stored with its answer, in a session that exists; an
  answer cites the reader's own meetings; nothing comes between the two.
* What a meeting's page is made of: one run's analysis, whole; links between
  segments and speakers hold; an edit changes what it was sent for.
* Client: no two refreshes of one token by one tab, no logout undone by a late
  answer, no 401 shown while the session is good.
* Pages: what is shown becomes what is stored; no timer leaks, no form stays
  disabled.
* Database migrations: no statement is refused, and a version is whole.

## 2. Modules

| part | modules | composition |
|---|---|---|
| pipeline | `PipelineState`, `Pipeline`, `PipelineProps`, `MeetingLifecycle` | API, broker and workers in one; implements `MeetingLifecycle` |
| authentication | `Auth`, `AuthProps` | |
| upload, embeddings | `Upload`, `VectorIndex` | `Stores` |
| chat | `Chat` | `ChatPage`: the page on top of the service |
| analysis and edits | `Workspace` | `IntelligenceTab`: the tab on top of the rows |
| client | `ApiClient` | on top of `Auth` |
| meeting page | `MeetingPage` | on top of the status graph |
| migrations | `Schema` | |

`MC*` modules hold model values and definitions for the configurations,
`*Proofs` modules the proofs of section 11. A definition whose name ends in
`_Something` is a mutant: the same step with the mistake its comment names, used
to see that a property notices it.

Four compositions are refinements, all of them proved: the pipeline implements
`MeetingLifecycle` where runs do not overlap (TLC checks it with one worker),
and the page, the tab and the client implement the specification of the service
under them.

What is left: the list and search pages with their overlapping loads; a commit that
takes effect although it raises, in the upload.

## 3. The pipeline

### State and steps

`Pipeline.tla` has one variable per thing the actors share. `status`, `reason` and
`deleted` are the columns of `meetings`; `audio`, `transcript`, `speakers` and
`intel` stand for rows by what the properties tell apart: whether there is an
EXTRACTED_AUDIO row, which version of the transcript is stored (a silent recording
has a version without segments), from which version the analysis was made, and
whether Speaker rows are linked to by segments. `unsent` counts API requests between
their commit and `send_task`; `queue` counts the task's messages by retry number.
`run[w]` is the call stack of worker process `w`: the phase, the status it is about
to write or work in (`at`), the status and reason its ORM object holds (`mem`,
`err`), what it read before the next commit (`snap`), whether the broker still holds
its delivery (`owned`) and whether the soft limit has fired (`soft`).

A step runs from one commit (or one read that a later commit depends on) to the
next; a transaction that replaces rows is one step.

| code | action |
|---|---|
| `create_from_upload` up to its commit | `Upload` |
| `request_reprocess`, `delete` | `RequestReprocess`, `Delete` |
| `enqueue_processing`, and `send_task` raising | `Enqueue`, `EnqueueFails` |
| broker hands a message to a worker | `Deliver` |
| provider construction or first query raises | `BuildFails` |
| `process`: load, deleted meeting | `Load`, `NotProcessable` |
| `_advance`, and the transition check raising | `Advance`, `IllegalJump` |
| `_extract_stage`, `_upsert_extracted_file` | `Extract`, `SaveAudio`; `AudioRefused` |
| `_transcribe_stage`, `_diarize_stage` | `Transcribe`, `Diarize` |
| `analyze_and_store` before and after the LLM call | `ReadTranscript`, `SaveIntelligence` |
| `_embed_stage`, `_finalize` | `Embed`, `Finalize` |
| an exception `process` catches | `StageFails` |
| `_fail`: rollback and read, write, failing itself | `RollBack`, `MarkFailed`, `MarkFails` |
| autoretry, retries exhausted, acknowledgement | `Retry`, `GiveUp`, `Ack` |
| soft and hard time limit | `SoftLimit`, `SoftLimitSwallowed`, `HardLimit` |
| worker lost, visibility timeout | `WorkerLost`, `Redeliver` |

`process` also has a branch for a meeting without a source file; an upload
commits the file row with the meeting and nothing deletes it, so the branch
cannot be taken and is not modelled. Backoff delays are not modelled: a retry is
a message that may be taken at any later time.

### Runs

| run | actors and faults | shows |
|---|---|---|
| `pipeline_overlap` | 2 workers, 1 reprocess, 1 retry, failing stages | what survives overlapping runs: `CompletedHasResults`; when runs cannot overlap: `FirstTaskAlone` |
| `illegal_jump` | 2 workers, 1 reprocess | a FAILED meeting is advanced, against `pipeline_state.py` 5-6; the run is expected to fail and is listed under `findings` |
| `pipeline_one_worker` | 1 worker, every kind of fault, 1 reprocess | rows stay consistent, and `ImplementsLifecycle` (refinement of `MeetingLifecycle`) |
| `pipeline_live` | 1 worker, losses and redeliveries, fairness | `NoLostMeeting`, `EventuallySettled` |

The properties of `pipeline_one_worker` need runs that do not overlap. In the proofs
that is `RunsApart`: no two workers hold, at the same time, what they have read of one
meeting. It does not ask for one worker process: both compose files start two on the
queue. `FirstTaskAlone` says when it holds whatever the number of workers: until
somebody asks for a reprocess, or a worker is lost or a task delivered twice, a
meeting's task never overlaps itself, however often it fails and is retried.

Where two runs of one meeting do overlap (a reprocess accepted while a task is queued
or running), `ReasonIffFailed`, `FreshWhenCompleted` and `ImplementsLifecycle` are
broken, and so is the claim of the state machine: it asks each run's own ORM object,
so a run advances a meeting another run has marked FAILED or COMPLETED
(`illegal_jump`). Both may also find no audio row. `files.storage_key` is unique and
the key is the meeting's, so the second insert is refused and its run marks FAILED the
meeting that the other one is finishing (`AudioRefused`); `NoAudioCollision` says that
a later attempt never runs into the row of an earlier one. `NoLostMeeting` is broken by
a redelivery followed by the loss of the first worker. The hazards say so at their
lines. `ImplementsLifecycle` is
`Lifecycle!Spec` of the instance in `PipelineProps`: every step of the
pipeline is then a step of the abstract meeting or leaves it alone.

Four things the model shows that a comment of the code does not lead one to expect:

* Two tasks of one meeting can run at once (`meeting_service.py` 275, 282):
  `request_reprocess` validates the status and leaves it as it is.
* The soft time limit is swallowed by a best-effort stage, and the hard limit then
  kills the process: the meeting stays in its stage, and nothing carries it.
* When providers cannot be built for as often as the task is retried, the meeting
  stays UPLOADED without a reason.
* A reprocess whose diarizer fails or hears nobody keeps the Speaker rows of the
  old transcript, to which no segment is linked any more.

**Bounds.** `MaxRetries` is 3 in the code and 1 in the runs that pass: a retry
always starts from `extracting` on what earlier attempts left, so the second
attempt already meets every leftover the third would. `MaxRequests` is 1: one
reprocess request next to the upload gives two overlapping runs, the number the
deployed concurrency allows. `MaxFaults` bounds worker losses and redeliveries;
two allow the combination that loses a meeting. One meeting: meetings share
workers and nothing else. The proofs need none of these bounds.

**Deadlock** checking is off: with the bounded requests used up the system rests.

**Fairness** (`pipeline_live` only): a request handler that committed goes on to
call `send_task` (`Enqueue`); an idle worker takes a message that is queued, and
the worker process does not stop in the middle of a task other than by dying
(`Take`, `WorkerStep`). Users and faults are under no obligation. Broker refusal,
provider construction, failing bookkeeping and time limits are excluded there:
each of them leaves a meeting unsettled, as said above.

## 4. Authentication

### State and steps

`Auth.tla` keeps the rows: `orgs` (organizations created by a user's signup),
`account`, the refresh tokens `session` by row number, and the reset tokens
`resets`. `from` of a token is the token it was rotated from; `uses` of a reset
token counts the passwords it changed. Two ghost fields relate what a request read
to when: `era[u]` counts how often all sessions of `u` were ended, and the `era`
of a session is the one in which the login it descends from was verified.
`mailed` is the set of reset links that were sent.

A request has two steps: it reads rows and decides (`Signup`, `Login`, `Refresh`,
`Replay`, `Logout`, `ForgotPassword`, `ResetPassword`), and it commits
(`CreateAccount`, `IssueSession`, `EndAllSessions`, `EndSession`, `SendLink`,
`ChangePassword`) or is rolled back (`RolledBack`, `AuditFails`). An UPDATE of a row
known by its id and its commit are one step: in Postgres the row is locked until the
commit, so a later writer waits for it, and a row that an open transaction inserted
is invisible to others, as if that transaction had committed after them. The UPDATE
of all sessions of a user (`revoke_all_for_user`) is a step of its own
(`RevokeAll`): it passes over a session that a login or refresh commits between it
and the commit (`EndAllSessions`, `ChangePassword`), and that session stays live.
`AuditFails` and the second disjunct of `ForgotPassword` are `_audit_and_commit`
swallowing the exception of the commit.

Signup logs the new user in; that is a `Login` afterwards, and the request may end
between its two commits. Nothing in the code deactivates a user, so those guards
are always passed. Access tokens are stateless JWTs; they occur in section 8. A wrong
password or an unknown token changes no state.

### Runs

| run | bounds | shows |
|---|---|---|
| `auth` | 1 user, 2 requests, 3 tokens, 1 reset token, 2 ends of sessions, failing audit writes | `AncestorsBurned`, `OneOrgPerAccount` however requests overlap; `RotationIsSingleUse`, `SweepsAreFinal`, `ResetIsSingleUse` |

Three tokens hold a login, its rotation and a second branch; two requests are
what a race needs; a behaviour with two ends of sessions has two tokens (`Small`). No
row is shared by two users, so one is enough.

The code does not keep three of its claims when requests overlap: two refreshes of one
token both find it live and both rotate it, against the "exactly once" of
`auth_service.py` 6; a session that is issued around a sweep outlives it; two resets
both use one reset token. The properties state how little it takes to lose each claim,
and that nothing else does: `RotationIsSingleUse` allows every overlap but that of two
refreshes of the same token (`RefreshesApart`), `SweepsAreFinal` every overlap but that
of a sweep with a request about to issue a session of the same user (`EndsApart`),
`ResetIsSingleUse` every overlap but that of two resets with the same token
(`ResetsApart`). A swallowed commit (`AuditFails`)
breaks none of the properties above; it makes an answer untrue: a logout that
revoked nothing, a link to a token that was never stored.

## 5. Upload and embeddings

### State and steps

`Upload.tla` is `create_from_upload`: `object` (the store holds the object or a
part of it), `row` (the transaction is committed) and `upload` (how far the
request is). Its steps are the calls of the `try` in their order; every call may
raise (`StoreRaises`, `Reject`), which leads to the compensation (`Undo`), and the
compensation may raise (`UndoRaises`). The process may die at any point (`Crash`).
The header check comes before anything is stored and leaves nothing (`Receive` is
the request that passed it). A commit that raises is taken to have had no
effect.

`VectorIndex.tla` is the embedding of a meeting by several runs: `vectors` in
Chroma, which change at once, and `twins` in Postgres, which change at the commit.
A vector is known by its index (the id is meeting and index, so equal indexes
overwrite each other) and the transcript it was made from; a row has the number
of its commit besides, which makes it a row of its own. `job[w]` is what run `w`
has read and which rows its DELETE found. `indexed` and `alone` are ghosts: the
transcript the last embedding read, none if it failed, and the meetings of which
no embedding overlapped another one or a new transcript.

| code | action |
|---|---|
| `list_for_meeting`, `chunk_segments` | `ReadSegments` |
| `vector_store.delete`, `delete_for_meeting` | `ClearVectors`, `DropTwins` |
| `vector_store.upsert` | `UpsertVectors` |
| `bulk_add` and commit; the constraint `chunk_position` | `CommitTwins`; `CommitRefused` |
| no chunks | `CommitNoChunks` |
| anything raises, or the worker dies | `EmbedFails` |
| `_transcribe_stage`, `MeetingService.delete` | `Transcribe`, `SoftDelete` |

A DELETE that meets rows another transaction has deleted waits for it in Postgres;
here it does not, which only adds interleavings, and what it deletes is what
was committed when it began, as in Postgres. `Stores.tla` composes the two: a
meeting is processed and deleted once its row is committed.
`delete_meeting_vectors` has no caller and is not an action.

### Runs

| run | bounds | shows |
|---|---|---|
| `stores` | 1 meeting, 2 runs at a time, 3 transcripts of up to 2 chunks, 3 commits, a crash and a failing compensation | `RowHasObject`, `AgreeAtRest`, `OneTwinSet` always; `OneTextFound`, `StoresAgree` where no two embeddings overlap |
| `deleted_violation` | no faults, 1 transcript | search finds a deleted meeting, against `models/rag.py` 5; the run is expected to fail and is listed under `findings` |

Meetings share nothing here, so one is enough. Transcripts of 0, 1 and 2 chunks
cover a shorter, an equal and a longer successor, and none at all; the third
transcript follows a failed and a successful embedding. `AgreeAtRest` speaks of
requests that answered: after a crash or a failed compensation an object without
a row stays, as nothing looks for it later. Where two embeddings overlap,
Postgres is kept whole by the constraint (`OneTwinSet`) and Chroma may hold chunks
of both transcripts.

## 6. Chat

`Chat.tla` is the service: `session` and `messages` are the two tables, `ask` the
requests that carry a question, `begun` the clock of `created_at` (all rows of a
transaction carry the time at which it began). `Begin` is `ask` up to the call of
the model (the session is read, the context found), `Persist` the transaction
that stores question and answer and names the session, `Fail` every way in which
nothing is stored, the foreign key of a deleted session included.

`ChatPage.tla` is the page on top of it, next to other clients (`Others`). Each
handler is the steps between two awaits: `Send`, `SendFirst`/`Created`,
`Answered`/`NotAnswered`, `Select`, `NewChat`, `Delete`/`Deleted`, and the load that
the change of `activeId` starts (`ReadHistory`, `ShowHistory`). The list of sessions
asked for at the mount may arrive after sessions were created or deleted and then
replaces the sidebar with what was read before (`ShowList`); a deletion whose answer is
lost may have taken effect (`NotDeleted`). An answer is applied
to whatever is open when it arrives, as in the code. An item that is shown is either
a row the service returned or the question as it was typed (`tmp`), which is what
`NotAnswered` takes back. `calm` records that since the session was opened nothing
overlapped; what a calm page shows is, item by item, a history of the open session.

| run | bounds | shows |
|---|---|---|
| `chat` | 1 user, 2 meetings of two organizations, 2 sessions, 2 questions of which 1 is typed into the page, 1 load at a time, 1 session created before the list of the mount arrives | `WholeExchanges`, `CitesOwn`, `NamedByQuestion`, `HistoryByExchange` whatever overlaps; `CalmPageIsStored`; `FormComesBack` |

Two questions are what overlaps; one meeting inside and one outside the
organization is what a wrong filter would confuse. Sessions are numbered in the order
in which their ids are given out; the list of the mount may lack one of them, which is
what can be wrong with it. **Fairness**: a request that is
under way ends, with an answer or an error (`Ends`); an HTTP request of a browser
does. The user is under no obligation.

Where two things overlap the page may be wrong until the session is opened again:
the first question of a new chat disappears when the empty history arrives that
opening the new session loads (`chat/page.tsx` 41, 101); an answer or a history that
arrives after another session was opened is shown there; `confirmDelete` and the
list of the mount restore a list without what was created meanwhile.
`CalmPageIsStored` excludes all of this: it says what a page shows on which nothing
overlaps. Left out: a soft-deleted meeting, which `get_for_org` refuses for a new
session; a question that reads "New chat".

## 7. The rows of a meeting, and the tab that edits them

`Workspace.tla` has the grain of the SQL statement under READ COMMITTED. `stored[t]`
is the set of runs whose rows table `t` holds; a run's transaction deletes what its
statement saw (`Delete`, `Deleted`), inserts (`Insert`, waiting for an equal key of an
open transaction and failing on a committed one), links segments to speakers
(`Link`) and commits (`Commit`). `gone` of a transaction is what it has deleted and
therefore locked. Requests read their tables one statement at a time (`Read`), and
edits look a row up before the UPDATE that the commit flushes (`BeginEdit`, `Edit`;
`BeginPatch`, `Patch`). What a run writes into a table is one row named by the run,
and rows of two runs share their keys, as segment 0, `SPEAKER_00` and the type FULL do.

`IntelligenceTab.tla` is the tab: it loads once, shows a tick before it is answered
(`Toggle`) and puts the item back from the copy it rendered (`Settled`, `Lost`).

| run | bounds | shows |
|---|---|---|
| `workspace` | 2 runs, 2 requests, 2 fields | `OneAnalysis`, `LinksHold`, `ForwardAnswer`, `OnlySentFieldsChange`, `CalmTabIsStored` |

Runs and requests are interchangeable (symmetry). Two runs and two requests are what
a race needs; the proofs have any number. An edit equal to the value that was read
issues no UPDATE (the ORM skips it), which the model keeps (`Unchanged`).
`ForwardAnswer` is weaker than one would like: an answer may mix two analyses, only
never backwards. Not stated because the code does not keep it: a name that a user
gave a speaker is lost when a run replaces the rows.

## 8. The client

`ApiClient.tla` puts the tabs of a browser on top of `Auth`: every step of the
service is a step of `Auth`, taken for a request of the browser (`TakeSign`,
`TakeRefresh`, `AnswerSign`, `AnswerRefresh`) or for somebody else (`Others`). `store` is
the pair in localStorage, by the number of its refresh token; `promise[t]` is
`refreshPromise` of tab `t`; `call[c]` is a `request()` with its one replay. An access
token is stale or not (`GoStale`). Requests and answers may be lost, tabs reloaded.

The client has no answer to some events, and `calm` becomes false when one happens:
a refresh of one tab overlaps that of another tab or a logout; an answer is lost; a
tab is reloaded during its refresh; the service fails; somebody else ends a session
(a reset password, reuse detected). After that the stored pair may be a burned one:
presenting it is taken for a theft, which ends every session of the user, newer ones
included. A logout whose request fails keeps the tokens. A refresh that is answered after a
logout brings a live pair back. While it is calm:

| run | bounds | shows |
|---|---|---|
| `client` | 1 user, 2 tabs, 3 calls (2 in one tab), 1 server request, 2 tokens, 1 end of sessions | `CalmPairIsLive`, `CalmCallsSucceed` |

The two calls of a tab are interchangeable (symmetry). `CONSTRAINT Calm` leaves out
what follows the end of the calm, of which the properties say nothing. Two tokens
are a login and its rotation; the proof has no bounds. An access token is taken to
outlive the refresh that issued it and the replay (`GoStale`).

## 9. The meeting page

`MeetingPage.tla` has the meeting with its status graph (runs do not overlap, which is
`MeetingLifecycle`), and the page: `timers` counts intervals that tick, `pollRef` is
whether the page knows of one, `load[l]` a request under way. `Show` is `setMeeting`
with the cleanup of the effect and the effect itself. Loads overlap and are answered
in any order; some fail (`Lose`). The button of a reprocess stays enabled while its
POST is under way, so two may be (`asking`); a POST that is refused, cannot queue its
message or loses its answer loads nothing (`Rejected`).

| run | bounds | shows |
|---|---|---|
| `page` | 2 loads at once, 2 reruns, 2 lost requests | `OneInterval`; `ProcessingEnds`, `FirstRunShown` |

Two loads are what can overtake each other; after two reruns and two losses the page
is in no state it was not in before. **Fairness**: the pipeline settles what it has
begun (`EventuallySettled` of section 3), an interval ticks, a request is answered
unless it is one of the lost ones. Without an upper limit on lost requests nothing
could be promised.

`FirstRunShown` is claimed for a meeting that is processed for the first time. The
page does not follow a reprocess or an automatic retry: only the worker changes the
status, so the load after the POST finds the old one, which is terminal, and polling
stops (`page.tsx` 50, 73). A first load that fails leaves "not found" for good.
Deletion, which leaves the page, and reloading, which is a new page, are not modelled.

## 10. Migrations

`Schema.tla` runs the statements of `upgrade` and `downgrade` of the one migration, in
their order, in the transaction that `alembic/env.py` opens, against a catalog of
tables (with the tables and types they need), their indexes and ENUM types that
refuses what PostgreSQL refuses (`Allowed`): an index without its table, or one that
went with its table and is dropped after it. `Abort` ends the transaction early. The
index statements of a table follow each other and are one statement here. Columns and
constraints other than foreign keys are left out; no statement depends on them.

| run | bounds | shows |
|---|---|---|
| `schema` | 4 migrations, any of them cut short | `NothingRefused`, `WholeVersions` |

Four are up, down, up, down; the state after the second is the first one again.

## 11. Proofs

All theorems hold for every value of the constants that satisfies the assumption
named in the module (`PipelineAssumption`, `AuthAssumption`, `IndexAssumption`, ...: the
bounds are numbers, a null value is not an element, a call has a tab). No other
assumption is made.

`PipelineProofs`

* `TypeCorrect`. `TypeOK` is inductive; besides types it says that a busy worker
  works for a meeting with a row and that nothing is sent for one without.
* `CompletedIsBacked` (`CompletedHasResults`). Not inductive by itself: a run
  that is about to write COMPLETED must have the results behind it. `ResultsInv`
  adds what each phase of a run implies about the rows (`Backed`); it holds
  against other runs because versions only grow.
* `NothingLost` (`NoLostMeeting`), where `Faults \subseteq {"lost"}`, for any
  number of workers. `CarriedInv` strengthens "a worker is busy with it" to "a worker
  will still write a terminal status" (`WillSettle`) and adds that every delivery is
  still held by the broker, so that a loss puts it back.
* `FreshWhereApart` (`FreshWhenCompleted`), `ReasonWhereApart` (`ReasonIffFailed`) and
  `AudioWhereApart` (`NoAudioCollision`), where `[]RunsApart`, for any number of workers.
  `RowsInv` says, phase by phase, what the rows are while a run holds a meeting: the
  ORM object agrees with the row, the analysis in hand is of the stored transcript,
  an audio row it did not find is not there. A step of another worker that changes
  these is, by `RunsApart`, about another meeting.
* `RefinesLifecycle` (`ImplementsLifecycle`), where `[]RunsApart`: initial states map to
  initial states, and each action to an action of `MeetingLifecycle` or a stutter;
  `RowsInv` gives the guards of the abstract actions.
* `FirstTaskIsAlone` (`FirstTaskAlone`), for any number of workers. `AloneInv`: until a
  reprocess, a loss or a redelivery a meeting is carried by its request, by one message
  or by one worker, and by one of these only. `FirstTaskConsistent` concludes the three
  properties above for such behaviours, without the hypothesis.

`AuthProofs`

* `AuthTypeCorrect`. Token rows are numbered without gaps and a request in flight
  refers to rows that exist.
* `RotationBurns` (`AncestorsBurned`) and `NoHalfCreatedOrg` (`OneOrgPerAccount`),
  however requests overlap. Both are inductive with `TypeOK`.
* `RotationWhereApart` (`RotationIsSingleUse`), for any number of requests.
  `RotationInv`: a token that a refresh holds has no successor yet, even if a logout or
  a sweep has revoked it since. By `AncestorsBurned` a token with a successor is revoked,
  so it is not the live token that a refresh takes.
* `SweepsWhereApart` (`SweepsAreFinal`), for any number of requests. `SweepInv`:
  a sweep between its UPDATE and its commit has seen every live session of its user, and
  a request about to issue a session knows the current era.
* `ResetsWhereApart` (`ResetIsSingleUse`), for any number of requests, by
  `ResetsFresh`: a reset token that a request holds was not used.

`StoresProofs`

* `StoresTypeCorrect`. Typing the vectors needs that a run holds a transcript,
  which `TypeOK` therefore says.
* `UploadKeepsObject` (`RowHasObject`) and `UploadKeepsBoth` (`AgreeAtRest`), from
  `RequestInv`: where the request is tells what there is.
* `TwinsAreWhole` (`OneTwinSet`), for any number of runs at once. `TwinsInv` adds
  `AllOrNothing`: the rows a DELETE found are all there are, or none of them is
  left because another run replaced them. A complete set has a row with index 0,
  so `chunk_position` refuses every insert next to rows that are left.
* `FoundByOneText` (`OneTextFound`) and `StoresInStep` (`StoresAgree`), for the meetings no
  two embeddings of which overlapped. `AloneInv` says that such a meeting has at most
  one run under way, and what each of its steps has left in the two stores: nothing in
  Chroma once it was cleared, the chunks of the transcript it read once it was filled.

`ChatProofs`

* `ChatTypes`, and from it `StoresWholeExchanges` (`WholeExchanges`), `AnswersCiteOwn`
  (`CitesOwn`) and `NamedByItsQuestion` (`NamedByQuestion`), for any number of
  overlapping questions. The common invariant says what a question under way has
  read, and that a title read before the model was asked can only have become a
  question's since.
* `PageIsAClient`: the page with the service implements `ChatSpec`, so all of these
  hold behind the page.
* `ExchangesStayTogether` (`HistoryByExchange`). `ClockInv`: the two rows of a transaction
  carry the time it began, and no two transactions began at the same time; so in a
  sequence ordered by that time nothing stands between the two (`ExchangeTogether`).
* `CalmPageShowsHistory` (`CalmPageIsStored`). A calm page is at rest, or loads a history,
  or waits for one answer (`Resting`, `Loading`, `Asking`, the parts of `CalmInv`), and
  each handler leads from one of these to another or ends the calm. Its two lemmas on
  sequences are that a history with one exchange more is a history of the session
  after `Persist` (`OneExchangeMore`), and that taking back the typed question leaves
  what was shown before it (`TakenBack`).

`WorkspaceProofs`

* `AnalysisIsOne` (`OneAnalysis`) and `SpeakersLinked` (`LinksHold`), for any number of
  overlapping runs. The invariant relates what a transaction has deleted to what is
  stored: until it commits, nothing else may take those rows away, and whoever has
  inserted a row of type FULL keeps the others waiting. That is why one key among the
  three tables is enough.
* `AnswersGoForward` (`ForwardAnswer`). The analyses are numbered by their commits
  (`LastAnalysis`) and every table of one holds the last: what a statement reads is the
  last analysis there is, so no list read before can be ahead of it, and a commit that
  follows changes no version a request has read (`ReadsForward`).
* `PatchKeepsOthers` (`OnlySentFieldsChange`).
* `CalmTabShowsWhatIsStored` (`CalmTabIsStored`) and `TabImplementsWorkspace`.

`ApiClientProofs`, for any number of tabs, calls, server requests and tokens

* `ClientUsesAuth`: the composition implements `Spec` of `Auth`.
* `CalmPairStaysLive` (`CalmPairIsLive`) and `CalmCallsAlwaysSucceed`
  (`CalmCallsSucceed`). The invariant has two parts. `Wired`
  holds always: a refresh is its tab's promise, is served by a request of its own
  that works on the token it presented, and answers a token that exists. `CalmInv`
  holds while it is calm: there is one refresh at a time and no logout next to it,
  the token it presents is the user's and live until it is answered, so the service
  never takes it for a replay; what it is answered is the next live one. The
  properties speak of states without a refresh, so none is inductive without it.

`MeetingPageProofs`

* `NoIntervalLeaks` (`OneInterval`): an interval ticks exactly when `pollRef` says so,
  and then the page is open.

`SchemaProofs`

* `NoStatementRefused` (`NothingRefused`) and `CatalogIsWhole` (`WholeVersions`), for any
  number of migrations, cut short anywhere. `SchemaInv`: after `k` statements of
  `upgrade` the catalog is the first tables with their types and indexes
  (`Upgrading`), after `k` statements of `downgrade` all but the last, and then the
  types less those dropped (`Downgrading`, `Cleaning`). That the next statement is
  allowed follows from three facts about the script: no two tables have one name
  (`OwnNames`), each names earlier tables only (`NamedBefore`), no two need one type
  (`OwnEnums`); the indexes of a table stand next to it in both scripts.

Only model-checked: what needs fairness (`EventuallySettled`, `FormComesBack`,
`ProcessingEnds`, `FirstRunShown`; liveness is out of the prover's reach). Every safety
property of the passing runs is a theorem.

## 12. Not modelled

* The list, search and settings pages: rendering, and one request per view whose
  late answer is the hazard of section 9 in a smaller form.
* The pure algorithms (`chunking.py`, `speaker_assignment.py`, `transcript_formatter.py`,
  page arithmetic) and the rules of upload validation: functions of one call's input,
  on text and floating point times, without state, order or failure. `VectorIndex`
  keeps of chunking that it numbers its chunks from 0 without gaps.
* AI providers: calls without shared state whose outcome is a choice of the models.
* Audit log, logging, rate limiting, health checks: they keep no state that decides
  anything. What a failing audit commit takes with it is modelled (`AuditFails`).
* Column declarations, response schemas and plain queries are data the models
  abstract from; constraints, transactions and session options are taken into account
  where a modelled step depends on them.
* A commit that takes effect although it raises.
