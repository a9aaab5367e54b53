------------------------------- MODULE Upload -------------------------------
(***************************************************************************)
(* The upload of a recording (MeetingService.create_from_upload): one      *)
(* object in the store and one transaction in Postgres, which no common    *)
(* transaction joins.  What fails after the object may exist is undone by  *)
(* a compensating delete.                                                  *)
(***************************************************************************)

CONSTANTS
  Meetings,       \* meeting ids; each upload mints a new one
  UploadFaults    \* what may go wrong besides the exceptions that are handled

UploadFaultKinds ==
  { "crash",   \* the API process dies
    "undo" }   \* the compensating delete raises

ASSUME UploadAssumption == UploadFaults \subseteq UploadFaultKinds

VARIABLES
  object,   \* whether the store holds the object (or a part) of the meeting
  row,      \* whether the meetings and files rows are committed
  upload    \* how far the request is

uploadVars == <<object, row, upload>>

Progress == {"new", "storing", "stored", "undo", "created", "refused", "stuck", "dead"}

UploadOK ==
  /\ object \in [Meetings -> BOOLEAN]
  /\ row \in [Meetings -> BOOLEAN]
  /\ upload \in [Meetings -> Progress]

UploadInit ==
  /\ object = [m \in Meetings |-> FALSE]
  /\ row = [m \in Meetings |-> FALSE]
  /\ upload = [m \in Meetings |-> "new"]

(* The upload of m goes from one point of the request to another. *)
Moves(m, from, to) == upload[m] = from /\ upload' = [upload EXCEPT ![m] = to]

-----------------------------------------------------------------------------
(* Extension and header were accepted; a rejected file leaves no trace. *)
Receive(m) == Moves(m, "new", "storing") /\ UNCHANGED <<object, row>>

(* storage.upload *)
Store(m) ==
  /\ Moves(m, "storing", "stored")
  /\ object' = [object EXCEPT ![m] = TRUE]
  /\ UNCHANGED row

(* Mutant of StoreRaises: the try begins after storage.upload. *)
StoreRaises_Unguarded(m) ==
  /\ Moves(m, "storing", "refused")
  /\ \E part \in BOOLEAN : object' = [object EXCEPT ![m] = part]
  /\ UNCHANGED row

(* ... raises: the stream is over the limit, or the store fails, maybe half-way *)
StoreRaises(m) ==
  /\ Moves(m, "storing", "undo")
  /\ \E part \in BOOLEAN : object' = [object EXCEPT ![m] = part]
  /\ UNCHANGED row

(* The size is wrong after all, or the transaction fails and is rolled back. *)
Reject(m) == Moves(m, "stored", "undo") /\ UNCHANGED <<object, row>>

(* Mutant of Commit: more that can raise follows the commit in the same try. *)
Commit_Early(m) ==
  /\ upload[m] = "stored"
  /\ row' = [row EXCEPT ![m] = TRUE]
  /\ UNCHANGED <<object, upload>>

(* meeting, file and audit rows *)
Commit(m) ==
  /\ Moves(m, "stored", "created")
  /\ row' = [row EXCEPT ![m] = TRUE]
  /\ UNCHANGED object

(* except: storage.delete, then the exception is raised again *)
Undo(m) ==
  /\ Moves(m, "undo", "refused")
  /\ object' = [object EXCEPT ![m] = FALSE]
  /\ UNCHANGED row

UndoRaises(m) ==
  /\ "undo" \in UploadFaults
  /\ Moves(m, "undo", "stuck")
  /\ object' \in {object, [object EXCEPT ![m] = FALSE]}
  /\ UNCHANGED row

Crash(m) ==
  /\ "crash" \in UploadFaults
  /\ \E at \in {"storing", "stored", "undo"} : Moves(m, at, "dead")
  /\ object' \in {object, [object EXCEPT ![m] = @ \/ upload[m] = "storing"]}
  /\ UNCHANGED row

UploadStep(m) ==
  \/ Receive(m) \/ Store(m) \/ StoreRaises(m) \/ Reject(m) \/ Commit(m)
  \/ Undo(m) \/ UndoRaises(m) \/ Crash(m)

=============================================================================
