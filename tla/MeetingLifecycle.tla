-------------------------- MODULE MeetingLifecycle --------------------------
(***************************************************************************)
(* What a client of the API is promised about a meeting, with no word of   *)
(* workers or queues: its status moves along the documented graph (or      *)
(* falls back to FAILED), the stored results change only in the stage that *)
(* makes them, and a meeting is COMPLETED only with intelligence made from *)
(* the transcript it is shown with.                                        *)
(***************************************************************************)
EXTENDS Naturals, PipelineState

CONSTANT Meetings

VARIABLES status, transcript, intel

lifecycle == <<status, transcript, intel>>

Init ==
  /\ status = [m \in Meetings |-> "absent"]
  /\ transcript = [m \in Meetings |-> 0]
  /\ intel = [m \in Meetings |-> 0]

Create(m) ==
  /\ status[m] = "absent"
  /\ status' = [status EXCEPT ![m] = "uploaded"]
  /\ UNCHANGED <<transcript, intel>>

(* A stage is entered, from the status before it in the graph. *)
Enter(m, stage) ==
  /\ status[m] # "absent"
  /\ CanTransition(status[m], stage)
  /\ status' = [status EXCEPT ![m] = stage]
  /\ UNCHANGED <<transcript, intel>>

StoreTranscript(m) ==
  /\ status[m] = "transcribing"
  /\ transcript' = [transcript EXCEPT ![m] = @ + 1]
  /\ UNCHANGED <<status, intel>>

StoreIntelligence(m) ==
  /\ status[m] = "analyzing"
  /\ transcript[m] > 0
  /\ intel' = [intel EXCEPT ![m] = transcript[m]]
  /\ UNCHANGED <<status, transcript>>

Complete(m) ==
  /\ status[m] = "embedding"
  /\ transcript[m] > 0 /\ intel[m] = transcript[m]
  /\ status' = [status EXCEPT ![m] = "completed"]
  /\ UNCHANGED <<transcript, intel>>

Fail(m) ==
  /\ status[m] # "absent"
  /\ status' = [status EXCEPT ![m] = "failed"]
  /\ UNCHANGED <<transcript, intel>>

Next == \E m \in Meetings :
  \/ Create(m) \/ StoreTranscript(m) \/ StoreIntelligence(m)
  \/ Complete(m) \/ Fail(m)
  \/ \E stage \in Stages : Enter(m, stage)

Spec == Init /\ [][Next]_lifecycle

=============================================================================
