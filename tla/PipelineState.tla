--------------------------- MODULE PipelineState ---------------------------
(***************************************************************************)
(* The status graph of a meeting (services/pipeline_state.py): which       *)
(* status a meeting in a given status may be moved to.  "absent" is not a  *)
(* status of the code: it stands for a meeting that has no row yet.        *)
(***************************************************************************)

Stages == {"extracting", "transcribing", "diarizing", "analyzing", "embedding"}

Terminal == {"completed", "failed"}

Status == {"uploaded"} \union Stages \union Terminal

(* _ALLOWED *)
Allowed ==
  [ uploaded     |-> {"extracting", "failed"},
    extracting   |-> {"transcribing", "failed"},
    transcribing |-> {"diarizing", "completed", "failed"},
    diarizing    |-> {"analyzing", "completed", "failed"},
    analyzing    |-> {"embedding", "completed", "failed"},
    embedding    |-> {"completed", "failed"},
    completed    |-> {"extracting"},
    failed       |-> {"extracting"} ]

(* can_transition; assert_transition raises exactly when it is false *)
CanTransition(current, target) == target \in Allowed[current]

(* The order in which process() calls the stages. *)
After ==
  [ extracting   |-> "transcribing",
    transcribing |-> "diarizing",
    diarizing    |-> "analyzing",
    analyzing    |-> "embedding",
    embedding    |-> "completed" ]

=============================================================================
