----------------------------- MODULE MCPipeline -----------------------------
(* Model values and fault sets for the configurations of the pipeline. *)
EXTENDS PipelineProps, TLC

CONSTANTS m1, w1, w2

OneMeeting == {m1}
SingleWorker == {w1}
TwoWorkers == {w1, w2}

(* Worker processes are interchangeable: safety runs only. *)
WorkerSymmetry == Permutations(TwoWorkers)
=============================================================================
