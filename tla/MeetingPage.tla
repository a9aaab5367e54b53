----------------------------- MODULE MeetingPage -----------------------------
(***************************************************************************)
(* The page of one meeting (app/(app)/meetings/[id]/page.tsx): it loads    *)
(* the meeting, polls it while it is being processed, and lets the user    *)
(* reprocess it.  Loads overlap, are answered in any order, and may fail.  *)
(* The meeting itself moves along the status graph of PipelineState.       *)
(***************************************************************************)
EXTENDS Naturals, PipelineState

CONSTANTS
  Loads,     \* requests that can be under way at once
  MaxRuns,   \* bound: runs after the first, by reprocess or by retry
  MaxLost    \* bound: requests that fail

ASSUME PageAssumption == MaxRuns \in Nat /\ MaxLost \in Nat

VARIABLES
  status,    \* the meeting's, in the database
  queued,    \* messages that start the pipeline once more
  runs,      \* bound: reruns so far
  shown,     \* meeting.status of the page; "none": meeting is null
  timers,    \* intervals that are ticking
  pollRef,   \* pollRef.current is set
  load,      \* what became of each load()
  asking,    \* the POSTs of onReprocess under way
  lost,      \* bound: requests that failed so far
  open,      \* the page is mounted
  smooth     \* ghost: no rerun so far, and the first load did not fail

server == <<status, queued, runs>>
effect == <<timers, pollRef>>
pageVars == <<server, shown, effect, load, asking, lost, open, smooth>>

(* Mutant of Processing: what has not been started is not polled. *)
Processing_NotUploaded(s) == s \in Stages

(* isProcessing *)
Processing(s) == s \notin Terminal

Idle == [at |-> "idle", status |-> "none"]
Sent == [at |-> "sent", status |-> "none"]
Read(s) == [at |-> "read", status |-> s]

PageInit ==
  /\ status \in Status /\ queued = 0 /\ runs = 0
  /\ shown = "none" /\ timers = 0 /\ pollRef = FALSE
  /\ \E l \in Loads : load = [k \in Loads |-> IF k = l THEN Sent ELSE Idle]
  /\ asking = 0 /\ lost = 0 /\ open = TRUE /\ smooth = TRUE

-----------------------------------------------------------------------------
(* The meeting. *)

Advance(s) ==
  /\ ~(status \in Terminal) /\ CanTransition(status, s)
  /\ status' = s
  /\ UNCHANGED <<queued, runs, shown, effect, load, asking, lost, open, smooth>>

(* autoretry_for: a run that failed is queued again. *)
FailAndRetry ==
  /\ status \in Stages /\ runs < MaxRuns
  /\ status' = "failed" /\ queued' = queued + 1 /\ runs' = runs + 1
  /\ UNCHANGED <<shown, effect, load, asking, lost, open, smooth>>

(* Runs do not overlap: a message waits for the one before it (MeetingLifecycle). *)
Rerun ==
  /\ queued > 0 /\ status \in Terminal
  /\ status' = "extracting" /\ queued' = queued - 1
  /\ smooth' = FALSE
  /\ UNCHANGED <<runs, shown, effect, load, asking, lost, open>>

-----------------------------------------------------------------------------
(* The page. *)

Post(l) == load[l] = Idle /\ load' = [load EXCEPT ![l] = Sent]

(* setInterval(() => load(), 3000) *)
Poll(l) ==
  /\ timers > 0
  /\ Post(l)
  /\ UNCHANGED <<server, shown, effect, asking, lost, open, smooth>>

Serve(l) ==
  /\ load[l].at = "sent"
  /\ load' = [load EXCEPT ![l] = Read(status)]
  /\ UNCHANGED <<server, shown, effect, asking, lost, open, smooth>>

(* Mutant of Cleanup: the interval is cleared but stays in pollRef. *)
Cleanup_KeepsRef(e) == IF e.ref THEN [timers |-> e.timers - 1, ref |-> TRUE] ELSE e

(* What the effect returns: clearInterval, and pollRef is empty. *)
Cleanup(e) == IF e.ref THEN [timers |-> e.timers - 1, ref |-> FALSE] ELSE e

(* The effect that depends on the meeting. *)
Polling(s, e) ==
  IF Processing(s) /\ ~e.ref THEN [timers |-> e.timers + 1, ref |-> TRUE]
  ELSE IF ~Processing(s) /\ e.ref THEN [timers |-> e.timers - 1, ref |-> FALSE]
  ELSE e

Effect(e) == timers' = e.timers /\ pollRef' = e.ref
Now == [timers |-> timers, ref |-> pollRef]

(* setMeeting with a new object: clean up, then the effect again. *)
Show(s) ==
  /\ shown' = s
  /\ Effect(Polling(s, IF shown = "none" THEN Now ELSE Cleanup(Now)))

Answer(l) ==
  /\ load[l].at = "read"
  /\ load' = [load EXCEPT ![l] = Idle]
  /\ IF open THEN Show(load[l].status) ELSE UNCHANGED <<shown, effect>>
  /\ UNCHANGED <<server, asking, lost, open, smooth>>

(* No one handles the rejection; without a first answer the page says "not    *)
(* found" for good.                                                           *)
Lose(l) ==
  /\ load[l].at \in {"sent", "read"} /\ lost < MaxLost
  /\ load' = [load EXCEPT ![l] = Idle]
  /\ lost' = lost + 1
  /\ smooth' = (smooth /\ shown # "none")
  /\ UNCHANGED <<server, shown, effect, asking, open>>

(* The button is there when the page shows a terminal status, and stays        *)
(* enabled while a POST is under way: it can be clicked twice.                *)
ClickReprocess ==
  /\ open /\ shown \in Terminal /\ runs < MaxRuns
  /\ asking' = asking + 1
  /\ runs' = runs + 1
  /\ UNCHANGED <<status, queued, shown, effect, load, lost, open, smooth>>

(* request_reprocess accepts it, leaves the status as it is, and the message   *)
(* is queued.  Then "await load()".                                           *)
Accepted(l) ==
  /\ asking > 0 /\ CanTransition(status, "extracting")
  /\ queued' = queued + 1
  /\ asking' = asking - 1
  /\ Post(l)
  /\ UNCHANGED <<status, runs, shown, effect, lost, open, smooth>>

(* "Could not reprocess": it is refused, send_task raises, or the answer is    *)
(* lost.  Nothing is loaded, although the last of them has queued a message.  *)
Rejected ==
  /\ asking > 0
  /\ asking' = asking - 1
  /\ queued' \in IF CanTransition(status, "extracting") THEN {queued, queued + 1} ELSE {queued}
  /\ UNCHANGED <<status, runs, shown, effect, load, lost, open, smooth>>

(* Mutant of Unmount: no cleanup when the page is left. *)
Unmount_Ticking == UNCHANGED effect

(* Unmounted: the effect's cleanup runs. *)
Unmount == Effect(Cleanup(Now))

Leave ==
  /\ open
  /\ open' = FALSE
  /\ IF shown = "none" THEN UNCHANGED effect ELSE Unmount
  /\ UNCHANGED <<server, shown, load, asking, lost, smooth>>

-----------------------------------------------------------------------------
Meeting == (\E s \in Status : Advance(s)) \/ FailAndRetry \/ Rerun

Browser ==
  \/ \E l \in Loads : Poll(l) \/ Serve(l) \/ Answer(l) \/ Lose(l) \/ Accepted(l)
  \/ ClickReprocess \/ Rejected \/ Leave

PageNext == Meeting \/ Browser

(* The pipeline settles what it has begun (EventuallySettled), an interval    *)
(* ticks, and a request gets its answer unless it is one of those that fail.  *)
PageFairness ==
  /\ WF_pageVars(Meeting)
  /\ WF_pageVars(\E l \in Loads : Poll(l))
  /\ \A l \in Loads : WF_pageVars(Serve(l)) /\ WF_pageVars(Answer(l))
  /\ WF_pageVars((\E l \in Loads : Accepted(l)) \/ Rejected)

PageSpec == PageInit /\ [][PageNext]_pageVars /\ PageFairness

-----------------------------------------------------------------------------
(* However answers overtake each other or fail, no interval leaks: there is   *)
(* at most one, and none once the page is left.                               *)
OneInterval == timers <= 1 /\ (~open => timers = 0)

(* A page that shows "Processing..." goes on until it shows how it ended:     *)
(* "re-fetch every 3s until it settles" (50).                                 *)
ProcessingEnds ==
  (open /\ shown \in Status \ Terminal) ~> (~open \/ shown \in Terminal)

(* A page opened while the meeting is first processed ends up, for good, with *)
(* the status the meeting ended with, even if an old answer comes last.       *)
FirstRunShown ==
  [](open /\ smooth) => <>[](shown = status)

=============================================================================
