-------------------------- MODULE MeetingPageProofs --------------------------
(* No interval of the meeting page leaks, for any number of loads, reruns and *)
(* failures: pollRef and the ticking interval stay in step.                   *)
EXTENDS MeetingPage, TLAPS

Load == [at : {"idle", "sent", "read"}, status : Status \union {"none"}]

(* An answer carries a status of the meeting.                                 *)
Answers ==
  /\ status \in Status
  /\ load \in [Loads -> Load]
  /\ \A l \in Loads : load[l].at = "read" => load[l].status \in Status

(* pollRef holds the one interval there is; there is none before the first    *)
(* answer and after the page is left.                                         *)
Ticks ==
  /\ pollRef \in BOOLEAN
  /\ timers = IF pollRef THEN 1 ELSE 0
  /\ shown = "none" => ~pollRef
  /\ ~open => ~pollRef

Statuses == {"uploaded", "extracting", "transcribing", "diarizing", "analyzing", "embedding",
             "completed", "failed"}

LEMMA StatusIs == Status = Statuses /\ "none" \notin Status
BY DEF Status, Stages, Terminal, Statuses

LEMMA Moves ==
  ASSUME NEW s \in Status, NEW t, CanTransition(s, t)
  PROVE  t \in Status
BY StatusIs DEF CanTransition, Allowed, Statuses

LEMMA AnswersStep ==
  ASSUME Answers, [PageNext]_pageVars
  PROVE  Answers'
<1> USE StatusIs
<1>1. CASE UNCHANGED pageVars
  BY <1>1 DEF pageVars, server, Answers
<1>2. ASSUME NEW s \in Status, Advance(s)
      PROVE  Answers'
  BY <1>2 DEF Advance, Answers
<1>3. CASE FailAndRetry \/ Rerun
  BY <1>3 DEF FailAndRetry, Rerun, Answers, Statuses
<1>4. ASSUME NEW l \in Loads, Poll(l) \/ Accepted(l)
      PROVE  Answers'
  <2>1. status' = status /\ load' = [load EXCEPT ![l] = Sent] /\ Sent \in Load
    BY <1>4 DEF Poll, Accepted, Post, server, Sent, Load
  <2> QED
    BY <2>1 DEF Answers, Sent
<1>5. ASSUME NEW l \in Loads, Serve(l)
      PROVE  Answers'
  <2>1. status' = status /\ load' = [load EXCEPT ![l] = Read(status)] /\ Read(status) \in Load
    BY <1>5 DEF Serve, server, Read, Load, Answers
  <2> QED
    BY <2>1 DEF Answers, Read
<1>6. ASSUME NEW l \in Loads, Answer(l) \/ Lose(l)
      PROVE  Answers'
  <2>1. status' = status /\ load' = [load EXCEPT ![l] = Idle] /\ Idle \in Load
    BY <1>6 DEF Answer, Lose, server, Idle, Load
  <2> QED
    BY <2>1 DEF Answers, Idle
<1>7. CASE ClickReprocess \/ Rejected \/ Leave
  BY <1>7 DEF ClickReprocess, Rejected, Leave, server, Answers
<1> QED
  BY <1>1, <1>2, <1>3, <1>4, <1>5, <1>6, <1>7 DEF PageNext, Browser, Meeting

LEMMA TicksStep ==
  ASSUME Answers, Ticks, [PageNext]_pageVars
  PROVE  Ticks'
<1>1. CASE UNCHANGED pageVars
  BY <1>1 DEF pageVars, effect, Ticks
<1>2. CASE Meeting
  BY <1>2 DEF Meeting, Advance, FailAndRetry, Rerun, effect, Ticks
<1>3. ASSUME NEW l \in Loads, Poll(l) \/ Serve(l) \/ Lose(l) \/ Accepted(l)
      PROVE  Ticks'
  BY <1>3 DEF Poll, Serve, Lose, Accepted, server, effect, Ticks
<1>4. ASSUME NEW l \in Loads, Answer(l)
      PROVE  Ticks'
  <2>1. CASE open
    <3> DEFINE s == load[l].status
               e == IF shown = "none" THEN Now ELSE Cleanup(Now)
    <3>1. shown' = s /\ open' = open /\ Effect(Polling(s, e))
      BY <1>4, <2>1 DEF Answer, Show
    <3>2. s # "none"
      BY <1>4, StatusIs DEF Answer, Answers
    <3>3. e = [timers |-> 0, ref |-> FALSE]
      <4>1. CASE pollRef
        BY <4>1 DEF Ticks, Cleanup, Now
      <4>2. CASE ~pollRef
        BY <4>2 DEF Ticks, Cleanup, Now
      <4> QED
        BY <4>1, <4>2
    <3> HIDE DEF s, e
    <3>4. timers' = (IF Processing(s) THEN 1 ELSE 0) /\ pollRef' = Processing(s)
      <4>1. CASE Processing(s)
        BY <3>1, <3>3, <4>1 DEF Effect, Polling
      <4>2. CASE ~Processing(s)
        BY <3>1, <3>3, <4>2 DEF Effect, Polling, Processing
      <4> QED
        BY <4>1, <4>2 DEF Processing
    <3> QED
      BY <2>1, <3>1, <3>2, <3>4 DEF Ticks, Processing
  <2>2. CASE ~open
    BY <1>4, <2>2 DEF Answer, effect, Ticks
  <2> QED
    BY <2>1, <2>2
<1>5. CASE ClickReprocess \/ Rejected
  BY <1>5 DEF ClickReprocess, Rejected, server, effect, Ticks
<1>6. CASE Leave
  <2>1. CASE shown = "none"
    BY <1>6, <2>1 DEF Leave, effect, Ticks
  <2>2. CASE shown # "none"
    <3>1. ~open' /\ Effect(Cleanup(Now))
      BY <1>6, <2>2 DEF Leave, Unmount
    <3>2. Cleanup(Now) = [timers |-> 0, ref |-> FALSE]
      <4>1. CASE pollRef
        BY <4>1 DEF Ticks, Cleanup, Now
      <4>2. CASE ~pollRef
        BY <4>2 DEF Ticks, Cleanup, Now
      <4> QED
        BY <4>1, <4>2 DEF Ticks
    <3> QED
      BY <3>1, <3>2 DEF Effect, Ticks
  <2> QED
    BY <2>1, <2>2
<1> QED
  BY <1>1, <1>2, <1>3, <1>4, <1>5, <1>6 DEF PageNext, Browser

(* Whatever the order of answers, failures and reruns, and wherever the page  *)
(* is left: at most one interval, and none after it.                          *)
THEOREM NoIntervalLeaks == PageSpec => []OneInterval
<1>1. PageInit => Answers /\ Ticks
  <2> SUFFICES ASSUME PageInit PROVE Answers /\ Ticks
    OBVIOUS
  <2>1. PICK l \in Loads : load = [k \in Loads |-> IF k = l THEN Sent ELSE Idle]
    BY DEF PageInit
  <2>2. Sent \in Load /\ Idle \in Load
    BY DEF Sent, Idle, Load
  <2> QED
    BY <2>1, <2>2 DEF PageInit, Answers, Ticks, Sent, Idle
<1>2. Answers /\ Ticks /\ [PageNext]_pageVars => Answers' /\ Ticks'
  BY AnswersStep, TicksStep
<1>3. Ticks => OneInterval
  BY DEF Ticks, OneInterval
<1> QED
  BY <1>1, <1>2, <1>3, PTL DEF PageSpec

=============================================================================
