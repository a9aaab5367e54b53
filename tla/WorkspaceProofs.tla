--------------------------- MODULE WorkspaceProofs ---------------------------
(***************************************************************************)
(* Proofs about Workspace: for any number of runs and requests, what is    *)
(* committed is one whole analysis and no segment points to a speaker that *)
(* is gone.  The argument is about locks: a row that a transaction has     *)
(* deleted stays where it is until that transaction ends (GoneIsThere,     *)
(* OneDeleter), a key that was inserted leaves room for no other (Keyed),  *)
(* and so the rows the three DELETEs of an analysis remove are those of    *)
(* one analysis (SameRows).  A request that reads them one after the other *)
(* reads what its versions say, and these only grow (ReadsForward).        *)
(***************************************************************************)
EXTENDS IntelligenceTab, SequenceTheorems, TLAPS

Txn ==
  [step : {"idle", "delete", "deleting", "insert", "link", "commit"},
   job : {Transcribe, Diarize, Analyze}, at : {1, 2, 3}, snap : SUBSET Runs,
   put : BOOLEAN, gone : [Tables -> SUBSET Runs]]

Types ==
  /\ stored \in [Tables -> SUBSET Runs]
  /\ link \in [Runs -> Runs \union {None}]
  /\ txn \in [Runs -> Txn \union {Over}]

(* How far a transaction is agrees with what it has done. *)
Stepwise ==
  \A r \in Runs : ~At(r, "over") =>
    /\ txn[r].job # Analyze => txn[r].at = 1
    /\ txn[r].put <=> txn[r].step \in {"link", "commit"}
    /\ At(r, "link") => InJob(r, Diarize)
    /\ InJob(r, Analyze) /\ txn[r].step \in {"insert", "commit"} => txn[r].at = 3
    /\ At(r, "idle") => txn[r].at = 1 /\ txn[r].gone = [t \in Tables |-> {}]

(* What a transaction has deleted is still there, is of its own tables, *)
GoneIsThere ==
  \A r \in Runs, t \in Tables :
    /\ Gone(r, t) \subseteq stored[t]
    /\ ~At(r, "over") /\ t \notin Written(r) => Gone(r, t) = {}

(* and is deleted by no other. *)
OneDeleter ==
  \A r, o \in Runs, t \in Tables : r # o => Gone(r, t) \cap Gone(o, t) = {}

(* Whoever has inserted into a table with a key has deleted all the rest. *)
Keyed ==
  \A r \in Runs, t \in Unique :
    Put(r, t) => /\ stored[t] \subseteq Gone(r, t)
                 /\ \A o \in Runs \ {r} : ~Put(o, t)

(* The DELETEs of an analysis agree. *)
SameRows ==
  \A r \in Runs : InJob(r, Analyze) =>
    LET gone == txn[r].gone IN
    /\ txn[r].at > 1 /\ At(r, "deleting") => gone["summaries"] \subseteq txn[r].snap
    /\ txn[r].at = 3 => gone["summaries"] \subseteq gone["insights"]
    /\ txn[r].step \in {"insert", "commit"} => gone["summaries"] \subseteq gone["items"]

(* A transcript that is not stored yet is linked to nobody. *)
NotYetLinked ==
  \A r \in Runs : InJob(r, Transcribe) => link[r] = None /\ r \notin stored["segments"]

IInv ==
  /\ Types /\ Stepwise /\ GoneIsThere /\ OneDeleter /\ Keyed /\ SameRows
  /\ NotYetLinked /\ OneAnalysis /\ LinksHold

-----------------------------------------------------------------------------
LEMMA JobShape ==
  /\ Job[Transcribe] = <<"segments">> /\ Job[Diarize] = <<"speakers">>
  /\ Job[Analyze] = <<"summaries", "insights", "items">>
  /\ Job[Analyze] = Intelligence /\ Intelligence \in View
BY DEF Job, Transcribe, Diarize, Analyze, Intelligence, View

LEMMA WrittenIs ==
  ASSUME Types, NEW r \in Runs, ~At(r, "over")
  PROVE  /\ InJob(r, Transcribe) => Written(r) = {"segments"}
         /\ InJob(r, Diarize) => Written(r) = {"speakers"}
         /\ InJob(r, Analyze) => Written(r) = {"summaries", "insights", "items"}
         /\ txn[r].job \in {Transcribe, Diarize, Analyze}
         /\ Written(r) \subseteq Tables
<1>1. /\ Len(Job[Transcribe]) = 1 /\ Job[Transcribe][1] = "segments"
      /\ Len(Job[Diarize]) = 1 /\ Job[Diarize][1] = "speakers"
      /\ Len(Job[Analyze]) = 3 /\ Job[Analyze][1] = "summaries"
      /\ Job[Analyze][2] = "insights" /\ Job[Analyze][3] = "items"
  BY JobShape
<1>2. txn[r] \in Txn
  BY DEF Types, At, Over
<1>3. CASE InJob(r, Transcribe)
  BY <1>1, <1>2, <1>3 DEF Written, InJob, Tables, Txn, Transcribe, Diarize, Analyze
<1>4. CASE InJob(r, Diarize)
  BY <1>1, <1>2, <1>4 DEF Written, InJob, Tables, Txn, Transcribe, Diarize, Analyze
<1>5. CASE InJob(r, Analyze)
  BY <1>1, <1>2, <1>5 DEF Written, InJob, Tables, Txn, Transcribe, Diarize, Analyze
<1> QED BY <1>2, <1>3, <1>4, <1>5 DEF InJob, Txn, At

LEMMA TableIs ==
  ASSUME Types, Stepwise, NEW r \in Runs, ~At(r, "over")
  PROVE  /\ InJob(r, Transcribe) => Table(r) = "segments" /\ Len(Job[txn[r].job]) = 1
         /\ InJob(r, Diarize) => Table(r) = "speakers" /\ Len(Job[txn[r].job]) = 1
         /\ InJob(r, Analyze) => /\ txn[r].at = 1 => Table(r) = "summaries"
                                 /\ txn[r].at = 2 => Table(r) = "insights"
                                 /\ txn[r].at = 3 => Table(r) = "items"
                                 /\ Len(Job[txn[r].job]) = 3
         /\ Table(r) \in Written(r)
<1>1. /\ Len(Job[Transcribe]) = 1 /\ Job[Transcribe][1] = "segments"
      /\ Len(Job[Diarize]) = 1 /\ Job[Diarize][1] = "speakers"
      /\ Len(Job[Analyze]) = 3 /\ Job[Analyze][1] = "summaries"
      /\ Job[Analyze][2] = "insights" /\ Job[Analyze][3] = "items"
  BY JobShape
<1>2. txn[r] \in Txn /\ (txn[r].job # Analyze => txn[r].at = 1)
  BY DEF Types, At, Over, Stepwise
<1>3. /\ InJob(r, Transcribe) => Table(r) = "segments" /\ Len(Job[txn[r].job]) = 1
      /\ InJob(r, Diarize) => Table(r) = "speakers" /\ Len(Job[txn[r].job]) = 1
  BY <1>1, <1>2 DEF Table, InJob, Txn, Transcribe, Diarize, Analyze
<1>4. InJob(r, Analyze) => /\ txn[r].at = 1 => Table(r) = "summaries"
                           /\ txn[r].at = 2 => Table(r) = "insights"
                           /\ txn[r].at = 3 => Table(r) = "items"
                           /\ Len(Job[txn[r].job]) = 3
  BY <1>1, <1>2 DEF Table, InJob, Txn
<1> QED BY <1>2, <1>3, <1>4, WrittenIs DEF InJob, Txn, At

-----------------------------------------------------------------------------
LEMMA InitIInv == WorkspaceInit => IInv
<1> SUFFICES ASSUME WorkspaceInit PROVE IInv
  OBVIOUS
<1>1. Types
  BY DEF WorkspaceInit, Types, Txn, Idle, Transcribe, Diarize, Analyze, Tables
<1>2. Stepwise
  BY DEF WorkspaceInit, Stepwise, At, InJob, Idle, Transcribe, Diarize, Analyze
<1>3. /\ GoneIsThere /\ OneDeleter /\ Keyed
  BY DEF WorkspaceInit, GoneIsThere, OneDeleter, Keyed, Gone, Put, At, Idle
<1>4. SameRows
  BY DEF WorkspaceInit, SameRows, InJob, At, Idle, Transcribe, Analyze
<1>5. NotYetLinked /\ OneAnalysis /\ LinksHold
  BY DEF WorkspaceInit, NotYetLinked, OneAnalysis, LinksHold, Tables
<1> QED BY <1>1, <1>2, <1>3, <1>4, <1>5 DEF IInv

LEMMA RequestsKeepIInv ==
  ASSUME IInv, UNCHANGED <<stored, link, txn>> PROVE IInv'
<1>1. Types' /\ Stepwise' /\ NotYetLinked' /\ SameRows' /\ OneAnalysis' /\ LinksHold'
  BY DEF IInv, Types, Stepwise, NotYetLinked, SameRows, OneAnalysis, LinksHold, At, InJob
<1>2. GoneIsThere' /\ OneDeleter' /\ Keyed'
  BY DEF IInv, GoneIsThere, OneDeleter, Keyed, Gone, Put, At, Written
<1> QED BY <1>1, <1>2 DEF IInv

-----------------------------------------------------------------------------
(* Steps that change the record of one run and no committed row *)

(* What the invariant asks of the record x of run r *)
Fits(r, x) ==
  /\ x.job # Analyze => x.at = 1
  /\ x.put <=> x.step \in {"link", "commit"}
  /\ x.step = "link" => x.job = Diarize
  /\ x.job = Analyze /\ x.step \in {"insert", "commit"} => x.at = 3
  /\ x.step = "idle" => x.at = 1 /\ x.gone = [t \in Tables |-> {}]
  /\ x.job = Transcribe => link[r] = None /\ r \notin stored["segments"]

FitsLocks(r, x) ==
  \A t \in Tables :
    /\ x.gone[t] \subseteq stored[t]
    /\ t \notin {Job[x.job][i] : i \in 1 .. Len(Job[x.job])} => x.gone[t] = {}
    /\ \A o \in Runs \ {r} : x.gone[t] \cap Gone(o, t) = {}
    /\ x.put /\ t \in Unique /\ t \in {Job[x.job][i] : i \in 1 .. Len(Job[x.job])} =>
         /\ stored[t] \subseteq x.gone[t]
         /\ \A o \in Runs \ {r} : ~Put(o, t)

FitsRows(x) ==
  x.job = Analyze =>
    /\ x.at > 1 /\ x.step = "deleting" => x.gone["summaries"] \subseteq x.snap
    /\ x.at = 3 => x.gone["summaries"] \subseteq x.gone["insights"]
    /\ x.step \in {"insert", "commit"} => x.gone["summaries"] \subseteq x.gone["items"]

LEMMA FitsAlready ==
  ASSUME IInv, NEW r \in Runs, ~At(r, "over")
  PROVE  txn[r] \in Txn /\ Fits(r, txn[r]) /\ FitsLocks(r, txn[r]) /\ FitsRows(txn[r])
<1>1. txn[r] \in Txn
  BY DEF IInv, Types, At, Over
<1>2. Fits(r, txn[r])
  BY <1>1 DEF IInv, Stepwise, NotYetLinked, Fits, At, InJob, Txn
<1>3. FitsRows(txn[r])
  BY <1>1 DEF IInv, SameRows, FitsRows, At, InJob, Txn
<1>4. FitsLocks(r, txn[r])
  <2> SUFFICES ASSUME NEW t \in Tables
               PROVE  FitsLocks(r, txn[r])!(t)
    BY DEF FitsLocks
  <2>1. Gone(r, t) = txn[r].gone[t]
    BY DEF Gone
  <2>2. /\ txn[r].gone[t] \subseteq stored[t]
        /\ t \notin Written(r) => txn[r].gone[t] = {}
    BY <2>1 DEF IInv, GoneIsThere
  <2>3. \A o \in Runs \ {r} : txn[r].gone[t] \cap Gone(o, t) = {}
    BY <2>1 DEF IInv, OneDeleter
  <2>4. txn[r].put /\ t \in Unique /\ t \in Written(r) =>
          stored[t] \subseteq txn[r].gone[t] /\ \A o \in Runs \ {r} : ~Put(o, t)
    BY <2>1 DEF IInv, Keyed, Put
  <2> QED BY <2>2, <2>3, <2>4 DEF Written
<1> QED BY <1>1, <1>2, <1>3, <1>4

LEMMA OneRunMoves ==
  ASSUME IInv, UNCHANGED <<stored, link>>, NEW r \in Runs, NEW x \in Txn,
         txn' = [txn EXCEPT ![r] = x], Fits(r, x), FitsLocks(r, x), FitsRows(x)
  PROVE  IInv'
<1>1. /\ txn'[r] = x /\ x.step # "over"
      /\ \A o \in Runs \ {r} : txn'[o] = txn[o]
  BY DEF IInv, Types, Txn
<1>2. Types'
  BY DEF IInv, Types
<1>3. Stepwise' /\ NotYetLinked' /\ SameRows'
  <2> SUFFICES ASSUME NEW o \in Runs
               PROVE  Stepwise!(o)' /\ NotYetLinked!(o)' /\ SameRows!(o)'
    BY DEF Stepwise, NotYetLinked, SameRows
  <2>1. CASE o = r
    BY <1>1, <2>1 DEF Fits, FitsRows, At, InJob
  <2>2. CASE o # r
    <3>1. txn'[o] = txn[o]
      BY <1>1, <2>2
    <3>2. Stepwise!(o)'
      BY <3>1 DEF IInv, Stepwise, At, InJob
    <3>3. NotYetLinked!(o)'
      BY <3>1 DEF IInv, NotYetLinked, At, InJob
    <3>4. SameRows!(o)'
      BY <3>1 DEF IInv, SameRows, At, InJob
    <3> QED BY <3>2, <3>3, <3>4
  <2> QED BY <2>1, <2>2
<1>4. \A t \in Tables :
        /\ Gone(r, t)' = x.gone[t]
        /\ Put(r, t)' <=> x.put /\ t \in {Job[x.job][i] : i \in 1 .. Len(Job[x.job])}
        /\ \A o \in Runs \ {r} : Gone(o, t)' = Gone(o, t) /\ (Put(o, t)' <=> Put(o, t))
  BY <1>1 DEF Gone, Put, At, Written
<1>5. GoneIsThere'
  BY <1>1, <1>4 DEF IInv, GoneIsThere, FitsLocks, At, Written
<1>6. OneDeleter'
  BY <1>4 DEF IInv, OneDeleter, FitsLocks
<1>7. Keyed'
  BY <1>4 DEF IInv, Keyed, FitsLocks, Unique, Tables
<1>8. OneAnalysis' /\ LinksHold'
  BY DEF IInv, OneAnalysis, LinksHold
<1> QED BY <1>2, <1>3, <1>5, <1>6, <1>7, <1>8 DEF IInv

LEMMA OneRunEnds ==
  ASSUME IInv, UNCHANGED <<stored, link>>, NEW r \in Runs, txn' = [txn EXCEPT ![r] = Over]
  PROVE  IInv'
<1>1. /\ txn'[r] = Over /\ At(r, "over")'
      /\ \A o \in Runs \ {r} : txn'[o] = txn[o]
  BY DEF IInv, Types, At, Over
<1>2. Types'
  BY DEF IInv, Types
<1>3. Stepwise' /\ NotYetLinked' /\ SameRows'
  <2> SUFFICES ASSUME NEW o \in Runs
               PROVE  Stepwise!(o)' /\ NotYetLinked!(o)' /\ SameRows!(o)'
    BY DEF Stepwise, NotYetLinked, SameRows
  <2>1. CASE o = r
    BY <1>1, <2>1 DEF At, InJob
  <2>2. CASE o # r
    <3>1. txn'[o] = txn[o]
      BY <1>1, <2>2
    <3>2. Stepwise!(o)'
      BY <3>1 DEF IInv, Stepwise, At, InJob
    <3>3. NotYetLinked!(o)'
      BY <3>1 DEF IInv, NotYetLinked, At, InJob
    <3>4. SameRows!(o)'
      BY <3>1 DEF IInv, SameRows, At, InJob
    <3> QED BY <3>2, <3>3, <3>4
  <2> QED BY <2>1, <2>2
<1>4. \A t \in Tables :
        /\ Gone(r, t)' = {} /\ ~Put(r, t)'
        /\ \A o \in Runs \ {r} : Gone(o, t)' = Gone(o, t) /\ (Put(o, t)' <=> Put(o, t))
  BY <1>1 DEF Gone, Put, At, Written
<1>5. GoneIsThere'
  BY <1>1, <1>4 DEF IInv, GoneIsThere, At, Written
<1>6. OneDeleter'
  BY <1>4 DEF IInv, OneDeleter
<1>7. Keyed'
  BY <1>4 DEF IInv, Keyed, Unique, Tables
<1>8. OneAnalysis' /\ LinksHold'
  BY DEF IInv, OneAnalysis, LinksHold
<1> QED BY <1>2, <1>3, <1>5, <1>6, <1>7, <1>8 DEF IInv

LEMMA StartKeepsIInv == ASSUME IInv, NEW r \in Runs, Start(r) PROVE IInv'
<1> DEFINE x == [txn[r] EXCEPT !.step = "delete"]
<1>1. txn[r] \in Txn /\ Fits(r, txn[r]) /\ FitsLocks(r, txn[r]) /\ FitsRows(txn[r])
  BY FitsAlready DEF Start, At
<1>2. txn[r].step = "idle" /\ UNCHANGED <<stored, link>> /\ txn' = [txn EXCEPT ![r] = x]
  BY DEF Start, At, rows
<1>3. x \in Txn /\ Fits(r, x) /\ FitsRows(x)
  BY <1>1, <1>2 DEF Txn, Fits, FitsRows
<1>4. FitsLocks(r, x)
  BY <1>1 DEF Txn, FitsLocks
<1> QED BY <1>2, <1>3, <1>4, OneRunMoves

LEMMA SkipKeepsIInv == ASSUME IInv, NEW r \in Runs, Skip(r) PROVE IInv'
<1> DEFINE x == Idle(Analyze)
<1>1. txn[r] \in Txn
  BY FitsAlready DEF Skip, At
<1>2. UNCHANGED <<stored, link>> /\ txn' = [txn EXCEPT ![r] = x]
  BY DEF Skip, rows
<1>3. x \in Txn /\ Fits(r, x) /\ FitsRows(x)
  BY DEF Txn, Fits, FitsRows, Idle, Transcribe, Diarize, Analyze, Tables
<1>4. FitsLocks(r, x)
  BY DEF FitsLocks, Idle
<1> QED BY <1>2, <1>3, <1>4, OneRunMoves

LEMMA DeleteKeepsIInv == ASSUME IInv, NEW r \in Runs, Delete(r) PROVE IInv'
<1> DEFINE x == [txn[r] EXCEPT !.step = "deleting", !.snap = stored[Table(r)]]
<1>1. txn[r] \in Txn /\ Fits(r, txn[r]) /\ FitsLocks(r, txn[r]) /\ FitsRows(txn[r])
  BY FitsAlready DEF Delete, At
<1>2. txn[r].step = "delete" /\ UNCHANGED <<stored, link>> /\ txn' = [txn EXCEPT ![r] = x]
  BY DEF Delete, At, rows
<1>3. Table(r) \in Tables /\ stored[Table(r)] \subseteq Runs
  BY <1>2, TableIs, WrittenIs DEF IInv, Types, At
<1>4. x \in Txn /\ Fits(r, x)
  BY <1>1, <1>2, <1>3 DEF Txn, Fits
<1>5. FitsLocks(r, x)
  BY <1>1 DEF Txn, FitsLocks
<1>6. FitsRows(x)
  <2> SUFFICES ASSUME x.job = Analyze
               PROVE  /\ x.at > 1 => x.gone["summaries"] \subseteq x.snap
                      /\ x.at = 3 => x.gone["summaries"] \subseteq x.gone["insights"]
    BY <1>1 DEF FitsRows, Txn
  <2>1. txn[r].job = Analyze /\ x.at = txn[r].at /\ x.gone = txn[r].gone /\ x.snap = stored[Table(r)]
    BY <1>1 DEF Txn
  <2>2. txn[r].at \in {2, 3} => Table(r) \in {"insights", "items"}
    BY <1>2, <2>1, TableIs DEF IInv, At, InJob
  <2>3. txn[r].gone["summaries"] \subseteq stored["summaries"]
    BY <1>1 DEF FitsLocks, Tables
  <2>4. stored["insights"] = stored["summaries"] /\ stored["items"] = stored["summaries"]
    BY DEF IInv, OneAnalysis
  <2>5. x.at = 3 => x.gone["summaries"] \subseteq x.gone["insights"]
    BY <1>1, <2>1 DEF FitsRows
  <2> QED BY <1>1, <2>1, <2>2, <2>3, <2>4, <2>5 DEF Txn
<1> QED BY <1>2, <1>4, <1>5, <1>6, OneRunMoves

LEMMA DeletedKeepsIInv == ASSUME IInv, NEW r \in Runs, Deleted(r) PROVE IInv'
<1> DEFINE y == txn[r]
           t0 == Table(r)
           gone == [y.gone EXCEPT ![t0] = y.snap \cap stored[t0]]
           more == y.at < Len(Job[y.job])
           at == IF more THEN y.at + 1 ELSE y.at
           step == IF more THEN "delete" ELSE "insert"
           x == [y EXCEPT !.gone = gone, !.at = at, !.step = step]
<1>1. y \in Txn /\ Fits(r, y) /\ FitsLocks(r, y) /\ FitsRows(y)
  BY FitsAlready DEF Deleted, At
<1>2. y.step = "deleting" /\ UNCHANGED <<stored, link>> /\ txn' = [txn EXCEPT ![r] = x]
  BY DEF Deleted, At, rows
<1>3. /\ t0 \in Tables /\ t0 \in Written(r) /\ stored[t0] \subseteq Runs
      /\ y.job # Analyze => Len(Job[y.job]) = 1
      /\ y.job = Analyze => /\ y.at = 1 => t0 = "summaries"
                            /\ y.at = 2 => t0 = "insights"
                            /\ y.at = 3 => t0 = "items"
                            /\ Len(Job[y.job]) = 3
  BY <1>1, <1>2, TableIs, WrittenIs DEF IInv, Types, At, InJob, Txn
<1>more. /\ y.at \in {1, 2, 3} /\ (y.job # Analyze => y.at = 1)
         /\ more <=> y.job = Analyze /\ y.at # 3
  <2>1. y.at \in {1, 2, 3} /\ (y.job # Analyze => y.at = 1)
    BY <1>1 DEF Txn, Fits
  <2>2. CASE y.job = Analyze
    <3>1. Len(Job[y.job]) = 3
      BY <1>3, <2>2
    <3> QED BY <2>1, <2>2, <3>1
  <2>3. CASE y.job # Analyze
    <3>1. Len(Job[y.job]) = 1
      BY <1>3, <2>3
    <3> QED BY <2>1, <2>3, <3>1
  <2> QED BY <2>1, <2>2, <2>3
<1> HIDE DEF more
<1>4. /\ x.job = y.job /\ x.snap = y.snap /\ x.put = y.put
      /\ x.gone = gone
      /\ y.job = Analyze /\ y.at < 3 => x.step = "delete" /\ x.at = y.at + 1
      /\ y.job = Analyze /\ y.at = 3 => x.step = "insert" /\ x.at = 3
      /\ y.job # Analyze => x.step = "insert" /\ x.at = 1
  <2>1. /\ x.job = y.job /\ x.snap = y.snap /\ x.put = y.put
        /\ x.gone = gone /\ x.at = at /\ x.step = step
    BY <1>1 DEF Txn
  <2>2. /\ y.job = Analyze /\ y.at < 3 => step = "delete" /\ at = y.at + 1
        /\ y.job = Analyze /\ y.at = 3 => step = "insert" /\ at = 3
        /\ y.job # Analyze => step = "insert" /\ at = 1
    BY <1>more
  <2> QED BY <2>1, <2>2
<1>5. x \in Txn
  <2>1. gone \in [Tables -> SUBSET Runs]
    BY <1>1, <1>3 DEF Txn
  <2>2. at \in {1, 2, 3} /\ step \in {"delete", "insert"}
    BY <1>more
  <2> QED BY <1>1, <2>1, <2>2 DEF Txn
<1>6. Fits(r, x)
  BY <1>1, <1>2, <1>4 DEF Fits, Txn
<1>7. FitsLocks(r, x)
  <2> SUFFICES ASSUME NEW t \in Tables PROVE FitsLocks(r, x)!(t)
    BY DEF FitsLocks
  <2>1. FitsLocks(r, y)!(t)
    BY <1>1 DEF FitsLocks
  <2>2. ~x.put
    BY <1>1, <1>2, <1>4 DEF Fits
  <2>3. CASE t # t0
    BY <1>1, <1>4, <2>1, <2>2, <2>3 DEF Txn
  <2>4. CASE t = t0
    <3>1. x.gone[t] = y.snap \cap stored[t]
      BY <1>1, <1>4, <2>4 DEF Txn
    <3>2. \A o \in Runs \ {r} : Gone(o, t) \cap y.snap = {}
      BY <2>4 DEF Deleted, Locked
    <3>3. t \in {Job[x.job][i] : i \in 1 .. Len(Job[x.job])}
      BY <1>3, <1>4, <2>4 DEF Written
    <3> QED BY <2>2, <3>1, <3>2, <3>3
  <2> QED BY <2>3, <2>4
<1>8. FitsRows(x)
  <2> SUFFICES ASSUME y.job = Analyze PROVE FitsRows(x)
    BY <1>4 DEF FitsRows
  <2>1. /\ y.gone["summaries"] \subseteq stored["summaries"]
        /\ stored["insights"] = stored["summaries"] /\ stored["items"] = stored["summaries"]
    BY <1>1 DEF FitsLocks, Tables, IInv, OneAnalysis
  <2>2. y.at > 1 => y.gone["summaries"] \subseteq y.snap \cap stored[t0]
    BY <1>1, <1>2, <1>3, <2>1 DEF FitsRows, Txn
  <2>3. CASE y.at = 1
    BY <1>4, <2>3 DEF FitsRows
  <2>4. CASE y.at = 2
    BY <1>1, <1>3, <1>4, <2>2, <2>4 DEF FitsRows, Txn, Tables
  <2>5. CASE y.at = 3
    BY <1>1, <1>3, <1>4, <2>2, <2>5 DEF FitsRows, Txn, Tables
  <2> QED BY <1>1, <2>3, <2>4, <2>5 DEF Txn
<1> QED BY <1>2, <1>5, <1>6, <1>7, <1>8, OneRunMoves

LEMMA InsertKeepsIInv == ASSUME IInv, NEW r \in Runs, Insert(r) PROVE IInv'
<1> DEFINE y == txn[r]
           step == IF y.job = Diarize THEN "link" ELSE "commit"
           x == [y EXCEPT !.put = TRUE, !.step = step]
<1>1. y \in Txn /\ Fits(r, y) /\ FitsLocks(r, y) /\ FitsRows(y)
  BY FitsAlready DEF Insert, At
<1>2. y.step = "insert" /\ UNCHANGED <<stored, link>>
  BY DEF Insert, At, rows
<1>3. CASE Clash(r) # {}
  BY <1>2, <1>3, OneRunEnds DEF Insert
<1>4. CASE Clash(r) = {}
  <2>1. txn' = [txn EXCEPT ![r] = x]
    BY <1>4 DEF Insert
  <2>2. /\ x.job = y.job /\ x.snap = y.snap /\ x.at = y.at /\ x.gone = y.gone
        /\ x.put = TRUE /\ x.step = step
    BY <1>1 DEF Txn
  <2>3. x \in Txn /\ Fits(r, x) /\ FitsRows(x)
    BY <1>1, <1>2, <2>2 DEF Txn, Fits, FitsRows, Diarize, Analyze
  <2>4. FitsLocks(r, x)
    <3> SUFFICES ASSUME NEW t \in Tables PROVE FitsLocks(r, x)!(t)
      BY DEF FitsLocks
    <3>1. FitsLocks(r, y)!(t)
      BY <1>1 DEF FitsLocks
    <3>2. t \in Unique /\ t \in Written(r) => stored[t] \subseteq y.gone[t]
      BY <1>4 DEF Clash
    <3>3. t \in Unique /\ t \in Written(r) => \A o \in Runs \ {r} : ~Put(o, t)
      BY DEF Insert
    <3> QED BY <2>2, <3>1, <3>2, <3>3 DEF Written
  <2> QED BY <1>2, <2>1, <2>3, <2>4, OneRunMoves
<1> QED BY <1>3, <1>4

LEMMA LinkKeepsIInv == ASSUME IInv, NEW r \in Runs, Link(r) PROVE IInv'
<1>0. PICK spoken \in SUBSET stored["segments"] :
        txn' = [txn EXCEPT ![r].snap = spoken, ![r].step = "commit"]
  BY DEF Link
<1> DEFINE y == txn[r]
           x == [y EXCEPT !.snap = spoken, !.step = "commit"]
<1>1. y \in Txn /\ Fits(r, y) /\ FitsLocks(r, y) /\ FitsRows(y)
  BY FitsAlready DEF Link, At
<1>2. y.step = "link" /\ UNCHANGED <<stored, link>> /\ txn' = [txn EXCEPT ![r] = x]
  BY <1>0 DEF Link, At, rows
<1>3. spoken \subseteq Runs
  BY DEF IInv, Types, Tables
<1>4. x \in Txn /\ Fits(r, x) /\ FitsRows(x)
  <2>1. y.job = Diarize /\ y.put
    BY <1>1, <1>2 DEF Fits
  <2>2. /\ x.job = y.job /\ x.at = y.at /\ x.put = y.put /\ x.gone = y.gone
        /\ x.step = "commit" /\ x \in Txn
    BY <1>1, <1>3 DEF Txn
  <2> QED BY <1>1, <2>1, <2>2 DEF Fits, FitsRows, Diarize, Analyze, Transcribe
<1>5. FitsLocks(r, x)
  BY <1>1 DEF Txn, FitsLocks
<1> QED BY <1>2, <1>4, <1>5, OneRunMoves

LEMMA FailKeepsIInv == ASSUME IInv, NEW r \in Runs, Fail(r) PROVE IInv'
BY OneRunEnds DEF Fail, rows

(* The commit: the only step that changes what is stored. *)
LEMMA CommitKeepsIInv == ASSUME IInv, NEW r \in Runs, Commit(r) PROVE IInv'
<1> DEFINE y == txn[r]
<1>1. y \in Txn /\ Fits(r, y) /\ FitsLocks(r, y) /\ FitsRows(y)
  BY FitsAlready DEF Commit, At
<1>2. y.step = "commit" /\ y.put
  BY <1>1 DEF Commit, At, Fits
<1>3. /\ y.job = Transcribe => Written(r) = {"segments"}
      /\ y.job = Diarize => Written(r) = {"speakers"}
      /\ y.job = Analyze => Written(r) = {"summaries", "insights", "items"}
      /\ y.job \in {Transcribe, Diarize, Analyze} /\ Written(r) \subseteq Tables
  BY <1>2, WrittenIs DEF IInv, At, InJob
<1>4. \A t \in Tables :
        stored'[t] = IF t \in Written(r) THEN (stored[t] \ y.gone[t]) \union {r} ELSE stored[t]
  BY DEF Commit, Stored
<1>5. /\ \A o \in Runs \ {r} : txn'[o] = txn[o]
      /\ txn'[r] = IF y.job = Analyze THEN Over ELSE Idle(y.job + 1)
      /\ txn'[r] \in Txn \union {Over}
      /\ txn' \in [Runs -> Txn \union {Over}]
  <2>1. txn' = [txn EXCEPT ![r] = IF y.job = Analyze THEN Over ELSE Idle(y.job + 1)]
    BY <1>2 DEF Commit, InJob
  <2>2. y.job # Analyze => Idle(y.job + 1) \in Txn
    BY <1>3 DEF Idle, Txn, Tables, Transcribe, Diarize, Analyze
  <2> QED BY <2>1, <2>2 DEF IInv, Types
<1>6. \A t \in Tables : Gone(r, t)' = {} /\ ~Put(r, t)'
  BY <1>5 DEF Gone, Put, At, Over, Idle
<1>7. \A o \in Runs \ {r}, t \in Tables : Gone(o, t)' = Gone(o, t) /\ (Put(o, t)' <=> Put(o, t))
  BY <1>5 DEF Gone, Put, At, Written
<1>8. \A t \in Unique \cap Written(r) :
        stored'[t] = {r} /\ \A o \in Runs \ {r} : ~Put(o, t) /\ Gone(o, t) = {}
  <2> SUFFICES ASSUME NEW t \in Unique \cap Written(r)
               PROVE  stored'[t] = {r} /\ \A o \in Runs \ {r} : ~Put(o, t) /\ Gone(o, t) = {}
    OBVIOUS
  <2>1. stored[t] \subseteq y.gone[t] /\ \A o \in Runs \ {r} : ~Put(o, t)
    BY <1>1, <1>2, <1>3 DEF FitsLocks, Written
  <2>2. \A o \in Runs \ {r} : Gone(o, t) \subseteq stored[t] /\ y.gone[t] \cap Gone(o, t) = {}
    BY <1>1, <1>3 DEF FitsLocks, IInv, GoneIsThere
  <2> QED BY <1>3, <1>4, <2>1, <2>2
<1>9. Types'
  <2>1. stored' \in [Tables -> SUBSET Runs]
    BY DEF Commit, Stored, IInv, Types
  <2>2. link' \in [Runs -> Runs \union {None}]
    BY DEF Commit, Relinked, IInv, Types
  <2> QED BY <1>5, <2>1, <2>2 DEF Types
<1>10. Stepwise'
  <2> SUFFICES ASSUME NEW o \in Runs PROVE Stepwise!(o)'
    BY DEF Stepwise
  <2>1. CASE o = r
    <3>1. CASE y.job = Analyze
      BY <1>5, <2>1, <3>1 DEF At, Over
    <3>2. CASE y.job # Analyze
      BY <1>5, <2>1, <3>2 DEF At, InJob, Idle
    <3> QED BY <3>1, <3>2
  <2>2. CASE o # r
    <3>1. txn'[o] = txn[o]
      BY <1>5, <2>2
    <3> QED BY <3>1 DEF IInv, Stepwise, At, InJob
  <2> QED BY <2>1, <2>2
<1>11. GoneIsThere'
  <2> SUFFICES ASSUME NEW o \in Runs, NEW t \in Tables PROVE GoneIsThere!(o, t)'
    BY DEF GoneIsThere
  <2>1. CASE o = r
    BY <1>6, <2>1
  <2>2. CASE o # r
    <3>1. Gone(o, t) \subseteq stored[t] /\ y.gone[t] \cap Gone(o, t) = {}
      BY <1>1, <2>2 DEF IInv, GoneIsThere, FitsLocks
    <3>2. Gone(o, t)' \subseteq stored'[t]
      BY <1>4, <1>7, <2>2, <3>1
    <3>3. ~At(o, "over")' /\ t \notin Written(o)' => Gone(o, t)' = {}
      BY <1>5, <1>7, <2>2 DEF IInv, GoneIsThere, At, Written
    <3> QED BY <3>2, <3>3
  <2> QED BY <2>1, <2>2
<1>12. OneDeleter'
  BY <1>6, <1>7 DEF IInv, OneDeleter
<1>13. Keyed'
  <2> SUFFICES ASSUME NEW o \in Runs, NEW t \in Unique, Put(o, t)'
               PROVE  /\ stored'[t] \subseteq Gone(o, t)'
                      /\ \A p \in Runs \ {o} : ~Put(p, t)'
    BY DEF Keyed
  <2>1. t \in Tables
    BY DEF Unique, Tables
  <2>2. o # r /\ Put(o, t)
    BY <1>6, <1>7, <2>1
  <2>3. t \notin Written(r)
    BY <1>8, <2>2
  <2>4. /\ stored[t] \subseteq Gone(o, t)
        /\ \A p \in Runs \ {o} : ~Put(p, t)
    BY <2>2 DEF IInv, Keyed
  <2>5. stored'[t] \subseteq Gone(o, t)'
    BY <1>4, <1>7, <2>1, <2>2, <2>3, <2>4
  <2>6. \A p \in Runs \ {o} : ~Put(p, t)'
    BY <1>6, <1>7, <2>1, <2>4
  <2> QED BY <2>5, <2>6
<1>14. SameRows'
  <2> SUFFICES ASSUME NEW o \in Runs PROVE SameRows!(o)'
    BY DEF SameRows
  <2>1. CASE o = r
    BY <1>3, <1>5, <2>1 DEF At, InJob, Over, Idle, Transcribe, Diarize, Analyze
  <2>2. CASE o # r
    BY <1>5, <2>2 DEF IInv, SameRows, At, InJob
  <2> QED BY <2>1, <2>2
<1>15. OneAnalysis'
  <2>1. CASE y.job = Analyze
    <3>1. /\ stored["summaries"] \subseteq y.gone["summaries"]
          /\ y.gone["summaries"] \subseteq y.gone["insights"]
          /\ y.gone["summaries"] \subseteq y.gone["items"]
      BY <1>1, <1>2, <1>3, <2>1 DEF FitsLocks, FitsRows, Fits, Unique, Tables, Written
    <3>2. \A t \in Written(r) : stored'[t] = {r}
      BY <1>3, <1>4, <2>1, <3>1 DEF IInv, OneAnalysis
    <3>3. \A t \in Tables \ Written(r) : stored'[t] = stored[t]
      BY <1>4
    <3> QED BY <1>3, <2>1, <3>2, <3>3 DEF IInv, OneAnalysis
  <2>2. CASE y.job # Analyze
    <3>1. Written(r) \subseteq Unique /\ Written(r) \cap {"summaries", "insights", "items"} = {}
      BY <1>3, <2>2 DEF Unique
    <3>2. \A t \in Tables \ Written(r) : stored'[t] = stored[t]
      BY <1>4
    <3>3. \A t \in Written(r) : stored'[t] = {r}
      BY <1>8, <3>1
    <3> QED BY <3>1, <3>2, <3>3 DEF IInv, OneAnalysis, Tables
  <2> QED BY <2>1, <2>2
<1>16. NotYetLinked'
  <2> SUFFICES ASSUME NEW o \in Runs, InJob(o, Transcribe)'
               PROVE  link'[o] = None /\ o \notin stored'["segments"]
    BY DEF NotYetLinked
  <2>1. o # r
    BY <1>3, <1>5 DEF InJob, Over, Idle, Transcribe, Diarize, Analyze
  <2>2. link[o] = None /\ o \notin stored["segments"]
    BY <1>5, <2>1 DEF IInv, NotYetLinked, InJob
  <2>3. o \notin stored'["segments"]
    BY <1>4, <2>1, <2>2 DEF Tables
  <2>4. link'[o] = None
    BY <2>2 DEF Commit, Relinked, InJob
  <2> QED BY <2>3, <2>4
<1>17. LinksHold'
  <2> SUFFICES ASSUME NEW s \in stored'["segments"], link'[s] # None
               PROVE  link'[s] \in stored'["speakers"]
    BY DEF LinksHold
  <2>1. s \in Runs
    BY <1>9 DEF Types, Tables
  <2>2. CASE y.job = Diarize
    <3>1. /\ stored'["segments"] = stored["segments"]
          /\ stored'["speakers"] = (stored["speakers"] \ y.gone["speakers"]) \union {r}
      BY <1>3, <1>4, <2>2 DEF Tables
    <3>2. link' = Relinked(r, y.snap) /\ Gone(r, "speakers") = y.gone["speakers"]
      BY <1>2, <2>2 DEF Commit, InJob, Gone, At
    <3>3. link'[s] = r \/ (link'[s] = link[s] /\ link[s] \notin y.gone["speakers"])
      BY <2>1, <3>2 DEF Relinked
    <3> QED BY <3>1, <3>3 DEF IInv, LinksHold
  <2>3. CASE y.job # Diarize
    <3>1. link' = link /\ stored'["speakers"] = stored["speakers"]
      BY <1>3, <1>4, <2>3 DEF Commit, InJob, Tables
    <3>2. s \in stored["segments"]
      <4>1. s \in stored["segments"] \/ (s = r /\ "segments" \in Written(r))
        BY <1>4 DEF Tables
      <4>2. "segments" \in Written(r) => y.job = Transcribe
        BY <1>3
      <4>3. y.job = Transcribe => link[r] = None
        BY <1>1 DEF Fits
      <4> QED BY <3>1, <4>1, <4>2, <4>3
    <3> QED BY <3>1, <3>2 DEF IInv, LinksHold
  <2> QED BY <2>2, <2>3
<1> QED BY <1>9, <1>10, <1>11, <1>12, <1>13, <1>14, <1>15, <1>16, <1>17 DEF IInv

-----------------------------------------------------------------------------
LEMMA RunsKeepIInv == ASSUME IInv, NEW r \in Runs, RunStep(r) PROVE IInv'
BY StartKeepsIInv, SkipKeepsIInv, DeleteKeepsIInv, DeletedKeepsIInv, InsertKeepsIInv,
   LinkKeepsIInv, CommitKeepsIInv, FailKeepsIInv DEF RunStep

LEMMA NextKeepsIInv == IInv /\ [WorkspaceNext]_vars => IInv'
<1> SUFFICES ASSUME IInv, [WorkspaceNext]_vars PROVE IInv'
  OBVIOUS
<1>1. ASSUME NEW r \in Runs, RunStep(r) PROVE IInv'
  BY <1>1, RunsKeepIInv
<1>2. ASSUME NEW q \in Requests, Begin(q) PROVE IInv'
  BY <1>2, RequestsKeepIInv DEF Begin, Refuse, BeginDelete, BeginRead, RenameSpeaker, UpdateActionItem, BeginEdit, BeginPatch, rows
<1>3. ASSUME NEW q \in Requests, Serve(q) PROVE IInv'
  <2>1. UNCHANGED <<stored, link, txn>>
    BY <1>3 DEF Serve, Read, Edit, Patch, SoftDelete, rows
  <2> QED BY <2>1, RequestsKeepIInv
<1>4. CASE UNCHANGED vars
  BY <1>4, RequestsKeepIInv DEF vars, rows
<1> QED BY <1>1, <1>2, <1>3, <1>4 DEF WorkspaceNext

LEMMA Invariant == WorkspaceSpec => []IInv
<1>1. WorkspaceInit => IInv
  BY InitIInv
<1>2. IInv /\ [WorkspaceNext]_vars => IInv'
  BY NextKeepsIInv
<1> QED BY <1>1, <1>2, PTL DEF WorkspaceSpec

-----------------------------------------------------------------------------
(* The tab *)

V == Values \union {Made}

TabTypes ==
  /\ attr \in [Editable -> [Runs -> V]]
  /\ tab \in [load : Requests \union {None}, shown : SUBSET (Runs \X V), toggles : SUBSET Toggles]
  /\ req = [q \in Requests |-> req[q]]
  /\ \A q \in Requests : req[q].op = "edit" =>
       req[q].table \in Editable /\ req[q].row \in Runs /\ req[q].value \in V

(* What the requests of the tab can be at the server *)
Loading(q) ==
  \/ req[q] \in {New, Refused}
  \/ /\ req[q] = [op |-> "read", view |-> Job[Analyze], got |-> req[q].got]
     /\ req[q].got \in Seq(SUBSET (Runs \X V)) /\ Len(req[q].got) <= 3

Ticking(x) ==
  \/ req[x.q] \in {New, Refused, Failed, Done}
  \/ /\ req[x.q].op = "edit" /\ req[x.q].table = "items"
     /\ req[x.q].row = x.row /\ req[x.q].value = x.next

OwnRequests ==
  /\ tab.load # None => Loading(tab.load)
  /\ \A x \in tab.toggles : Ticking(x) /\ x.q # tab.load
  /\ \A x, y \in tab.toggles : x.q = y.q => x = y

(* A list of items that says what is stored, but for the item of a toggle *)
Says(list, xs) ==
  \A item \in list : (\A x \in xs : item[1] # x.row) => item[2] = attr["items"][item[1]]

CalmInv ==
  calm =>
    /\ tab.load # None => tab.toggles = {} /\ tab.shown = {}
    /\ tab.load # None /\ Answered(tab.load) /\ req[tab.load] # Refused =>
         Says(req[tab.load].got[3], {})
    /\ Says(tab.shown, tab.toggles)
    /\ \A x, y \in tab.toggles : x = y
    /\ \A x \in tab.toggles :
         /\ \A item \in tab.shown : item[1] = x.row => item[2] = x.next
         /\ attr["items"][x.row] = IF req[x.q] = Done THEN x.next ELSE x.before
         /\ req[x.q].op = "edit" => req[x.q].old = x.before

TabInv == TabTypes /\ OwnRequests /\ CalmInv

LEMMA Ops ==
  /\ New.op = "new" /\ Refused.op = "refused" /\ Failed.op = "failed" /\ Done.op = "done"
  /\ New # Refused /\ New # Done /\ New # Failed /\ Refused # Done /\ Failed # Done
BY DEF New, Refused, Failed, Done

LEMMA InitTabInv == Init => TabInv
<1> SUFFICES ASSUME Init PROVE TabInv
  OBVIOUS
<1>1. TabTypes
  BY Ops DEF Init, WorkspaceInit, TabTypes, V
<1>2. OwnRequests
  BY DEF Init, OwnRequests
<1>3. CalmInv
  BY DEF Init, CalmInv, Says
<1> QED BY <1>1, <1>2, <1>3 DEF TabInv

(* Steps of the browser: no request changes, no row changes. *)

LEMMA OpenKeepsTabInv == ASSUME TabInv, NEW q \in Requests, Open(q) PROVE TabInv'
<1>1. /\ tab'.load = q /\ tab'.shown = {} /\ tab'.toggles = {}
      /\ tab' = [load |-> q, shown |-> {}, toggles |-> {}]
      /\ req[q] = New /\ UNCHANGED <<attr, req>>
  BY DEF Open, Unsent, vars, rows
<1>2. TabTypes'
  BY <1>1 DEF TabInv, TabTypes
<1>3. OwnRequests'
  BY <1>1 DEF OwnRequests, Loading
<1>4. CalmInv'
  BY <1>1, Ops DEF CalmInv, Says, Answered
<1> QED BY <1>2, <1>3, <1>4 DEF TabInv

LEMMA ShowKeepsTabInv == ASSUME TabInv, NEW q \in Requests, Show(q) PROVE TabInv'
<1> DEFINE shown == IF req[q] = Refused THEN {} ELSE req[q].got[3]
<1>1. /\ tab.load = q /\ UNCHANGED <<attr, req, calm>>
      /\ tab' = [tab EXCEPT !.load = None, !.shown = shown]
  BY DEF Show, vars, rows
<1>2. tab'.load = None /\ tab'.shown = shown /\ tab'.toggles = tab.toggles
  BY <1>1 DEF TabInv, TabTypes
<1>3. q # None
  BY TabAssumption
<1>4. req[q] # Refused => Answered(q) /\ Len(req[q].got) = 3 /\ shown \in SUBSET (Runs \X V)
  <2> SUFFICES ASSUME req[q] # Refused
               PROVE  Answered(q) /\ Len(req[q].got) = 3 /\ req[q].got[3] \in SUBSET (Runs \X V)
    OBVIOUS
  <2>1. Answered(q) /\ Loading(q)
    BY <1>1, <1>3 DEF Show, TabInv, OwnRequests
  <2>2. req[q].view = Job[Analyze] /\ req[q].got \in Seq(SUBSET (Runs \X V))
    BY <2>1, Ops DEF Loading, Answered
  <2>3. Len(req[q].got) = 3
    BY <2>1, <2>2, JobShape DEF Answered
  <2> QED BY <2>1, <2>2, <2>3
<1>5. TabTypes'
  BY <1>1, <1>4 DEF TabInv, TabTypes
<1>6. OwnRequests'
  BY <1>1, <1>2, TabAssumption DEF TabInv, TabTypes, OwnRequests, Ticking, Toggles
<1>7. CalmInv'
  <2> SUFFICES ASSUME calm PROVE CalmInv'
    BY <1>1 DEF CalmInv
  <2>1. tab.toggles = {} /\ Says(shown, {})
    BY <1>1, <1>3, <1>4 DEF TabInv, CalmInv, Says
  <2> QED BY <1>1, <1>2, <2>1 DEF CalmInv, Says
<1> QED BY <1>5, <1>6, <1>7 DEF TabInv

LEMMA ToggleKeepsTabInv ==
  ASSUME TabInv, NEW q \in Requests, NEW item \in tab.shown, Toggle(q, item) PROVE TabInv'
<1> DEFINE x == [q |-> q, row |-> item[1], before |-> item[2], next |-> Flip(item[2])]
           shown == Showing(tab.shown, item[1], Flip(item[2]))
<1>1. /\ req[q] = New /\ ~Sent(q) /\ tab.load = None /\ UNCHANGED <<attr, req>>
      /\ tab' = [tab EXCEPT !.shown = shown, !.toggles = @ \union {x}]
      /\ calm' = (calm /\ tab.toggles = {})
  BY DEF Toggle, Unsent, vars, rows
<1>2. tab'.load = tab.load /\ tab'.shown = shown /\ tab'.toggles = tab.toggles \union {x}
  BY <1>1 DEF TabInv, TabTypes
<1>3. item \in Runs \X V /\ tab.shown \subseteq Runs \X V
  BY DEF TabInv, TabTypes
<1>4. Flip(item[2]) \in V
  BY TabAssumption DEF Flip, V
<1>5. shown \subseteq Runs \X V
  BY <1>3, <1>4 DEF Showing
<1>6. TabTypes'
  <2>1. x \in Toggles
    BY <1>3, <1>4 DEF Toggles, V
  <2> QED BY <1>1, <1>5, <2>1 DEF TabInv, TabTypes
<1>7. OwnRequests'
  BY <1>1, <1>2 DEF TabInv, TabTypes, OwnRequests, Ticking, Sent, Toggles
<1>8. CalmInv'
  <2> SUFFICES ASSUME calm, tab.toggles = {} PROVE CalmInv'
    BY <1>1 DEF CalmInv
  <2>1. \A i \in tab.shown : i[2] = attr["items"][i[1]]
    BY DEF TabInv, CalmInv, Says
  <2>2. \A i \in shown : IF i[1] = item[1] THEN i[2] = Flip(item[2])
                                           ELSE i[2] = attr["items"][i[1]]
    BY <1>3, <2>1 DEF Showing
  <2>3. tab'.toggles = {x} /\ req'[q] = New
    BY <1>1, <1>2
  <2>4. Says(tab.shown, tab.toggles)'
    <3> SUFFICES ASSUME NEW i \in tab'.shown, \A y \in tab'.toggles : i[1] # y.row
                 PROVE  i[2] = attr'["items"][i[1]]
      BY DEF Says
    <3>1. i[1] # item[1]
      BY <2>3
    <3> QED BY <1>1, <1>2, <2>2, <3>1
  <2>5. attr["items"][x.row] = x.before
    BY <2>1
  <2> QED BY <1>1, <1>2, <2>2, <2>3, <2>4, <2>5, Ops DEF CalmInv
<1> QED BY <1>6, <1>7, <1>8 DEF TabInv

(* An item taken back, or left as it is, when its request is answered *)
LEMMA AnswerKeepsTabInv ==
  ASSUME TabInv, NEW x \in tab.toggles, Settled(x) \/ Lost(x) PROVE TabInv'
<1> DEFINE back == Showing(tab.shown, x.row, x.before)
<1>1. /\ UNCHANGED <<attr, req>>
      /\ \E shown \in {tab.shown, back} :
           tab' = [tab EXCEPT !.toggles = @ \ {x}, !.shown = shown]
  BY DEF Settled, Lost, Reverted, vars, rows
<1>11. calm' => /\ calm /\ req[x.q] \in {Done, Failed, Refused}
                /\ tab' = [tab EXCEPT !.toggles = @ \ {x},
                                      !.shown = IF req[x.q] = Done THEN tab.shown ELSE back]
  <2>1. CASE Settled(x)
    BY <2>1 DEF Settled, Reverted
  <2>2. CASE Lost(x)
    BY <2>2 DEF Lost
  <2> QED BY <2>1, <2>2
<1>2. x \in Toggles /\ tab.shown \subseteq Runs \X V /\ back \subseteq Runs \X V
  BY DEF TabInv, TabTypes, Toggles, Showing, V
<1>3. tab'.load = tab.load /\ tab'.toggles = tab.toggles \ {x} /\ tab'.shown \in {tab.shown, back}
  BY <1>1 DEF TabInv, TabTypes
<1>4. TabTypes'
  <2>1. PICK shown \in {tab.shown, back} :
          tab' = [tab EXCEPT !.toggles = @ \ {x}, !.shown = shown]
    BY <1>1
  <2>2. shown \in SUBSET (Runs \X V) /\ tab.toggles \ {x} \in SUBSET Toggles
    BY <1>2 DEF TabInv, TabTypes
  <2>3. tab' \in [load : Requests \union {None}, shown : SUBSET (Runs \X V),
                  toggles : SUBSET Toggles]
    BY <2>1, <2>2 DEF TabInv, TabTypes
  <2> QED BY <1>1, <2>3 DEF TabInv, TabTypes
<1>5. OwnRequests'
  BY <1>1, <1>3 DEF TabInv, OwnRequests, Loading, Ticking
<1>6. CalmInv'
  <2> SUFFICES ASSUME calm' PROVE CalmInv'
    BY DEF CalmInv
  <2>1. /\ calm /\ tab.toggles = {x} /\ tab.load = None
        /\ tab'.shown = IF req[x.q] = Done THEN tab.shown ELSE back
    BY <1>11, TabAssumption DEF TabInv, TabTypes, CalmInv
  <2>2. /\ \A i \in tab.shown : IF i[1] = x.row THEN i[2] = x.next ELSE i[2] = attr["items"][i[1]]
        /\ attr["items"][x.row] = IF req[x.q] = Done THEN x.next ELSE x.before
    BY <2>1 DEF TabInv, CalmInv, Says
  <2>3. \A i \in back : i[2] = IF i[1] = x.row THEN x.before ELSE attr["items"][i[1]]
    BY <2>2 DEF Showing
  <2>4. \A i \in tab'.shown : i[2] = attr["items"][i[1]]
    BY <2>1, <2>2, <2>3
  <2> QED BY <1>1, <1>3, <2>1, <2>4 DEF CalmInv, Says
<1> QED BY <1>4, <1>5, <1>6 DEF TabInv

(* Steps of the server *)

LEMMA RunsKeepTabInv ==
  ASSUME TabInv, UNCHANGED <<attr, req, tab, calm>> PROVE TabInv'
BY DEF TabInv, TabTypes, OwnRequests, Loading, Ticking, CalmInv, Says, Answered

ServerStep(q) ==
  \/ Begin(q) \/ Serve(q)
  \/ \E x \in tab.toggles : BeginEdit(q, "items", x.row, x.next)

LEMMA OnlyItsRequest ==
  ASSUME TabTypes, NEW q \in Requests, ServerStep(q), UNCHANGED tab
  PROVE  /\ TabTypes'
         /\ \A p \in Requests \ {q} : req'[p] = req[p]
<1>1. ASSUME NEW new, req' = [req EXCEPT ![q] = new],
             new.op = "edit" => new.table \in Editable /\ new.row \in Runs /\ new.value \in V,
             attr' \in [Editable -> [Runs -> V]]
      PROVE  TabTypes' /\ \A p \in Requests \ {q} : req'[p] = req[p]
  <2>1. /\ req'[q] = new /\ \A p \in Requests \ {q} : req'[p] = req[p]
        /\ req' = [p \in Requests |-> req'[p]]
    BY <1>1 DEF TabTypes
  <2> QED BY <1>1, <2>1 DEF TabTypes
<1>2. attr \in [Editable -> [Runs -> V]]
  BY DEF TabTypes
<1>3. CASE Refuse(q)
  BY <1>1, <1>2, <1>3, Ops DEF Refuse, rows
<1>4. CASE BeginDelete(q)
  BY <1>1, <1>2, <1>4 DEF BeginDelete, rows
<1>5. ASSUME NEW view \in View, BeginRead(q, view)
      PROVE  TabTypes' /\ \A p \in Requests \ {q} : req'[p] = req[p]
  BY <1>1, <1>2, <1>5 DEF BeginRead, rows
<1>6. ASSUME NEW t \in Editable, NEW r \in Runs, NEW v \in V, BeginEdit(q, t, r, v)
      PROVE  TabTypes' /\ \A p \in Requests \ {q} : req'[p] = req[p]
  <2> DEFINE new == IF r \in stored[t]
                    THEN [op |-> "edit", table |-> t, row |-> r, old |-> attr[t][r], value |-> v]
                    ELSE Refused
  <2>1. req' = [req EXCEPT ![q] = new] /\ attr' = attr
    BY <1>6 DEF BeginEdit, rows
  <2>2. new.op = "edit" => new.table \in Editable /\ new.row \in Runs /\ new.value \in V
    BY Ops
  <2> QED BY <1>1, <1>2, <2>1, <2>2
<1>7. ASSUME NEW sent \in SUBSET Fields, NEW v \in Values, BeginPatch(q, sent, v)
      PROVE  TabTypes' /\ \A p \in Requests \ {q} : req'[p] = req[p]
  BY <1>1, <1>2, <1>7 DEF BeginPatch, rows
<1>8. CASE Read(q)
  <2> DEFINE new == [req[q] EXCEPT !.got = Append(@, Rows(NextRead(q)))]
  <2>1. req' = [req EXCEPT ![q] = new] /\ attr' = attr /\ req[q].op = "read"
    BY <1>8 DEF Read, rows
  <2>2. new.op = "edit" => req[q].op = "edit"
    OBVIOUS
  <2> QED BY <1>1, <1>2, <2>1, <2>2
<1>9. CASE Edit(q)
  <2>1. req[q].table \in Editable /\ req[q].row \in Runs /\ req[q].value \in V
    BY <1>9 DEF Edit, TabTypes
  <2>2. attr' \in [Editable -> [Runs -> V]]
    BY <1>2, <1>9, <2>1 DEF Edit
  <2>3. \E new \in {Done, Failed} : req' = [req EXCEPT ![q] = new]
    BY <1>9 DEF Edit
  <2> QED BY <1>1, <2>2, <2>3, Ops
<1>10. CASE Patch(q)
  BY <1>1, <1>2, <1>10, Ops DEF Patch
<1>11. CASE SoftDelete(q)
  BY <1>1, <1>2, <1>11, Ops DEF SoftDelete
<1>12. \A x \in tab.toggles : x.row \in Runs /\ x.next \in V
  BY DEF TabTypes, Toggles, V
<1> QED BY <1>3, <1>4, <1>5, <1>6, <1>7, <1>8, <1>9, <1>10, <1>11, <1>12
       DEF ServerStep, Begin, RenameSpeaker, UpdateActionItem, Serve, Editable, V

(* A request that is not the tab's does not concern it, but for the edits. *)
LEMMA TheirsKeepsTabInv == ASSUME TabInv, NEW q \in Requests, Theirs(q) PROVE TabInv'
<1>1. /\ TabTypes' /\ \A p \in Requests \ {q} : req'[p] = req[p]
      /\ UNCHANGED tab
  BY OnlyItsRequest DEF Theirs, ServerStep, TabInv
<1>2. /\ tab.load # q /\ \A x \in tab.toggles : x.q # q
      /\ tab.load \in Requests \union {None} /\ \A x \in tab.toggles : x.q \in Requests
  BY DEF Theirs, Sent, TabInv, TabTypes, Toggles
<1>3. OwnRequests'
  BY <1>1, <1>2 DEF TabInv, OwnRequests, Loading, Ticking
<1>4. calm' => calm /\ attr'["items"] = attr["items"]
  BY DEF Theirs
<1>5. CalmInv'
  BY <1>1, <1>2, <1>4 DEF TabInv, CalmInv, Says, Answered
<1> QED BY <1>1, <1>3, <1>5 DEF TabInv

LEMMA BelowThree ==
  ASSUME NEW n \in Nat, n < 3
  PROVE  n + 1 <= 3 /\ (n = 0 \/ n = 1 \/ n = 2) /\ (n + 1 = 3 => n = 2)
OBVIOUS

LEMMA FewAnswers ==
  ASSUME NEW S, NEW got \in Seq(S), Len(got) < 3, NEW list \in S
  PROVE  /\ Len(got) = 0 \/ Len(got) = 1 \/ Len(got) = 2
         /\ Append(got, list) \in Seq(S) /\ Len(Append(got, list)) <= 3
         /\ Len(Append(got, list)) = 3 => Len(got) = 2 /\ Append(got, list)[3] = list
<1>1. Len(got) \in Nat
  BY LenProperties
<1>2. /\ Append(got, list) \in Seq(S) /\ Len(Append(got, list)) = Len(got) + 1
      /\ Append(got, list)[Len(got) + 1] = list
  BY AppendProperties
<1>3. Len(got) + 1 <= 3 /\ (Len(got) = 0 \/ Len(got) = 1 \/ Len(got) = 2)
      /\ (Len(got) + 1 = 3 => Len(got) = 2)
  BY <1>1, BelowThree
<1>4. Len(Append(got, list)) = 3 => Append(got, list)[3] = list
  BY <1>2
<1> QED BY <1>2, <1>3, <1>4

(* The tab's own requests *)
LEMMA LoadKeepsTabInv ==
  ASSUME IInv, TabInv, NEW q \in Requests, tab.load = q, Ours(q) PROVE TabInv'
<1>1. Refuse(q) \/ BeginRead(q, Intelligence) \/ Read(q)
  <2>1. \A x \in tab.toggles : x.q # q
    BY DEF TabInv, OwnRequests
  <2>2. q # None /\ Loading(q)
    BY TabAssumption DEF TabInv, OwnRequests
  <2>3. ~Edit(q) /\ ~Patch(q) /\ ~SoftDelete(q)
    BY <2>2, Ops DEF Loading, Edit, Patch, SoftDelete
  <2> QED BY <2>1, <2>3 DEF Ours, Serve
<1>2. UNCHANGED <<tab, calm, attr>>
  BY <1>1 DEF Ours, tabVars, Refuse, BeginRead, Read, rows
<1>3. TabTypes' /\ \A p \in Requests \ {q} : req'[p] = req[p]
  <2>1. Intelligence \in View
    BY JobShape
  <2> QED BY <1>1, <1>2, <2>1, OnlyItsRequest DEF ServerStep, Begin, Serve, TabInv
<1>4. Loading(q) /\ req = [p \in Requests |-> req[p]]
  BY TabAssumption DEF TabInv, OwnRequests, TabTypes
<1>5. CASE Refuse(q)
  <2>1. req'[q] = Refused
    BY <1>4, <1>5 DEF Refuse
  <2> QED BY <1>2, <1>3, <2>1 DEF TabInv, TabTypes, OwnRequests, Loading, Ticking, CalmInv, Says, Toggles
<1>6. CASE BeginRead(q, Intelligence)
  <2>1. req'[q] = [op |-> "read", view |-> Job[Analyze], got |-> <<>>]
    BY <1>4, <1>6, JobShape DEF BeginRead
  <2>2. Loading(q)' /\ ~Answered(q)'
    BY <2>1, JobShape DEF Loading, Answered
  <2> QED BY <1>2, <1>3, <2>2 DEF TabInv, TabTypes, OwnRequests, Loading, Ticking, CalmInv, Says, Toggles
<1>7. CASE Read(q)
  <2>1. PICK got, t, more : got = req[q].got /\ t = NextRead(q) /\ more = Append(got, Rows(t))
    OBVIOUS
  <2>2. /\ req[q] = [op |-> "read", view |-> Job[Analyze], got |-> got]
        /\ got \in Seq(SUBSET (Runs \X V)) /\ Len(got) < Len(req[q].view)
    BY <1>4, <1>7, <2>1, Ops DEF Read, Loading
  <2>3. /\ Len(got) < 3 /\ t = Job[Analyze][Len(got) + 1]
    BY <2>1, <2>2, JobShape DEF NextRead
  <2>4. req'[q] = [op |-> "read", view |-> Job[Analyze], got |-> more]
    <3>1. req' = [req EXCEPT ![q] = [req[q] EXCEPT !.got = more]]
      BY <1>7, <2>1 DEF Read
    <3>2. req'[q] = [req[q] EXCEPT !.got = more]
      BY <1>4, <3>1
    <3> QED BY <2>2, <3>2
  <2>5. Len(got) = 0 \/ Len(got) = 1 \/ Len(got) = 2
    BY <2>2, <2>3, FewAnswers, <1>4
  <2>6. t \in {"summaries", "insights", "items"} /\ (Len(got) = 2 => t = "items")
    <3>1. /\ Job[Analyze][1] = "summaries" /\ Job[Analyze][2] = "insights"
          /\ Job[Analyze][3] = "items"
      BY JobShape
    <3>2. CASE Len(got) = 0
      BY <2>3, <3>1, <3>2
    <3>3. CASE Len(got) = 1
      BY <2>3, <3>1, <3>3
    <3>4. CASE Len(got) = 2
      BY <2>3, <3>1, <3>4
    <3> QED BY <2>5, <3>2, <3>3, <3>4
  <2>7. /\ Rows(t) \in SUBSET (Runs \X V)
        /\ t = "items" => \A i \in Rows(t) : i[2] = attr["items"][i[1]]
    <3>1. attr["items"] \in [Runs -> V]
      BY DEF TabInv, TabTypes, Editable
    <3>2. stored[t] \subseteq Runs
      BY <2>6 DEF IInv, Types, Tables
    <3>3. CASE t = "items"
      <4>1. Rows(t) = {<<r, attr["items"][r]>> : r \in stored[t]}
        BY <3>3 DEF Rows, Editable
      <4> QED BY <3>1, <3>2, <4>1
    <3>4. CASE t # "items"
      <4>1. Rows(t) = {<<r, Made>> : r \in stored[t]} /\ Made \in V
        BY <2>6, <3>4 DEF Rows, Editable, V
      <4> QED BY <3>2, <3>4, <4>1
    <3> QED BY <3>3, <3>4
  <2>8. /\ more \in Seq(SUBSET (Runs \X V)) /\ Len(more) <= 3
        /\ Len(more) = 3 => Len(got) = 2 /\ more[3] = Rows(t)
    BY <2>1, <2>2, <2>3, <2>7, FewAnswers
  <2>9. Loading(q)'
    BY <2>4, <2>8 DEF Loading
  <2>10. Answered(q)' => Says(req[q].got[3], {})'
    <3>1. req'[q].got = more /\ req'[q].view = Job[Analyze]
      BY <2>4
    <3>2. Answered(q)' => Len(more) = 3
      BY <3>1, JobShape DEF Answered
    <3>3. Len(more) = 3 => \A i \in more[3] : i[2] = attr["items"][i[1]]
      BY <2>6, <2>7, <2>8
    <3>4. attr' = attr
      BY <1>2
    <3>6. Says(req[q].got[3], {})' = \A i \in more[3] : TRUE => i[2] = attr'["items"][i[1]]
      BY <3>1 DEF Says
    <3> QED BY <3>2, <3>3, <3>4, <3>6
  <2>11. OwnRequests'
    BY <1>2, <1>3, <2>9 DEF TabInv, TabTypes, OwnRequests, Loading, Ticking, Toggles
  <2>12. CalmInv'
    <3>2. tab'.load = q /\ tab' = tab /\ calm' = calm /\ attr' = attr
      BY <1>2
    <3>3. calm => /\ tab.toggles = {} /\ tab.shown = {}
      BY TabAssumption DEF TabInv, CalmInv
    <3>4. Answered(tab.load)' => Says(req[tab.load].got[3], {})'
      BY <2>10, <3>2
    <3>5. calm => Says(tab.shown, tab.toggles)'
      BY <3>2, <3>3 DEF Says
    <3> QED BY <3>2, <3>3, <3>4, <3>5 DEF CalmInv
  <2> QED BY <1>3, <2>11, <2>12 DEF TabInv
<1> QED BY <1>1, <1>5, <1>6, <1>7

LEMMA TickKeepsTabInv ==
  ASSUME TabInv, NEW q \in Requests, NEW x \in tab.toggles, x.q = q, Ours(q) PROVE TabInv'
<1>1. \A y \in tab.toggles : y.q = q => y = x
  BY DEF TabInv, OwnRequests
<1>2. Refuse(q) \/ BeginEdit(q, "items", x.row, x.next) \/ Edit(q)
  <2>1. tab.load # q /\ Ticking(x)
    BY DEF TabInv, OwnRequests
  <2>2. ~Read(q) /\ ~Patch(q) /\ ~SoftDelete(q)
    BY <2>1, Ops DEF Ticking, Read, Patch, SoftDelete
  <2> QED BY <1>1, <2>1, <2>2 DEF Ours, Serve
<1>3. UNCHANGED <<tab, calm>>
  BY DEF Ours, tabVars
<1>4. TabTypes' /\ \A p \in Requests \ {q} : req'[p] = req[p]
  BY <1>2, <1>3, OnlyItsRequest DEF ServerStep, Begin, Serve, TabInv
<1>5. /\ Ticking(x) /\ req = [p \in Requests |-> req[p]] /\ tab.load # q /\ x \in Toggles
      /\ tab.load \in Requests \union {None} /\ \A y \in tab.toggles : y.q \in Requests
  BY DEF TabInv, OwnRequests, TabTypes, Toggles
<1>6. ASSUME Ticking(x)' PROVE OwnRequests'
  BY <1>1, <1>3, <1>4, <1>5, <1>6 DEF TabInv, OwnRequests, Loading, Ticking
<1>7. CASE Refuse(q) \/ BeginEdit(q, "items", x.row, x.next)
  <2>1. attr' = attr /\ req[q] = New
    BY <1>7 DEF Refuse, BeginEdit, rows
  <2>2. \/ req'[q] = Refused
        \/ req'[q] = [op |-> "edit", table |-> "items", row |-> x.row,
                      old |-> attr["items"][x.row], value |-> x.next]
    BY <1>5, <1>7 DEF Refuse, BeginEdit
  <2>3. Ticking(x)'
    BY <2>2 DEF Ticking
  <2>4. CalmInv'
    BY <1>1, <1>3, <1>4, <1>5, <2>1, <2>2, Ops DEF TabInv, CalmInv, Says, Answered
  <2> QED BY <1>4, <1>6, <2>3, <2>4 DEF TabInv
<1>8. CASE Edit(q)
  <2>1. /\ req[q].op = "edit" /\ req[q].table = "items" /\ req[q].row = x.row
        /\ req[q].value = x.next
    BY <1>5, <1>8, Ops DEF Edit, Ticking
  <2>2. \/ /\ req'[q] = Done
           /\ attr' = [attr EXCEPT !["items"][x.row] = IF Unchanged(q) THEN @ ELSE x.next]
        \/ req'[q] = Failed /\ attr' = attr
    BY <1>5, <1>8, <2>1 DEF Edit
  <2>3. Ticking(x)'
    BY <2>2 DEF Ticking
  <2>4. CalmInv'
    <3> SUFFICES ASSUME calm PROVE CalmInv'
      BY <1>3 DEF CalmInv
    <3>1. tab.toggles = {x} /\ tab.load = None
      BY <1>1, <1>5, TabAssumption DEF TabInv, CalmInv, TabTypes
    <3>2. /\ \A i \in tab.shown : IF i[1] = x.row THEN i[2] = x.next
                                                   ELSE i[2] = attr["items"][i[1]]
          /\ req[q].old = x.before
          /\ attr["items"][x.row] = x.before
      BY <2>1, <3>1, Ops DEF TabInv, CalmInv, Says
    <3>3. attr["items"] \in [Runs -> V] /\ attr \in [Editable -> [Runs -> V]] /\ "items" \in Editable
      BY DEF TabInv, TabTypes, Editable
    <3>4. /\ attr'["items"][x.row] = IF req'[q] = Done THEN x.next ELSE x.before
          /\ \A r \in Runs \ {x.row} : attr'["items"][r] = attr["items"][r]
      BY <1>5, <2>1, <2>2, <3>2, <3>3, Ops DEF Unchanged, Toggles
    <3>5. \A i \in tab.shown : i[1] \in Runs
      BY DEF TabInv, TabTypes
    <3>6. Says(tab.shown, tab.toggles)'
      BY <1>3, <3>1, <3>2, <3>4, <3>5 DEF Says
    <3>7. req'[q].op # "edit"
      BY <2>2, Ops
    <3> QED BY <1>3, <3>1, <3>2, <3>4, <3>6, <3>7 DEF CalmInv
  <2> QED BY <1>4, <1>6, <2>3, <2>4 DEF TabInv
<1> QED BY <1>2, <1>7, <1>8

LEMMA TabStepKeepsTabInv == ASSUME TabInv, Tab PROVE TabInv'
BY OpenKeepsTabInv, ShowKeepsTabInv, ToggleKeepsTabInv, AnswerKeepsTabInv DEF Tab

LEMMA NextKeepsTabInv == IInv /\ TabInv /\ [Next]_<<vars, tabVars>> => TabInv'
<1> SUFFICES ASSUME IInv, TabInv, [Next]_<<vars, tabVars>> PROVE TabInv'
  OBVIOUS
<1>1. CASE Tab
  BY <1>1, TabStepKeepsTabInv
<1>2. ASSUME NEW q \in Requests, Ours(q) PROVE TabInv'
  <2>1. tab.load = q \/ \E x \in tab.toggles : x.q = q
    BY <1>2 DEF Ours, Sent
  <2> QED BY <1>2, <2>1, LoadKeepsTabInv, TickKeepsTabInv
<1>3. ASSUME NEW q \in Requests, Theirs(q) PROVE TabInv'
  BY <1>3, TheirsKeepsTabInv
<1>4. ASSUME NEW r \in Runs, RunStep(r), UNCHANGED tabVars PROVE TabInv'
  <2>1. UNCHANGED <<attr, req>>
    BY <1>4 DEF RunStep, Start, Skip, Delete, Deleted, Insert, Link, Commit, Fail, rows
  <2> QED BY <1>4, <2>1, RunsKeepTabInv DEF tabVars
<1>5. CASE UNCHANGED <<vars, tabVars>>
  BY <1>5, RunsKeepTabInv DEF vars, rows, tabVars
<1> QED BY <1>1, <1>2, <1>3, <1>4, <1>5 DEF Next

(* The tab is one of the clients of Workspace: what it sends is a request that *)
(* the server's specification allows anybody.                                  *)
LEMMA TabIsAClient == TabInv /\ [Next]_<<vars, tabVars>> => [WorkspaceNext]_vars
<1> SUFFICES ASSUME TabInv, [Next]_<<vars, tabVars>> PROVE [WorkspaceNext]_vars
  OBVIOUS
<1>1. CASE Tab
  BY <1>1 DEF Tab, Open, Show, Toggle, Settled, Lost
<1>2. ASSUME NEW q \in Requests, Ours(q) PROVE WorkspaceNext
  <2>1. ASSUME NEW x \in tab.toggles, BeginEdit(q, "items", x.row, x.next) PROVE Begin(q)
    <3>1. x.row \in Runs /\ x.next \in Values \union {Made} /\ "items" \in Editable
      BY DEF TabInv, TabTypes, Toggles, Editable
    <3> QED BY <2>1, <3>1 DEF Begin, UpdateActionItem
  <2>2. Intelligence \in View
    BY JobShape
  <2> QED BY <1>2, <2>1, <2>2 DEF Ours, WorkspaceNext, Begin
<1>3. ASSUME NEW q \in Requests, Theirs(q) PROVE WorkspaceNext
  BY <1>3 DEF Theirs, WorkspaceNext
<1>4. ASSUME NEW r \in Runs, RunStep(r) PROVE WorkspaceNext
  BY <1>4 DEF WorkspaceNext
<1> QED BY <1>1, <1>2, <1>3, <1>4 DEF Next, vars

LEMMA Both == Spec => [](IInv /\ TabInv)
<1>1. Init => IInv /\ TabInv
  BY InitIInv, InitTabInv DEF Init
<1>2. IInv /\ TabInv /\ [Next]_<<vars, tabVars>> => IInv' /\ TabInv'
  BY TabIsAClient, NextKeepsIInv, NextKeepsTabInv
<1> QED BY <1>1, <1>2, PTL DEF Spec

-----------------------------------------------------------------------------
(* Which analysis an answer is of *)

Analysis == {"summaries", "insights", "items"}

(* What is stored is the analysis that was committed last, and a run that has *)
(* committed one is over: it commits no other.                                *)
LastAnalysis ==
  /\ analyses \in Seq(Runs)
  /\ \A i \in DOMAIN analyses : At(analyses[i], "over")
  /\ \A t \in Analysis :
       stored[t] = IF analyses = <<>> THEN {} ELSE {analyses[Len(analyses)]}

Known(list) == \A row \in list : \E i \in DOMAIN analyses : row[1] = analyses[i]
Forward(xs, ys) == \A a \in Version(xs) : \E b \in Version(ys) : a <= b

(* A request that reads has this shape, *)
Reading(x) == x = [op |-> "read", view |-> x.view, got |-> x.got]

(* and what it has read goes forward: no list is behind the one before it.   *)
ReadsForward ==
  \A q \in Requests : req[q].op = "read" =>
    /\ Reading(req[q])
    /\ req[q].view = Job[Analyze] =>
         /\ req[q].got \in Seq(SUBSET (Runs \X V)) /\ Len(req[q].got) <= 3
         /\ \A i \in DOMAIN req[q].got : Known(req[q].got[i])
         /\ \A i, j \in DOMAIN req[q].got :
              i < j => Forward(req[q].got[i], req[q].got[j])

LEMMA InitReads == Init => LastAnalysis /\ ReadsForward
BY Ops DEF Init, WorkspaceInit, LastAnalysis, ReadsForward, Analysis, Tables

(* A run moves only while it is not over, and moves itself only. *)
LEMMA OneRunSteps ==
  ASSUME Types, NEW r \in Runs, RunStep(r)
  PROVE  ~At(r, "over") /\ \A o \in Runs \ {r} : txn'[o] = txn[o]
<1>1. ~At(r, "over")
  BY DEF RunStep, Start, Skip, Delete, Deleted, Insert, Link, Commit, Fail, At
<1>2. \E x : txn' = [txn EXCEPT ![r] = x]
  BY DEF RunStep, Start, Skip, Delete, Deleted, Insert, Link, Commit, Fail
<1> QED BY <1>1, <1>2 DEF Types

(* and adds to the analyses only by the commit of one. *)
LEMMA AddsOneAnalysis ==
  ASSUME IInv, IInv', LastAnalysis, NEW r \in Runs, RunStep(r)
  PROVE  /\ LastAnalysis'
         /\ \/ analyses' = analyses
            \/ /\ analyses' = Append(analyses, r)
               /\ \A i \in DOMAIN analyses : analyses[i] # r
<1>1. /\ ~At(r, "over") /\ \A o \in Runs \ {r} : txn'[o] = txn[o]
      /\ analyses \in Seq(Runs) /\ \A i \in DOMAIN analyses : At(analyses[i], "over")
  BY OneRunSteps DEF IInv, LastAnalysis
<1>2. \A i \in DOMAIN analyses : analyses[i] \in Runs /\ analyses[i] # r
  BY <1>1, ElementOfSeq, LenProperties
<1>3. \A i \in DOMAIN analyses : txn'[analyses[i]].step = "over"
  BY <1>1, <1>2 DEF At
<1>4. CASE analyses' = analyses /\ \A t \in Analysis : stored'[t] = stored[t]
  BY <1>1, <1>3, <1>4 DEF LastAnalysis, At
<1>5. CASE Commit(r) /\ InJob(r, Analyze)
  <2>1. /\ analyses' = Append(analyses, r) /\ txn'[r] = Over
        /\ \A t \in Analysis : r \in stored'[t]
    BY <1>1, <1>5, WrittenIs DEF Commit, Stored, Analysis, Tables, IInv, Types
  <2>2. \A t \in Analysis : stored'[t] = {r}
    BY <2>1 DEF IInv, OneAnalysis, Analysis, Tables
  <2>3. /\ analyses' \in Seq(Runs) /\ Len(analyses') = Len(analyses) + 1
        /\ analyses'[Len(analyses')] = r /\ analyses' # <<>>
        /\ \A i \in DOMAIN analyses' : \/ i \in DOMAIN analyses /\ analyses'[i] = analyses[i]
                                       \/ analyses'[i] = r
    BY <1>1, <2>1, AppendProperties
  <2>4. \A i \in DOMAIN analyses' : txn'[analyses'[i]].step = "over"
    BY <1>3, <2>1, <2>3 DEF Over
  <2> QED BY <1>2, <2>1, <2>2, <2>3, <2>4 DEF LastAnalysis, At
<1>6. CASE Commit(r) /\ ~InJob(r, Analyze)
  BY <1>1, <1>4, <1>6, WrittenIs DEF Commit, Stored, Analysis, Tables, IInv, Types, InJob, At
<1>7. CASE ~Commit(r)
  BY <1>4, <1>7 DEF RunStep, Start, Skip, Delete, Deleted, Insert, Link, Fail, rows
<1> QED BY <1>2, <1>4, <1>5, <1>6, <1>7 DEF LastAnalysis

(* What was read keeps its version when an analysis is added. *)
LEMMA VersionsKept ==
  ASSUME analyses \in Seq(Runs), NEW r \in Runs, analyses' = Append(analyses, r),
         \A i \in DOMAIN analyses : analyses[i] # r, NEW list, Known(list)
  PROVE  Version(list)' = Version(list) /\ Known(list)'
<1>1. /\ Len(analyses) \in Nat /\ DOMAIN analyses = 1 .. Len(analyses)
      /\ Len(analyses') = Len(analyses) + 1 /\ DOMAIN analyses' = 1 .. Len(analyses')
      /\ \A i \in 1 .. Len(analyses) : analyses'[i] = analyses[i]
      /\ analyses'[Len(analyses) + 1] = r
  BY AppendProperties, LenProperties
<1>2. \A row \in list : row[1] # r
  BY DEF Known
<1> QED BY <1>1, <1>2 DEF Version, Known

LEMMA RunsKeepReads ==
  ASSUME IInv, IInv', LastAnalysis, ReadsForward, NEW r \in Runs, RunStep(r)
  PROVE  LastAnalysis' /\ ReadsForward'
<1>1. /\ LastAnalysis'
      /\ \/ analyses' = analyses
         \/ analyses' = Append(analyses, r) /\ \A i \in DOMAIN analyses : analyses[i] # r
  BY AddsOneAnalysis
<1>2. req' = req
  BY DEF RunStep, Start, Skip, Delete, Deleted, Insert, Link, Commit, Fail, rows
<1>3. ASSUME NEW list, Known(list) PROVE Version(list)' = Version(list) /\ Known(list)'
  BY <1>1, <1>3, VersionsKept DEF LastAnalysis, Version, Known
<1>4. ASSUME NEW q \in Requests, req[q].op = "read", req[q].view = Job[Analyze],
             NEW i \in DOMAIN req[q].got
      PROVE  Known(req[q].got[i])'
  BY <1>2, <1>3, <1>4 DEF ReadsForward, Known
<1>5. ASSUME NEW q \in Requests, req[q].op = "read", req[q].view = Job[Analyze],
             NEW i \in DOMAIN req[q].got, NEW j \in DOMAIN req[q].got, i < j
      PROVE  Forward(req[q].got[i], req[q].got[j])'
  <2>1. PICK xs, ys : xs = req[q].got[i] /\ ys = req[q].got[j]
    OBVIOUS
  <2>2. Known(xs) /\ Known(ys) /\ Forward(xs, ys)
    BY <1>5, <2>1 DEF ReadsForward
  <2>3. Forward(xs, ys)'
    BY <1>3, <2>2 DEF Forward
  <2> QED BY <1>2, <2>1, <2>3 DEF Forward, Version
<1> QED BY <1>1, <1>2, <1>4, <1>5 DEF ReadsForward

(* What a request reads now is the last analysis: no read is behind it. *)
LEMMA ReadsTheLast ==
  ASSUME IInv, LastAnalysis, NEW t \in Analysis, NEW list
  PROVE  Known(Rows(t)) /\ Forward(list, Rows(t))
<1>1. /\ Len(analyses) \in Nat /\ DOMAIN analyses = 1 .. Len(analyses)
      /\ analyses = <<>> => Len(analyses) = 0
  BY LenProperties DEF LastAnalysis
<1>2. CASE analyses = <<>>
  <2>1. Version(list) = {} /\ Rows(t) = {}
    BY <1>1, <1>2 DEF Version, LastAnalysis, Rows
  <2> QED BY <2>1 DEF Known, Forward
<1>3. CASE analyses # <<>>
  <2>1. PICK n : n = Len(analyses) /\ n \in 1 .. Len(analyses)
    BY <1>1, <1>3, EmptySeq DEF LastAnalysis
  <2>2. stored[t] = {analyses[n]}
    BY <1>3, <2>1 DEF LastAnalysis
  <2>3. (\A row \in Rows(t) : row[1] = analyses[n]) /\ \E row \in Rows(t) : row[1] = analyses[n]
    <3>1. PICK v : Rows(t) = {<<r, v[r]>> : r \in {analyses[n]}}
      <4>1. CASE t \in Editable
        BY <2>2, <4>1 DEF Rows
      <4>2. CASE t \notin Editable
        <5>1. Rows(t) = {<<r, [x \in {analyses[n]} |-> Made][r]>> : r \in {analyses[n]}}
          BY <2>2, <4>2 DEF Rows
        <5> QED BY <5>1
      <4> QED BY <4>1, <4>2
    <3>2. Rows(t) = {<<analyses[n], v[analyses[n]]>>}
      BY <3>1
    <3> QED BY <3>2
  <2>4. n \in Version(Rows(t)) /\ Known(Rows(t))
    BY <1>1, <2>1, <2>3 DEF Version, Known
  <2>5. \A a \in Version(list) : a <= n
    BY <1>1, <2>1 DEF Version
  <2> QED BY <2>4, <2>5 DEF Forward
<1> QED BY <1>2, <1>3

LEMMA OneRequest ==
  ASSUME TabTypes, NEW q \in Requests, Begin(q) \/ Serve(q)
  PROVE  /\ \A p \in Requests \ {q} : req'[p] = req[p]
         /\ \E new : req' = [req EXCEPT ![q] = new]
         /\ UNCHANGED <<stored, txn, analyses>>
<1>1. /\ \E new : req' = [req EXCEPT ![q] = new]
      /\ UNCHANGED <<stored, txn, analyses>>
  <2>1. CASE Begin(q)
    BY <2>1 DEF Begin, Refuse, BeginDelete, BeginRead, RenameSpeaker, UpdateActionItem,
                BeginEdit, BeginPatch, rows
  <2>2. CASE Serve(q)
    <3>1. CASE Read(q)
      BY <3>1 DEF Read, rows
    <3>2. CASE Edit(q)
      BY <3>2 DEF Edit
    <3>3. CASE Patch(q) \/ SoftDelete(q)
      BY <3>3 DEF Patch, SoftDelete
    <3> QED BY <2>2, <3>1, <3>2, <3>3 DEF Serve
  <2> QED BY <2>1, <2>2
<1> QED BY <1>1 DEF TabTypes

(* A request that has read nothing yet, or is no such request *)
LEMMA NewKeepsReads ==
  ASSUME TabTypes, LastAnalysis, ReadsForward, NEW q \in Requests, Begin(q) \/ Serve(q),
         req'[q].op = "read" => Reading(req'[q]) /\ req'[q].got = <<>>
  PROVE  ReadsForward'
<1>1. /\ \A p \in Requests \ {q} : req'[p] = req[p]
      /\ UNCHANGED <<stored, txn, analyses>>
  BY OneRequest
<1>2. ASSUME NEW p \in Requests, p # q, (req[p].op = "read" /\ req[p].view = Job[Analyze])'
      PROVE  /\ req'[p].got \in Seq(SUBSET (Runs \X V)) /\ Len(req'[p].got) <= 3
             /\ \A i \in DOMAIN req'[p].got : Known(req[p].got[i])'
             /\ \A i, j \in DOMAIN req'[p].got :
                  i < j => Forward(req[p].got[i], req[p].got[j])'
  BY SMTT(30), <1>1, <1>2 DEF ReadsForward, Known, Forward, Version
<1>3. \A p \in Requests \ {q} : req'[p].op = "read" => Reading(req'[p])
  BY <1>1 DEF ReadsForward
<1>4. /\ <<>> \in Seq(SUBSET (Runs \X V)) /\ Len(<<>>) <= 3 /\ DOMAIN <<>> = {}
  OBVIOUS
<1> QED BY <1>2, <1>3, <1>4 DEF ReadsForward

LEMMA ReadKeepsReads ==
  ASSUME IInv, TabTypes, LastAnalysis, ReadsForward, NEW q \in Requests, Read(q)
  PROVE  ReadsForward'
<1>1. /\ \A p \in Requests \ {q} : req'[p] = req[p]
      /\ UNCHANGED <<stored, txn, analyses>>
  BY OneRequest DEF Serve
<1>2. ASSUME NEW p \in Requests, p # q, (req[p].op = "read" /\ req[p].view = Job[Analyze])'
      PROVE  /\ req'[p].got \in Seq(SUBSET (Runs \X V)) /\ Len(req'[p].got) <= 3
             /\ \A i \in DOMAIN req'[p].got : Known(req[p].got[i])'
             /\ \A i, j \in DOMAIN req'[p].got :
                  i < j => Forward(req[p].got[i], req[p].got[j])'
  BY <1>1, <1>2 DEF ReadsForward, Known, Forward, Version
<1>3. PICK got, t, list, more : /\ got = req[q].got /\ t = NextRead(q) /\ list = Rows(t)
                                /\ more = Append(got, list)
  OBVIOUS
<1>4. /\ req'[q] = [op |-> "read", view |-> req[q].view, got |-> more]
      /\ req[q].op = "read" /\ Len(got) < Len(req[q].view)
  <2>1. req' = [req EXCEPT ![q] = [req[q] EXCEPT !.got = more]]
    BY <1>3 DEF Read
  <2>2. req'[q] = [req[q] EXCEPT !.got = more]
    BY <2>1 DEF TabTypes
  <2>3. req[q].op = "read" /\ Len(req[q].got) < Len(req[q].view)
    BY DEF Read
  <2>4. req[q] = [op |-> "read", view |-> req[q].view, got |-> got]
    BY <1>3, <2>3 DEF ReadsForward, Reading
  <2> QED BY <1>3, <2>2, <2>3, <2>4
<1>5. ASSUME req[q].view = Job[Analyze]
      PROVE  /\ more \in Seq(SUBSET (Runs \X V)) /\ Len(more) <= 3
             /\ \A i \in DOMAIN more : Known(more[i])'
             /\ \A i, j \in DOMAIN more : i < j => Forward(more[i], more[j])'
  <2>1. /\ got \in Seq(SUBSET (Runs \X V)) /\ Len(got) <= 3 /\ Len(got) < 3
        /\ \A i \in DOMAIN got : Known(got[i])
        /\ \A i, j \in DOMAIN got : i < j => Forward(got[i], got[j])
    BY <1>3, <1>4, <1>5, JobShape DEF ReadsForward
  <2>2. t \in Analysis
    <3>1. t = Job[Analyze][Len(got) + 1]
      BY <1>3, <1>5 DEF NextRead
    <3>2. Len(got) + 1 \in {1, 2, 3}
      BY <2>1, FewAnswers, JobShape
    <3> QED BY <3>1, <3>2, JobShape DEF Analysis
  <2>3. Known(list) /\ \A xs : Forward(xs, list)
    BY <1>3, <2>2, ReadsTheLast
  <2>4. list \in SUBSET (Runs \X V)
    BY <1>3, <2>2 DEF Rows, TabTypes, IInv, Types, V, Analysis, Tables
  <2>5. /\ more \in Seq(SUBSET (Runs \X V)) /\ Len(more) <= 3
        /\ DOMAIN got = 1 .. Len(got) /\ DOMAIN more = 1 .. Len(got) + 1 /\ Len(got) \in Nat
        /\ more[Len(got) + 1] = list /\ \A i \in 1 .. Len(got) : more[i] = got[i]
    BY <1>3, <2>1, <2>4, FewAnswers, AppendProperties, LenProperties
  <2>6. /\ \A i \in DOMAIN more : Known(more[i])
        /\ \A i, j \in DOMAIN more : i < j => Forward(more[i], more[j])
    BY <2>1, <2>3, <2>5
  <2> QED BY <1>1, <2>5, <2>6 DEF Known, Forward, Version
<1>6. /\ \A i \in DOMAIN more : Known(more[i])' <=> Known(req[q].got[i])'
      /\ \A i, j \in DOMAIN more :
           Forward(more[i], more[j])' <=> Forward(req[q].got[i], req[q].got[j])'
  BY <1>4 DEF Known, Forward, Version
<1>7. \A p \in Requests \ {q} : req'[p].op = "read" => Reading(req'[p])
  BY <1>1 DEF ReadsForward
<1>8. Reading(req'[q])
  BY <1>4 DEF Reading
<1> QED BY <1>2, <1>4, <1>5, <1>6, <1>7, <1>8 DEF ReadsForward

LEMMA NextKeepsReads ==
  IInv /\ IInv' /\ TabTypes /\ LastAnalysis /\ ReadsForward /\ [WorkspaceNext]_vars
    => LastAnalysis' /\ ReadsForward'
<1> SUFFICES ASSUME IInv, IInv', TabTypes, LastAnalysis, ReadsForward, [WorkspaceNext]_vars
             PROVE  LastAnalysis' /\ ReadsForward'
  OBVIOUS
<1>1. ASSUME NEW r \in Runs, RunStep(r) PROVE LastAnalysis' /\ ReadsForward'
  BY <1>1, RunsKeepReads
<1>2. ASSUME NEW q \in Requests, Begin(q) \/ Serve(q) PROVE LastAnalysis' /\ ReadsForward'
  <2>1. LastAnalysis'
    BY <1>2, OneRequest DEF LastAnalysis, At
  <2>2. CASE Read(q)
    BY <2>1, <2>2, ReadKeepsReads
  <2>3. CASE ~Read(q)
    <3>1. req'[q].op = "read" => Reading(req'[q]) /\ req'[q].got = <<>>
      BY <1>2, <2>3, Ops DEF Begin, Refuse, BeginDelete, BeginRead, RenameSpeaker,
         UpdateActionItem, BeginEdit, BeginPatch, Serve, Edit, Patch, SoftDelete, TabTypes, Reading
    <3> QED BY <1>2, <2>1, <3>1, NewKeepsReads
  <2> QED BY <2>2, <2>3
<1>3. CASE UNCHANGED vars
  <2>1. UNCHANGED <<stored, txn, analyses, req>>
    BY <1>3 DEF vars, rows
  <2>2. LastAnalysis'
    BY <2>1 DEF LastAnalysis, At
  <2>3. ReadsForward'
    BY <2>1 DEF ReadsForward, Known, Forward, Version
  <2> QED BY <2>2, <2>3
<1> QED BY <1>1, <1>2, <1>3 DEF WorkspaceNext

-----------------------------------------------------------------------------
(* What the tab does is what requests of Workspace do: every step of Spec is *)
(* one of WorkspaceSpec or leaves its rows and requests alone.               *)
THEOREM TabImplementsWorkspace == Spec => WorkspaceSpec
<1>1. Init => WorkspaceInit
  BY DEF Init
<1> QED BY <1>1, Both, TabIsAClient, PTL DEF Spec, WorkspaceSpec

(* However many runs of the pipeline overlap, the committed analysis is one  *)
(* run's, whole (IntelligenceService._persist).                              *)
THEOREM AnalysisIsOne == Spec => []OneAnalysis
<1>1. IInv => OneAnalysis
  BY DEF IInv
<1> QED BY <1>1, Both, PTL

(* However many runs overlap, a segment points to a speaker that is stored   *)
(* (PipelineService._diarize, ON DELETE SET NULL).                           *)
THEOREM SpeakersLinked == Spec => []LinksHold
<1>1. IInv => LinksHold
  BY DEF IInv
<1> QED BY <1>1, Both, PTL

(* A tab that nothing has surprised shows the stored status of every action  *)
(* item it lists (toggleItem of intelligence-tab.tsx).                       *)
THEOREM CalmTabShowsWhatIsStored == Spec => []CalmTabIsStored
<1>1. TabInv => CalmTabIsStored
  BY DEF TabInv, CalmInv, CalmTabIsStored, Says
<1> QED BY <1>1, Both, PTL

(* However commits fall between the three statements of get_intelligence, no *)
(* list of its answer is older than the one before it (list_for_meeting).    *)
THEOREM AnswersGoForward == Spec => []ForwardAnswer
<1>1. IInv /\ TabInv /\ LastAnalysis /\ ReadsForward /\ [Next]_<<vars, tabVars>>
        => LastAnalysis' /\ ReadsForward'
  BY TabIsAClient, NextKeepsIInv, NextKeepsReads DEF TabInv
<1>2. ReadsForward => ForwardAnswer
  BY DEF ReadsForward, ForwardAnswer, Answered, Forward
<1>3. Init => LastAnalysis /\ ReadsForward
  BY InitReads
<1> QED BY <1>1, <1>2, <1>3, Both, PTL DEF Spec

(* A PATCH changes the fields it was sent, and nothing but a PATCH changes   *)
(* any: two edits of one meeting keep each other's (MeetingService.update).  *)
THEOREM PatchKeepsOthers == Spec => OnlySentFieldsChange
<1> DEFINE Step == \A f \in Fields :
                     field'[f] # field[f] =>
                       \E q \in Requests :
                         req[q].op = "patch" /\ req'[q] # req[q] /\ f \in req[q].sent
<1>1. TabTypes /\ [WorkspaceNext]_vars => [Step]_vars
  <2> SUFFICES ASSUME TabTypes, WorkspaceNext, field' # field PROVE Step
    BY DEF vars, rows
  <2>1. PICK q \in Requests : Patch(q)
    BY DEF WorkspaceNext, RunStep, Start, Skip, Delete, Deleted, Insert, Link, Commit, Fail,
           Begin, Refuse, BeginRead, RenameSpeaker, UpdateActionItem, BeginEdit, BeginPatch, BeginDelete, Serve, Read, Edit,
           SoftDelete, rows
  <2>2. req[q].op = "patch" /\ req'[q] = Done
    BY <2>1 DEF Patch, TabTypes
  <2>3. \A f \in Fields : field'[f] # field[f] => f \in req[q].sent
    BY <2>1 DEF Patch, Patched
  <2> QED BY <2>2, <2>3, Ops
<1>2. TabInv => TabTypes
  BY DEF TabInv
<1> QED BY <1>1, <1>2, Both, TabImplementsWorkspace, PTL DEF WorkspaceSpec, OnlySentFieldsChange
=============================================================================
