----------------------------- MODULE Sync_proofs ------------------------------
(***************************************************************************)
(* Proofs about three levels of the data sync pipeline: SourceSync, for    *)
(* any number of runners and runs, any time to live and any number of      *)
(* attempts, SyncJob, for any number of sources and workers, and SyncRun,  *)
(* for any jobs and dependencies.                                          *)
(***************************************************************************)
EXTENDS SourceSync, SyncJob, SyncRun, Sums, SequenceTheorems, TLAPS

(***************************************************************************)
(* SourceSync                                                              *)
(***************************************************************************)

LEMMA NumberFacts ==
    /\ MaxTime \in Nat \ {0} /\ MaxRuns \in Nat /\ MaxAttempts \in Nat \ {0} /\ LastTick \in Nat
    /\ LastTick <= MaxTime /\ TTL \in Nat \ {0}
    /\ Times = 0..MaxTime
  BY SyncConstants DEF Times

(***************************************************************************)
(* Types                                                                   *)
(***************************************************************************)

\* Leaving the runner's locals alone keeps their types.
LEMMA RunnerFrame == TypeRunners /\ UNCHANGED runnerVars => TypeRunners'
  BY DEF TypeRunners, runnerVars

LEMMA EndsType ==
    ASSUME TypeRunners, NEW r \in Runners,
           NEW outcome \in Verdicts \cup {"none", "recent", "skipped", "crashed"},
           Ends(r, outcome), UNCHANGED runs
    PROVE  TypeRunners'
  BY NumberFacts DEF TypeRunners, Ends, Verdicts, Control

LEMMA RetryType ==
    ASSUME TypeRunners, NEW r \in Runners, NEW step \in Control, RetryFrom(r, step),
           UNCHANGED <<runs, stamp, mine, verdict, report>>
    PROVE  TypeRunners'
  BY NumberFacts DEF TypeRunners, RetryFrom

LEMMA RestampType ==
    ASSUME TypeRunners, clock \in Times, NEW r \in Runners, NEW step \in Control,
           RetryFrom(r, step), Stamp(r), UNCHANGED <<runs, mine, verdict, report>>
    PROVE  TypeRunners'
  BY NumberFacts DEF TypeRunners, RetryFrom, Stamp

\* The row stays a row whatever a runner inserts.
LEMMA MergedType ==
    ASSUME ledger \in Rows \cup {NoRow}, NEW row \in Rows PROVE Merged(row) \in Rows \cup {NoRow}
  BY DEF Merged

LEMMA RowType ==
    ASSUME TypeRunners, NEW r \in Runners, NEW outcome \in {"pending"} \cup Verdicts
    PROVE  Row(r, outcome) \in Rows
  BY DEF TypeRunners, Row, Rows

LEMMA TypeStep == ASSUME TypeOK, [Next]_vars PROVE TypeOK'
<1>n. /\ MaxTime \in Nat \ {0} /\ MaxRuns \in Nat /\ MaxAttempts \in Nat \ {0} /\ LastTick \in Nat
      /\ LastTick <= MaxTime /\ Times = 0..MaxTime
  BY NumberFacts
<1>t. clock \in Times /\ ledger \in Rows \cup {NoRow} /\ TypeRunners
      /\ written \in BOOLEAN /\ synced \in BOOLEAN /\ abandoned \in SUBSET Times
  BY DEF TypeOK
<1>1. ASSUME NEW r \in Runners, Begin(r) PROVE TypeOK'
  <2>1. TypeRunners'
    BY <1>1, <1>t, <1>n DEF Begin, TypeRunners, Control
  <2>2. QED
    BY <1>1, <1>t, <2>1 DEF Begin, TypeOK
<1>2. ASSUME NEW r \in Runners, FindStale(r) PROVE TypeOK'
  <2>1. TypeRunners'
    BY <1>2, <1>t DEF FindStale, TypeRunners, Control
  <2>2. QED
    BY <1>2, <1>t, <2>1 DEF FindStale, TypeOK
<1>s. \A r \in Runners : Unlocked(r) \in Rows
  BY <1>t DEF Rows, Verdicts, Unlocked, TypeRunners
<1>u. ASSUME NEW r \in Runners, StampUnlock(r) PROVE TypeOK'
  <2>1. TypeRunners'
    BY <1>u, <1>t DEF StampUnlock, Stamp, TypeRunners, Control
  <2>2. clock' \in Times
    BY <1>u, <1>t, <1>n DEF StampUnlock, Stamp
  <2>3. QED
    BY <1>u, <1>t, <2>1, <2>2 DEF StampUnlock, TypeOK
<1>3. ASSUME NEW r \in Runners, MarkStale(r) PROVE TypeOK'
  <2>1. TypeRunners'
    BY <1>3, <1>t, <1>n DEF MarkStale, TypeRunners, Control
  <2>3. ledger' \in Rows \cup {NoRow}
    BY <1>3, <1>t, <1>s, MergedType DEF MarkStale
  <2>4. QED
    BY <1>3, <1>t, <2>1, <2>3 DEF MarkStale, TypeOK
<1>4. ASSUME NEW r \in Runners, NEW applied \in BOOLEAN, MarkStaleFails(r, applied) PROVE TypeOK'
  <2>1. TypeRunners'
    BY <1>4, <1>t, EndsType, RetryType DEF MarkStaleFails, Control, Verdicts
  <2>3. ledger' \in Rows \cup {NoRow}
    BY <1>4, <1>t, <1>s, MergedType DEF MarkStaleFails
  <2>4. QED
    BY <1>4, <1>t, <2>1, <2>3 DEF MarkStaleFails, TypeOK
<1>v. ASSUME NEW r \in Runners, ResolveWindow(r) PROVE TypeOK'
  <2>1. CASE Ends(r, "recent") \/ Ends(r, "failed")
    <3>1. TypeRunners'
      BY <1>v, <1>t, <2>1, EndsType DEF ResolveWindow, Verdicts
    <3>2. QED
      BY <1>v, <1>t, <3>1 DEF ResolveWindow, TypeOK
  <2>2. CASE pc' = [pc EXCEPT ![r] = "check"] /\ UNCHANGED <<report, attempts, stamp, mine, verdict>>
    <3>1. TypeRunners'
      BY <1>v, <1>t, <2>2 DEF ResolveWindow, TypeRunners, Control
    <3>2. QED
      BY <1>v, <1>t, <3>1 DEF ResolveWindow, TypeOK
  <2>3. QED
    BY <1>v, <2>1, <2>2 DEF ResolveWindow
<1>w. ASSUME NEW r \in Runners, SyncWrites(r) PROVE TypeOK'
  BY <1>w, <1>t, RunnerFrame DEF SyncWrites, TypeOK
<1>5. ASSUME NEW r \in Runners, Check(r) PROVE TypeOK'
  <2>1. CASE Ends(r, "skipped")
    <3>1. TypeRunners'
      BY <1>5, <1>t, <2>1, EndsType DEF Check
    <3>2. QED
      BY <1>5, <1>t, <3>1 DEF Check, TypeOK
  <2>2. CASE pc' = [pc EXCEPT ![r] = "start"] /\ UNCHANGED <<report, attempts, stamp, mine, verdict>>
    <3>1. TypeRunners'
      BY <1>5, <1>t, <2>2 DEF Check, TypeRunners, Control
    <3>2. QED
      BY <1>5, <1>t, <3>1 DEF Check, TypeOK
  <2>3. QED
    BY <1>5, <2>1, <2>2 DEF Check
<1>6. ASSUME NEW r \in Runners, StampStart(r) PROVE TypeOK'
  <2>1. TypeRunners'
    BY <1>6, <1>t DEF StampStart, Stamp, TypeRunners, Control
  <2>2. clock' \in Times
    BY <1>6, <1>t, <1>n DEF StampStart, Stamp
  <2>3. QED
    BY <1>6, <1>t, <2>1, <2>2 DEF StampStart, TypeOK
<1>7. ASSUME NEW r \in Runners, ReadLatest(r) PROVE TypeOK'
  <2>1. CASE Ends(r, "failed")
    <3>1. TypeRunners'
      BY <1>7, <1>t, <2>1, EndsType DEF ReadLatest, Verdicts
    <3>2. QED
      BY <1>7, <1>t, <3>1 DEF ReadLatest, TypeOK
  <2>2. CASE pc' = [pc EXCEPT ![r] = "insert"] /\ UNCHANGED <<report, attempts, stamp, mine, verdict>>
    <3>1. TypeRunners'
      BY <1>7, <1>t, <2>2 DEF ReadLatest, TypeRunners, Control
    <3>2. QED
      BY <1>7, <1>t, <3>1 DEF ReadLatest, TypeOK
  <2>3. QED
    BY <1>7, <2>1, <2>2 DEF ReadLatest
<1>8. ASSUME NEW r \in Runners, InsertPending(r) PROVE TypeOK'
  <2>1. TypeRunners'
    BY <1>8, <1>t, <1>n DEF InsertPending, TypeRunners, Control
  <2>2. ledger' \in Rows \cup {NoRow}
    BY <1>8, <1>t, RowType, MergedType DEF InsertPending
  <2>3. QED
    BY <1>8, <1>t, <2>1, <2>2 DEF InsertPending, TypeOK
<1>9. ASSUME NEW r \in Runners, NEW applied \in BOOLEAN, InsertPendingFails(r, applied) PROVE TypeOK'
  <2>1. TypeRunners'
    BY <1>9, <1>t, EndsType, RetryType DEF InsertPendingFails, Control, Verdicts
  <2>2. ledger' \in Rows \cup {NoRow}
    BY <1>9, <1>t, RowType, MergedType DEF InsertPendingFails
  <2>3. abandoned' \in SUBSET Times
    BY <1>9, <1>t DEF InsertPendingFails, TypeRunners
  <2>4. QED
    BY <1>9, <1>t, <2>1, <2>2, <2>3 DEF InsertPendingFails, TypeOK
<1>10. ASSUME NEW r \in Runners, NEW v \in Verdicts, SyncReturns(r, v) PROVE TypeOK'
  <2>1. TypeRunners'
    BY <1>10, <1>t DEF SyncReturns, Stamp, TypeRunners, Control
  <2>2. clock' \in Times
    BY <1>10, <1>t, <1>n DEF SyncReturns, Stamp
  <2>3. synced' \in BOOLEAN
    BY <1>10, <1>t DEF SyncReturns
  <2>4. QED
    BY <1>10, <1>t, <2>1, <2>2, <2>3 DEF SyncReturns, TypeOK
<1>11. ASSUME NEW r \in Runners, Record(r) PROVE TypeOK'
  <2>0. verdict[r] \in Verdicts
    BY <1>t DEF TypeRunners
  <2>1. TypeRunners'
    BY <1>11, <1>t, <2>0, EndsType DEF Record
  <2>2. ledger' \in Rows \cup {NoRow}
    BY <1>11, <1>t, <2>0, RowType, MergedType DEF Record
  <2>3. QED
    BY <1>11, <1>t, <2>1, <2>2 DEF Record, TypeOK
<1>12. ASSUME NEW r \in Runners, NEW applied \in BOOLEAN, RecordFails(r, applied) PROVE TypeOK'
  <2>0. verdict[r] \in Verdicts
    BY <1>t DEF TypeRunners
  <2>1. ledger' \in Rows \cup {NoRow}
    BY <1>12, <1>t, <2>0, RowType, MergedType DEF RecordFails
  <2>2. CASE RetryFrom(r, "record") /\ Stamp(r) /\ UNCHANGED <<mine, verdict, report, abandoned>>
    <3>1. TypeRunners'
      BY <1>12, <1>t, <2>2, RestampType DEF RecordFails, Control
    <3>2. clock' \in Times
      BY <1>t, <1>n, <2>2 DEF Stamp
    <3>3. QED
      BY <1>12, <1>t, <2>1, <2>2, <3>1, <3>2 DEF RecordFails, TypeOK
  <2>3. CASE RetryFrom(r, "record") /\ UNCHANGED <<clock, stamp, mine, verdict, report, abandoned>>
    <3>1. TypeRunners'
      BY <1>12, <1>t, <2>3, RetryType DEF RecordFails, Control
    <3>2. QED
      BY <1>12, <1>t, <2>1, <2>3, <3>1 DEF RecordFails, TypeOK
  <2>4. CASE Ends(r, "failed") /\ abandoned' = abandoned \cup {mine[r]} /\ UNCHANGED clock
    <3>1. TypeRunners'
      BY <1>12, <1>t, <2>4, EndsType DEF RecordFails, Verdicts
    <3>2. abandoned' \in SUBSET Times
      BY <1>t, <2>4 DEF TypeRunners
    <3>3. QED
      BY <1>12, <1>t, <2>1, <2>4, <3>1, <3>2 DEF RecordFails, TypeOK
  <2>5. QED
    BY <1>12, <2>2, <2>3, <2>4 DEF RecordFails
<1>13. ASSUME NEW r \in Runners, QueryFails(r) PROVE TypeOK'
  <2>1. TypeRunners'
    BY <1>13, <1>t, EndsType DEF QueryFails, Verdicts
  <2>2. QED
    BY <1>13, <1>t, <2>1 DEF QueryFails, TypeOK
<1>14. ASSUME NEW r \in Runners, Crash(r) PROVE TypeOK'
  <2>1. TypeRunners'
    BY <1>14, <1>t, EndsType DEF Crash
  <2>2. abandoned' \in SUBSET Times
    BY <1>14, <1>t DEF Crash, TypeRunners
  <2>3. QED
    BY <1>14, <1>t, <2>1, <2>2 DEF Crash, TypeOK
<1>15. CASE Tick
  BY <1>15, <1>t, <1>n, RunnerFrame DEF Tick, TypeOK
<1>16. CASE UNCHANGED vars
  BY <1>16, <1>t, RunnerFrame DEF vars, TypeOK
<1>17. QED
  BY <1>1, <1>2, <1>u, <1>3, <1>4, <1>v, <1>w, <1>5, <1>6, <1>7, <1>8, <1>9, <1>10, <1>11, <1>12, <1>13, <1>14,
     <1>15, <1>16 DEF Next, RunnerStep, RunnerFails

LEMMA TypeInit == ASSUME Init PROVE TypeOK
<1>1. 0 \in Times /\ 1 \in Times /\ 0 \in 0..MaxRuns /\ 0 \in 0..(MaxAttempts - 1)
  BY NumberFacts
<1>2. TypeRunners
  BY <1>1 DEF Init, TypeRunners, Control, Verdicts
<1>3. QED
  BY <1>1, <1>2 DEF Init, TypeOK

\* Type correctness for every instance of the constants; the retries of Retry
\* stay within MaxAttempts.
THEOREM TypeCorrect == Spec => []TypeOK
  BY TypeInit, TypeStep, PTL DEF Spec

(***************************************************************************)
(* A success in the ledger is earned                                       *)
(***************************************************************************)

EarnedInv ==
    /\ SuccessIsEarned
    /\ \A r \in Runners : verdict[r] = "success" => synced

LEMMA EarnedStep == ASSUME TypeOK, EarnedInv, [Next]_vars PROVE EarnedInv'
<1>t. TypeRunners
  BY DEF TypeOK
<1>m. ASSUME NEW row, row.status = "success" => synced
      PROVE  Merged(row).status = "success" => synced
  BY <1>m DEF Merged, EarnedInv, SuccessIsEarned
\* The run of r ends with a status it has earned.
<1>e. ASSUME NEW r \in Runners, NEW outcome, Ends(r, outcome),
             outcome \in {"success", "skipped"} => synced, outcome = "recent" => written,
             ledger'.status = "success" => synced, UNCHANGED <<written, synced>>
      PROVE  EarnedInv'
  BY <1>e, <1>t DEF Ends, EarnedInv, SuccessIsEarned, TypeRunners
\* Nothing changes but control, stamps and rows that are not a success.
<1>c. ASSUME ledger'.status = "success" => synced, UNCHANGED <<verdict, synced>>, written => written',
             \A r \in Runners : report'[r] = report[r] \/ report'[r] = "none"
      PROVE  EarnedInv'
  BY <1>c, <1>t DEF EarnedInv, SuccessIsEarned
<1>l. ledger.status = "success" => synced
  BY DEF EarnedInv, SuccessIsEarned
<1>1. ASSUME NEW r \in Runners, Begin(r) PROVE EarnedInv'
  BY <1>1, <1>c, <1>l, <1>t DEF Begin, TypeRunners
<1>2. ASSUME NEW r \in Runners, FindStale(r) \/ StampUnlock(r) \/ StampStart(r)
      PROVE  EarnedInv'
  BY <1>2, <1>c, <1>l DEF FindStale, StampUnlock, StampStart
<1>3. ASSUME NEW r \in Runners, MarkStale(r) \/ \E applied \in BOOLEAN : MarkStaleFails(r, applied)
      PROVE  EarnedInv'
  <2>1. Merged(Unlocked(r)).status = "success" => synced
    BY <1>m DEF Unlocked
  <2>2. ledger'.status = "success" => synced
    BY <1>3, <1>l, <2>1 DEF MarkStale, MarkStaleFails
  <2>3. QED
    BY <1>3, <1>c, <1>e, <2>2 DEF MarkStale, MarkStaleFails
<1>v. ASSUME NEW r \in Runners, ResolveWindow(r) PROVE EarnedInv'
  <2>1. CASE written /\ Ends(r, "recent")
    BY <1>v, <1>e, <1>l, <2>1 DEF ResolveWindow
  <2>2. CASE Ends(r, "failed")
    BY <1>v, <1>e, <1>l, <2>2 DEF ResolveWindow
  <2>3. CASE UNCHANGED <<report, verdict>>
    BY <1>v, <1>c, <1>l, <2>3 DEF ResolveWindow
  <2>4. QED
    BY <1>v, <2>1, <2>2, <2>3 DEF ResolveWindow
<1>w. ASSUME NEW r \in Runners, SyncWrites(r) PROVE EarnedInv'
  BY <1>w, <1>c, <1>l DEF SyncWrites, runnerVars
<1>4. ASSUME NEW r \in Runners, Check(r) PROVE EarnedInv'
  <2>1. CASE Ends(r, "skipped") /\ ledger.status = "success"
    BY <1>4, <1>e, <1>l, <2>1 DEF Check
  <2>2. CASE UNCHANGED <<report, verdict>>
    BY <1>4, <1>c, <1>l, <2>2 DEF Check
  <2>3. QED
    BY <1>4, <2>1, <2>2 DEF Check
<1>5. ASSUME NEW r \in Runners, ReadLatest(r) PROVE EarnedInv'
  BY <1>5, <1>c, <1>e, <1>l DEF ReadLatest
<1>6. ASSUME NEW r \in Runners,
             InsertPending(r) \/ \E applied \in BOOLEAN : InsertPendingFails(r, applied)
      PROVE  EarnedInv'
  <2>1. Merged(Row(r, "pending")).status = "success" => synced
    BY <1>m DEF Row
  <2>2. ledger'.status = "success" => synced
    BY <1>6, <1>l, <2>1 DEF InsertPending, InsertPendingFails
  <2>3. QED
    BY <1>6, <1>c, <1>e, <2>2 DEF InsertPending, InsertPendingFails
<1>7. ASSUME NEW r \in Runners, NEW v \in Verdicts, SyncReturns(r, v) PROVE EarnedInv'
  BY <1>7, <1>t DEF SyncReturns, EarnedInv, SuccessIsEarned, TypeRunners
<1>8. ASSUME NEW r \in Runners, Record(r) \/ \E applied \in BOOLEAN : RecordFails(r, applied)
      PROVE  EarnedInv'
  <2>0. verdict[r] = "success" => synced
    BY DEF EarnedInv
  <2>1. Merged(Row(r, verdict[r])).status = "success" => synced
    BY <1>m, <2>0 DEF Row
  <2>2. ledger'.status = "success" => synced
    BY <1>8, <1>l, <2>1 DEF Record, RecordFails
  <2>3. verdict[r] \notin {"skipped", "recent"}
    BY <1>t DEF TypeRunners, Verdicts
  <2>4. CASE Record(r)
    BY <2>4, <1>e, <2>0, <2>2, <2>3 DEF Record
  <2>5. CASE \E applied \in BOOLEAN : RecordFails(r, applied)
    BY <2>5, <1>c, <1>e, <2>2 DEF RecordFails
  <2>6. QED
    BY <1>8, <2>4, <2>5
<1>9. ASSUME NEW r \in Runners, QueryFails(r) \/ Crash(r) PROVE EarnedInv'
  BY <1>9, <1>e, <1>l DEF QueryFails, Crash
<1>10. CASE Tick \/ UNCHANGED vars
  BY <1>10, <1>c, <1>l DEF Tick, vars, runnerVars
<1>11. QED
  BY <1>1, <1>2, <1>3, <1>v, <1>w, <1>4, <1>5, <1>6, <1>7, <1>8, <1>9, <1>10 DEF Next, RunnerStep, RunnerFails

\* Whatever runs race, retry or are unlocked, a source is recorded as done, and
\* reported or skipped because it is, only after a Sync of it went through; one
\* skipped for its recent cursor has rows in the tables.
THEOREM EarnedSuccess == Spec => []SuccessIsEarned
<1>1. Init => EarnedInv
  BY DEF Init, EarnedInv, SuccessIsEarned, NoRow
<1>2. TypeOK /\ EarnedInv /\ [Next]_vars => TypeOK' /\ EarnedInv'
  BY TypeStep, EarnedStep
<1>3. EarnedInv => SuccessIsEarned
  BY DEF EarnedInv
<1>4. QED
  BY <1>1, <1>2, <1>3, TypeInit, PTL DEF Spec

(***************************************************************************)
(* Locks have holders                                                      *)
(***************************************************************************)

\* Instants that were read lie in the past, and a run that records has read
\* its completion after its lock.
StampsInv ==
    /\ \A r \in Runners : stamp[r] < clock /\ mine[r] < clock
    /\ \A r \in Runners : pc[r] = "record" => mine[r] < stamp[r]

HolderInv ==
    /\ StampsInv
    /\ LocksHaveHolders
    /\ ledger.status = "pending" => ledger.owner \in Runners

LEMMA StampsStep == ASSUME TypeOK, StampsInv, [Next]_vars PROVE StampsInv'
<1>t. clock \in Nat /\ TypeRunners /\ \A r \in Runners : stamp[r] \in Nat /\ mine[r] \in Nat
  BY NumberFacts DEF TypeOK, TypeRunners
<1>0. \A r \in Runners : 0 < clock
  BY <1>t DEF StampsInv
<1>e. ASSUME NEW r \in Runners, NEW outcome, Ends(r, outcome), clock' \in {clock, clock + 1}
      PROVE  StampsInv'
  BY <1>e, <1>t, <1>0 DEF Ends, StampsInv, TypeRunners
<1>c. ASSUME UNCHANGED <<stamp, mine>>, clock' \in {clock, clock + 1},
             \A r \in Runners : pc'[r] = "record" => pc[r] = "record"
      PROVE  StampsInv'
  BY <1>c, <1>t DEF StampsInv
<1>1. ASSUME NEW r \in Runners, Begin(r) \/ FindStale(r) PROVE StampsInv'
  BY <1>1, <1>c, <1>t DEF Begin, FindStale, TypeRunners
<1>2. ASSUME NEW r \in Runners, MarkStale(r) \/ \E applied \in BOOLEAN : MarkStaleFails(r, applied)
      PROVE  StampsInv'
  <2>1. CASE MarkStale(r)
    BY <2>1, <1>t, <1>0 DEF MarkStale, StampsInv, TypeRunners
  <2>2. ASSUME NEW applied \in BOOLEAN, MarkStaleFails(r, applied) PROVE StampsInv'
    <3>1. CASE RetryFrom(r, "unlock") /\ UNCHANGED <<stamp, mine>>
      BY <2>2, <3>1, <1>c, <1>t DEF MarkStaleFails, RetryFrom, TypeRunners
    <3>2. CASE Ends(r, "failed")
      BY <2>2, <3>2, <1>e DEF MarkStaleFails
    <3>3. QED
      BY <2>2, <3>1, <3>2 DEF MarkStaleFails
  <2>3. QED
    BY <1>2, <2>1, <2>2
<1>3. ASSUME NEW r \in Runners, ResolveWindow(r) \/ Check(r) \/ ReadLatest(r) PROVE StampsInv'
  <2>1. CASE \E outcome : Ends(r, outcome)
    BY <1>3, <2>1, <1>e DEF ResolveWindow, Check, ReadLatest
  <2>2. CASE (\E step \in {"check", "start", "insert"} : pc' = [pc EXCEPT ![r] = step]) /\ UNCHANGED <<stamp, mine>>
    BY <1>3, <2>2, <1>c, <1>t DEF ResolveWindow, Check, ReadLatest, TypeRunners
  <2>3. QED
    BY <1>3, <2>1, <2>2 DEF ResolveWindow, Check, ReadLatest
<1>4. ASSUME NEW r \in Runners, StampUnlock(r) \/ StampStart(r) PROVE StampsInv'
  BY <1>4, <1>t DEF StampUnlock, StampStart, Stamp, StampsInv, TypeRunners
<1>5. ASSUME NEW r \in Runners, InsertPending(r) PROVE StampsInv'
  BY <1>5, <1>t DEF InsertPending, StampsInv, TypeRunners
<1>6. ASSUME NEW r \in Runners, NEW applied \in BOOLEAN, InsertPendingFails(r, applied)
      PROVE  StampsInv'
  <2>1. CASE RetryFrom(r, "start") /\ UNCHANGED <<stamp, mine>>
    BY <1>6, <2>1, <1>c, <1>t DEF InsertPendingFails, RetryFrom, TypeRunners
  <2>2. CASE Ends(r, "failed")
    BY <1>6, <2>2, <1>e DEF InsertPendingFails
  <2>3. QED
    BY <1>6, <2>1, <2>2 DEF InsertPendingFails
<1>7. ASSUME NEW r \in Runners, NEW v \in Verdicts, SyncReturns(r, v) PROVE StampsInv'
  BY <1>7, <1>t DEF SyncReturns, Stamp, StampsInv, TypeRunners
<1>w. ASSUME NEW r \in Runners, SyncWrites(r) PROVE StampsInv'
  BY <1>w, <1>c DEF SyncWrites, runnerVars
<1>8. ASSUME NEW r \in Runners, Record(r) \/ QueryFails(r) \/ Crash(r) PROVE StampsInv'
  BY <1>8, <1>e DEF Record, QueryFails, Crash
<1>9. ASSUME NEW r \in Runners, NEW applied \in BOOLEAN, RecordFails(r, applied) PROVE StampsInv'
  <2>1. CASE RetryFrom(r, "record") /\ UNCHANGED <<clock, stamp, mine>>
    BY <2>1, <1>9, <1>c, <1>t DEF RecordFails, RetryFrom, TypeRunners
  <2>2. CASE RetryFrom(r, "record") /\ Stamp(r) /\ UNCHANGED mine
    BY <2>2, <1>9, <1>t DEF RecordFails, RetryFrom, Stamp, StampsInv, TypeRunners
  <2>3. CASE Ends(r, "failed") /\ UNCHANGED clock
    BY <2>3, <1>e
  <2>4. QED
    BY <1>9, <2>1, <2>2, <2>3 DEF RecordFails
<1>10. CASE Tick \/ UNCHANGED vars
  BY <1>10, <1>c DEF Tick, vars, runnerVars
<1>11. QED
  BY <1>1, <1>2, <1>3, <1>4, <1>5, <1>6, <1>7, <1>w, <1>8, <1>9, <1>10 DEF Next, RunnerStep, RunnerFails

\* The two conjuncts a step must keep, given what it does to the row.
LEMMA HoldersStep ==
    ASSUME TypeOK, HolderInv, [Next]_vars
    PROVE  LocksHaveHolders' /\ (ledger'.status = "pending" => ledger'.owner \in Runners)
<1> DEFINE Kept == LocksHaveHolders' /\ (ledger'.status = "pending" => ledger'.owner \in Runners)
<1>t. TypeRunners /\ \A r \in Runners : stamp[r] \in Nat /\ mine[r] \in Nat
  BY NumberFacts DEF TypeOK, TypeRunners
<1>l. ledger.status = "pending" => ledger.version \in Nat
  BY NumberFacts DEF TypeOK, Rows, NoRow
\* The row is no lock any more.
<1>r. ASSUME ledger'.status # "pending" PROVE Kept
  BY <1>r DEF LocksHaveHolders
\* The row stays, and a step of r does not make r leave a lock it holds.
<1>k. ASSUME NEW r \in Runners, UNCHANGED ledger, abandoned \subseteq abandoned',
             \A s \in Runners \ {r} : pc'[s] = pc[s] /\ mine'[s] = mine[s],
             \/ ~Working(r)
             \/ pc'[r] \in {"syncing", "record"} /\ mine'[r] = mine[r]
             \/ mine[r] \in abandoned'
             \/ ledger.status = "pending" => ledger.version # mine[r]
      PROVE  Kept
  BY <1>k DEF HolderInv, LocksHaveHolders, Working
<1>1. ASSUME NEW r \in Runners,
             \/ Begin(r) \/ FindStale(r) \/ StampUnlock(r) \/ ResolveWindow(r) \/ Check(r) \/ StampStart(r)
             \/ ReadLatest(r) \/ QueryFails(r)
      PROVE  Kept
  <2>1. ~Working(r)
    BY <1>1 DEF Begin, FindStale, StampUnlock, ResolveWindow, Check, StampStart, ReadLatest, QueryFails, Working
  <2>2. UNCHANGED <<ledger, abandoned>>
    BY <1>1 DEF Begin, FindStale, StampUnlock, ResolveWindow, Check, StampStart, ReadLatest, QueryFails
  <2>3. \A s \in Runners \ {r} : pc'[s] = pc[s] /\ mine'[s] = mine[s]
    BY <1>1, <1>t DEF Begin, FindStale, StampUnlock, ResolveWindow, Check, StampStart, ReadLatest, QueryFails, Ends, TypeRunners
  <2>4. QED
    BY <2>1, <2>2, <2>3, <1>k
<1>2. ASSUME NEW r \in Runners, MarkStale(r) \/ \E applied \in BOOLEAN : MarkStaleFails(r, applied)
      PROVE  Kept
  <2>1. ~Working(r) /\ UNCHANGED abandoned
    BY <1>2 DEF MarkStale, MarkStaleFails, Working
  <2>2. \A s \in Runners \ {r} : pc'[s] = pc[s] /\ mine'[s] = mine[s]
    BY <1>2, <1>t DEF MarkStale, MarkStaleFails, Ends, RetryFrom, TypeRunners
  <2>3. ledger' = ledger \/ ledger'.status = "failed"
    BY <1>2 DEF MarkStale, MarkStaleFails, Merged, Unlocked
  <2>4. QED
    BY <2>1, <2>2, <2>3, <1>k, <1>r
<1>3. ASSUME NEW r \in Runners, InsertPending(r) PROVE Kept
  <2>1. ~Working(r) /\ UNCHANGED abandoned
    BY <1>3 DEF InsertPending, Working
  <2>2. \A s \in Runners \ {r} : pc'[s] = pc[s] /\ mine'[s] = mine[s]
    BY <1>3, <1>t DEF InsertPending, TypeRunners
  <2>3. CASE ledger' = Row(r, "pending")
    <3>1. pc'[r] = "syncing" /\ mine'[r] = stamp[r]
      BY <1>3, <1>t DEF InsertPending, TypeRunners
    <3>2. ledger'.owner = r /\ ledger'.version = stamp[r]
      BY <2>3 DEF Row
    <3>3. QED
      BY <3>1, <3>2 DEF LocksHaveHolders, Working
  <2>4. CASE ledger' = ledger
    BY <2>1, <2>2, <2>4, <1>k
  <2>5. QED
    BY <1>3, <2>3, <2>4 DEF InsertPending, Merged
<1>4. ASSUME NEW r \in Runners, NEW applied \in BOOLEAN, InsertPendingFails(r, applied) PROVE Kept
  <2>1. ~Working(r) /\ abandoned \subseteq abandoned'
    BY <1>4 DEF InsertPendingFails, Working
  <2>2. \A s \in Runners \ {r} : pc'[s] = pc[s] /\ mine'[s] = mine[s]
    BY <1>4, <1>t DEF InsertPendingFails, Ends, RetryFrom, TypeRunners
  <2>3. CASE applied /\ ledger' = Row(r, "pending")
    BY <1>4, <2>3 DEF InsertPendingFails, Row, LocksHaveHolders
  <2>4. CASE ledger' = ledger
    BY <2>1, <2>2, <2>4, <1>k
  <2>5. QED
    BY <1>4, <2>3, <2>4 DEF InsertPendingFails, Merged
<1>5. ASSUME NEW r \in Runners, NEW v \in Verdicts, SyncReturns(r, v) PROVE Kept
  <2>1. pc'[r] = "record" /\ mine'[r] = mine[r] /\ UNCHANGED <<ledger, abandoned>>
    BY <1>5, <1>t DEF SyncReturns, TypeRunners
  <2>2. \A s \in Runners \ {r} : pc'[s] = pc[s] /\ mine'[s] = mine[s]
    BY <1>5, <1>t DEF SyncReturns, TypeRunners
  <2>3. QED
    BY <2>1, <2>2, <1>k
\* A completion replaces the lock of its run: it is newer.
<1>m. ASSUME NEW r \in Runners, pc[r] = "record", ledger' = Merged(Row(r, verdict[r]))
      PROVE  \/ ledger'.status # "pending"
             \/ ledger' = ledger /\ (ledger.status = "pending" => ledger.version # mine[r])
  <2>1. verdict[r] # "pending"
    BY <1>t DEF TypeRunners, Verdicts
  <2>2. mine[r] < stamp[r]
    BY <1>m DEF HolderInv, StampsInv
  <2>3. CASE Row(r, verdict[r]).version >= ledger.version
    BY <1>m, <2>1, <2>3 DEF Merged, Row
  <2>4. CASE ~(Row(r, verdict[r]).version >= ledger.version)
    <3>1. ledger' = ledger
      BY <1>m, <2>4 DEF Merged
    <3>2. ledger.status = "pending" => ledger.version # mine[r]
      BY <1>t, <1>l, <2>2, <2>4 DEF Row
    <3>3. QED
      BY <3>1, <3>2
  <2>5. QED
    BY <2>3, <2>4
<1>6. ASSUME NEW r \in Runners, Record(r) PROVE Kept
  <2>1. UNCHANGED abandoned
    BY <1>6 DEF Record
  <2>2. \A s \in Runners \ {r} : pc'[s] = pc[s] /\ mine'[s] = mine[s]
    BY <1>6, <1>t DEF Record, Ends, TypeRunners
  <2>3. \/ ledger'.status # "pending"
        \/ ledger' = ledger /\ (ledger.status = "pending" => ledger.version # mine[r])
    BY <1>6, <1>m DEF Record
  <2>4. QED
    BY <2>1, <2>2, <2>3, <1>k, <1>r
<1>7. ASSUME NEW r \in Runners, NEW applied \in BOOLEAN, RecordFails(r, applied) PROVE Kept
  <2>1. abandoned \subseteq abandoned'
    BY <1>7 DEF RecordFails
  <2>2. \A s \in Runners \ {r} : pc'[s] = pc[s] /\ mine'[s] = mine[s]
    BY <1>7, <1>t DEF RecordFails, Ends, RetryFrom, TypeRunners
  <2>3. \/ pc'[r] = "record" /\ mine'[r] = mine[r]
        \/ mine[r] \in abandoned'
    BY <1>7, <1>t DEF RecordFails, RetryFrom, TypeRunners
  <2>4. ledger'.status # "pending" \/ ledger' = ledger
    BY <1>7, <1>m DEF RecordFails
  <2>5. QED
    BY <2>1, <2>2, <2>3, <2>4, <1>k, <1>r
<1>8. ASSUME NEW r \in Runners, Crash(r) PROVE Kept
  <2>1. abandoned \subseteq abandoned' /\ UNCHANGED ledger
    BY <1>8 DEF Crash
  <2>2. \A s \in Runners \ {r} : pc'[s] = pc[s] /\ mine'[s] = mine[s]
    BY <1>8, <1>t DEF Crash, Ends, TypeRunners
  <2>3. ~Working(r) \/ mine[r] \in abandoned'
    BY <1>8 DEF Crash, Working
  <2>4. QED
    BY <2>1, <2>2, <2>3, <1>k
<1>w. ASSUME NEW r \in Runners, SyncWrites(r) PROVE Kept
  BY <1>w DEF SyncWrites, runnerVars, HolderInv, LocksHaveHolders, Working
<1>9. CASE Tick \/ UNCHANGED vars
  BY <1>9 DEF Tick, vars, runnerVars, HolderInv, LocksHaveHolders, Working
<1>10. QED
  BY <1>1, <1>2, <1>3, <1>4, <1>5, <1>6, <1>7, <1>8, <1>w, <1>9 DEF Next, RunnerStep, RunnerFails

\* A pending row always has somebody who will complete it, or was left behind
\* by a crash or by a database that did not answer.
THEOREM HeldLocks == Spec => []LocksHaveHolders
<1>1. Init => HolderInv
  BY DEF Init, HolderInv, StampsInv, LocksHaveHolders, NoRow
<1>2. TypeOK /\ HolderInv /\ [Next]_vars => TypeOK' /\ HolderInv'
  BY TypeStep, StampsStep, HoldersStep DEF HolderInv
<1>3. HolderInv => LocksHaveHolders
  BY DEF HolderInv
<1>4. QED
  BY <1>1, <1>2, <1>3, TypeInit, PTL DEF Spec

(***************************************************************************)
(* SyncJob                                                                 *)
(***************************************************************************)

Arrivals == [index : Sources, report : Reports]

LEMMA JobNumbers ==
    /\ NumKeys \in Nat \ {0} /\ Concurrency \in Nat \ {0} /\ Concurrency <= NumKeys
    /\ AuditEnabled \in BOOLEAN
    /\ Sources = 1..NumKeys /\ Workers = 1..Concurrency
  BY SyncJobConstants DEF Sources, Workers

LEMMA ReportFacts ==
    /\ Canceled \in Reports /\ NoReport \notin Reports /\ NoReport # Canceled
    /\ \A told \in Reports : told.rows \in Nat /\ told.status \in {"success", "failed", "skipped"}
    /\ Canceled.status = "failed" /\ NoReport.status = "none" /\ NoReport.rows = 0
  BY DEF Reports, NoReport, Canceled

(***************************************************************************)
(* The channel of results                                                  *)
(***************************************************************************)

LEMMA Sending ==
    ASSUME NEW sent \in Seq(Arrivals), NEW e \in Arrivals
    PROVE  /\ Append(sent, e) \in Seq(Arrivals)
           /\ Len(Append(sent, e)) = Len(sent) + 1
           /\ \A k \in 1..Len(sent) : Append(sent, e)[k] = sent[k]
           /\ Append(sent, e)[Len(sent) + 1] = e
  BY AppendProperties

LEMMA Receiving ==
    ASSUME NEW sent \in Seq(Arrivals), sent # <<>>
    PROVE  /\ Head(sent) = sent[1] /\ Head(sent) \in Arrivals
           /\ Tail(sent) \in Seq(Arrivals)
           /\ Len(sent) \in Nat \ {0}
           /\ Len(Tail(sent)) = Len(sent) - 1
           /\ \A k \in 1..Len(Tail(sent)) : Tail(sent)[k] = sent[k + 1]
  BY HeadTailProperties, EmptySeq

(***************************************************************************)
(* Types.  A worker that is busy has a source, one that sends a report.    *)
(***************************************************************************)

Busy(w) == worker[w] \in {"running", "doomed", "sending"}

HasTask == \A w \in Workers : /\ Busy(w) => task[w] \in Sources
                              /\ worker[w] = "sending" => held[w] \in Reports

TypeInv == JobTypeOK /\ HasTask

LEMMA AccountType ==
    ASSUME TypeReports, NEW i \in Sources, NEW told \in Reports, Account(i, told)
    PROVE  /\ ordered' \in [Sources -> Reports \cup {NoReport}]
           /\ status' \in {"success", "failed"} /\ rows' \in Nat /\ completed' \in Nat
  BY ReportFacts DEF TypeReports, Account

LEMMA MissingIsFinite == IsFiniteSet(Missing) /\ Cardinality(Missing) \in Nat
<1>1. IsFiniteSet(Sources)
  BY JobNumbers, FS_Interval
<1>2. QED
  BY <1>1, FS_Subset, FS_CardinalityType DEF Missing

\* Whether the sources run in order is settled before the job starts.
LEMMA SameMode == ASSUME [JobNext]_jobVars PROVE sequential' = sequential
  BY DEF JobNext, JobStep, FeederStep, WorkerStep, jobVars, ContextEnds, Resolve, RunInOrder, AllInOrder,
         Hand, FeederEnds, SourceReturns, SendResult, DropResult, WorkerLeaves, Collect,
         FillMissing, Audit

LEMMA JobTypeStep == ASSUME TypeInv, [JobNext]_jobVars PROVE TypeInv'
<1>s. sequential' = sequential
  BY SameMode
<1> USE <1>s
<1>t. TypeWorkers /\ TypeResults /\ TypeReports /\ HasTask /\ next \in 1..(NumKeys + 1)
  BY DEF TypeInv, JobTypeOK
<1>p. /\ phase \in {"resolve", "unresolved", "running", "audit", "returned"}
      /\ sequential \in BOOLEAN /\ ctxDone \in BOOLEAN /\ jobsOpen \in BOOLEAN /\ audited \in BOOLEAN
  BY DEF TypeInv, JobTypeOK
<1>n. NumKeys \in Nat \ {0} /\ Sources = 1..NumKeys
  BY JobNumbers
\* Steps that leave the workers, the channel or the reports alone.
<1>w. UNCHANGED <<worker, task, held>> => TypeWorkers' /\ HasTask'
  BY <1>t DEF TypeWorkers, HasTask, Busy
<1>r. UNCHANGED results => TypeResults'
  BY <1>t DEF TypeResults
<1>o. UNCHANGED <<reportVars, ran>> => TypeReports'
  BY <1>t DEF TypeReports, reportVars
<1>1. CASE ContextEnds \/ AllInOrder \/ Audit
  BY <1>1, <1>t, <1>p, <1>w, <1>r, <1>o, JobNumbers DEF ContextEnds, AllInOrder, Audit, TypeInv, JobTypeOK, workerVars
<1>2. CASE Resolve
  <2>1. TypeReports'
    BY <1>2, <1>t DEF Resolve, TypeReports
  <2>2. QED
    BY <1>2, <1>t, <1>p, <1>w, <1>r, <2>1 DEF Resolve, TypeInv, JobTypeOK, workerVars
<1>3. ASSUME NEW told \in Reports, RunInOrder(told) PROVE TypeInv'
  <2>1. next \in Sources /\ next + 1 \in 1..(NumKeys + 1)
    BY <1>3, <1>t, <1>n DEF RunInOrder
  <2>2. ran' \in [Sources -> Reports \cup {NoReport}]
    BY <1>3, <1>t DEF RunInOrder, TypeReports
  <2>3. TypeReports'
    BY <1>3, <1>t, <2>1, <2>2, AccountType DEF RunInOrder, TypeReports
  <2>4. QED
    BY <1>3, <1>p, <1>w, <1>r, <2>1, <2>3 DEF RunInOrder, TypeInv, JobTypeOK
<1>4. CASE FeederEnds
  BY <1>4, <1>t, <1>p, <1>w, <1>r, <1>o DEF FeederEnds, TypeInv, JobTypeOK
<1>5. ASSUME NEW w \in Workers, Hand(w) PROVE TypeInv'
  <2>1. next \in Sources /\ next + 1 \in 1..(NumKeys + 1)
    BY <1>5, <1>t, <1>n DEF Hand
  <2>2. TypeWorkers' /\ HasTask'
    BY <1>5, <1>t, <1>n, <2>1 DEF Hand, TypeWorkers, HasTask, Busy
  <2>3. QED
    BY <1>5, <1>p, <1>r, <1>o, <2>1, <2>2 DEF Hand, TypeInv, JobTypeOK
<1>6. ASSUME NEW w \in Workers, NEW told \in Reports, SourceReturns(w, told) PROVE TypeInv'
  <2>1. task[w] \in Sources
    BY <1>6, <1>t DEF SourceReturns, HasTask, Busy
  <2>2. TypeWorkers' /\ HasTask'
    BY <1>6, <1>t, <2>1 DEF SourceReturns, TypeWorkers, HasTask, Busy
  <2>3. TypeReports'
    BY <1>6, <1>t, <2>1 DEF SourceReturns, TypeReports, reportVars
  <2>4. QED
    BY <1>6, <1>t, <1>p, <1>r, <2>2, <2>3 DEF SourceReturns, TypeInv, JobTypeOK
<1>7. ASSUME NEW w \in Workers, SendResult(w) PROVE TypeInv'
  <2>1. TypeWorkers' /\ HasTask'
    BY <1>7, <1>t, <1>n DEF SendResult, TypeWorkers, HasTask, Busy
  <2>2. [index |-> task[w], report |-> held[w]] \in Arrivals
    BY <1>7, <1>t DEF SendResult, HasTask, Busy, Arrivals
  <2>3. results \in Seq(Arrivals) /\ Len(results) \in Nat
    BY <1>t, LenProperties DEF TypeResults, Arrivals
  <2>4. TypeResults'
    BY <1>7, <2>2, <2>3, Sending, JobNumbers DEF SendResult, TypeResults, Arrivals
  <2>5. QED
    BY <1>7, <1>t, <1>p, <1>o, <2>1, <2>4 DEF SendResult, TypeInv, JobTypeOK
<1>8. ASSUME NEW w \in Workers, DropResult(w) \/ WorkerLeaves(w) PROVE TypeInv'
  <2>1. TypeWorkers' /\ HasTask'
    BY <1>8, <1>t, <1>n DEF DropResult, WorkerLeaves, TypeWorkers, HasTask, Busy
  <2>2. QED
    BY <1>8, <1>t, <1>p, <1>r, <1>o, <2>1 DEF DropResult, WorkerLeaves, TypeInv, JobTypeOK
<1>9. CASE Collect
  <2>1. results \in Seq(Arrivals) /\ results # <<>> /\ Len(results) <= Concurrency
    BY <1>9, <1>t DEF Collect, TypeResults, Arrivals
  <2>2. Head(results).index \in Sources /\ Head(results).report \in Reports
    BY <2>1, Receiving DEF Arrivals
  <2>3. TypeReports'
    BY <1>9, <1>t, <2>2, AccountType DEF Collect, TypeReports
  <2>4. TypeResults'
    BY <1>9, <2>1, Receiving, JobNumbers DEF Collect, TypeResults, Arrivals
  <2>5. QED
    BY <1>9, <1>t, <1>p, <1>w, <2>3, <2>4 DEF Collect, TypeInv, JobTypeOK, workerVars
<1>10. CASE FillMissing
  <2>1. TypeReports'
    BY <1>10, <1>t, MissingIsFinite, ReportFacts DEF FillMissing, TypeReports
  <2>2. QED
    BY <1>10, <1>t, <1>p, <1>w, <1>r, <2>1 DEF FillMissing, TypeInv, JobTypeOK, workerVars
<1>11. CASE UNCHANGED jobVars
  BY <1>11, <1>t, <1>p, <1>w, <1>r, <1>o DEF jobVars, workerVars, TypeInv, JobTypeOK
<1>12. QED
  BY <1>1, <1>2, <1>3, <1>4, <1>5, <1>6, <1>7, <1>8, <1>9, <1>10, <1>11
     DEF JobNext, JobStep, FeederStep, WorkerStep

LEMMA JobTypeInit == ASSUME JobInit PROVE TypeInv
<1>1. TypeWorkers /\ HasTask
  BY JobNumbers DEF JobInit, TypeWorkers, HasTask, Busy
<1>2. TypeResults
  BY JobNumbers, EmptySeq DEF JobInit, TypeResults
<1>3. TypeReports
  BY DEF JobInit, TypeReports
<1>4. 1 \in 1..(NumKeys + 1)
  BY JobNumbers
<1>5. QED
  BY <1>1, <1>2, <1>3, <1>4 DEF JobInit, TypeInv, JobTypeOK

\* Type correctness; the channel of results never holds more reports than
\* there are workers.
THEOREM JobTypeCorrect == JobSpec => []JobTypeOK
<1>1. TypeInv => JobTypeOK
  BY DEF TypeInv
<1>2. QED
  BY <1>1, JobTypeInit, JobTypeStep, PTL DEF JobSpec

(***************************************************************************)
(* Where a source is: not handed out yet, with one worker, in the channel  *)
(* of results, or taken into the job's reports.                            *)
(***************************************************************************)

\* Sources that were not handed out have left no trace.
Fresh == \A i \in Sources : i >= next => ran[i] = NoReport /\ (Finished \/ ordered[i] = NoReport)

\* One source after the other: no goroutine takes part, and every source up
\* to the present one is reported.
OneByOne ==
    sequential => /\ results = <<>> /\ \A w \in Workers : worker[w] = "waiting"
                  /\ \A i \in Sources : i < next => ordered[i] # NoReport

\* A source is with one worker at most, and then has no report.
WithWorkers ==
    /\ \A w \in Workers : Busy(w) => task[w] < next /\ ordered[task[w]] = NoReport
    /\ \A w \in Workers : worker[w] = "sending" => ran[task[w]] = held[w]
    /\ \A w, v \in Workers : Busy(w) /\ Busy(v) /\ task[w] = task[v] => w = v

\* A source in the channel is there once, is with no worker, has no report,
\* and comes with what its run returned.
InChannel ==
    /\ \A k \in 1..Len(results) : /\ results[k].index < next
                                  /\ ordered[results[k].index] = NoReport
                                  /\ ran[results[k].index] = results[k].report
    /\ \A k, l \in 1..Len(results) : results[k].index = results[l].index => k = l
    /\ \A k \in 1..Len(results) : \A w \in Workers : Busy(w) => task[w] # results[k].index

\* What is reported is what the run returned, until cancelled sources are
\* filled in.
Reported ==
    phase \in {"resolve", "unresolved", "running"} =>
        \A i \in Sources : ordered[i] # NoReport => ordered[i] = ran[i]

\* Afterwards nothing is on its way any more.
Drained ==
    Finished => /\ results = <<>>
                /\ \A w \in Workers : ~Busy(w)
                /\ sequential \/ \A w \in Workers : worker[w] = "gone"

Places == Fresh /\ OneByOne /\ WithWorkers /\ InChannel /\ Reported /\ Drained

LEMMA PlacesStep == ASSUME TypeInv, Places, [JobNext]_jobVars PROVE Places'
<1>s. sequential' = sequential
  BY SameMode
<1> USE <1>s
<1>t. /\ TypeWorkers /\ TypeReports /\ HasTask
      /\ next \in Nat /\ next >= 1 /\ NumKeys \in Nat /\ Sources \subseteq Nat
      /\ results \in Seq(Arrivals) /\ Len(results) \in Nat
  BY JobNumbers, LenProperties DEF TypeInv, JobTypeOK, TypeResults, Arrivals
<1>c. \A k \in 1..Len(results) : results[k].index \in Sources /\ results[k].report \in Reports
  <2>1. \A k \in 1..Len(results) : results[k] \in Arrivals
    BY <1>t, ElementOfSeq
  <2>2. QED
    BY <2>1 DEF Arrivals
<1>i. Fresh /\ OneByOne /\ WithWorkers /\ InChannel /\ Reported /\ Drained
  BY DEF Places
<1>p. phase \in {"resolve", "unresolved", "running", "audit", "returned"}
  BY DEF TypeInv, JobTypeOK
\* Steps that move no source.
<1>k. ASSUME UNCHANGED <<next, worker, task, held, results, ordered, ran>>,
             (Finished' /\ ~Finished) =>
                 results = <<>> /\ (\A w \in Workers : ~Busy(w))
                 /\ (sequential \/ \A w \in Workers : worker[w] = "gone"),
             Finished => Finished'
      PROVE  Places'
  <2>1. Fresh' /\ OneByOne' /\ InChannel'
    BY <1>k, <1>i DEF Fresh, OneByOne, InChannel, Busy
  <2>2. WithWorkers'
    BY <1>k, <1>i DEF WithWorkers, Busy
  <2>3. Reported' /\ Drained'
    BY <1>k, <1>i, <1>p DEF Reported, Drained, Busy, Finished
  <2>4. QED
    BY <2>1, <2>2, <2>3 DEF Places
<1>1. CASE ContextEnds \/ FeederEnds
  BY <1>1, <1>k DEF ContextEnds, FeederEnds, workerVars, reportVars, Finished
<1>2. CASE Resolve \/ Audit
  BY <1>2, <1>k DEF Resolve, Audit, workerVars, reportVars, Finished
<1>3. CASE AllInOrder
  <2>1. results = <<>> /\ (\A w \in Workers : ~Busy(w))
    BY <1>3, <1>i DEF AllInOrder, OneByOne, Busy
  <2>2. QED
    BY <1>3, <1>k, <2>1 DEF AllInOrder, workerVars, reportVars, Finished
<1>4. ASSUME NEW told \in Reports, RunInOrder(told) PROVE Places'
  <2>1. /\ next \in Sources /\ sequential /\ phase = "running" /\ phase' = phase
        /\ next' = next + 1 /\ UNCHANGED <<worker, task, held, results>>
        /\ ran' = [ran EXCEPT ![next] = told] /\ ordered' = [ordered EXCEPT ![next] = told]
    BY <1>4, <1>t, JobNumbers DEF RunInOrder, Account
  <2>2. ~Finished /\ ~Finished' /\ results = <<>> /\ \A w \in Workers : ~Busy(w) /\ worker[w] = "waiting"
    BY <2>1, <1>i DEF OneByOne, Busy, Finished
  <2>3. Fresh'
    BY <2>1, <2>2, <1>t, <1>i DEF Fresh, TypeReports
  <2>4. OneByOne'
    BY <2>1, <2>2, <1>t, <1>i, ReportFacts DEF OneByOne, TypeReports
  <2>5. WithWorkers' /\ InChannel'
    BY <2>1, <2>2 DEF WithWorkers, InChannel, Busy
  <2>6. Reported' /\ Drained'
    BY <2>1, <2>2, <1>t, <1>i DEF Reported, Drained, Finished, TypeReports
  <2>7. QED
    BY <2>3, <2>4, <2>5, <2>6 DEF Places
<1>5. ASSUME NEW w \in Workers, Hand(w) PROVE Places'
  <2>1. /\ next \in Sources /\ ~sequential /\ worker[w] = "waiting" /\ next' = next + 1
        /\ worker' \in {[worker EXCEPT ![w] = "doomed"], [worker EXCEPT ![w] = "running"]}
        /\ task' = [task EXCEPT ![w] = next]
        /\ UNCHANGED <<phase, held, results, ordered, ran>>
    <3>1. next \in Sources
      BY <1>5, <1>t, JobNumbers DEF Hand
    <3>2. worker' \in {[worker EXCEPT ![w] = "doomed"], [worker EXCEPT ![w] = "running"]}
      BY <1>5 DEF Hand
    <3>3. QED
      BY <1>5, <3>1, <3>2 DEF Hand, Parallel, reportVars
  <2>2. ~Finished /\ ~Finished'
    BY <2>1, <1>i DEF Drained, Finished
  <2>3. Fresh' /\ OneByOne'
    BY <2>1, <2>2, <1>t, <1>i DEF Fresh, OneByOne
  <2>4. WithWorkers'
    BY <2>1, <2>2, <1>t, <1>i DEF WithWorkers, Fresh, Busy, TypeWorkers
  <2>5. InChannel'
    <3>0. \A k \in 1..Len(results) : results[k].index \in Nat /\ results[k].index < next
      BY <1>t, <1>i, <1>c DEF InChannel
    <3>1. \A k \in 1..Len(results) : results[k].index < next' /\ results[k].index # next
      BY <2>1, <1>t, <3>0
    <3>2. \A v \in Workers : Busy(v)' => IF v = w THEN task'[v] = next ELSE Busy(v) /\ task'[v] = task[v]
      BY <2>1, <1>t DEF Busy, TypeWorkers
    <3>3. QED
      BY <2>1, <3>1, <3>2, <1>i DEF InChannel
  <2>6. Reported' /\ Drained'
    BY <2>1, <2>2, <1>i DEF Reported, Drained, Finished
  <2>7. QED
    BY <2>3, <2>4, <2>5, <2>6 DEF Places
<1>6. ASSUME NEW w \in Workers, NEW told \in Reports, SourceReturns(w, told) PROVE Places'
  <2>1. /\ Busy(w) /\ worker[w] # "sending" /\ ~sequential
        /\ worker' = [worker EXCEPT ![w] = "sending"] /\ held' = [held EXCEPT ![w] = told]
        /\ ran' = [ran EXCEPT ![task[w]] = told]
        /\ UNCHANGED <<phase, next, task, results, ordered>>
    BY <1>6 DEF SourceReturns, Parallel, Busy, reportVars
  <2>2. task[w] \in Sources /\ task[w] < next /\ ordered[task[w]] = NoReport
    BY <2>1, <1>t, <1>i DEF HasTask, WithWorkers
  <2>3. ~Finished /\ ~Finished'
    BY <2>1, <1>i DEF Drained, Finished
  <2>4. Fresh' /\ OneByOne'
    BY <2>1, <2>2, <2>3, <1>t, <1>i DEF Fresh, OneByOne, TypeReports
  <2>5. WithWorkers'
    BY <2>1, <2>2, <1>t, <1>i DEF WithWorkers, Busy, HasTask, TypeWorkers, TypeReports
  <2>6. InChannel'
    BY <2>1, <2>2, <1>t, <1>i, <1>c DEF InChannel, Busy, TypeWorkers, TypeReports
  <2>7. Reported' /\ Drained'
    BY <2>1, <2>2, <2>3, <1>t, <1>i DEF Reported, Drained, Finished, TypeReports
  <2>8. QED
    BY <2>4, <2>5, <2>6, <2>7 DEF Places
<1>7. ASSUME NEW w \in Workers, SendResult(w) PROVE Places'
  <2> DEFINE arrival == [index |-> task[w], report |-> held[w]]
  <2>1. /\ worker[w] = "sending" /\ Busy(w) /\ ~sequential
        /\ results' = Append(results, arrival)
        /\ worker' = [worker EXCEPT ![w] = "waiting"] /\ task' = [task EXCEPT ![w] = 0]
        /\ UNCHANGED <<phase, next, ordered, ran>>
        /\ \A v \in Workers \ {w} : held'[v] = held[v]
    BY <1>7, <1>t DEF SendResult, Parallel, Busy, reportVars, TypeWorkers
  <2>2. /\ task[w] \in Sources /\ task[w] < next /\ ordered[task[w]] = NoReport
        /\ ran[task[w]] = held[w] /\ arrival \in Arrivals
        /\ \A v \in Workers \ {w} : Busy(v) => task[v] # task[w]
        /\ \A k \in 1..Len(results) : results[k].index # task[w]
    BY <2>1, <1>t, <1>i DEF HasTask, WithWorkers, InChannel, Arrivals
  <2>3. /\ Len(results') = Len(results) + 1
        /\ \A k \in 1..Len(results) : results'[k] = results[k]
        /\ results'[Len(results) + 1] = arrival
    BY <2>1, <2>2, <1>t, Sending
  <2>4. ~Finished /\ ~Finished'
    BY <2>1, <1>i DEF Drained, Finished
  <2>5. Fresh' /\ OneByOne'
    BY <2>1, <2>4, <1>i DEF Fresh, OneByOne
  <2>6. WithWorkers'
    BY <2>1, <1>t, <1>i DEF WithWorkers, Busy, TypeWorkers
  <2>7. \A v \in Workers : Busy(v)' => v # w /\ Busy(v) /\ task'[v] = task[v]
    BY <2>1, <1>t DEF Busy, TypeWorkers
  <2>8. \A k \in 1..Len(results') : k \in 1..Len(results) \/ k = Len(results) + 1
    BY <2>3, <1>t
  <2>9. InChannel'
    <3>1. \A k \in 1..Len(results') : /\ results'[k].index < next'
                                      /\ ordered'[results'[k].index] = NoReport
                                      /\ ran'[results'[k].index] = results'[k].report
      BY <2>1, <2>2, <2>3, <2>8, <1>i DEF InChannel
    <3>2. \A k, l \in 1..Len(results') : results'[k].index = results'[l].index => k = l
      BY <2>2, <2>3, <2>8, <1>i DEF InChannel
    <3>3. \A k \in 1..Len(results') : \A v \in Workers : Busy(v)' => task'[v] # results'[k].index
      BY <2>2, <2>3, <2>7, <2>8, <1>i DEF InChannel
    <3>4. QED
      BY <3>1, <3>2, <3>3 DEF InChannel
  <2>10. Reported' /\ Drained'
    BY <2>1, <2>4, <1>i DEF Reported, Drained, Finished
  <2>11. QED
    BY <2>5, <2>6, <2>9, <2>10 DEF Places
<1>8. ASSUME NEW w \in Workers, DropResult(w) \/ WorkerLeaves(w) PROVE Places'
  <2>1. /\ ~sequential /\ worker' = [worker EXCEPT ![w] = "gone"]
        /\ UNCHANGED <<phase, next, results, ordered, ran>>
        /\ \A v \in Workers \ {w} : held'[v] = held[v] /\ task'[v] = task[v]
    BY <1>8, <1>t DEF DropResult, WorkerLeaves, Parallel, reportVars, TypeWorkers
  <2>2. \A v \in Workers : Busy(v)' => v # w /\ Busy(v) /\ task'[v] = task[v]
    BY <2>1, <1>t DEF Busy, TypeWorkers
  <2>3. Fresh' /\ OneByOne'
    BY <2>1, <1>i DEF Fresh, OneByOne, Finished
  <2>4. WithWorkers'
    BY <2>1, <2>2, <1>t, <1>i DEF WithWorkers, TypeWorkers, Busy
  <2>5. InChannel'
    BY <2>1, <2>2, <1>i DEF InChannel
  <2>6. Reported' /\ Drained'
    BY <2>1, <2>2, <1>t, <1>i DEF Reported, Drained, Finished, TypeWorkers
  <2>7. QED
    BY <2>3, <2>4, <2>5, <2>6 DEF Places
<1>9. CASE Collect
  <2> DEFINE i == Head(results).index
  <2>1. /\ ~sequential /\ phase = "running" /\ results # <<>> /\ results' = Tail(results)
        /\ ordered' = [ordered EXCEPT ![i] = Head(results).report]
        /\ UNCHANGED <<phase, next, worker, task, held, ran>>
    BY <1>9 DEF Collect, Collecting, Account, workerVars
  <2>2. /\ Head(results) = results[1] /\ 1 \in 1..Len(results)
        /\ Len(results') = Len(results) - 1
        /\ \A k \in 1..Len(results') : k + 1 \in 1..Len(results) /\ results'[k] = results[k + 1]
    BY <2>1, <1>t, Receiving
  <2>3. /\ i \in Sources /\ i < next /\ ran[i] = Head(results).report /\ Head(results).report \in Reports
        /\ \A w \in Workers : Busy(w) => task[w] # i
    BY <2>2, <1>c, <1>i DEF InChannel
  <2>4. \A k \in 1..Len(results') : results'[k].index # i
    BY <2>2, <1>t, <1>i DEF InChannel
  <2>5. \A j \in Sources : ordered'[j] = IF j = i THEN ran[i] ELSE ordered[j]
    BY <2>1, <2>3, <1>t DEF TypeReports
  <2>6. Fresh' /\ OneByOne'
    BY <2>1, <2>3, <2>5, <1>t, <1>i DEF Fresh, OneByOne, Finished
  <2>7. WithWorkers'
    BY <2>1, <2>3, <2>5, <1>t, <1>i DEF WithWorkers, HasTask, Busy
  <2>8. InChannel'
    <3>1. \A k \in 1..Len(results') : /\ results'[k].index < next'
                                      /\ ordered'[results'[k].index] = NoReport
                                      /\ ran'[results'[k].index] = results'[k].report
      BY <2>1, <2>2, <2>4, <2>5, <1>c, <1>i DEF InChannel
    <3>2. \A k, l \in 1..Len(results') : results'[k].index = results'[l].index => k = l
      <4>1. \A k, l \in 1..Len(results) : results[k].index = results[l].index => k = l
        BY <1>i DEF InChannel
      <4>2. SUFFICES ASSUME NEW k \in 1..Len(results'), NEW l \in 1..Len(results'),
                            results'[k].index = results'[l].index
                     PROVE  k = l
        OBVIOUS
      <4>3. /\ k + 1 \in 1..Len(results) /\ l + 1 \in 1..Len(results)
            /\ results[k + 1].index = results[l + 1].index
        BY <2>2, <4>2
      <4>4. k + 1 = l + 1 /\ k \in Int /\ l \in Int
        BY <4>1, <4>3
      <4>5. QED
        BY <4>4
    <3>3. \A k \in 1..Len(results') : \A w \in Workers : Busy(w)' => task'[w] # results'[k].index
      BY <2>1, <2>2, <1>i DEF InChannel, Busy
    <3>4. QED
      BY <3>1, <3>2, <3>3 DEF InChannel
  <2>9. Reported' /\ Drained'
    BY <2>1, <2>5, <1>i DEF Reported, Drained, Finished
  <2>10. QED
    BY <2>6, <2>7, <2>8, <2>9 DEF Places
<1>10. CASE FillMissing
  <2>1. /\ ~sequential /\ results = <<>> /\ UNCHANGED <<next, worker, task, held, results, ran>>
        /\ \A w \in Workers : worker[w] = "gone"
        /\ phase' \in {"returned", "audit"}
    BY <1>10 DEF FillMissing, Collecting, workerVars
  <2>2. Finished' /\ \A w \in Workers : ~Busy(w) /\ ~Busy(w)'
    BY <2>1 DEF Finished, Busy
  <2>3. Len(results') = 0
    BY <2>1, EmptySeq
  <2>4. QED
    BY <2>1, <2>2, <2>3, <1>i
       DEF Places, Fresh, OneByOne, WithWorkers, InChannel, Reported, Drained, Finished, Busy
<1>11. CASE UNCHANGED jobVars
  BY <1>11, <1>k DEF jobVars, workerVars, reportVars, Finished
<1>12. QED
  BY <1>1, <1>2, <1>3, <1>4, <1>5, <1>6, <1>7, <1>8, <1>9, <1>10, <1>11
     DEF JobNext, JobStep, FeederStep, WorkerStep

LEMMA PlacesInit == ASSUME JobInit PROVE Places
<1>1. Len(results) = 0 /\ ~Finished /\ \A w \in Workers : ~Busy(w)
  BY EmptySeq DEF JobInit, Finished, Busy
<1>2. \A i \in Sources : ~(i < 1)
  BY JobNumbers
<1>3. QED
  BY <1>1, <1>2 DEF JobInit, Places, Fresh, OneByOne, WithWorkers, InChannel, Reported, Drained

(***************************************************************************)
(* While the context lives nothing is lost, and the verdict follows the    *)
(* reports at every moment.                                                *)
(***************************************************************************)

Closings ==
    /\ ~jobsOpen => ctxDone \/ next > NumKeys
    /\ \A w \in Workers : worker[w] = "gone" => ctxDone \/ ~jobsOpen

NothingLost ==
    (~ctxDone /\ ~Finished) =>
        \A i \in Sources : i < next =>
            \/ ordered[i] # NoReport
            \/ \E w \in Workers : Busy(w) /\ task[w] = i
            \/ \E k \in 1..Len(results) : results[k].index = i

Verdict ==
    phase # "unresolved" =>
        (status = "failed" <=> \E i \in Sources : ordered[i].status = "failed")

Truth == Closings /\ NothingLost /\ Verdict /\ ReportsAreTrue

LEMMA TruthStep == ASSUME TypeInv, Places, Truth, [JobNext]_jobVars PROVE Truth'
<1>s. sequential' = sequential
  BY SameMode
<1> USE <1>s
<1>t. /\ TypeWorkers /\ TypeReports /\ HasTask
      /\ next \in Nat /\ next >= 1 /\ NumKeys \in Nat /\ Sources = 1..NumKeys
      /\ results \in Seq(Arrivals) /\ Len(results) \in Nat /\ 1 \in Workers
  BY JobNumbers, LenProperties DEF TypeInv, JobTypeOK, TypeResults, Arrivals
<1>p. phase \in {"resolve", "unresolved", "running", "audit", "returned"}
  BY DEF TypeInv, JobTypeOK
<1>i. Fresh /\ OneByOne /\ WithWorkers /\ InChannel /\ Reported /\ Drained
  BY DEF Places
<1>h. Closings /\ NothingLost /\ Verdict /\ ReportsAreTrue
  BY DEF Truth
\* Steps that move no source and give no verdict.
<1>k. ASSUME UNCHANGED <<next, worker, task, results, reportVars, ran>>,
             Closings', ctxDone => ctxDone', Finished' <=> Finished,
             phase' # "unresolved" => phase # "unresolved"
      PROVE  Truth'
  <2>1. NothingLost'
    BY <1>k, <1>h DEF NothingLost, Busy, reportVars
  <2>2. Verdict' /\ ReportsAreTrue'
    BY <1>k, <1>h DEF Verdict, ReportsAreTrue, reportVars
  <2>3. QED
    BY <1>k, <2>1, <2>2 DEF Truth
<1>1. CASE ContextEnds
  <2>1. Closings'
    BY <1>1, <1>h DEF ContextEnds, Closings, workerVars
  <2>2. QED
    BY <1>1, <1>k, <2>1 DEF ContextEnds, Finished, workerVars
<1>2. CASE Resolve
  <2>1. Closings' /\ NothingLost'
    BY <1>2, <1>h DEF Resolve, Closings, NothingLost, Busy, Finished, workerVars
  <2>2. Verdict' /\ ReportsAreTrue'
    BY <1>2, <1>h DEF Resolve, Verdict, ReportsAreTrue, Finished
  <2>3. QED
    BY <2>1, <2>2 DEF Truth
<1>3. CASE Audit
  <2>1. Closings'
    BY <1>3, <1>h DEF Audit, Closings, workerVars
  <2>2. QED
    BY <1>3, <1>k, <2>1 DEF Audit, Finished, workerVars
<1>4. CASE AllInOrder
  <2>1. \A i \in Sources : ordered[i] # NoReport /\ ordered[i] = ran[i]
    BY <1>4, <1>t, <1>i DEF AllInOrder, OneByOne, Reported
  <2>2. UNCHANGED <<next, jobsOpen, worker, task, ctxDone, results, ordered, status, ran>>
        /\ phase' = "audit" /\ phase = "running"
    BY <1>4 DEF AllInOrder, workerVars, reportVars
  <2>3. Closings' /\ NothingLost' /\ Verdict'
    BY <2>2, <1>h DEF Closings, NothingLost, Verdict, Finished
  <2>4. ReportsAreTrue'
    BY <2>1, <2>2 DEF ReportsAreTrue
  <2>5. QED
    BY <2>3, <2>4 DEF Truth
\* The verdict after a report is taken in for a source that had none.
<1>v. ASSUME NEW i \in Sources, NEW told \in Reports, Account(i, told),
             ordered[i] = NoReport, phase = "running", phase' = phase
      PROVE  Verdict'
  <2>1. \A j \in Sources : ordered'[j] = IF j = i THEN told ELSE ordered[j]
    BY <1>v, <1>t DEF Account, TypeReports
  <2>2. ordered[i].status # "failed"
    BY <1>v, ReportFacts
  <2>3. CASE told.status = "failed"
    BY <1>v, <2>1, <2>3 DEF Account, Verdict
  <2>4. CASE told.status # "failed"
    BY <1>v, <1>h, <2>1, <2>2, <2>4 DEF Account, Verdict
  <2>5. QED
    BY <2>3, <2>4
<1>5. ASSUME NEW told \in Reports, RunInOrder(told) PROVE Truth'
  <2>1. /\ next \in Sources /\ sequential /\ phase = "running" /\ phase' = phase
        /\ next' = next + 1 /\ UNCHANGED <<worker, task, results, jobsOpen, ctxDone>>
        /\ ordered' = [ordered EXCEPT ![next] = told] /\ Account(next, told)
    BY <1>5, <1>t DEF RunInOrder, Account
  <2>2. ~Finished /\ ~Finished'
    BY <2>1 DEF Finished
  <2>3. Closings'
    BY <2>1, <1>t, <1>h DEF Closings
  <2>4. NothingLost'
    BY <2>1, <1>t, <1>i, ReportFacts DEF NothingLost, OneByOne, TypeReports
  <2>5. ordered[next] = NoReport
    BY <2>1, <2>2, <1>t, <1>i DEF Fresh
  <2>6. Verdict'
    BY <2>1, <2>5, <1>v
  <2>7. QED
    BY <2>2, <2>3, <2>4, <2>6 DEF Truth, ReportsAreTrue
<1>6. CASE FeederEnds
  <2>1. Closings'
    BY <1>6, <1>h DEF FeederEnds, Closings
  <2>2. QED
    BY <1>6, <1>k, <2>1 DEF FeederEnds, Finished
<1>7. ASSUME NEW w \in Workers, Hand(w) PROVE Truth'
  <2>1. /\ worker[w] = "waiting" /\ next' = next + 1 /\ jobsOpen /\ ~sequential
        /\ task' = [task EXCEPT ![w] = next]
        /\ UNCHANGED <<phase, ctxDone, jobsOpen, results, ordered, status, ran>>
    BY <1>7 DEF Hand, Parallel, reportVars
  <2>2. worker' \in {[worker EXCEPT ![w] = "doomed"], [worker EXCEPT ![w] = "running"]}
    BY <1>7 DEF Hand
  <2>3. Closings'
    BY <2>1, <2>2, <1>t, <1>h DEF Closings, TypeWorkers
  <2>4. Busy(w)' /\ task'[w] = next /\ \A v \in Workers : Busy(v) => Busy(v)' /\ task'[v] = task[v]
    BY <2>1, <2>2, <1>t DEF Busy, TypeWorkers
  <2>5. NothingLost'
    <3>1. \A i \in Sources : i < next' => i < next \/ i = next
      BY <2>1, <1>t
    <3>2. QED
      BY <2>1, <2>4, <3>1, <1>h DEF NothingLost, Finished
  <2>6. Verdict' /\ ReportsAreTrue'
    BY <2>1, <1>h DEF Verdict, ReportsAreTrue, Finished
  <2>7. QED
    BY <2>3, <2>5, <2>6 DEF Truth
<1>8. ASSUME NEW w \in Workers, NEW told \in Reports, SourceReturns(w, told) PROVE Truth'
  <2>1. /\ Busy(w) /\ worker' = [worker EXCEPT ![w] = "sending"]
        /\ UNCHANGED <<phase, ctxDone, jobsOpen, next, task, results, ordered, status>>
    BY <1>8 DEF SourceReturns, Busy, reportVars
  <2>2. ~Finished
    BY <2>1, <1>i DEF Drained
  <2>3. Closings'
    BY <2>1, <1>t, <1>h DEF Closings, TypeWorkers
  <2>4. \A v \in Workers : Busy(v) => Busy(v)'
    BY <2>1, <1>t DEF Busy, TypeWorkers
  <2>5. NothingLost'
    BY <2>1, <2>4, <1>h DEF NothingLost, Finished
  <2>6. Verdict' /\ ReportsAreTrue'
    BY <2>1, <2>2, <1>h DEF Verdict, ReportsAreTrue, Finished
  <2>7. QED
    BY <2>3, <2>5, <2>6 DEF Truth
<1>9. ASSUME NEW w \in Workers, SendResult(w) PROVE Truth'
  <2> DEFINE arrival == [index |-> task[w], report |-> held[w]]
  <2>1. /\ worker[w] = "sending" /\ results' = Append(results, arrival)
        /\ worker' = [worker EXCEPT ![w] = "waiting"] /\ task' = [task EXCEPT ![w] = 0]
        /\ UNCHANGED <<phase, ctxDone, jobsOpen, next, ordered, status, ran>>
    BY <1>9 DEF SendResult, reportVars
  <2>2. arrival \in Arrivals
    BY <2>1, <1>t DEF HasTask, Arrivals, Busy
  <2>3. /\ Len(results') = Len(results) + 1
        /\ \A k \in 1..Len(results) : results'[k] = results[k] /\ k \in 1..Len(results')
        /\ results'[Len(results) + 1].index = task[w] /\ Len(results) + 1 \in 1..Len(results')
    BY <2>1, <2>2, <1>t, Sending
  <2>4. Closings'
    BY <2>1, <1>t, <1>h DEF Closings, TypeWorkers
  <2>5. \A v \in Workers : Busy(v) => v = w \/ (Busy(v)' /\ task'[v] = task[v])
    BY <2>1, <1>t DEF Busy, TypeWorkers
  <2>6. NothingLost'
    BY <2>1, <2>3, <2>5, <1>h DEF NothingLost, Finished
  <2>7. Verdict' /\ ReportsAreTrue'
    BY <2>1, <1>h DEF Verdict, ReportsAreTrue, Finished
  <2>8. QED
    BY <2>4, <2>6, <2>7 DEF Truth
<1>10. ASSUME NEW w \in Workers, DropResult(w) PROVE Truth'
  <2>1. ctxDone /\ UNCHANGED <<phase, ctxDone, jobsOpen, next, ordered, status, ran>>
    BY <1>10 DEF DropResult, reportVars
  <2>2. Closings' /\ NothingLost'
    BY <2>1 DEF Closings, NothingLost
  <2>3. Verdict' /\ ReportsAreTrue'
    BY <2>1, <1>h DEF Verdict, ReportsAreTrue, Finished
  <2>4. QED
    BY <2>2, <2>3 DEF Truth
<1>11. ASSUME NEW w \in Workers, WorkerLeaves(w) PROVE Truth'
  <2>1. /\ worker[w] = "waiting" /\ ~jobsOpen /\ worker' = [worker EXCEPT ![w] = "gone"]
        /\ UNCHANGED <<phase, ctxDone, jobsOpen, next, task, results, ordered, status, ran>>
    BY <1>11 DEF WorkerLeaves, reportVars
  <2>2. Closings'
    BY <2>1, <1>t, <1>h DEF Closings, TypeWorkers
  <2>3. \A v \in Workers : Busy(v) => Busy(v)'
    BY <2>1, <1>t DEF Busy, TypeWorkers
  <2>4. NothingLost'
    BY <2>1, <2>3, <1>h DEF NothingLost, Finished
  <2>5. Verdict' /\ ReportsAreTrue'
    BY <2>1, <1>h DEF Verdict, ReportsAreTrue, Finished
  <2>6. QED
    BY <2>2, <2>4, <2>5 DEF Truth
<1>12. CASE Collect
  <2> DEFINE i == Head(results).index
  <2>1. /\ phase = "running" /\ results # <<>> /\ results' = Tail(results)
        /\ Account(i, Head(results).report)
        /\ ordered' = [ordered EXCEPT ![i] = Head(results).report]
        /\ UNCHANGED <<phase, ctxDone, jobsOpen, next, worker, task, ran>>
    BY <1>12 DEF Collect, Collecting, Account, workerVars
  <2>2. /\ Head(results) = results[1] /\ 1 \in 1..Len(results)
        /\ Len(results') = Len(results) - 1
        /\ \A k \in 1..Len(results') : results'[k] = results[k + 1]
        /\ Head(results) \in Arrivals
    BY <2>1, <1>t, Receiving
  <2>3. i \in Sources /\ Head(results).report \in Reports /\ ordered[i] = NoReport
    BY <2>2, <1>i DEF InChannel, Arrivals
  <2>4. \A k \in 1..Len(results) : k = 1 \/ (k - 1 \in 1..Len(results') /\ results'[k - 1] = results[k])
    BY <2>2, <1>t
  <2>5. \A j \in Sources : ordered'[j] = IF j = i THEN Head(results).report ELSE ordered[j]
    BY <2>1, <1>t DEF TypeReports
  <2>6. ordered'[i] # NoReport
    BY <2>3, <2>5, ReportFacts
  <2>7. NothingLost'
    <3> SUFFICES ASSUME ~ctxDone, NEW j \in Sources, j < next
                 PROVE  \/ ordered'[j] # NoReport
                        \/ \E w \in Workers : Busy(w) /\ task[w] = j
                        \/ \E k \in 1..Len(results') : results'[k].index = j
      BY <2>1 DEF NothingLost, Busy
    <3>1. \/ ordered[j] # NoReport
          \/ \E w \in Workers : Busy(w) /\ task[w] = j
          \/ \E k \in 1..Len(results) : results[k].index = j
      BY <2>1, <1>h DEF NothingLost, Finished
    <3>2. ASSUME NEW k \in 1..Len(results), results[k].index = j
          PROVE  ordered'[j] # NoReport \/ \E l \in 1..Len(results') : results'[l].index = j
      BY <2>2, <2>4, <2>6, <3>2
    <3>3. ordered[j] # NoReport => ordered'[j] # NoReport
      BY <2>5, <2>6
    <3>4. QED
      BY <3>1, <3>2, <3>3
  <2>8. Verdict'
    BY <2>1, <2>3, <1>v
  <2>9. Closings' /\ ReportsAreTrue'
    BY <2>1, <1>h DEF Closings, ReportsAreTrue, Finished
  <2>10. QED
    BY <2>7, <2>8, <2>9 DEF Truth
<1>13. CASE FillMissing
  <2>1. /\ ~sequential /\ phase = "running" /\ results = <<>>
        /\ \A w \in Workers : worker[w] = "gone"
        /\ ordered' = [i \in Sources |-> IF i \in Missing THEN Canceled ELSE ordered[i]]
        /\ status' = IF Missing # {} THEN "failed" ELSE status
        /\ phase' \in {"returned", "audit"}
        /\ UNCHANGED <<ctxDone, jobsOpen, next, worker, ran>>
    BY <1>13 DEF FillMissing, Collecting, workerVars
  <2>2. ~Finished /\ Finished' /\ Len(results) = 0 /\ \A w \in Workers : ~Busy(w)
    BY <2>1, EmptySeq DEF Finished, Busy
  <2>3. Closings' /\ NothingLost'
    BY <2>1, <2>2, <1>h DEF Closings, NothingLost
  <2>4. ~ctxDone => Missing = {}
    <3>1. ~ctxDone => next > NumKeys
      BY <2>1, <1>t, <1>h DEF Closings
    <3>2. ~ctxDone => \A i \in Sources : ordered[i] # NoReport
      BY <2>2, <3>1, <1>t, <1>h DEF NothingLost
    <3>3. QED
      BY <3>2 DEF Missing
  <2>5. ReportsAreTrue'
    BY <2>1, <2>4, <1>i DEF ReportsAreTrue, Reported, Missing
  <2>6. Verdict'
    <3>1. CASE Missing = {}
      <4>1. \A i \in Sources : ordered'[i] = ordered[i]
        BY <2>1, <3>1
      <4>2. QED
        BY <2>1, <3>1, <4>1, <1>h DEF Verdict
    <3>2. CASE Missing # {}
      <4>1. PICK i \in Sources : i \in Missing
        BY <3>2 DEF Missing
      <4>2. ordered'[i].status = "failed"
        BY <2>1, <4>1, ReportFacts
      <4>3. QED
        BY <2>1, <3>2, <4>2 DEF Verdict
    <3>3. QED
      BY <3>1, <3>2
  <2>7. QED
    BY <2>3, <2>5, <2>6 DEF Truth
<1>14. CASE UNCHANGED jobVars
  <2>1. Closings'
    BY <1>14, <1>h DEF jobVars, workerVars, Closings
  <2>2. QED
    BY <1>14, <1>k, <2>1 DEF jobVars, workerVars, Finished
<1>15. QED
  BY <1>1, <1>2, <1>3, <1>4, <1>5, <1>6, <1>7, <1>8, <1>9, <1>10, <1>11, <1>12, <1>13, <1>14
     DEF JobNext, JobStep, FeederStep, WorkerStep

LEMMA TruthInit == ASSUME JobInit PROVE Truth
<1>1. ~Finished /\ \A i \in Sources : ~(i < 1)
  BY JobNumbers DEF JobInit, Finished
<1>2. QED
  BY <1>1, ReportFacts DEF JobInit, Truth, Closings, NothingLost, Verdict, ReportsAreTrue

LEMMA JobInvariant == JobSpec => [](TypeInv /\ Places /\ Truth)
  BY JobTypeInit, JobTypeStep, PlacesInit, PlacesStep, TruthInit, TruthStep, PTL DEF JobSpec

\* However many workers race, each report is the one its own source returned,
\* and a source is reported as cancelled only under a dead context.
THEOREM TrueReports == JobSpec => []ReportsAreTrue
<1>1. Truth => ReportsAreTrue
  BY DEF Truth
<1>2. QED
  BY <1>1, JobInvariant, PTL

\* The job is a success exactly when every source ran and none failed.
THEOREM RightVerdict == JobSpec => []VerdictIsRight
<1>1. ASSUME TypeInv, Truth PROVE VerdictIsRight
  <2>1. status \in {"success", "failed"} /\ ReportsAreTrue
    BY <1>1 DEF TypeInv, JobTypeOK, TypeReports, Truth
  <2>2. Finished => (status = "failed" <=> \E i \in Sources : ordered[i].status = "failed")
    BY <1>1 DEF Truth, Verdict, Finished
  <2>3. QED
    BY <2>1, <2>2, ReportFacts DEF VerdictIsRight, ReportsAreTrue
<1>2. QED
  BY <1>1, JobInvariant, PTL

(***************************************************************************)
(* The job ends: as long as it is not over, its loop, its feeder or one of *)
(* its workers can take a step, and each step leaves less to do.           *)
(***************************************************************************)

\* What lets each of them take its next step.
LoopGoesOn ==
    \/ phase \in {"resolve", "audit"}
    \/ phase = "running" /\ sequential
    \/ Collecting /\ (results # <<>> \/ \A w \in Workers : worker[w] = "gone")

FeederGoesOn ==
    Parallel /\ jobsOpen /\ (next > NumKeys \/ ctxDone \/ \E w \in Workers : worker[w] = "waiting")

WorkerGoesOn(w) ==
    /\ Parallel
    /\ \/ worker[w] \in {"running", "doomed"}
       \/ worker[w] = "sending" /\ (ctxDone \/ Len(results) < Concurrency)
       \/ worker[w] = "waiting" /\ ~jobsOpen

SomebodyGoesOn == LoopGoesOn \/ FeederGoesOn \/ \E w \in Workers : WorkerGoesOn(w)

LEMMA SomebodyCan == ASSUME TypeInv, Places, Truth PROVE JobOver \/ SomebodyGoesOn
<1>1. /\ phase \in {"resolve", "unresolved", "running", "audit", "returned"}
      /\ \A w \in Workers : worker[w] \in {"waiting", "running", "doomed", "sending", "gone"}
      /\ Concurrency \in Nat \ {0}
  BY JobNumbers DEF TypeInv, JobTypeOK, TypeWorkers
<1>2. SUFFICES ASSUME ~sequential, phase \in {"running", "returned"}, ~JobOver PROVE SomebodyGoesOn
  BY <1>1 DEF SomebodyGoesOn, LoopGoesOn, JobOver
<1>3. Parallel
  BY <1>2 DEF Parallel
<1>4. CASE results # <<>>
  <2>1. phase = "running"
    BY <1>2, <1>4 DEF Places, Drained, Finished
  <2>2. QED
    BY <1>2, <1>4, <2>1 DEF SomebodyGoesOn, LoopGoesOn, Collecting
<1>5. CASE results = <<>>
  <2>1. Len(results) < Concurrency
    BY <1>1, <1>5
  <2>2. CASE \E w \in Workers : worker[w] \in {"running", "doomed", "sending"}
    BY <1>3, <2>1, <2>2 DEF SomebodyGoesOn, WorkerGoesOn
  <2>3. CASE \E w \in Workers : worker[w] = "waiting"
    <3>1. CASE jobsOpen
      BY <1>3, <2>3, <3>1 DEF SomebodyGoesOn, FeederGoesOn
    <3>2. CASE ~jobsOpen
      BY <1>3, <2>3, <3>2 DEF SomebodyGoesOn, WorkerGoesOn
    <3>3. QED
      BY <3>1, <3>2
  <2>4. CASE \A w \in Workers : worker[w] = "gone"
    <3>1. CASE phase = "running"
      BY <1>2, <2>4, <3>1 DEF SomebodyGoesOn, LoopGoesOn, Collecting
    <3>2. CASE phase = "returned"
      <4>1. jobsOpen
        BY <1>2, <2>4, <3>2 DEF JobOver
      <4>2. ctxDone
        <5>1. 1 \in Workers
          BY JobNumbers
        <5>2. QED
          BY <2>4, <4>1, <5>1 DEF Truth, Closings
      <4>3. QED
        BY <1>3, <4>1, <4>2 DEF SomebodyGoesOn, FeederGoesOn
    <3>3. QED
      BY <1>2, <3>1, <3>2
  <2>5. QED
    BY <1>1, <2>2, <2>3, <2>4
<1>6. QED
  BY <1>4, <1>5

\* Whenever its context ends and however slow its sources are, no goroutine of
\* a job waits for one that is gone: as long as the job is not over, its loop,
\* its feeder or a worker can go on.
THEOREM NoGoroutineStuck == JobSpec => [](JobOver \/ SomebodyGoesOn)
<1>1. TypeInv /\ Places /\ Truth => JobOver \/ SomebodyGoesOn
  BY SomebodyCan
<1>2. QED
  BY <1>1, JobInvariant, PTL

\* What a worker, the loop and the feeder still have to do.  A source to hand
\* out is worth one step more than the worker that gets it has left.
Share(control) ==
    IF control \in {"running", "doomed"} THEN 4
    ELSE IF control = "sending" THEN 3 ELSE IF control = "waiting" THEN 1 ELSE 0

WorkerLeft == [w \in Workers |-> Share(worker[w])]
LoopLeft == IF phase = "resolve" THEN 3 ELSE IF phase = "running" THEN 2 ELSE IF phase = "audit" THEN 1 ELSE 0
FeederLeft == 4 * (NumKeys + 1 - next) + (IF jobsOpen THEN 1 ELSE 0)

WorkLeft == LoopLeft + FeederLeft + Sum(WorkerLeft, Workers) + Len(results)

LEMMA ShareFacts ==
    /\ Share("running") = 4 /\ Share("doomed") = 4 /\ Share("sending") = 3
    /\ Share("waiting") = 1 /\ Share("gone") = 0
    /\ \A control : Share(control) \in Nat
  BY DEF Share

LEMMA LeftFacts ==
    ASSUME TypeInv
    PROVE  /\ LoopLeft \in Nat /\ FeederLeft \in Nat /\ Len(results) \in Nat /\ Sum(WorkerLeft, Workers) \in Nat
           /\ IsFiniteSet(Workers) /\ \A w \in Workers : WorkerLeft[w] \in Nat
           /\ WorkLeft \in Nat
<1>1. IsFiniteSet(Workers)
  BY JobNumbers, FS_Interval
<1>2. \A w \in Workers : WorkerLeft[w] \in Nat
  BY ShareFacts DEF WorkerLeft
<1>3. Sum(WorkerLeft, Workers) \in Nat
  BY <1>1, <1>2, SumNat
<1>4. next \in 1..(NumKeys + 1) /\ NumKeys \in Nat
  BY JobNumbers DEF TypeInv, JobTypeOK
<1>5. FeederLeft \in Nat
  BY <1>4 DEF FeederLeft
<1>6. Len(results) \in Nat /\ LoopLeft \in Nat
  BY DEF TypeInv, JobTypeOK, TypeResults, LoopLeft
<1>7. QED
  BY <1>1, <1>2, <1>3, <1>5, <1>6 DEF WorkLeft

\* One worker changes, and the sum by its share.
LEMMA WorkerChanges ==
    ASSUME TypeInv, NEW w \in Workers, NEW control, worker' = [worker EXCEPT ![w] = control],
           NEW sum, sum = Sum(WorkerLeft', Workers)
    PROVE  sum = Sum(WorkerLeft, Workers) - Share(worker[w]) + Share(control)
<1>1. PICK after : after = WorkerLeft'
  OBVIOUS
<1>2. after = [v \in Workers |-> Share(IF v = w THEN control ELSE worker[v])]
  BY <1>1 DEF WorkerLeft, TypeInv, JobTypeOK, TypeWorkers
<1>3. \A v \in Workers : after[v] \in Int /\ (v # w => after[v] = WorkerLeft[v])
  BY <1>2, ShareFacts DEF WorkerLeft
<1>4. Replaced(WorkerLeft, after, Workers, w)
  BY <1>3, LeftFacts DEF Replaced
<1>5. Sum(after, Workers) = Sum(WorkerLeft, Workers) - WorkerLeft[w] + after[w]
  BY <1>4, LeftFacts, SumChanged
<1>6. after[w] = Share(control) /\ WorkerLeft[w] = Share(worker[w])
  BY <1>2 DEF WorkerLeft
<1>7. QED
  BY <1>1, <1>5, <1>6

LEMMA WorkSteps ==
    ASSUME TypeInv, [JobNext]_jobVars
    PROVE  WorkLeft' < WorkLeft \/ ContextEnds \/ UNCHANGED jobVars
<1>s. sequential' = sequential
  BY SameMode
<1>r. PICK loop, feeder, sum, size :
          loop = LoopLeft' /\ feeder = FeederLeft' /\ sum = Sum(WorkerLeft', Workers) /\ size = Len(results')
  OBVIOUS
<1>d. /\ WorkLeft' = loop + feeder + sum + size
      /\ WorkLeft = LoopLeft + FeederLeft + Sum(WorkerLeft, Workers) + Len(results)
  BY <1>r DEF WorkLeft
<1>t. /\ LoopLeft \in Nat /\ FeederLeft \in Nat /\ Len(results) \in Nat /\ Sum(WorkerLeft, Workers) \in Nat
      /\ next \in Nat /\ NumKeys \in Nat
  BY LeftFacts, JobNumbers DEF TypeInv, JobTypeOK
<1>w. ASSUME UNCHANGED worker PROVE sum = Sum(WorkerLeft, Workers)
  BY <1>r, <1>w DEF WorkerLeft
<1>p. ASSUME UNCHANGED phase PROVE loop = LoopLeft
  BY <1>r, <1>p DEF LoopLeft
<1>f. ASSUME UNCHANGED <<next, jobsOpen>> PROVE feeder = FeederLeft
  BY <1>r, <1>f DEF FeederLeft
<1>q. ASSUME UNCHANGED results PROVE size = Len(results)
  BY <1>q, <1>r
<1>1. CASE Resolve \/ AllInOrder \/ Audit \/ FillMissing
  <2>1. UNCHANGED <<worker, results, next, jobsOpen>>
    BY <1>1 DEF Resolve, AllInOrder, Audit, FillMissing, workerVars
  <2>2. loop \in Nat /\ loop < LoopLeft
    BY <1>1, <1>r DEF Resolve, AllInOrder, Audit, FillMissing, Collecting, LoopLeft
  <2>3. sum = Sum(WorkerLeft, Workers) /\ feeder = FeederLeft /\ size = Len(results)
    BY <2>1, <1>w, <1>f, <1>q
  <2>4. QED
    BY <2>2, <2>3, <1>d, <1>t
<1>2. CASE FeederEnds \/ \E told \in Reports : RunInOrder(told)
  <2>1. UNCHANGED <<worker, results, phase>>
    BY <1>2 DEF FeederEnds, RunInOrder
  <2>2. feeder \in Int /\ feeder < FeederLeft
    BY <1>2, <1>r, <1>t DEF FeederEnds, RunInOrder, FeederLeft
  <2>3. sum = Sum(WorkerLeft, Workers) /\ loop = LoopLeft /\ size = Len(results)
    BY <2>1, <1>w, <1>p, <1>q
  <2>4. QED
    BY <2>2, <2>3, <1>d, <1>t
<1>3. CASE Collect
  <2>1. UNCHANGED <<worker, phase, next, jobsOpen>> /\ results # <<>> /\ results' = Tail(results)
    BY <1>3 DEF Collect, workerVars
  <2>2. results \in Seq(Arrivals)
    BY DEF TypeInv, JobTypeOK, TypeResults, Arrivals
  <2>3. size = Len(results) - 1
    BY <2>1, <2>2, <1>r, Receiving
  <2>4. sum = Sum(WorkerLeft, Workers) /\ loop = LoopLeft /\ feeder = FeederLeft
    BY <2>1, <1>w, <1>p, <1>f
  <2>5. QED
    BY <2>3, <2>4, <1>d, <1>t
\* A step of worker w, with what the feeder and the channel gain or lose by it.
<1>4. ASSUME NEW w \in Workers, NEW control, worker' = [worker EXCEPT ![w] = control], UNCHANGED phase,
             feeder \in Int, size \in Int,
             feeder + Share(control) + size < FeederLeft + Share(worker[w]) + Len(results)
      PROVE  WorkLeft' < WorkLeft
  <2>1. sum = Sum(WorkerLeft, Workers) - Share(worker[w]) + Share(control)
    BY <1>4, <1>r, WorkerChanges
  <2>2. loop = LoopLeft
    BY <1>4, <1>p
  <2>3. Share(worker[w]) \in Nat /\ Share(control) \in Nat /\ feeder \in Int /\ size \in Int
    BY <1>4, ShareFacts
  <2>4. feeder + Share(control) + size < FeederLeft + Share(worker[w]) + Len(results)
    BY <1>4
  <2>5. loop + feeder + sum + size < LoopLeft + FeederLeft + Sum(WorkerLeft, Workers) + Len(results)
    <3>1. PICK before \in Int, after \in Int, all \in Int :
              before = Share(worker[w]) /\ after = Share(control) /\ all = Sum(WorkerLeft, Workers)
      BY <2>3, <1>t
    <3>2. sum = all - before + after /\ feeder + after + size < FeederLeft + before + Len(results)
      BY <3>1, <2>1, <2>4
    <3>3. loop + feeder + sum + size < LoopLeft + FeederLeft + all + Len(results)
      BY <3>2, <2>2, <2>3, <1>t
    <3>4. QED
      BY <3>1, <3>3
  <2>6. QED
    BY <2>5, <1>d
<1>5. ASSUME NEW w \in Workers, Hand(w) PROVE WorkLeft' < WorkLeft
  <2>1. PICK control \in {"running", "doomed"} : worker' = [worker EXCEPT ![w] = control]
    BY <1>5 DEF Hand
  <2>2. worker[w] = "waiting" /\ UNCHANGED <<phase, jobsOpen, results>> /\ next' = next + 1
    BY <1>5 DEF Hand
  <2>3. 1 = Share(worker[w]) /\ 4 = Share(control)
    BY <2>1, <2>2, ShareFacts
  <2>4. feeder = FeederLeft - 4 /\ size = Len(results)
    BY <2>2, <1>r, <1>t DEF FeederLeft
  <2>5. feeder \in Int /\ size \in Int /\ feeder + Share(control) + size < FeederLeft + Share(worker[w]) + Len(results)
    BY <2>3, <2>4, <1>t
  <2>6. QED
    BY <2>1, <2>2, <2>5, <1>4
<1>6. ASSUME NEW w \in Workers, WorkerStep(w) PROVE WorkLeft' < WorkLeft
  <2>1. UNCHANGED <<phase, jobsOpen, next>>
    BY <1>6 DEF WorkerStep, SourceReturns, SendResult, DropResult, WorkerLeaves
  <2>2. feeder = FeederLeft
    BY <2>1, <1>f
  <2>3. CASE \E told \in Reports : SourceReturns(w, told)
    <3>1. worker[w] \in {"running", "doomed"} /\ worker' = [worker EXCEPT ![w] = "sending"] /\ results' = results
      BY <2>3 DEF SourceReturns
    <3>2. 4 = Share(worker[w]) /\ 3 = Share("sending") /\ size = Len(results)
      BY <3>1, <1>q, ShareFacts
    <3>3. /\ feeder \in Int /\ size \in Int
          /\ feeder + Share("sending") + size < FeederLeft + Share(worker[w]) + Len(results)
      BY <2>2, <3>2, <1>t
    <3>4. QED
      BY <2>1, <3>1, <3>3, <1>4
  <2>4. CASE SendResult(w)
    <3>1. /\ worker[w] = "sending" /\ worker' = [worker EXCEPT ![w] = "waiting"]
          /\ results' = Append(results, [index |-> task[w], report |-> held[w]])
      BY <2>4 DEF SendResult
    <3>2. results \in Seq(Arrivals)
      BY DEF TypeInv, JobTypeOK, TypeResults, Arrivals
    <3>3. size = Len(results) + 1
      BY <3>1, <3>2, <1>r
    <3>4. 3 = Share(worker[w]) /\ 1 = Share("waiting")
      BY <3>1, ShareFacts
    <3>5. /\ feeder \in Int /\ size \in Int
          /\ feeder + Share("waiting") + size < FeederLeft + Share(worker[w]) + Len(results)
      BY <2>2, <3>3, <3>4, <1>t
    <3>6. QED
      BY <2>1, <3>1, <3>5, <1>4
  <2>5. CASE DropResult(w) \/ WorkerLeaves(w)
    <3>1. worker[w] \in {"sending", "waiting"} /\ worker' = [worker EXCEPT ![w] = "gone"] /\ results' = results
      BY <2>5 DEF DropResult, WorkerLeaves
    <3>2. size = Len(results) /\ 0 = Share("gone")
      BY <3>1, <1>q, ShareFacts
    <3>3. PICK before \in {1, 3} : before = Share(worker[w])
      BY <3>1, ShareFacts
    <3>4. /\ feeder \in Int /\ size \in Int
          /\ feeder + Share("gone") + size < FeederLeft + Share(worker[w]) + Len(results)
      BY <2>2, <3>2, <3>3, <1>t
    <3>5. QED
      BY <2>1, <3>1, <3>4, <1>4
  <2>6. QED
    BY <1>6, <2>3, <2>4, <2>5 DEF WorkerStep
<1>7. QED
  BY <1>1, <1>2, <1>3, <1>5, <1>6 DEF JobNext, JobStep, FeederStep

\* A job has a number of steps left, at most, and each of them takes one off;
\* only the end of its context leaves the number as it is.
THEOREM JobComesToEnd ==
    JobSpec => [](WorkLeft \in Nat) /\ [][WorkLeft' < WorkLeft \/ ContextEnds]_jobVars
<1>1. TypeInv => WorkLeft \in Nat
  BY LeftFacts
<1>2. TypeInv /\ [JobNext]_jobVars => [WorkLeft' < WorkLeft \/ ContextEnds]_jobVars
  BY WorkSteps
<1>3. JobSpec => []TypeInv
  BY JobTypeInit, JobTypeStep, PTL DEF JobSpec
<1>4. QED
  BY <1>1, <1>2, <1>3, PTL DEF JobSpec

(***************************************************************************)
(* SyncRun.  While topoSort searches, the stack holds the jobs marked 1,   *)
(* each of which needs the one above it, and the order the jobs marked 2;  *)
(* a dependency of a job on the stack is still to be looked at, or done,   *)
(* or the job above.  So a job is done only after all it depends on, and   *)
(* a job met again on its way closes a circle on the stack.                *)
(***************************************************************************)

Calls == [job : selected, deps : Seq(Names)]

RunTypeOK ==
    /\ selected \subseteq Names /\ dependsOn \in [selected -> Seq(Names)] /\ strict \in BOOLEAN
    /\ runPhase \in {"plan", "refused", "schema", "running", "failed", "finished"}
    /\ visited \in [Names -> 0..2] /\ stack \in Seq(Calls)
    /\ queue \in Seq(selected)
    /\ statusOf \in [Names -> Statuses \cup {"none"}]
    /\ entered \subseteq Names

DependsOn(j, d) == \E k \in 1..Len(dependsOn[j]) : dependsOn[j][k] = d

\* Job j has a place in a list.
InList(list, j) == \E k \in 1..Len(list) : list[k] = j

\* What the search has to do with a dependency of the call at place i.
Seen(i, d) ==
    \/ visited[d] = 2
    \/ \E k \in 1..Len(stack[i].deps) : stack[i].deps[k] = d
    \/ i > 1 /\ stack[i - 1].job = d

SearchInv ==
    /\ \A j \in Names : visited[j] = 2 <=> InList(queue, j)
    /\ \A j \in Names : visited[j] = 1 => \E i \in 1..Len(stack) : stack[i].job = j
    /\ \A i \in 1..Len(stack) : visited[stack[i].job] = 1
    /\ \A i, k \in 1..Len(stack) : stack[i].job = stack[k].job => i = k
    /\ \A i \in 1..Len(stack) : \A d \in selected : DependsOn(stack[i].job, d) => Seen(i, d)
    /\ \A i \in 1..Len(stack) : \A k \in 1..Len(stack[i].deps) : DependsOn(stack[i].job, stack[i].deps[k])
    /\ \A i \in 2..Len(stack) : DependsOn(stack[i].job, stack[i - 1].job)

\* What comes before a job in the order, or has a report.
OrderInv ==
    /\ \A k, l \in 1..Len(queue) : queue[k] = queue[l] => k = l
    /\ \A k \in 1..Len(queue) : \A d \in selected :
          DependsOn(queue[k], d) => statusOf[d] # "none" \/ \E l \in 1..(k - 1) : queue[l] = d
    /\ \A j \in Names : statusOf[j] # "none" => j \in selected
    /\ \A j \in entered : statusOf[j] # "none"
    /\ \A j, d \in selected : DependsOn(j, d) /\ statusOf[j] # "none" => statusOf[d] # "none"

\* A job with a report is not in the order any more.
ReportInv ==
    \A j \in Names : (j \in selected /\ statusOf[j] = "none") <=> InList(queue, j)

RunInv ==
    /\ RunTypeOK
    /\ runPhase = "plan" => SearchInv
    /\ runPhase \in {"plan", "refused"} => \A j \in Names : statusOf[j] = "none"
    /\ runPhase = "refused" => Circular
    /\ OrderInv
    /\ runPhase \in {"schema", "running", "finished"} => ReportInv
    /\ HeldBackWhenBlocked

LEMMA DependsFacts ==
    ASSUME RunTypeOK, NEW j \in selected
    PROVE  /\ ToSet(dependsOn[j]) \subseteq Names
           /\ \A d : d \in ToSet(dependsOn[j]) <=> DependsOn(j, d)
           /\ \A d \in selected : <<j, d>> \in Needs <=> DependsOn(j, d)
<1>1. dependsOn[j] \in Seq(Names)
  BY DEF RunTypeOK
<1>2. \A d : d \in ToSet(dependsOn[j]) <=> DependsOn(j, d)
  BY <1>1 DEF ToSet, DependsOn
<1>3. ToSet(dependsOn[j]) \subseteq Names
  BY <1>1 DEF ToSet
<1>4. \A d \in selected : <<j, d>> \in Needs <=> DependsOn(j, d)
  BY <1>2 DEF Needs
<1> QED
  BY <1>2, <1>3, <1>4

LEMMA RunInitially == RunInit => RunInv
<1> SUFFICES ASSUME RunInit PROVE RunInv
  OBVIOUS
<1> USE DEF RunInit, RunBegins
<1>1. dependsOn \in [selected -> Seq(Names)]
  <2>1. ASSUME NEW list \in BoundedSeq(Names, MaxDeps) PROVE list \in Seq(Names)
    <3>1. PICK m \in 0..MaxDeps : list \in [1..m -> Names]
      BY <2>1 DEF BoundedSeq, SeqOf
    <3>2. m \in Nat
      BY <3>1, SyncRunConstants
    <3> QED
      BY <3>1, <3>2
  <2> QED
    BY <2>1
<1>2. RunTypeOK
  BY <1>1 DEF RunTypeOK, Unmarked
<1>3. SearchInv
  BY DEF SearchInv, Unmarked, InList
<1>4. OrderInv
  BY <1>2 DEF OrderInv, RunTypeOK
<1>5. HeldBackWhenBlocked
  BY DEF HeldBackWhenBlocked
<1> QED
  BY <1>2, <1>3, <1>4, <1>5 DEF RunInv

(***************************************************************************)
(* The search                                                              *)
(***************************************************************************)

\* What is left alone by the search keeps its facts.
SearchLeaves == UNCHANGED <<selected, dependsOn, strict, statusOf, entered>>

LEMMA HeldStays ==
    ASSUME HeldBackWhenBlocked, UNCHANGED <<selected, dependsOn, strict, statusOf, entered>>
    PROVE  HeldBackWhenBlocked'
  BY DEF HeldBackWhenBlocked

\* A dependency that is on its way closes a circle: the jobs on the stack.
LEMMA CircleOnStack ==
    ASSUME RunTypeOK, SearchInv, stack # <<>>,
           NEW d \in selected, visited[d] = 1, DependsOn(Head(stack).job, d)
    PROVE  Circular
<1> DEFINE circle == {stack[i].job : i \in 1..Len(stack)}
<1>1. stack \in Seq(Calls) /\ Len(stack) \in Nat \ {0} /\ Head(stack) = stack[1]
  BY DEF RunTypeOK
<1>2. \A i \in 1..Len(stack) : stack[i].job \in selected
  <2>1. \A i \in 1..Len(stack) : stack[i] \in Calls
    BY <1>1
  <2> QED
    BY <2>1 DEF Calls
<1>3. circle \in SUBSET selected /\ circle # {}
  BY <1>1, <1>2
<1>4. d \in circle
  BY <1>1 DEF SearchInv, RunTypeOK
<1>5. ASSUME NEW j \in circle PROVE \E e \in circle : <<j, e>> \in Needs
  <2>1. PICK i \in 1..Len(stack) : j = stack[i].job
    BY <1>5
  <2>2. CASE i = 1
    <3>1. <<j, d>> \in Needs
      BY <2>1, <2>2, <1>1, <1>2, DependsFacts
    <3> QED
      BY <3>1, <1>4
  <2>3. CASE i # 1
    <3>1. i - 1 \in 1..Len(stack) /\ i \in 2..Len(stack)
      BY <2>3, <1>1
    <3>2. DependsOn(stack[i].job, stack[i - 1].job)
      BY <3>1 DEF SearchInv
    <3>3. <<j, stack[i - 1].job>> \in Needs
      BY <3>1, <3>2, <2>1, <1>2, DependsFacts
    <3> QED
      BY <3>3, <3>1
  <2> QED
    BY <2>2, <2>3
<1> QED
  BY <1>3, <1>5 DEF Circular

\* Something is put before a list.
LEMMA Pushed ==
    ASSUME NEW S, NEW x \in S, NEW list \in Seq(S)
    PROVE  /\ (<<x>> \o list) \in Seq(S) /\ Len(<<x>> \o list) = Len(list) + 1 /\ (<<x>> \o list)[1] = x
           /\ \A i \in 1..Len(list) : (<<x>> \o list)[i + 1] = list[i]
  OBVIOUS

\* A call is put on the stack.
LEMMA Entered ==
    ASSUME RunTypeOK, NEW name \in selected, NEW calls \in Seq(Calls)
    PROVE  /\ Call(name) \in Calls
           /\ (<<Call(name)>> \o calls) \in Seq(Calls)
           /\ Len(<<Call(name)>> \o calls) = Len(calls) + 1
           /\ (<<Call(name)>> \o calls)[1] = Call(name)
           /\ \A i \in 1..Len(calls) : (<<Call(name)>> \o calls)[i + 1] = calls[i]
<1>1. Call(name) \in Calls
  BY DEF Call, Calls, RunTypeOK
<1> HIDE DEF Calls
<1> QED
  BY <1>1, Pushed

\* visit is called from a stack on which everything is as it should be, but
\* that the last call may have name still to be seen to.
SearchBelow(name, calls) ==
    /\ calls \in Seq(Calls)
    /\ Len(calls) = Len(stack)
    /\ \A i \in 1..Len(calls) : calls[i].job = stack[i].job
    /\ \A i \in 2..Len(calls) : calls[i] = stack[i]
    /\ Len(calls) > 0 =>
          /\ \A d \in selected : DependsOn(calls[1].job, d) =>
                \/ visited[d] = 2
                \/ \E k \in 1..Len(calls[1].deps) : calls[1].deps[k] = d
                \/ d = name
          /\ \A k \in 1..Len(calls[1].deps) : DependsOn(calls[1].job, calls[1].deps[k])
          /\ DependsOn(calls[1].job, name)

LEMMA VisitKeeps ==
    ASSUME RunInv, runPhase = "plan", SearchLeaves,
           NEW name \in selected, NEW calls, SearchBelow(name, calls), Visit(name, calls)
    PROVE  RunInv'
<1>t. RunTypeOK /\ SearchInv /\ OrderInv /\ HeldBackWhenBlocked /\ \A j \in Names : statusOf[j] = "none"
  BY DEF RunInv
<1>c. /\ calls \in Seq(Calls) /\ Len(calls) = Len(stack) /\ Len(calls) \in Nat /\ Len(stack) \in Nat
      /\ \A i \in 1..Len(calls) : calls[i] \in Calls /\ calls[i].job = stack[i].job
      /\ \A i \in 2..Len(calls) : calls[i] = stack[i]
      /\ \A i \in 1..Len(stack) : stack[i].job \in selected /\ stack[i].deps \in Seq(Names)
  <2>1. calls \in Seq(Calls) /\ stack \in Seq(Calls)
    BY <1>t DEF RunTypeOK, SearchBelow
  <2>2. (\A i \in 1..Len(calls) : calls[i] \in Calls) /\ (\A i \in 1..Len(stack) : stack[i] \in Calls)
    BY <2>1
  <2>3. Len(calls) \in Nat /\ Len(stack) \in Nat
    BY <2>1
  <2>4. \A i \in 1..Len(stack) : stack[i].job \in selected /\ stack[i].deps \in Seq(Names)
    BY <2>2 DEF Calls
  <2> QED
    BY <2>1, <2>2, <2>3, <2>4 DEF SearchBelow
<1>n. name \in Names
  BY <1>t DEF RunTypeOK
<1>d. \A j, d : DependsOn(j, d)' <=> DependsOn(j, d)
  BY DEF SearchLeaves, DependsOn
<1>h. HeldBackWhenBlocked' /\ \A j \in Names : statusOf'[j] = "none"
  BY <1>t, HeldStays DEF SearchLeaves
<1>1. CASE visited[name] = 0
  <2>1. /\ visited' = [visited EXCEPT ![name] = 1] /\ stack' = <<Call(name)>> \o calls
        /\ runPhase' = runPhase /\ queue' = queue
    BY <1>1 DEF Visit
  <2>2. /\ stack' \in Seq(Calls) /\ Len(stack') = Len(calls) + 1 /\ stack'[1] = Call(name)
        /\ \A i \in 1..Len(calls) : stack'[i + 1] = calls[i]
    BY <1>t, <1>c, <2>1, Entered
  <2>i. ASSUME NEW i \in 1..Len(stack'), i # 1
        PROVE  i - 1 \in 1..Len(calls) /\ stack'[i] = calls[i - 1]
    BY <2>2, <2>i, <1>c
  <2>v. /\ visited'[name] = 1 /\ \A j \in Names : j # name => visited'[j] = visited[j]
        /\ \A i \in 1..Len(stack) : stack[i].job # name
    BY <2>1, <1>1, <1>n, <1>t DEF RunTypeOK, SearchInv
  <2>3. RunTypeOK'
    BY <2>1, <2>2, <1>t, <1>n DEF RunTypeOK, SearchLeaves, Calls
  <2>4. SearchInv'
    <3>1. \A j \in Names : visited'[j] = 2 <=> InList(queue', j)
      BY <2>1, <2>v, <1>1, <1>n, <1>t DEF SearchInv, InList
    <3>2. ASSUME NEW j \in Names, visited'[j] = 1
          PROVE  \E i \in 1..Len(stack') : stack'[i].job = j
      <4>1. CASE j = name
        BY <4>1, <2>2, <1>c DEF Call
      <4>2. CASE j # name
        <5>1. PICK i \in 1..Len(stack) : stack[i].job = j
          BY <4>2, <3>2, <2>v, <1>t DEF SearchInv
        <5>2. i + 1 \in 1..Len(stack') /\ stack'[i + 1] = calls[i] /\ calls[i].job = j
          BY <5>1, <2>2, <1>c
        <5> QED
          BY <5>2
      <4> QED
        BY <4>1, <4>2
    <3>3. ASSUME NEW i \in 1..Len(stack')
          PROVE  visited'[stack'[i].job] = 1
      <4>1. CASE i = 1
        BY <4>1, <2>2, <2>v DEF Call
      <4>2. CASE i # 1
        <5>1. i - 1 \in 1..Len(stack) /\ stack'[i].job = stack[i - 1].job /\ stack[i - 1].job \in Names
          BY <4>2, <2>i, <1>c, <1>t DEF RunTypeOK
        <5> QED
          BY <5>1, <2>v, <1>t DEF SearchInv
      <4> QED
        BY <4>1, <4>2
    <3>4. ASSUME NEW i \in 1..Len(stack'), NEW k \in 1..Len(stack'), stack'[i].job = stack'[k].job
          PROVE  i = k
      <4>0. stack'[1].job = name
        BY <2>2 DEF Call
      <4>4. ASSUME NEW m \in 1..Len(stack'), m # 1 PROVE stack'[m].job # name
        <5>1. m - 1 \in 1..Len(calls) /\ stack'[m] = calls[m - 1]
          BY <4>4, <2>i
        <5>2. m - 1 \in 1..Len(stack) /\ calls[m - 1].job = stack[m - 1].job
          BY <5>1, <1>c
        <5> QED
          BY <5>1, <5>2, <2>v
      <4>1. CASE i = 1 /\ k # 1
        BY <4>0, <4>1, <4>4, <3>4
      <4>2. CASE k = 1 /\ i # 1
        BY <4>0, <4>2, <4>4, <3>4
      <4>3. CASE k # 1 /\ i # 1
        <5>1. /\ i - 1 \in 1..Len(stack) /\ stack'[i].job = stack[i - 1].job
              /\ k - 1 \in 1..Len(stack) /\ stack'[k].job = stack[k - 1].job
          BY <4>3, <2>i, <1>c
        <5>2. \A m, n \in 1..Len(stack) : stack[m].job = stack[n].job => m = n
          BY <1>t DEF SearchInv
        <5>3. stack[i - 1].job = stack[k - 1].job
          BY <5>1, <3>4
        <5>4. i - 1 = k - 1
          BY <5>1, <5>2, <5>3
        <5> QED
          BY <5>4
      <4> QED
        BY <4>1, <4>2, <4>3
    <3>5. ASSUME NEW i \in 1..Len(stack'), NEW d \in selected, DependsOn(stack'[i].job, d)
          PROVE  Seen(i, d)'
      <4>0. d \in Names /\ (visited[d] = 2 => visited'[d] = 2)
        BY <2>v, <1>1, <1>t DEF RunTypeOK
      <4>1. CASE i = 1
        <5>1. \E k \in 1..Len(dependsOn[name]) : dependsOn[name][k] = d
          BY <4>1, <3>5, <2>2 DEF DependsOn, Call
        <5> QED
          BY <5>1, <4>1, <2>2 DEF Seen, Call
      <4>2. CASE i = 2
        <5>1. 1 \in 1..Len(calls) /\ stack'[2] = calls[1] /\ Len(calls) > 0
          BY <4>2, <2>i, <1>c
        <5>2. visited[d] = 2 \/ (\E k \in 1..Len(calls[1].deps) : calls[1].deps[k] = d) \/ d = name
          BY <5>1, <4>2, <3>5 DEF SearchBelow
        <5>3. stack'[2 - 1].job = name
          BY <2>2 DEF Call
        <5> QED
          BY <5>1, <5>2, <5>3, <4>0, <4>2 DEF Seen
      <4>3. CASE i # 1 /\ i # 2
        <5>1. /\ i - 1 \in 2..Len(stack) /\ i - 2 \in 1..Len(stack)
              /\ stack'[i] = stack[i - 1] /\ stack'[i - 1].job = stack[i - 2].job
          <6>1. i - 1 \in 1..Len(calls) /\ stack'[i] = calls[i - 1]
            BY <4>3, <2>i
          <6>2. i - 1 \in 2..Len(calls) /\ i - 2 \in 1..Len(calls) /\ (i - 2) + 1 = i - 1
            BY <6>1, <4>3, <1>c
          <6>3. stack'[i - 1] = calls[i - 2]
            BY <6>2, <2>2
          <6> QED
            BY <6>1, <6>2, <6>3, <1>c
        <5>2. Seen(i - 1, d)
          BY <5>1, <3>5, <1>t DEF SearchInv
        <5>3. CASE i - 1 > 1 /\ stack[(i - 1) - 1].job = d
          BY <5>1, <5>3, <4>3 DEF Seen
        <5> QED
          BY <5>1, <5>2, <5>3, <4>0 DEF Seen
      <4> QED
        BY <4>1, <4>2, <4>3
    <3>6. ASSUME NEW i \in 1..Len(stack'), NEW k \in 1..Len(stack'[i].deps)
          PROVE  DependsOn(stack'[i].job, stack'[i].deps[k])
      <4>1. CASE i = 1
        BY <4>1, <2>2 DEF Call, DependsOn
      <4>2. CASE i # 1
        <5>1. i - 1 \in 1..Len(calls) /\ stack'[i] = calls[i - 1]
          BY <4>2, <2>i
        <5>2. CASE i - 1 = 1
          BY <5>1, <5>2, <3>6 DEF SearchBelow
        <5>3. CASE i - 1 # 1
          <6>1. i - 1 \in 1..Len(stack) /\ stack'[i] = stack[i - 1]
            BY <5>1, <5>3, <1>c
          <6> QED
            BY <6>1, <3>6, <1>t DEF SearchInv
        <5> QED
          BY <5>2, <5>3
      <4> QED
        BY <4>1, <4>2
    <3>7. ASSUME NEW i \in 2..Len(stack')
          PROVE  DependsOn(stack'[i].job, stack'[i - 1].job)
      <4>0. i \in 1..Len(stack') /\ i - 1 \in 1..Len(calls) /\ stack'[i] = calls[i - 1]
        BY <2>i, <2>2, <1>c
      <4>1. CASE i = 2
        BY <4>0, <4>1, <2>2, <1>c DEF SearchBelow, Call
      <4>2. CASE i # 2
        <5>1. i - 1 \in 2..Len(stack) /\ (i - 2) \in 1..Len(calls) /\ (i - 2) + 1 = i - 1
          BY <4>0, <4>2, <1>c
        <5>2. stack'[i - 1] = calls[i - 2] /\ stack'[i] = stack[i - 1]
          <6>1. stack'[(i - 2) + 1] = calls[i - 2]
            BY <5>1, <2>2
          <6>2. calls[i - 1] = stack[i - 1]
            BY <5>1, <1>c
          <6> QED
            BY <6>1, <6>2, <5>1, <4>0
        <5>3. calls[i - 2].job = stack[(i - 1) - 1].job
          <6>1. calls[i - 2].job = stack[i - 2].job /\ (i - 1) - 1 = i - 2
            BY <5>1, <1>c
          <6> QED
            BY <6>1
        <5>4. DependsOn(stack[i - 1].job, stack[(i - 1) - 1].job)
          BY <5>1, <1>t DEF SearchInv
        <5> QED
          BY <5>2, <5>3, <5>4
      <4> QED
        BY <4>1, <4>2
    <3>8. selected' = selected
      BY DEF SearchLeaves
    <3> QED
      BY <3>1, <3>2, <3>3, <3>4, <3>5, <3>6, <3>7, <3>8, <1>d DEF SearchInv
  <2>5. OrderInv'
    BY <2>1, <1>t, <1>d DEF OrderInv, SearchLeaves
  <2> QED
    BY <2>1, <2>3, <2>4, <2>5, <1>h DEF RunInv
<1>2. CASE visited[name] = 1
  <2>1. runPhase' = "refused" /\ visited' = Unmarked /\ stack' = <<>> /\ queue' = <<>>
    BY <1>2 DEF Visit
  <2>2. Circular
    <3>1. PICK i \in 1..Len(stack) : stack[i].job = name
      BY <1>2, <1>t, <1>n DEF SearchInv
    <3>2. stack # <<>> /\ Len(calls) > 0 /\ Head(stack).job = calls[1].job
      BY <3>1, <1>c
    <3> QED
      BY <3>2, <1>2, <1>t, CircleOnStack DEF SearchBelow
  <2>3. Circular'
    BY <2>2 DEF Circular, Needs, SearchLeaves
  <2>4. RunTypeOK'
    BY <2>1, <1>t DEF RunTypeOK, SearchLeaves, Unmarked
  <2>5. OrderInv'
    BY <2>1, <1>h, <1>t, <2>4 DEF OrderInv, RunTypeOK, SearchLeaves
  <2> QED
    BY <2>1, <2>3, <2>4, <2>5, <1>h DEF RunInv
<1>3. CASE visited[name] = 2
  <2>1. stack' = calls /\ runPhase' = runPhase /\ visited' = visited /\ queue' = queue
    BY <1>3 DEF Visit
  <2>2. RunTypeOK'
    BY <2>1, <1>c, <1>t DEF RunTypeOK, SearchLeaves, Calls
  <2>3. SearchInv'
    <3>1. \A i \in 2..Len(stack') : stack'[i] = stack[i]
      BY <2>1, <1>c
    <3>2. \A i \in 1..Len(stack') : i \in 1..Len(stack) /\ stack'[i].job = stack[i].job
      BY <2>1, <1>c
    <3>3. ASSUME NEW i \in 1..Len(stack'), NEW d \in selected, DependsOn(stack'[i].job, d)
          PROVE  Seen(i, d)'
      <4>1. CASE i = 1
        BY <4>1, <3>3, <2>1, <1>3, <1>c DEF SearchBelow, Seen
      <4>2. CASE i # 1
        <5>1. i \in 2..Len(stack') /\ i - 1 \in 1..Len(stack') /\ Seen(i, d)
          BY <4>2, <3>2, <3>3, <2>1, <1>c, <1>t DEF SearchInv
        <5> QED
          BY <5>1, <3>1, <3>2, <2>1 DEF Seen
      <4> QED
        BY <4>1, <4>2
    <3>4. ASSUME NEW i \in 1..Len(stack'), NEW k \in 1..Len(stack'[i].deps)
          PROVE  DependsOn(stack'[i].job, stack'[i].deps[k])
      <4>1. CASE i = 1
        BY <4>1, <3>4, <2>1, <1>c DEF SearchBelow
      <4>2. CASE i # 1
        <5>1. i \in 1..Len(stack) /\ stack'[i] = stack[i]
          BY <4>2, <3>1, <3>2, <2>1, <1>c
        <5> QED
          BY <5>1, <3>4, <1>t DEF SearchInv
      <4> QED
        BY <4>1, <4>2
    <3>5. ASSUME NEW i \in 2..Len(stack') PROVE DependsOn(stack'[i].job, stack'[i - 1].job)
      <4>1. i \in 2..Len(stack) /\ i \in 1..Len(stack') /\ i - 1 \in 1..Len(stack')
        BY <3>2, <2>1, <1>c
      <4> QED
        BY <4>1, <3>2, <1>t DEF SearchInv
    <3>6. \A j \in Names : visited'[j] = 1 => \E i \in 1..Len(stack') : stack'[i].job = j
      BY <3>2, <2>1, <1>c, <1>t DEF SearchInv
    <3>7. \A i, k \in 1..Len(stack') : stack'[i].job = stack'[k].job => i = k
      <4>1. \A i, k \in 1..Len(stack) : stack[i].job = stack[k].job => i = k
        BY <1>t DEF SearchInv
      <4> QED
        BY <3>2, <4>1
    <3>8. \A i \in 1..Len(stack') : visited'[stack'[i].job] = 1
      BY <3>2, <2>1, <1>t DEF SearchInv
    <3>9. \A j \in Names : visited'[j] = 2 <=> InList(queue', j)
      BY <2>1, <1>t DEF SearchInv
    <3>10. selected' = selected
      BY DEF SearchLeaves
    <3> QED
      BY <3>3, <3>4, <3>5, <3>6, <3>7, <3>8, <3>9, <3>10, <1>d DEF SearchInv
  <2>4. OrderInv'
    BY <2>1, <1>t, <1>d DEF OrderInv, SearchLeaves
  <2> QED
    BY <2>1, <2>2, <2>3, <2>4, <1>h DEF RunInv
<1> QED
  BY <1>1, <1>2, <1>3 DEF Visit

LEMMA VisitNameKeeps == ASSUME RunInv, NEW name \in selected, VisitName(name) PROVE RunInv'
<1>1. /\ runPhase = "plan" /\ Visit(name, <<>>) /\ SearchLeaves /\ stack = <<>>
  BY DEF VisitName, runConfig, SearchLeaves
<1>2. SearchBelow(name, <<>>)
  BY <1>1 DEF SearchBelow
<1> QED
  BY <1>1, <1>2, VisitKeeps

\* The last call looks at its next dependency.
LEMMA LooksAtNext ==
    ASSUME RunTypeOK, SearchInv, stack # <<>>, Head(stack).deps # <<>>,
           NEW dep, dep = Head(Head(stack).deps),
           NEW looking \in Calls, looking.job = Head(stack).job, looking.deps = Tail(Head(stack).deps),
           NEW calls \in Seq(Calls), Len(calls) = Len(Tail(stack)) + 1, calls[1] = looking,
           \A i \in 1..Len(Tail(stack)) : calls[i + 1] = Tail(stack)[i]
    PROVE  SearchBelow(dep, calls)
<1>1. stack \in Seq(Calls) /\ Len(stack) \in Nat \ {0} /\ Head(stack) = stack[1] /\ 1 \in 1..Len(stack)
  BY DEF RunTypeOK
<1>2. Head(stack) \in Calls /\ Tail(stack) \in Seq(Calls)
      /\ Len(Tail(stack)) = Len(stack) - 1 /\ \A i \in 1..Len(Tail(stack)) : Tail(stack)[i] = stack[i + 1]
  <2>1. Head(stack) \in Calls
    BY <1>1
  <2> QED
    BY <2>1, <1>1
<1>p. PICK deps : deps = Head(stack).deps
  OBVIOUS
<1>3. deps \in Seq(Names) /\ deps # <<>> /\ Head(stack).job \in selected
  BY <1>2, <1>p DEF Calls
<1>4. /\ Len(deps) \in Nat \ {0} /\ Tail(deps) \in Seq(Names) /\ Len(Tail(deps)) = Len(deps) - 1
      /\ \A k \in 1..Len(Tail(deps)) : Tail(deps)[k] = deps[k + 1]
      /\ dep = deps[1]
  BY <1>3, <1>p
<1>5. looking.job = stack[1].job /\ looking.deps = Tail(deps)
  BY <1>1, <1>p
<1>6. Len(calls) = Len(stack)
  BY <1>1, <1>2
<1>l. calls[1].deps = Tail(deps) /\ calls[1].job = stack[1].job
  BY <1>5
<1>7. ASSUME NEW i \in 2..Len(calls) PROVE calls[i] = stack[i]
  <2>1. i - 1 \in 1..Len(Tail(stack)) /\ (i - 1) + 1 = i
    BY <1>6, <1>1, <1>2
  <2>2. calls[(i - 1) + 1] = Tail(stack)[i - 1] /\ Tail(stack)[i - 1] = stack[(i - 1) + 1]
    BY <2>1, <1>2
  <2> QED
    BY <2>1, <2>2
<1>8. \A i \in 1..Len(calls) : calls[i].job = stack[i].job
  <2>1. \A i \in 1..Len(calls) : i = 1 \/ i \in 2..Len(calls)
    BY <1>6, <1>1
  <2> QED
    BY <2>1, <1>5, <1>6, <1>7
<1>9. ASSUME NEW d \in selected, DependsOn(calls[1].job, d)
      PROVE  visited[d] = 2 \/ (\E k \in 1..Len(calls[1].deps) : calls[1].deps[k] = d) \/ d = dep
  <2>1. Seen(1, d)
    BY <1>9, <1>1, <1>l DEF SearchInv
  <2>2. CASE \E k \in 1..Len(deps) : deps[k] = d
    <3>1. PICK k \in 1..Len(deps) : deps[k] = d
      BY <2>2
    <3>2. CASE k = 1
      BY <3>1, <3>2, <1>4
    <3>3. CASE k # 1
      <4>1. k - 1 \in 1..Len(Tail(deps)) /\ (k - 1) + 1 = k
        BY <3>1, <3>3, <1>4
      <4>2. Tail(deps)[k - 1] = d
        BY <4>1, <3>1, <1>4
      <4> QED
        BY <4>1, <4>2, <1>5, <1>6
    <3> QED
      BY <3>2, <3>3
  <2>3. CASE visited[d] = 2
    BY <2>3
  <2>4. visited[d] = 2 \/ \E k \in 1..Len(deps) : deps[k] = d
    BY <2>1, <1>1, <1>p DEF Seen
  <2> QED
    BY <2>2, <2>3, <2>4
<1>10. \A k \in 1..Len(deps) : DependsOn(stack[1].job, deps[k])
  BY <1>1, <1>p DEF SearchInv
<1>11. ASSUME NEW k \in 1..Len(calls[1].deps) PROVE DependsOn(calls[1].job, calls[1].deps[k])
  <2>0. PICK rest : rest = Tail(deps) /\ rest = calls[1].deps
    BY <1>l
  <2>1. k \in 1..Len(rest) /\ Len(rest) = Len(deps) - 1 /\ Len(deps) \in Nat /\ rest[k] = deps[k + 1]
    BY <2>0, <1>4
  <2>2. k + 1 \in 1..Len(deps) /\ calls[1].deps[k] = deps[k + 1]
    BY <2>0, <2>1
  <2> QED
    BY <2>2, <1>l, <1>10, <1>5, <1>6
<1>12. DependsOn(calls[1].job, dep)
  BY <1>10, <1>4, <1>l
<1> QED
  BY <1>6, <1>7, <1>8, <1>9, <1>11, <1>12 DEF SearchBelow

\* An unselected dependency leaves all as it is but the last call.
LEMMA PassesOver ==
    ASSUME RunInv, runPhase = "plan", SearchLeaves, UNCHANGED <<runPhase, visited, queue>>,
           NEW dep, dep \notin selected, SearchBelow(dep, stack')
    PROVE  RunInv'
<1>t. RunTypeOK /\ SearchInv /\ OrderInv /\ HeldBackWhenBlocked /\ \A j \in Names : statusOf[j] = "none"
  BY DEF RunInv
<1>d. \A j, d : DependsOn(j, d)' <=> DependsOn(j, d)
  BY DEF SearchLeaves, DependsOn
<1>c. /\ stack' \in Seq(Calls) /\ Len(stack') = Len(stack) /\ Len(stack) \in Nat
      /\ \A i \in 1..Len(stack') : i \in 1..Len(stack) /\ stack'[i].job = stack[i].job
      /\ \A i \in 2..Len(stack') : stack'[i] = stack[i]
  BY <1>t DEF RunTypeOK, SearchBelow
<1>2. RunTypeOK'
  BY <1>c, <1>t DEF RunTypeOK, SearchLeaves, Calls
<1>3. SearchInv'
  <2>1. ASSUME NEW i \in 1..Len(stack'), NEW d \in selected, DependsOn(stack'[i].job, d)
        PROVE  Seen(i, d)'
    <3>1. CASE i = 1
      BY <3>1, <2>1, <1>c DEF SearchBelow, Seen
    <3>2. CASE i # 1
      <4>1. i \in 2..Len(stack') /\ i - 1 \in 1..Len(stack') /\ Seen(i, d)
        BY <3>2, <2>1, <1>c, <1>t DEF SearchInv
      <4> QED
        BY <4>1, <1>c DEF Seen
    <3> QED
      BY <3>1, <3>2
  <2>2. ASSUME NEW i \in 1..Len(stack'), NEW k \in 1..Len(stack'[i].deps)
        PROVE  DependsOn(stack'[i].job, stack'[i].deps[k])
    <3>1. CASE i = 1
      BY <3>1, <2>2, <1>c DEF SearchBelow
    <3>2. CASE i # 1
      <4>1. i \in 1..Len(stack) /\ stack'[i] = stack[i]
        BY <3>2, <1>c
      <4> QED
        BY <4>1, <2>2, <1>t DEF SearchInv
    <3> QED
      BY <3>1, <3>2
  <2>3. ASSUME NEW i \in 2..Len(stack') PROVE DependsOn(stack'[i].job, stack'[i - 1].job)
    <3>1. i \in 2..Len(stack) /\ i \in 1..Len(stack') /\ i - 1 \in 1..Len(stack')
      BY <1>c
    <3> QED
      BY <3>1, <1>c, <1>t DEF SearchInv
  <2>4. \A j \in Names : visited'[j] = 1 => \E i \in 1..Len(stack') : stack'[i].job = j
    BY <1>c, <1>t DEF SearchInv
  <2>5. \A i, k \in 1..Len(stack') : stack'[i].job = stack'[k].job => i = k
    BY <1>c, <1>t DEF SearchInv
  <2>6. \A i \in 1..Len(stack') : visited'[stack'[i].job] = 1
    BY <1>c, <1>t DEF SearchInv
  <2>7. \A j \in Names : visited'[j] = 2 <=> InList(queue', j)
    BY <1>t DEF SearchInv
  <2>8. selected' = selected
    BY DEF SearchLeaves
  <2> QED
    BY <2>1, <2>2, <2>3, <2>4, <2>5, <2>6, <2>7, <2>8, <1>d DEF SearchInv
<1>4. OrderInv'
  BY <1>t, <1>d DEF OrderInv, SearchLeaves
<1> QED
  BY <1>t, <1>2, <1>3, <1>4, HeldStays DEF RunInv, SearchLeaves

LEMMA VisitDependencyKeeps == ASSUME RunInv, VisitDependency PROVE RunInv'
<1> DEFINE dep == Head(Head(stack).deps)
           below == <<[Head(stack) EXCEPT !.deps = Tail(@)]>> \o Tail(stack)
<1>1. runPhase = "plan" /\ stack # <<>> /\ Head(stack).deps # <<>> /\ SearchLeaves
  BY DEF VisitDependency, runConfig, SearchLeaves
<1>2. RunTypeOK /\ SearchInv
  BY <1>1 DEF RunInv
<1>3. SearchBelow(dep, below)
  <2>1. stack \in Seq(Calls) /\ stack # <<>>
    BY <1>1, <1>2 DEF RunTypeOK
  <2>2. Head(stack) \in Calls /\ Tail(stack) \in Seq(Calls)
    <3>1. Head(stack) \in Calls
      BY <2>1
    <3> QED
      BY <3>1, <2>1
  <2>3. PICK looking : looking = [Head(stack) EXCEPT !.deps = Tail(@)]
    OBVIOUS
  <2>4. looking \in Calls /\ looking.job = Head(stack).job /\ looking.deps = Tail(Head(stack).deps)
    <3>1. PICK deps : deps = Head(stack).deps
      OBVIOUS
    <3>2. deps \in Seq(Names) /\ deps # <<>> /\ Head(stack).job \in selected
      BY <2>2, <3>1, <1>1 DEF Calls
    <3>3. Tail(deps) \in Seq(Names)
      BY <3>2
    <3> QED
      BY <2>2, <2>3, <3>1, <3>3 DEF Calls
  <2>5. below = <<looking>> \o Tail(stack)
    BY <2>3
  <2> HIDE DEF below
  <2>6. /\ below \in Seq(Calls) /\ Len(below) = Len(Tail(stack)) + 1 /\ below[1] = looking
        /\ \A i \in 1..Len(Tail(stack)) : below[i + 1] = Tail(stack)[i]
    BY <2>2, <2>4, <2>5, Pushed
  <2> QED
    BY <1>1, <1>2, <2>4, <2>6, LooksAtNext
<1>4. CASE dep \in selected
  <2>1. Visit(dep, below)
    BY <1>4 DEF VisitDependency
  <2> HIDE DEF dep, below
  <2> QED
    BY <2>1, <1>1, <1>3, <1>4, VisitKeeps
<1>5. CASE dep \notin selected
  <2>1. stack' = below /\ UNCHANGED <<runPhase, visited, queue>>
    BY <1>5 DEF VisitDependency
  <2> HIDE DEF dep, below
  <2>2. SearchBelow(dep, stack')
    BY <2>1, <1>3
  <2> QED
    BY <2>1, <2>2, <1>1, <1>5, PassesOver
<1> QED
  BY <1>4, <1>5

LEMMA VisitReturnsKeeps == ASSUME RunInv, VisitReturns PROVE RunInv'
<1> DEFINE name == Head(stack).job
<1>t. RunTypeOK /\ SearchInv /\ OrderInv /\ HeldBackWhenBlocked /\ \A j \in Names : statusOf[j] = "none"
  BY DEF RunInv, VisitReturns
<1>1. /\ runPhase = "plan" /\ runPhase' = "plan" /\ stack # <<>> /\ Head(stack).deps = <<>> /\ SearchLeaves
      /\ visited' = [visited EXCEPT ![name] = 2] /\ queue' = Append(queue, name) /\ stack' = Tail(stack)
  BY DEF VisitReturns, Leave, runConfig, SearchLeaves
<1>2. /\ stack \in Seq(Calls) /\ Len(stack) \in Nat \ {0} /\ Head(stack) = stack[1] /\ 1 \in 1..Len(stack)
      /\ Head(stack) \in Calls /\ Tail(stack) \in Seq(Calls) /\ Len(stack') = Len(stack) - 1
      /\ \A i \in 1..Len(stack') : stack'[i] = stack[i + 1] /\ i + 1 \in 1..Len(stack)
  <2>1. stack \in Seq(Calls) /\ stack # <<>>
    BY <1>1, <1>t DEF RunTypeOK
  <2> HIDE DEF Calls
  <2>2. Head(stack) \in Calls
    BY <2>1
  <2> QED
    BY <1>1, <2>1, <2>2
<1>3. name \in selected /\ name \in Names
  BY <1>2, <1>t DEF Calls, RunTypeOK
<1>4. /\ queue' \in Seq(selected) /\ Len(queue) \in Nat /\ Len(queue') = Len(queue) + 1
      /\ queue'[Len(queue) + 1] = name /\ \A k \in 1..Len(queue) : queue'[k] = queue[k]
  BY <1>1, <1>3, <1>t DEF RunTypeOK
<1>5. RunTypeOK'
  BY <1>1, <1>2, <1>3, <1>4, <1>t DEF RunTypeOK, SearchLeaves, Calls
<1>6. \A j \in Names : InList(queue', j) <=> InList(queue, j) \/ j = name
  <2>1. \A k \in 1..Len(queue') : k \in 1..Len(queue) \/ k = Len(queue) + 1
    BY <1>4
  <2>2. \A k \in 1..Len(queue) : k \in 1..Len(queue')
    BY <1>4
  <2>3. Len(queue) + 1 \in 1..Len(queue')
    BY <1>4
  <2> QED
    BY <2>1, <2>2, <2>3, <1>4 DEF InList
<1>v. visited[name] = 1 /\ visited'[name] = 2 /\ \A j \in Names : j # name => visited'[j] = visited[j]
  BY <1>1, <1>2, <1>3, <1>t DEF RunTypeOK, SearchInv
<1>d. \A j, d : DependsOn(j, d)' <=> DependsOn(j, d)
  BY <1>1 DEF SearchLeaves, DependsOn
<1>7. ASSUME NEW d \in selected, DependsOn(name, d) PROVE visited[d] = 2
  <2>1. Seen(1, d)
    BY <1>7, <1>2, <1>t DEF SearchInv
  <2> QED
    BY <2>1, <1>1, <1>2 DEF Seen
<1>i. \A i, k \in 1..Len(stack) : stack[i].job = stack[k].job => i = k
  BY <1>t DEF SearchInv
<1>8. SearchInv'
  <2>1. \A j \in Names : visited'[j] = 2 <=> InList(queue', j)
    BY <1>6, <1>v, <1>t DEF SearchInv
  <2>2. ASSUME NEW j \in Names, visited'[j] = 1
        PROVE  \E i \in 1..Len(stack') : stack'[i].job = j
    <3>1. PICK i \in 1..Len(stack) : stack[i].job = j
      BY <2>2, <1>v, <1>t DEF SearchInv
    <3>2. i # 1
      BY <3>1, <2>2, <1>v, <1>2
    <3>3. i - 1 \in 1..Len(stack') /\ stack'[i - 1] = stack[(i - 1) + 1] /\ (i - 1) + 1 = i
      BY <3>1, <3>2, <1>2
    <3> QED
      BY <3>1, <3>3
  <2>3. ASSUME NEW i \in 1..Len(stack') PROVE visited'[stack'[i].job] = 1
    <3>1. i + 1 \in 1..Len(stack) /\ i + 1 # 1 /\ stack'[i] = stack[i + 1]
      BY <1>2
    <3>2. stack[i + 1].job # name
      BY <3>1, <1>i, <1>2
    <3>3. stack[i + 1].job \in Names
      <4>1. stack[i + 1] \in Calls
        BY <3>1, <1>2
      <4> QED
        BY <4>1, <1>t DEF Calls, RunTypeOK
    <3>4. visited[stack[i + 1].job] = 1
      BY <3>1, <1>t DEF SearchInv
    <3> QED
      BY <3>1, <3>2, <3>3, <3>4, <1>v
  <2>4. ASSUME NEW i \in 1..Len(stack'), NEW k \in 1..Len(stack'), stack'[i].job = stack'[k].job
        PROVE  i = k
    <3>0. i + 1 \in 1..Len(stack) /\ k + 1 \in 1..Len(stack) /\ stack'[i] = stack[i + 1] /\ stack'[k] = stack[k + 1]
      BY <1>2
    <3>1. i + 1 = k + 1
      BY <2>4, <3>0, <1>i
    <3> QED
      BY <3>1
  <2>5. ASSUME NEW i \in 1..Len(stack'), NEW d \in selected, DependsOn(stack'[i].job, d)
        PROVE  Seen(i, d)'
    <3>1. i + 1 \in 1..Len(stack) /\ stack'[i] = stack[i + 1]
      BY <1>2
    <3>2. Seen(i + 1, d)
      BY <3>1, <2>5, <1>t DEF SearchInv
    <3>3. d \in Names
      BY <1>t DEF RunTypeOK
    <3>4. CASE visited[d] = 2
      BY <3>3, <3>4, <1>v DEF Seen
    <3>5. CASE \E k \in 1..Len(stack[i + 1].deps) : stack[i + 1].deps[k] = d
      BY <3>1, <3>5 DEF Seen
    <3>6. CASE stack[(i + 1) - 1].job = d
      <4>1. (i + 1) - 1 = i
        OBVIOUS
      <4>2. CASE i = 1
        BY <3>6, <4>1, <4>2, <1>2, <1>v DEF Seen
      <4>3. CASE i # 1
        <5>1. i - 1 \in 1..Len(stack') /\ (i - 1) + 1 = i /\ i > 1
          BY <4>3, <1>2
        <5>2. stack'[i - 1] = stack[i]
          BY <5>1, <1>2
        <5> QED
          BY <3>6, <4>1, <5>1, <5>2 DEF Seen
      <4> QED
        BY <4>2, <4>3
    <3> QED
      BY <3>2, <3>4, <3>5, <3>6 DEF Seen
  <2>6. ASSUME NEW i \in 1..Len(stack'), NEW k \in 1..Len(stack'[i].deps)
        PROVE  DependsOn(stack'[i].job, stack'[i].deps[k])
    <3>1. i + 1 \in 1..Len(stack) /\ stack'[i] = stack[i + 1]
      BY <1>2
    <3>2. \A m \in 1..Len(stack) : \A n \in 1..Len(stack[m].deps) : DependsOn(stack[m].job, stack[m].deps[n])
      BY <1>t DEF SearchInv
    <3> QED
      BY <3>1, <3>2, <2>6
  <2>7. ASSUME NEW i \in 2..Len(stack') PROVE DependsOn(stack'[i].job, stack'[i - 1].job)
    <3>1. /\ i \in 1..Len(stack') /\ i - 1 \in 1..Len(stack') /\ i + 1 \in 2..Len(stack)
          /\ (i - 1) + 1 = i /\ (i + 1) - 1 = i
      BY <1>2
    <3>2. stack'[i] = stack[i + 1] /\ stack'[i - 1] = stack[(i - 1) + 1]
      BY <3>1, <1>2
    <3>3. DependsOn(stack[i + 1].job, stack[(i + 1) - 1].job)
      BY <3>1, <1>t DEF SearchInv
    <3> QED
      BY <3>1, <3>2, <3>3
  <2>8. selected' = selected
    BY <1>1 DEF SearchLeaves
  <2> QED
    BY <2>1, <2>2, <2>3, <2>4, <2>5, <2>6, <2>7, <2>8, <1>d DEF SearchInv
<1>9. OrderInv'
  <2>1. \A k \in 1..Len(queue) : queue[k] # name
    BY <1>v, <1>3, <1>t DEF SearchInv, InList
  <2>2. \A k \in 1..Len(queue') : k \in 1..Len(queue) \/ k = Len(queue) + 1
    BY <1>4
  <2>3. \A k, l \in 1..Len(queue') : queue'[k] = queue'[l] => k = l
    BY <2>1, <2>2, <1>4, <1>t DEF OrderInv
  <2>4. ASSUME NEW k \in 1..Len(queue'), NEW d \in selected, DependsOn(queue'[k], d)
        PROVE  statusOf[d] # "none" \/ \E l \in 1..(k - 1) : queue'[l] = d
    <3>0. d \in Names
      BY <1>t DEF RunTypeOK
    <3>1. CASE k \in 1..Len(queue)
      <4>1. queue'[k] = queue[k]
        BY <3>1, <1>4
      <4>2. PICK l \in 1..(k - 1) : queue[l] = d
        BY <3>0, <3>1, <2>4, <4>1, <1>t DEF OrderInv
      <4>3. l \in 1..Len(queue)
        BY <3>1, <1>4
      <4> QED
        BY <4>2, <4>3, <1>4
    <3>2. CASE k = Len(queue) + 1
      <4>1. visited[d] = 2
        BY <3>2, <2>4, <1>4, <1>7
      <4>2. PICK l \in 1..Len(queue) : queue[l] = d
        BY <3>0, <4>1, <1>t DEF SearchInv, InList
      <4>3. l \in 1..(k - 1) /\ queue'[l] = d
        BY <4>2, <3>2, <1>4
      <4> QED
        BY <4>3
    <3> QED
      BY <3>1, <3>2, <2>2
  <2>5. UNCHANGED <<selected, statusOf, entered>>
    BY <1>1 DEF SearchLeaves
  <2> QED
    BY <2>3, <2>4, <2>5, <1>d, <1>t DEF OrderInv
<1> QED
  BY <1>1, <1>5, <1>8, <1>9, <1>t, HeldStays DEF RunInv, SearchLeaves

(***************************************************************************)
(* The run                                                                 *)
(***************************************************************************)

LEMMA PlanKeepsAll == ASSUME RunInv, Plan PROVE RunInv'
<1>t. RunTypeOK /\ SearchInv /\ OrderInv /\ HeldBackWhenBlocked /\ \A j \in Names : statusOf[j] = "none"
  BY DEF RunInv, Plan
<1>1. /\ runPhase' = "schema" /\ visited' = Unmarked /\ UNCHANGED <<stack, queue>> /\ SearchLeaves
      /\ \A name \in selected : visited[name] = 2
  BY DEF Plan, SearchLeaves, runConfig
<1>d. \A j, d : DependsOn(j, d)' <=> DependsOn(j, d)
  BY <1>1 DEF SearchLeaves, DependsOn
<1>2. RunTypeOK'
  BY <1>1, <1>t DEF RunTypeOK, SearchLeaves, Unmarked, Calls
<1>3. OrderInv'
  BY <1>1, <1>t, <1>d DEF OrderInv, SearchLeaves
<1>4. ReportInv'
  <2>1. \A j \in Names : InList(queue, j) => j \in selected
    BY <1>t DEF RunTypeOK, InList
  <2>2. \A j \in Names : j \in selected => InList(queue, j)
    BY <1>1, <1>t DEF SearchInv
  <2> QED
    BY <2>1, <2>2, <1>1, <1>t DEF ReportInv, SearchLeaves, InList
<1>5. HeldBackWhenBlocked'
  BY <1>1, <1>t, HeldStays DEF SearchLeaves
<1> QED
  BY <1>1, <1>2, <1>3, <1>4, <1>5 DEF RunInv

\* The first job of the order gets its report, and is entered unless it is blocked.
LEMMA ReportKeeps ==
    ASSUME RunInv, runPhase = "running", queue # <<>>,
           NEW how \in Statuses, Report(Head(queue), how),
           UNCHANGED <<selected, dependsOn, strict, runPhase, visited, stack>>,
           entered' = IF Blocked(Head(queue)) THEN entered ELSE entered \cup {Head(queue)}
    PROVE  RunInv'
<1>t. RunTypeOK /\ OrderInv /\ ReportInv /\ HeldBackWhenBlocked
  BY DEF RunInv
<1>p. PICK job : job = Head(queue)
  OBVIOUS
<1>1. /\ queue \in Seq(selected) /\ Len(queue) \in Nat \ {0} /\ job = queue[1] /\ job \in selected /\ job \in Names
      /\ queue' = Tail(queue) /\ queue' \in Seq(selected) /\ Len(queue') = Len(queue) - 1
      /\ \A k \in 1..Len(queue') : queue'[k] = queue[k + 1] /\ k + 1 \in 1..Len(queue)
  <2>1. queue \in Seq(selected) /\ queue # <<>>
    BY <1>t DEF RunTypeOK
  <2>2. Head(queue) \in selected
    BY <2>1
  <2> QED
    BY <2>1, <2>2, <1>p, <1>t DEF Report, RunTypeOK
<1>2. /\ statusOf' = [statusOf EXCEPT ![job] = how] /\ how # "none"
      /\ statusOf'[job] = how /\ \A j \in Names : j # job => statusOf'[j] = statusOf[j]
  BY <1>1, <1>p, <1>t DEF Report, RunTypeOK, Statuses
<1>3. statusOf[job] = "none"
  BY <1>1, <1>t DEF ReportInv, InList
<1>4. RunTypeOK'
  BY <1>1, <1>2, <1>p, <1>t DEF RunTypeOK, Calls
<1>d. \A j, d : DependsOn(j, d)' <=> DependsOn(j, d)
  BY DEF DependsOn
<1>5. ASSUME NEW d \in selected, DependsOn(job, d) PROVE statusOf[d] # "none"
  BY <1>5, <1>1, <1>t DEF OrderInv
<1>6. OrderInv'
  <2>1. \A k, l \in 1..Len(queue') : queue'[k] = queue'[l] => k = l
    BY <1>1, <1>t DEF OrderInv
  <2>2. ASSUME NEW k \in 1..Len(queue'), NEW d \in selected, DependsOn(queue'[k], d), statusOf'[d] = "none"
        PROVE  \E l \in 1..(k - 1) : queue'[l] = d
    <3>1. d \in Names /\ d # job /\ statusOf[d] = "none"
      BY <2>2, <1>2, <1>t DEF RunTypeOK
    <3>2. k + 1 \in 1..Len(queue) /\ queue'[k] = queue[k + 1]
      BY <1>1
    <3>3. PICK l \in 1..((k + 1) - 1) : queue[l] = d
      BY <3>1, <3>2, <2>2, <1>t DEF OrderInv
    <3>4. l # 1
      BY <3>1, <3>3, <1>1
    <3>5. l - 1 \in 1..(k - 1) /\ l - 1 \in 1..Len(queue') /\ (l - 1) + 1 = l
      BY <3>3, <3>4, <1>1
    <3> QED
      BY <3>3, <3>5, <1>1
  <2>3. \A j \in Names : statusOf'[j] # "none" => j \in selected
    BY <1>1, <1>2, <1>t DEF OrderInv
  <2>4. \A j \in entered' : statusOf'[j] # "none"
    BY <1>1, <1>2, <1>p, <1>t DEF OrderInv, RunTypeOK
  <2>5. \A j, d \in selected : DependsOn(j, d) /\ statusOf'[j] # "none" => statusOf'[d] # "none"
    BY <1>2, <1>5, <1>t DEF OrderInv, RunTypeOK
  <2> QED
    BY <2>1, <2>2, <2>3, <2>4, <2>5, <1>d DEF OrderInv
<1>7. ReportInv'
  <2>1. ASSUME NEW j \in Names, j \in selected, statusOf'[j] = "none" PROVE InList(queue', j)
    <3>1. j # job /\ statusOf[j] = "none"
      BY <2>1, <1>2
    <3>2. PICK k \in 1..Len(queue) : queue[k] = j
      BY <2>1, <3>1, <1>t DEF ReportInv, InList
    <3>3. k # 1
      BY <3>1, <3>2, <1>1
    <3>4. k - 1 \in 1..Len(queue') /\ (k - 1) + 1 = k
      BY <3>2, <3>3, <1>1
    <3> QED
      BY <3>2, <3>4, <1>1 DEF InList
  <2>2. ASSUME NEW j \in Names, InList(queue', j) PROVE j \in selected /\ statusOf'[j] = "none"
    <3>1. PICK k \in 1..Len(queue') : queue'[k] = j
      BY <2>2 DEF InList
    <3>2. k + 1 \in 1..Len(queue) /\ queue[k + 1] = j /\ 1 \in 1..Len(queue)
      BY <3>1, <1>1
    <3>3. j # job
      BY <3>2, <1>1, <1>t DEF OrderInv
    <3>4. j \in selected /\ statusOf[j] = "none"
      BY <3>2, <1>t DEF ReportInv, InList
    <3> QED
      BY <3>3, <3>4, <1>2
  <2> QED
    BY <2>1, <2>2 DEF ReportInv, InList
<1>8. HeldBackWhenBlocked'
  <2> SUFFICES ASSUME NEW j \in Names, statusOf'[j] # "none"
               PROVE  j \in entered' <=> \A dep \in ToSet(dependsOn[j]) :
                                            statusOf'[dep] # "failed" /\ (strict => dep \in selected)
    BY DEF HeldBackWhenBlocked
  <2>1. j \in selected
    BY <1>1, <1>2, <1>t DEF OrderInv
  <2>2. ToSet(dependsOn[j]) \subseteq Names /\ \A d : d \in ToSet(dependsOn[j]) <=> DependsOn(j, d)
    BY <2>1, <1>t, DependsFacts
  <2>3. \A d \in Names : d \notin selected => statusOf[d] = "none"
    BY <1>t DEF OrderInv
  <2>4. CASE j = job
    <3>1. job \notin entered
      BY <1>3, <1>t DEF OrderInv
    <3>2. ~DependsOn(job, job)
      BY <1>1, <1>3, <1>5
    <3>3. \A dep \in ToSet(dependsOn[job]) : dep \in Names /\ dep # job /\ statusOf'[dep] = statusOf[dep]
      BY <2>2, <2>4, <3>2, <1>2
    <3>4. \A dep \in ToSet(dependsOn[job]) : statusOf[dep] = "none" <=> dep \notin selected
      BY <2>2, <2>3, <2>4, <1>5
    <3>5. Blocked(job) <=> \E dep \in ToSet(dependsOn[job]) :
                             statusOf'[dep] = "failed" \/ (strict /\ dep \notin selected)
      BY <3>3, <3>4 DEF Blocked
    <3>6. job \in entered' <=> ~Blocked(job)
      BY <3>1, <1>p
    <3> QED
      BY <3>5, <3>6, <2>4
  <2>5. CASE j # job
    <3>1. statusOf[j] # "none"
      BY <2>5, <1>2
    <3>2. \A dep \in ToSet(dependsOn[j]) : dep # job /\ dep \in Names
      BY <2>1, <2>2, <3>1, <1>1, <1>3, <1>t DEF OrderInv
    <3>3. \A dep \in ToSet(dependsOn[j]) : statusOf'[dep] = statusOf[dep]
      BY <3>2, <1>2
    <3>4. j \in entered' <=> j \in entered
      BY <2>5, <1>p
    <3> QED
      BY <3>1, <3>3, <3>4, <1>t DEF HeldBackWhenBlocked
  <2> QED
    BY <2>4, <2>5
<1> QED
  BY <1>4, <1>6, <1>7, <1>8 DEF RunInv

\* Steps that only move the run on.
LEMMA MovesOn ==
    ASSUME RunInv, UNCHANGED <<visited, stack, queue>>, SearchLeaves,
           \/ runPhase = "schema" /\ runPhase' \in {"running", "failed"}
           \/ runPhase = "running" /\ runPhase' = "finished"
           \/ runPhase' = runPhase
    PROVE  RunInv'
<1>t. RunTypeOK /\ OrderInv /\ HeldBackWhenBlocked
  BY DEF RunInv
<1>d. \A j, d : DependsOn(j, d)' <=> DependsOn(j, d)
  BY DEF SearchLeaves, DependsOn
<1>1. RunTypeOK'
  BY <1>t DEF RunTypeOK, SearchLeaves, Calls
<1>2. OrderInv'
  BY <1>t, <1>d DEF OrderInv, SearchLeaves
<1>3. HeldBackWhenBlocked'
  BY <1>t, HeldStays DEF SearchLeaves
<1>4. SearchInv => SearchInv'
  <2>1. UNCHANGED <<visited, stack, queue, selected>>
    BY DEF SearchLeaves
  <2>2. \A i, d : Seen(i, d)' <=> Seen(i, d)
    BY <2>1 DEF Seen
  <2>3. \A j : InList(queue', j) <=> InList(queue, j)
    BY <2>1
  <2> QED
    BY <2>1, <2>2, <2>3, <1>d DEF SearchInv
<1>5. ReportInv => ReportInv'
  BY DEF ReportInv, SearchLeaves, InList
<1>6. Circular => Circular'
  BY DEF Circular, Needs, SearchLeaves
<1>7. (\A j \in Names : statusOf[j] = "none") => \A j \in Names : statusOf'[j] = "none"
  BY DEF SearchLeaves
<1> QED
  BY <1>1, <1>2, <1>3, <1>4, <1>5, <1>6, <1>7 DEF RunInv

LEMMA RunStepKeeps == RunInv /\ [RunNext]_runVars => RunInv'
<1> SUFFICES ASSUME RunInv, [RunNext]_runVars PROVE RunInv'
  OBVIOUS
<1>1. CASE \E name \in selected : VisitName(name)
  BY <1>1, VisitNameKeeps
<1>2. CASE VisitDependency
  BY <1>2, VisitDependencyKeeps
<1>3. CASE VisitReturns
  BY <1>3, VisitReturnsKeeps
<1>4. CASE Plan
  BY <1>4, PlanKeepsAll
<1>5. CASE EnsureSchema
  BY <1>5, MovesOn DEF EnsureSchema, SearchLeaves, runConfig
<1>6. CASE SkipBlocked
  <2>1. "skipped" \in Statuses
    BY DEF Statuses
  <2> QED
    BY <1>6, <2>1, ReportKeeps DEF SkipBlocked, runConfig
<1>7. CASE \E how \in Statuses : RunJob(how)
  BY <1>7, ReportKeeps DEF RunJob, runConfig
<1>8. CASE Finish
  BY <1>8, MovesOn DEF Finish, SearchLeaves, runConfig
<1>9. CASE UNCHANGED runVars
  BY <1>9, MovesOn DEF runVars, SearchLeaves, runConfig
<1> QED
  BY <1>1, <1>2, <1>3, <1>4, <1>5, <1>6, <1>7, <1>8, <1>9 DEF RunNext

LEMMA RunInvariant == RunSpec => []RunInv
<1>1. RunInit => RunInv
  BY RunInitially
<1>2. RunInv /\ [RunNext]_runVars => RunInv'
  BY RunStepKeeps
<1> QED
  BY <1>1, <1>2, PTL DEF RunSpec

\* The order topoSort makes has every selected job once, after all it depends
\* on, and a run is refused only for jobs that need each other in a circle
\* (topoSort and Run in internal/syncpipeline).
THEOREM OrderedByNeed == RunSpec => []DependenciesFirst
<1>1. RunInv => DependenciesFirst
  <2> SUFFICES ASSUME RunInv PROVE DependenciesFirst
    OBVIOUS
  <2>1. RunTypeOK /\ OrderInv
    BY DEF RunInv
  <2>2. \A j : j \in ToSet(queue) <=> InList(queue, j)
    BY <2>1 DEF ToSet, InList, RunTypeOK
  <2>3. IsInjective(queue)
    BY <2>1 DEF IsInjective, OrderInv, RunTypeOK
  <2>4. ASSUME NEW edge \in Needs, statusOf[edge[1]] # "none" PROVE statusOf[edge[2]] # "none"
    <3>1. PICK j \in selected, d \in selected : edge = <<j, d>>
      BY DEF Needs
    <3>2. DependsOn(j, d)
      BY <3>1, <2>1, DependsFacts
    <3> QED
      BY <3>1, <3>2, <2>4, <2>1 DEF OrderInv
  <2>5. runPhase \in {"running", "finished"} => ReportInv
    BY DEF RunInv
  <2>6. runPhase = "refused" => Circular
    BY DEF RunInv
  <2> QED
    BY <2>2, <2>3, <2>4, <2>5, <2>6 DEF DependenciesFirst, ReportInv
<1> QED
  BY <1>1, RunInvariant, PTL

\* A job is held back for a dependency that failed or, in strict mode, was not
\* selected, and for nothing else (dependencyBlockedReport).
THEOREM BlockedOnlyWhenDue == RunSpec => []HeldBackWhenBlocked
<1>1. RunInv => HeldBackWhenBlocked
  BY DEF RunInv
<1> QED
  BY <1>1, RunInvariant, PTL
=============================================================================
