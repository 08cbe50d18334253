------------------------------ MODULE SyncJob -------------------------------
(***************************************************************************)
(* One job of the data sync pipeline (runJob in internal/syncpipeline).    *)
(* With a concurrency of one the sources run in order.  Otherwise a feeder *)
(* goroutine hands their indices to worker goroutines over an unbuffered   *)
(* channel, the workers put what runSource returned into a buffered one,   *)
(* and runJob collects until every worker is gone; the job's context may   *)
(* end at any moment.                                                      *)
(*                                                                         *)
(* A source is its index in the list of keys; its report is a status and   *)
(* whether rows were inserted.  What runSource does is the matter of       *)
(* SourceSync.                                                             *)
(***************************************************************************)
EXTENDS Naturals, Sequences, FiniteSets

CONSTANTS
    NumKeys,       \* source keys of the job (without keys it is skipped)
    Concurrency,   \* sourceConcurrency, unless the options make it one
    AuditEnabled

ASSUME SyncJobConstants ==
    /\ NumKeys \in Nat \ {0}
    /\ Concurrency \in 1..NumKeys
    /\ AuditEnabled \in BOOLEAN

Sources == 1..NumKeys
Workers == 1..Concurrency

Reports == [status : {"success", "failed"}, rows : {0, 1}] \cup [status : {"skipped"}, rows : {0}]
NoReport == [status |-> "none", rows |-> 0]
Canceled == [status |-> "failed", rows |-> 0]   \* canceledSourceReport

VARIABLES
    sequential, \* sourceConcurrency is one
    phase,      \* control of runJob
    ctxDone,    \* jobCtx.Done
    next,       \* index the feeder offers, or the loop runs, next
    jobsOpen,   \* the channel of tasks is not closed
    worker,     \* control of each worker
    task,       \* index each worker works on
    held,       \* report each worker is sending
    results,    \* the channel of results
    ordered,    \* orderedReports, later report.Sources
    status,     \* report.Status
    rows,       \* report.RowsInserted
    completed,  \* completedSources, as the progress reporter sees it
    audited,    \* AuditJob was called with the reports
    ran         \* history: what runSource returned for each source

workerVars == <<next, jobsOpen, worker, task, held>>
reportVars == <<ordered, status, rows, completed>>
jobVars == <<sequential, phase, ctxDone, workerVars, results, reportVars, audited, ran>>

JobInit ==
    /\ sequential \in BOOLEAN /\ (Concurrency = 1 => sequential)
    /\ phase = "resolve"
    /\ ctxDone = FALSE
    /\ next = 1
    /\ jobsOpen = TRUE
    /\ worker = [w \in Workers |-> "waiting"]
    /\ task = [w \in Workers |-> 0]
    /\ held = [w \in Workers |-> NoReport]
    /\ results = <<>>
    /\ ordered = [i \in Sources |-> NoReport]
    /\ status = "success"
    /\ rows = 0
    /\ completed = 0
    /\ audited = FALSE
    /\ ran = [i \in Sources |-> NoReport]

\* The job's time-out, or the caller, ends the context.
ContextEnds ==
    /\ phase \in {"resolve", "running", "audit"} /\ ~ctxDone
    /\ ctxDone' = TRUE
    /\ UNCHANGED <<sequential, phase, workerVars, results, reportVars, audited, ran>>

Resolve ==
    /\ phase = "resolve"
    /\ \/ phase' = "running" /\ UNCHANGED status
       \/ phase' = "unresolved" /\ status' = "failed"
    /\ UNCHANGED <<sequential, ctxDone, workerVars, results, ordered, rows, completed, audited, ran>>

\* The report of source i is taken into the job's.
Account(i, report) ==
    /\ ordered' = [ordered EXCEPT ![i] = report]
    /\ rows' = rows + report.rows
    /\ completed' = completed + 1
    /\ status' = IF report.status = "failed" THEN "failed" ELSE status

\* Under a dead context runSource gives up before it does anything.
MayReturn(report) == ctxDone => report = Canceled

(***************************************************************************)
(* One source after the other                                              *)
(***************************************************************************)

RunInOrder(report) ==
    /\ sequential /\ phase = "running" /\ next <= NumKeys
    /\ MayReturn(report)
    /\ ran' = [ran EXCEPT ![next] = report]
    /\ Account(next, report)
    /\ next' = next + 1
    /\ UNCHANGED <<sequential, phase, ctxDone, jobsOpen, worker, task, held, results, audited>>

AllInOrder ==
    /\ sequential /\ phase = "running" /\ next > NumKeys
    /\ phase' = "audit"
    /\ UNCHANGED <<sequential, ctxDone, workerVars, results, reportVars, audited, ran>>

(***************************************************************************)
(* Feeder and workers                                                      *)
(***************************************************************************)

\* The goroutines are started and may outlive runJob.
Parallel == ~sequential /\ phase \notin {"resolve", "unresolved"}

\* The feeder hands an index to a waiting worker.  When the context is done
\* as well its select may still choose to; the worker is then doomed to fail.
Hand(w) ==
    /\ Parallel /\ jobsOpen /\ next <= NumKeys /\ worker[w] = "waiting"
    /\ worker' = [worker EXCEPT ![w] = IF ctxDone THEN "doomed" ELSE "running"]
    /\ task' = [task EXCEPT ![w] = next]
    /\ next' = next + 1
    /\ UNCHANGED <<sequential, phase, ctxDone, jobsOpen, held, results, reportVars, audited, ran>>

\* Mutant: a feeder that gives up does not close the channel.
FeederEndsOpen ==
    /\ Parallel /\ jobsOpen /\ next > NumKeys
    /\ jobsOpen' = FALSE
    /\ UNCHANGED <<sequential, phase, ctxDone, next, worker, task, held, results, reportVars, audited, ran>>

\* All keys are handed out, or the context is done: the channel is closed.
FeederEnds ==
    /\ Parallel /\ jobsOpen
    /\ next > NumKeys \/ ctxDone
    /\ jobsOpen' = FALSE
    /\ UNCHANGED <<sequential, phase, ctxDone, next, worker, task, held, results, reportVars, audited, ran>>

SourceReturns(w, report) ==
    /\ Parallel /\ worker[w] \in {"running", "doomed"}
    /\ worker[w] = "doomed" => report = Canceled
    /\ worker' = [worker EXCEPT ![w] = "sending"]
    /\ held' = [held EXCEPT ![w] = report]
    /\ ran' = [ran EXCEPT ![task[w]] = report]
    /\ UNCHANGED <<sequential, phase, ctxDone, next, jobsOpen, task, results, reportVars, audited>>

SendResult(w) ==
    /\ Parallel /\ worker[w] = "sending" /\ Len(results) < Concurrency
    /\ results' = Append(results, [index |-> task[w], report |-> held[w]])
    /\ worker' = [worker EXCEPT ![w] = "waiting"]
    /\ held' = [held EXCEPT ![w] = NoReport]
    /\ task' = [task EXCEPT ![w] = 0]
    /\ UNCHANGED <<sequential, phase, ctxDone, next, jobsOpen, reportVars, audited, ran>>

\* Under a dead context a worker may drop its result and leave.
DropResult(w) ==
    /\ Parallel /\ worker[w] = "sending" /\ ctxDone
    /\ worker' = [worker EXCEPT ![w] = "gone"]
    /\ held' = [held EXCEPT ![w] = NoReport]
    /\ task' = [task EXCEPT ![w] = 0]
    /\ UNCHANGED <<sequential, phase, ctxDone, next, jobsOpen, results, reportVars, audited, ran>>

WorkerLeaves(w) ==
    /\ Parallel /\ worker[w] = "waiting" /\ ~jobsOpen
    /\ worker' = [worker EXCEPT ![w] = "gone"]
    /\ UNCHANGED <<sequential, phase, ctxDone, next, jobsOpen, task, held, results, reportVars, audited, ran>>

(***************************************************************************)
(* runJob collects                                                         *)
(***************************************************************************)

Collecting == ~sequential /\ phase = "running"

\* Mutant: the reports are kept in the order they arrive.
CollectAsTheyCome ==
    /\ Collecting /\ results # <<>>
    /\ Account(completed + 1, Head(results).report)
    /\ results' = Tail(results)
    /\ UNCHANGED <<sequential, phase, ctxDone, workerVars, audited, ran>>

Collect ==
    /\ Collecting /\ results # <<>>
    /\ Account(Head(results).index, Head(results).report)
    /\ results' = Tail(results)
    /\ UNCHANGED <<sequential, phase, ctxDone, workerVars, audited, ran>>

Missing == {i \in Sources : ordered[i] = NoReport}

\* Mutant: sources without a report are filled in and the verdict stays.
FillMissingQuietly ==
    /\ Collecting /\ results = <<>> /\ \A w \in Workers : worker[w] = "gone"
    /\ ordered' = [i \in Sources |-> IF i \in Missing THEN Canceled ELSE ordered[i]]
    /\ completed' = completed + Cardinality(Missing)
    /\ phase' = IF status = "failed" THEN "returned" ELSE "audit"
    /\ UNCHANGED <<sequential, ctxDone, workerVars, results, status, rows, audited, ran>>

\* Every worker is gone and the channel drained: what has no report was
\* cancelled.  A failed job returns here, before the audit.
FillMissing ==
    /\ Collecting /\ results = <<>> /\ \A w \in Workers : worker[w] = "gone"
    /\ ordered' = [i \in Sources |-> IF i \in Missing THEN Canceled ELSE ordered[i]]
    /\ completed' = completed + Cardinality(Missing)
    /\ status' = IF Missing # {} THEN "failed" ELSE status
    /\ phase' = IF status' = "failed" THEN "returned" ELSE "audit"
    /\ UNCHANGED <<sequential, ctxDone, workerVars, results, rows, audited, ran>>

\* The audit, which a dead context forestalls and whose failure is logged.
Audit ==
    /\ phase = "audit"
    /\ audited' = (AuditEnabled /\ ~ctxDone)
    /\ phase' = "returned"
    /\ UNCHANGED <<sequential, ctxDone, workerVars, results, reportVars, ran>>

WorkerStep(w) ==
    \/ \E report \in Reports : SourceReturns(w, report)
    \/ SendResult(w) \/ DropResult(w) \/ WorkerLeaves(w)

JobStep ==
    \/ Resolve
    \/ \E report \in Reports : RunInOrder(report)
    \/ AllInOrder \/ Collect \/ FillMissing \/ Audit

FeederStep == FeederEnds \/ \E w \in Workers : Hand(w)

JobNext == ContextEnds \/ JobStep \/ FeederStep \/ \E w \in Workers : WorkerStep(w)

JobSpec == JobInit /\ [][JobNext]_jobVars

\* Goroutines are scheduled, and every Sync returns (its time-out ends it).
JobFairSpec ==
    /\ JobSpec
    /\ WF_jobVars(JobStep) /\ WF_jobVars(FeederStep)
    /\ \A w \in Workers : WF_jobVars(WorkerStep(w))

(***************************************************************************)
(* Properties                                                              *)
(***************************************************************************)

Finished == phase \in {"audit", "returned"}

TypeWorkers ==
    /\ worker \in [Workers -> {"waiting", "running", "doomed", "sending", "gone"}]
    /\ task \in [Workers -> 0..NumKeys]
    /\ held \in [Workers -> Reports \cup {NoReport}]

TypeResults ==
    /\ results \in Seq([index : Sources, report : Reports])
    /\ Len(results) <= Concurrency

TypeReports ==
    /\ ordered \in [Sources -> Reports \cup {NoReport}]
    /\ ran \in [Sources -> Reports \cup {NoReport}]
    /\ status \in {"success", "failed"}
    /\ rows \in Nat /\ completed \in Nat

\* Every variable keeps its type; the channel of results never holds more
\* than it was made for.
JobTypeOK ==
    /\ phase \in {"resolve", "unresolved", "running", "audit", "returned"}
    /\ sequential \in BOOLEAN /\ ctxDone \in BOOLEAN /\ jobsOpen \in BOOLEAN /\ audited \in BOOLEAN
    /\ next \in 1..(NumKeys + 1)
    /\ TypeWorkers /\ TypeResults /\ TypeReports

\* The report of every source is at its own place and is what its run
\* returned, whatever order the workers finish in; only a dead context lets
\* a source be reported as cancelled instead.
ReportsAreTrue ==
    Finished => \A i \in Sources : \/ ordered[i] = ran[i] /\ ran[i] # NoReport
                                   \/ ordered[i] = Canceled /\ ctxDone

\* The job's verdict: a success means that every source ran and none failed,
\* a failure that some source is reported as failed.
VerdictIsRight ==
    Finished =>
        (status = "success" <=>
            \A i \in Sources : ran[i] # NoReport /\ ordered[i] = ran[i] /\ ran[i].status # "failed")

JobOver ==
    \/ phase = "unresolved"
    \/ /\ phase = "returned"
       /\ sequential \/ (~jobsOpen /\ \A w \in Workers : worker[w] = "gone")

\* The job returns and leaves no goroutine behind, whenever its context ends.
JobEnds == <>JobOver
=============================================================================
