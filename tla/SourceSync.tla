----------------------------- MODULE SourceSync -----------------------------
(***************************************************************************)
(* One source of a sync job and its row in import_ledger, as several runs  *)
(* of the data sync pipeline work on it (runSource and ClearStaleLocks in  *)
(* internal/syncpipeline, Repository in internal/importledger).            *)
(*                                                                         *)
(* The ledger is a ReplacingMergeTree: of all rows inserted under a key    *)
(* the one with the highest version stays, and a row's version is the      *)
(* instant its writer read from the clock before it sent it.  Every        *)
(* reading of the clock is an instant of its own.  Queries and inserts are *)
(* separate calls to the database: each may fail, and an insert may be     *)
(* applied although its caller sees a failure.  A time-out of the source   *)
(* is one of those failures.                                               *)
(***************************************************************************)
EXTENDS Naturals

CONSTANTS
    Runners,      \* processes that sync this source with the same scope
    Forcers,      \* those run with --force
    Unlockers,    \* those run with --force-unlock
    Nobody,       \* no runner
    TTL,          \* time to live of a pending row
    MaxAttempts,  \* DBRetry.MaxAttempts
    LastTick,     \* bound: until when time passes by itself
    MaxTime,      \* bound: the last instant of the clock
    MaxRuns,      \* bound: runs of each runner
    DbMayFail,    \* a call to the database may fail
    MayCrash      \* a runner may be killed

ASSUME SyncConstants ==
    /\ Forcers \subseteq Runners /\ Unlockers \subseteq Runners /\ Nobody \notin Runners
    /\ TTL \in Nat \ {0} /\ MaxAttempts \in Nat \ {0}
    /\ LastTick \in Nat /\ MaxTime \in Nat \ {0} /\ LastTick <= MaxTime
    /\ MaxRuns \in Nat
    /\ DbMayFail \in BOOLEAN /\ MayCrash \in BOOLEAN

Times == 0..MaxTime
Verdicts == {"success", "failed"}
Rows == [status : {"pending"} \cup Verdicts, version : Times, owner : Runners \cup {Nobody}]
NoRow == [status |-> "none", version |-> 0, owner |-> Nobody]
Control == {"idle", "stale", "unlock", "mark", "resolve", "check", "start", "read", "insert", "syncing", "record"}

VARIABLES
    clock,
    ledger,    \* the row of this source and scope, or NoRow
    pc,        \* control of each runner
    runs,      \* runs begun by each runner
    attempts,  \* attempts made at the current database operation
    stamp,     \* startedAt or completedAt of the row being written
    mine,      \* version of the pending row this run inserted
    verdict,   \* what Sync returned
    report,    \* status in the SourceReport of the last run ("recent": skipped as such)
    written,   \* the tables hold rows of a day a runner may find recent
    synced,    \* history: Sync has returned without an error
    abandoned  \* history: versions of the pending rows nobody will complete

runnerVars == <<pc, runs, attempts, stamp, mine, verdict, report>>
vars == <<clock, ledger, runnerVars, written, synced, abandoned>>

Init ==
    /\ clock = 1
    /\ ledger = NoRow
    /\ pc = [r \in Runners |-> "idle"]
    /\ runs = [r \in Runners |-> 0]
    /\ attempts = [r \in Runners |-> 0]
    /\ stamp = [r \in Runners |-> 0]
    /\ mine = [r \in Runners |-> 0]
    /\ verdict = [r \in Runners |-> "failed"]
    /\ report = [r \in Runners |-> "none"]
    /\ written \in BOOLEAN
    /\ synced = FALSE
    /\ abandoned = {}

(***************************************************************************)
(* The ledger                                                              *)
(***************************************************************************)

\* What FINAL shows after an insert: the highest version, the newer insert
\* among equals.
Merged(row) == IF row.version >= ledger.version THEN row ELSE ledger

Row(r, status) == [status |-> status, version |-> stamp[r], owner |-> r]

\* pendingIsActive for a request made at instant t.
PendingIsActive(t) == ledger.status = "pending" /\ ledger.version + TTL > t

\* A reading of the clock that goes into stamp[r].
Stamp(r) ==
    /\ clock < MaxTime
    /\ stamp' = [stamp EXCEPT ![r] = clock]
    /\ clock' = clock + 1

\* The run ends with the given status in its report; its locals are gone.
Ends(r, status) ==
    /\ pc' = [pc EXCEPT ![r] = "idle"]
    /\ report' = [report EXCEPT ![r] = status]
    /\ attempts' = [attempts EXCEPT ![r] = 0]
    /\ stamp' = [stamp EXCEPT ![r] = 0]
    /\ mine' = [mine EXCEPT ![r] = 0]
    /\ verdict' = [verdict EXCEPT ![r] = "failed"]

\* A transient failure is retried from the given step, until the attempts
\* are used up.
RetryFrom(r, step) ==
    /\ attempts[r] + 1 < MaxAttempts
    /\ attempts' = [attempts EXCEPT ![r] = @ + 1]
    /\ pc' = [pc EXCEPT ![r] = step]

(***************************************************************************)
(* ClearStaleLocks, which --force-unlock runs first                        *)
(***************************************************************************)

Begin(r) ==
    /\ pc[r] = "idle" /\ runs[r] < MaxRuns
    /\ runs' = [runs EXCEPT ![r] = @ + 1]
    /\ pc' = [pc EXCEPT ![r] = IF r \in Unlockers THEN "stale" ELSE "resolve"]
    /\ report' = [report EXCEPT ![r] = "none"]
    /\ UNCHANGED <<clock, ledger, attempts, stamp, mine, verdict, written, synced, abandoned>>

\* The pending rows older than the TTL are read ...
FindStale(r) ==
    /\ pc[r] = "stale"
    /\ pc' = [pc EXCEPT ![r] =
                IF ledger.status = "pending" /\ ledger.version + TTL < clock
                THEN "unlock" ELSE "resolve"]
    /\ UNCHANGED <<clock, ledger, runs, attempts, stamp, mine, verdict, report, written, synced, abandoned>>

\* ... and afterwards marked failed, each attempt with an instant of its own.
StampUnlock(r) ==
    /\ pc[r] = "unlock"
    /\ Stamp(r)
    /\ pc' = [pc EXCEPT ![r] = "mark"]
    /\ UNCHANGED <<ledger, runs, attempts, mine, verdict, report, written, synced, abandoned>>

Unlocked(r) == [status |-> "failed", version |-> stamp[r], owner |-> Nobody]

MarkStale(r) ==
    /\ pc[r] = "mark"
    /\ ledger' = Merged(Unlocked(r))
    /\ pc' = [pc EXCEPT ![r] = "resolve"]
    /\ attempts' = [attempts EXCEPT ![r] = 0]
    /\ stamp' = [stamp EXCEPT ![r] = 0]
    /\ UNCHANGED <<clock, runs, mine, verdict, report, written, synced, abandoned>>

\* The mark fails for its caller, applied or not: it is tried again with a
\* later instant, or the whole run ends with the error.
MarkStaleFails(r, applied) ==
    /\ DbMayFail /\ pc[r] = "mark"
    /\ ledger' = IF applied THEN Merged(Unlocked(r)) ELSE ledger
    /\ \/ RetryFrom(r, "unlock") /\ UNCHANGED <<stamp, mine, verdict, report>>
       \/ Ends(r, "failed")
    /\ UNCHANGED <<clock, runs, written, synced, abandoned>>

(***************************************************************************)
(* runSource                                                               *)
(***************************************************************************)

\* resolveWindow: without --force and without --from or --to, a cursor found
\* recent at the runner's start ends the run, before the ledger is asked.  The
\* cursor is read off the tables.  A window that would end before it starts is
\* an error; in every other case there is a window to work on.
ResolveWindow(r) ==
    /\ pc[r] = "resolve"
    /\ \/ written /\ r \notin Forcers /\ Ends(r, "recent")
       \/ Ends(r, "failed")
       \/ pc' = [pc EXCEPT ![r] = "check"] /\ UNCHANGED <<report, attempts, stamp, mine, verdict>>
    /\ UNCHANGED <<clock, ledger, runs, written, synced, abandoned>>

\* AlreadySucceeded, unless --force.
Check(r) ==
    /\ pc[r] = "check"
    /\ IF r \notin Forcers /\ ledger.status = "success"
       THEN Ends(r, "skipped")
       ELSE pc' = [pc EXCEPT ![r] = "start"] /\ UNCHANGED <<report, attempts, stamp, mine, verdict>>
    /\ UNCHANGED <<clock, ledger, runs, written, synced, abandoned>>

\* Repository.Start: startedAt is read for each attempt of its own ...
StampStart(r) ==
    /\ pc[r] = "start"
    /\ Stamp(r)
    /\ pc' = [pc EXCEPT ![r] = IF r \in Unlockers THEN "insert" ELSE "read"]
    /\ UNCHANGED <<ledger, runs, attempts, mine, verdict, report, written, synced, abandoned>>

\* ... the latest row must not be an active lock (ErrImportAlreadyRunning is
\* not transient) ...
ReadLatest(r) ==
    /\ pc[r] = "read"
    /\ IF PendingIsActive(stamp[r])
       THEN Ends(r, "failed")
       ELSE pc' = [pc EXCEPT ![r] = "insert"] /\ UNCHANGED <<report, attempts, stamp, mine, verdict>>
    /\ UNCHANGED <<clock, ledger, runs, written, synced, abandoned>>

\* ... and the pending row is inserted, by a second call.
InsertPending(r) ==
    /\ pc[r] = "insert"
    /\ ledger' = Merged(Row(r, "pending"))
    /\ mine' = [mine EXCEPT ![r] = stamp[r]]
    /\ attempts' = [attempts EXCEPT ![r] = 0]
    /\ pc' = [pc EXCEPT ![r] = "syncing"]
    /\ UNCHANGED <<clock, runs, stamp, verdict, report, written, synced, abandoned>>

\* The insert fails for its caller, who starts over or gives up; if it was
\* applied all the same the row it left is a lock nobody holds.
InsertPendingFails(r, applied) ==
    /\ DbMayFail /\ pc[r] = "insert"
    /\ ledger' = IF applied THEN Merged(Row(r, "pending")) ELSE ledger
    /\ abandoned' = IF applied THEN abandoned \cup {stamp[r]} ELSE abandoned
    /\ \/ RetryFrom(r, "start") /\ UNCHANGED <<stamp, mine, verdict, report>>
       \/ Ends(r, "failed")
    /\ UNCHANGED <<clock, runs, written, synced>>

\* Sync inserts rows of the last day of its window; it may fail afterwards,
\* or be killed.
SyncWrites(r) ==
    /\ pc[r] = "syncing" /\ ~written
    /\ written' = TRUE
    /\ UNCHANGED <<clock, ledger, runnerVars, synced, abandoned>>

\* Mutant: whatever Sync returns is recorded as a success.
SyncReturnsLoosely(r, v) ==
    /\ pc[r] = "syncing"
    /\ Stamp(r)
    /\ verdict' = [verdict EXCEPT ![r] = "success"]
    /\ synced' = (synced \/ v = "success")
    /\ pc' = [pc EXCEPT ![r] = "record"]
    /\ UNCHANGED <<ledger, runs, attempts, mine, report, written, abandoned>>

\* Syncer.Sync returns; completedAt is read before the first attempt to
\* record what it returned.
SyncReturns(r, v) ==
    /\ pc[r] = "syncing"
    /\ Stamp(r)
    /\ verdict' = [verdict EXCEPT ![r] = v]
    /\ synced' = (synced \/ v = "success")
    /\ pc' = [pc EXCEPT ![r] = "record"]
    /\ UNCHANGED <<ledger, runs, attempts, mine, report, written, abandoned>>

\* Mutant: a failed Sync is reported and leaves its pending row behind.
RecordSuccessOnly(r) ==
    /\ pc[r] = "record"
    /\ ledger' = IF verdict[r] = "success" THEN Merged(Row(r, verdict[r])) ELSE ledger
    /\ Ends(r, verdict[r])
    /\ UNCHANGED <<clock, runs, written, synced, abandoned>>

\* MarkSuccess, or RecordFailure under a context of its own.
Record(r) ==
    /\ pc[r] = "record"
    /\ ledger' = Merged(Row(r, verdict[r]))
    /\ Ends(r, verdict[r])
    /\ UNCHANGED <<clock, runs, written, synced, abandoned>>

\* Recording fails for its caller, who tries again or reports a failure; if
\* nothing was applied the pending row stays.  completedAt is read again for
\* each attempt at MarkSuccess, but only once for those of RecordFailure.
RecordFails(r, applied) ==
    /\ DbMayFail /\ pc[r] = "record"
    /\ ledger' = IF applied THEN Merged(Row(r, verdict[r])) ELSE ledger
    /\ \/ /\ RetryFrom(r, "record")
          /\ IF verdict[r] = "success" THEN Stamp(r) ELSE UNCHANGED <<clock, stamp>>
          /\ UNCHANGED <<mine, verdict, report, abandoned>>
       \/ /\ Ends(r, "failed")
          /\ abandoned' = abandoned \cup {mine[r]}
          /\ UNCHANGED clock
    /\ UNCHANGED <<runs, written, synced>>

\* A query before the pending row fails for good: nothing is left behind.
\* (One that is tried again and answers has only taken time.)
QueryFails(r) ==
    /\ DbMayFail /\ pc[r] \in {"stale", "resolve", "check", "read"}
    /\ Ends(r, "failed")
    /\ UNCHANGED <<clock, ledger, runs, written, synced, abandoned>>

(***************************************************************************)
(* Environment                                                             *)
(***************************************************************************)

Crash(r) ==
    /\ MayCrash /\ pc[r] # "idle"
    /\ Ends(r, "crashed")
    /\ abandoned' = IF pc[r] \in {"syncing", "record"} THEN abandoned \cup {mine[r]} ELSE abandoned
    /\ UNCHANGED <<clock, ledger, runs, written, synced>>

Tick ==
    /\ clock < LastTick
    /\ clock' = clock + 1
    /\ UNCHANGED <<ledger, runnerVars, written, synced, abandoned>>

RunnerStep(r) ==
    \/ FindStale(r) \/ StampUnlock(r) \/ MarkStale(r)
    \/ ResolveWindow(r) \/ Check(r) \/ StampStart(r) \/ ReadLatest(r) \/ InsertPending(r)
    \/ \E v \in Verdicts : SyncReturns(r, v)
    \/ Record(r)

RunnerFails(r) ==
    \/ \E applied \in BOOLEAN : MarkStaleFails(r, applied) \/ InsertPendingFails(r, applied)
                               \/ RecordFails(r, applied)
    \/ QueryFails(r)

Next ==
    \/ \E r \in Runners : Begin(r) \/ RunnerStep(r) \/ SyncWrites(r) \/ RunnerFails(r) \/ Crash(r)
    \/ Tick

Spec == Init /\ [][Next]_vars

\* A runner that lives goes on: its queries return and so does its Sync,
\* which the source's time-out bounds.
FairSpec == Spec /\ \A r \in Runners : WF_vars(RunnerStep(r))

(***************************************************************************)
(* Properties                                                              *)
(***************************************************************************)

TypeRunners ==
    /\ pc \in [Runners -> Control]
    /\ runs \in [Runners -> 0..MaxRuns]
    /\ attempts \in [Runners -> 0..(MaxAttempts - 1)]
    /\ stamp \in [Runners -> Times]
    /\ mine \in [Runners -> Times]
    /\ verdict \in [Runners -> Verdicts]
    /\ report \in [Runners -> Verdicts \cup {"none", "recent", "skipped", "crashed"}]

\* Every variable keeps its type: the row, the locals of every run, the
\* attempts within DBRetry.MaxAttempts.
TypeOK ==
    /\ clock \in Times
    /\ ledger \in Rows \cup {NoRow}
    /\ TypeRunners
    /\ written \in BOOLEAN
    /\ synced \in BOOLEAN
    /\ abandoned \in SUBSET Times

\* The ledger says success, and a run reports success or is skipped because
\* the ledger says so, only when some Sync of this source and scope has gone
\* through: completions of racing runs, retries and forced unlocks never make
\* one up.  A run that finds its cursor recent asks no ledger: behind it there
\* are rows in the tables, put there perhaps by a Sync that failed later.
SuccessIsEarned ==
    /\ ledger.status = "success" => synced
    /\ \A r \in Runners :
          /\ report[r] \in {"success", "skipped"} => synced
          /\ report[r] = "recent" => written

Working(r) == pc[r] \in {"syncing", "record"}

\* A pending row belongs to a run that is still at work and will complete it,
\* or to one that crashed or could not reach the database.  A run that loses
\* every race of inserts still ends with a row newer than its own lock.
LocksHaveHolders ==
    ledger.status = "pending" =>
        \/ ledger.version \in abandoned
        \/ Working(ledger.owner) /\ mine[ledger.owner] = ledger.version

\* A lock whose run neither crashes nor loses the database is released.
LocksAreReleased ==
    ledger.status = "pending" ~> ledger.status # "pending" \/ ledger.version \in abandoned

(***************************************************************************)
(* What the documentation says                                             *)
(***************************************************************************)

\* docs/agent-operations.zh-TW.md:119: the ledger prevents re-entry.
NoReentry == \A r, s \in Runners : pc[r] = "syncing" /\ pc[s] = "syncing" => r = s
=============================================================================
