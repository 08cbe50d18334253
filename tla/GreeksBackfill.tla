--------------------------- MODULE GreeksBackfill ---------------------------
(***************************************************************************)
(* The recalculation of missing option greeks (BackfillMissingOptionGreeks *)
(* of internal/usmarket/greeks_backfill.go): a pool of fillers takes a     *)
(* task at a time, the bars of one underlying and day that lack greeks,    *)
(* deletes them, inserts them with greeks and, when that fails, inserts    *)
(* what it deleted; at the end the aggregates are rebuilt, if the caller   *)
(* asks for that.  The table of bars is a plain MergeTree, which keeps     *)
(* whatever is inserted; what is inserted goes into the aggregates as well *)
(* (materialized views), what is deleted stays in them.                    *)
(*                                                                         *)
(* The importer of flat files, the job polygon_us_greeks and a tool of its *)
(* own call it, and nothing keeps two of them apart.  Any call may fail,   *)
(* applied or not; a signal cancels the context, under which every later   *)
(* call fails; the process may be killed.                                  *)
(***************************************************************************)
EXTENDS Naturals, FiniteSetsExt

CONSTANTS
    Backfills,    \* calls of BackfillMissingOptionGreeks, by one process each
    FillersOf,    \* the cfg.Workers of each
    NumTasks,     \* underlyings and days with missing greeks
    NumChunks,    \* a task's rows: each chunk is what one delete and one batch covers
    Prices,       \* what may have a stock price: sets of <<task, chunk>>
    MaxBreaks,    \* bound: failing calls and signals
    FillersMayDie \* the process may be killed

ASSUME GreeksConstants ==
    /\ \A b \in Backfills : IsFiniteSet(FillersOf[b])
    /\ NumTasks \in Nat /\ NumChunks \in Nat \ {0}
    /\ Prices \subseteq SUBSET ((1..NumTasks) \X (1..NumChunks))
    /\ MaxBreaks \in Nat /\ FillersMayDie \in BOOLEAN

GreekTasks == 1..NumTasks
Chunks == 1..NumChunks
Derived == {"klines", "chains"}  \* the aggregates, rebuilt in this order

Pool == UNION {{b} \X FillersOf[b] : b \in Backfills}

VARIABLES
    priced,      \* rows with a price of their underlying, so with greeks to be had
    optionRows,  \* copies of each chunk in us_options_bar_1m, without and with greeks
    derived,     \* copies that went into each aggregate
    mode,        \* where each backfill is
    dryRun, toFeed, anyFailed, backfilled, rebuildAsked, toRebuild, cleared,  \* its locals
    filler,      \* its fillers
    interrupted, \* its context is cancelled
    breaks,
    \* History
    spoiled,     \* tasks a break, or two fillers at once, may have left in disorder
    restored,    \* tasks with "original rows restored"
    alone,       \* backfills at whose end no other was at work, nor since
    connected    \* backfills of which a filler got a connection

tables == <<optionRows, derived>>
backfillLocals == <<dryRun, toFeed, anyFailed, backfilled, rebuildAsked, toRebuild, cleared>>
greeksHistory == <<spoiled, restored, alone, connected>>
greeksVars == <<priced, tables, mode, backfillLocals, filler, interrupted, breaks, greeksHistory>>

NoTask == 0
AtRest(step) == [step |-> step, task |-> NoTask, loaded |-> [c \in Chunks |-> 0], left |-> {}]
NoCopies == [t \in GreekTasks |-> [c \in Chunks |-> [missing |-> 0, filled |-> 0]]]
AllMissing == [t \in GreekTasks |-> [c \in Chunks |-> [missing |-> 1, filled |-> 0]]]

GreeksInit ==
    /\ priced \in Prices
    /\ optionRows = AllMissing
    /\ derived = [a \in Derived |-> AllMissing]
    /\ mode = [b \in Backfills |-> "idle"]
    /\ dryRun = [b \in Backfills |-> FALSE]
    /\ toFeed = [b \in Backfills |-> {}]
    /\ anyFailed = [b \in Backfills |-> FALSE]
    /\ backfilled = [b \in Backfills |-> FALSE]
    /\ rebuildAsked = [b \in Backfills |-> FALSE]
    /\ toRebuild = [b \in Backfills |-> {}]
    /\ cleared = [b \in Backfills |-> FALSE]
    /\ filler = [b \in Backfills |-> [f \in FillersOf[b] |-> AtRest("left")]]
    /\ interrupted = [b \in Backfills |-> FALSE]
    /\ breaks = 0
    /\ spoiled = {} /\ restored = {} /\ alone = {} /\ connected = {}

BackfillOver(b) == mode[b] \in {"done", "failed", "dead"}
OthersAtWork(b) == \E other \in Backfills \ {b} : mode[other] # "idle" /\ ~BackfillOver(other)

\* A call of b gets through, or breaks: once its context is cancelled every call does.
Works(b) == ~interrupted[b] /\ UNCHANGED <<interrupted, breaks>>
Breaks(b) ==
    /\ interrupted[b] \/ breaks < MaxBreaks
    /\ breaks' = IF interrupted[b] THEN breaks ELSE breaks + 1
    /\ UNCHANGED interrupted

BackfillGoesOn(b, to) == mode' = [mode EXCEPT ![b] = to]

\* ListMissingOptionGreeksTasks
TasksMissing == {t \in GreekTasks : \E c \in Chunks : optionRows[t][c].missing > 0}

(***************************************************************************)
(* The call: list the tasks, start the fillers, feed them, wait for them   *)
(***************************************************************************)

StartBackfill(b, dry) ==
    /\ mode[b] = "idle" /\ Works(b)
    /\ dryRun' = [dryRun EXCEPT ![b] = dry]
    /\ toFeed' = [toFeed EXCEPT ![b] = TasksMissing]
    /\ IF TasksMissing = {}
       THEN BackfillGoesOn(b, "done") /\ UNCHANGED filler
       ELSE BackfillGoesOn(b, "feed") /\ filler' = [filler EXCEPT ![b] = [f \in FillersOf[b] |-> AtRest("connect")]]
    /\ alone' = {}
    /\ UNCHANGED <<priced, tables, anyFailed, backfilled, rebuildAsked, toRebuild, cleared, spoiled, restored, connected>>

\* The fillers take tasks from an unbuffered channel, which is closed after the last.
HandTask(b, f) ==
    /\ mode[b] = "feed" /\ toFeed[b] # {} /\ filler[b][f].step = "wait"
    /\ filler' = [filler EXCEPT ![b][f].step = "load", ![b][f].task = Min(toFeed[b])]
    /\ toFeed' = [toFeed EXCEPT ![b] = @ \ {Min(@)}]
    /\ UNCHANGED <<priced, tables, mode, dryRun, rebuildAsked, anyFailed, backfilled, toRebuild, cleared,
                   interrupted, breaks, greeksHistory>>

CloseTasks(b) ==
    /\ mode[b] = "feed" /\ toFeed[b] = {}
    /\ BackfillGoesOn(b, "drain")
    /\ UNCHANGED <<priced, tables, backfillLocals, filler, interrupted, breaks, greeksHistory>>

AllLeft(b) == \A f \in FillersOf[b] : filler[b][f].step = "left"

\* Mutant: the aggregates wait for the last missing row.
RebuildsComplete(b, rebuild) == ~dryRun[b] /\ rebuild /\ backfilled[b] /\ TasksMissing = {}

Rebuilds(b, rebuild) == ~dryRun[b] /\ rebuild /\ backfilled[b]

\* The fillers are done, the tasks are counted once more.  Whether the caller
\* asked for a rebuild (cfg.RebuildAggregates) is chosen here, where it is read.
Recheck(b, rebuild) ==
    /\ mode[b] = "drain" /\ AllLeft(b) /\ Works(b)
    /\ IF ~anyFailed[b] /\ Rebuilds(b, rebuild)
       THEN BackfillGoesOn(b, "rebuild") /\ toRebuild' = [toRebuild EXCEPT ![b] = Derived]
       ELSE BackfillGoesOn(b, IF anyFailed[b] THEN "failed" ELSE "done") /\ UNCHANGED toRebuild
    /\ rebuildAsked' = [rebuildAsked EXCEPT ![b] = rebuild]
    /\ alone' = IF OthersAtWork(b) THEN alone ELSE alone \cup {b}
    /\ UNCHANGED <<priced, tables, dryRun, toFeed, anyFailed, backfilled, cleared, filler, spoiled, restored, connected>>

\* A call of the backfill itself fails.
CallBreaks(b) ==
    /\ mode[b] = "idle" \/ (mode[b] = "drain" /\ AllLeft(b))
    /\ Breaks(b) /\ BackfillGoesOn(b, "failed")
    /\ UNCHANGED <<priced, tables, backfillLocals, filler, greeksHistory>>

(***************************************************************************)
(* RebuildOptionKlineAggregates and RebuildOptionChainCaches: a table is   *)
(* truncated, then filled from the bars.                                   *)
(***************************************************************************)

Rebuilding(b) == IF "klines" \in toRebuild[b] THEN "klines" ELSE "chains"

Plus(x, y) ==
    [t \in GreekTasks |-> [c \in Chunks |-> [missing |-> x[t][c].missing + y[t][c].missing,
                                             filled |-> x[t][c].filled + y[t][c].filled]]]

Truncated(b) == [derived EXCEPT ![Rebuilding(b)] = NoCopies]
Reinserted(b) == [derived EXCEPT ![Rebuilding(b)] = Plus(@, optionRows)]

TruncateDerived(b) ==
    /\ mode[b] = "rebuild" /\ ~cleared[b] /\ Works(b)
    /\ derived' = Truncated(b)
    /\ cleared' = [cleared EXCEPT ![b] = TRUE]
    /\ UNCHANGED <<priced, optionRows, mode, dryRun, rebuildAsked, toFeed, anyFailed, backfilled, toRebuild, filler, greeksHistory>>

ReinsertDerived(b) ==
    /\ mode[b] = "rebuild" /\ cleared[b] /\ Works(b)
    /\ derived' = Reinserted(b)
    /\ cleared' = [cleared EXCEPT ![b] = FALSE]
    /\ toRebuild' = [toRebuild EXCEPT ![b] = @ \ {Rebuilding(b)}]
    /\ mode' = IF Cardinality(toRebuild[b]) = 1 THEN [mode EXCEPT ![b] = "done"] ELSE mode
    /\ UNCHANGED <<priced, optionRows, dryRun, rebuildAsked, toFeed, anyFailed, backfilled, filler, greeksHistory>>

RebuildBreaks(b) ==
    /\ mode[b] = "rebuild" /\ Breaks(b)
    /\ derived' \in {derived, IF cleared[b] THEN Reinserted(b) ELSE Truncated(b)}
    /\ BackfillGoesOn(b, "failed")
    /\ UNCHANGED <<priced, optionRows, backfillLocals, filler, greeksHistory>>

(***************************************************************************)
(* A filler: BackfillOptionGreeksFromLocalData for each task it gets       *)
(***************************************************************************)

Connect(b, f) ==
    /\ filler[b][f].step = "connect" /\ Works(b)
    /\ filler' = [filler EXCEPT ![b][f].step = "wait"]
    /\ connected' = connected \cup {b}
    /\ UNCHANGED <<priced, tables, mode, backfillLocals, spoiled, restored, alone>>

ConnectBreaks(b, f) ==
    /\ filler[b][f].step = "connect" /\ Breaks(b)
    /\ filler' = [filler EXCEPT ![b][f].step = "left"]
    /\ anyFailed' = [anyFailed EXCEPT ![b] = TRUE]
    /\ UNCHANGED <<priced, tables, mode, dryRun, rebuildAsked, toFeed, backfilled, toRebuild, cleared, greeksHistory>>

FillerLeaves(b, f) ==
    /\ filler[b][f].step = "wait" /\ mode[b] # "feed"
    /\ filler' = [filler EXCEPT ![b][f].step = "left"]
    /\ UNCHANGED <<priced, tables, mode, backfillLocals, interrupted, breaks, greeksHistory>>

\* The filler is through with its task, as it should be or with an error.
TaskDone(b, f) == filler' = [filler EXCEPT ![b][f] = AtRest("wait")]
TaskFails(b, f) == TaskDone(b, f) /\ anyFailed' = [anyFailed EXCEPT ![b] = TRUE]

\* Fillers with rows of t that they delete or write.
HaveLoaded(t) ==
    {x \in Pool : filler[x[1]][x[2]].task = t /\ filler[x[1]][x[2]].step \in {"delete", "insert", "restore"}}

\* LoadOptionBarsNeedingBackfill, and ApplyCalculatedGreeks of what has a price.
Loaded(t) == [c \in Chunks |-> IF <<t, c>> \in priced THEN optionRows[t][c].missing ELSE 0]
ChunksOf(loaded) == {c \in Chunks : loaded[c] > 0}

LoadRows(b, f) ==
    LET t == filler[b][f].task IN
    /\ filler[b][f].step = "load" /\ Works(b)
    /\ IF dryRun[b] \/ ChunksOf(Loaded(t)) = {}
       THEN TaskDone(b, f) /\ UNCHANGED spoiled
       ELSE /\ filler' = [filler EXCEPT ![b][f] = [step |-> "delete", task |-> t, loaded |-> Loaded(t), left |-> ChunksOf(Loaded(t))]]
            /\ spoiled' = IF HaveLoaded(t) = {} THEN spoiled ELSE spoiled \cup {t}
    /\ UNCHANGED <<priced, tables, mode, backfillLocals, restored, alone, connected>>

\* Mutant: a filler whose task fails returns.
LoadBreaksFiller(b, f) ==
    /\ filler[b][f].step = "load" /\ Breaks(b)
    /\ filler' = [filler EXCEPT ![b][f] = AtRest("left")]
    /\ anyFailed' = [anyFailed EXCEPT ![b] = TRUE]
    /\ UNCHANGED <<priced, tables, mode, dryRun, rebuildAsked, toFeed, backfilled, toRebuild, cleared, greeksHistory>>

LoadBreaks(b, f) ==
    /\ filler[b][f].step = "load" /\ Breaks(b)
    /\ TaskFails(b, f)
    /\ UNCHANGED <<priced, tables, mode, dryRun, rebuildAsked, toFeed, backfilled, toRebuild, cleared, greeksHistory>>

\* The chunk that b's filler f is at; its next one, or its next step.
ChunkAt(b, f) == Min(filler[b][f].left)
NextChunk(b, f, then) ==
    filler' = IF Cardinality(filler[b][f].left) > 1
              THEN [filler EXCEPT ![b][f].left = @ \ {ChunkAt(b, f)}]
              ELSE [filler EXCEPT ![b][f].step = then, ![b][f].left = ChunksOf(filler[b][f].loaded)]
LastChunk(b, f) == Cardinality(filler[b][f].left) = 1
FirstChunk(b, f) == filler[b][f].left = ChunksOf(filler[b][f].loaded)

\* deleteOptionBarRowChunk: of the rows it names, those without greeks.
Deleted(b, f) == [optionRows EXCEPT ![filler[b][f].task][ChunkAt(b, f)].missing = 0]

DeleteRows(b, f) ==
    /\ filler[b][f].step = "delete" /\ Works(b)
    /\ optionRows' = Deleted(b, f)
    /\ NextChunk(b, f, "insert")
    /\ UNCHANGED <<priced, derived, mode, backfillLocals, greeksHistory>>

\* The rows of chunks deleted before are not restored.
DeleteBreaks(b, f, applied) ==
    /\ filler[b][f].step = "delete" /\ Breaks(b)
    /\ optionRows' = IF applied THEN Deleted(b, f) ELSE optionRows
    /\ spoiled' = IF applied \/ ~FirstChunk(b, f) THEN spoiled \cup {filler[b][f].task} ELSE spoiled
    /\ TaskFails(b, f)
    /\ UNCHANGED <<priced, derived, mode, dryRun, rebuildAsked, toFeed, backfilled, toRebuild, cleared, restored, alone, connected>>

\* A batch of InsertOptionBars: kind is with greeks ("filled") or as they were.
InsertCopies(b, f, kind) ==
    LET t == filler[b][f].task  c == ChunkAt(b, f)  n == filler[b][f].loaded[c] IN
    IF kind = "filled"
    THEN /\ optionRows' = [optionRows EXCEPT ![t][c].filled = @ + n]
         /\ derived' = [a \in Derived |-> [derived[a] EXCEPT ![t][c].filled = @ + n]]
    ELSE /\ optionRows' = [optionRows EXCEPT ![t][c].missing = @ + n]
         /\ derived' = [a \in Derived |-> [derived[a] EXCEPT ![t][c].missing = @ + n]]

InsertFilled(b, f) ==
    /\ filler[b][f].step = "insert" /\ Works(b)
    /\ InsertCopies(b, f, "filled")
    /\ IF LastChunk(b, f)
       THEN TaskDone(b, f) /\ backfilled' = [backfilled EXCEPT ![b] = TRUE]
       ELSE NextChunk(b, f, "insert") /\ UNCHANGED backfilled
    /\ UNCHANGED <<priced, mode, dryRun, rebuildAsked, toFeed, anyFailed, toRebuild, cleared, greeksHistory>>

\* What was inserted of the new rows stays beside the restored ones.
InsertBreaks(b, f, applied) ==
    /\ filler[b][f].step = "insert" /\ Breaks(b)
    /\ IF applied THEN InsertCopies(b, f, "filled") ELSE UNCHANGED tables
    /\ spoiled' = IF applied \/ ~FirstChunk(b, f) THEN spoiled \cup {filler[b][f].task} ELSE spoiled
    /\ filler' = [filler EXCEPT ![b][f].step = "restore", ![b][f].left = ChunksOf(filler[b][f].loaded)]
    /\ UNCHANGED <<priced, mode, backfillLocals, restored, alone, connected>>

\* Mutant: the last batch of the restored rows is not sent.
RestoreAllButLast(b, f) ==
    /\ filler[b][f].step = "restore" /\ Works(b)
    /\ IF LastChunk(b, f)
       THEN /\ TaskFails(b, f)
            /\ restored' = restored \cup {filler[b][f].task}
            /\ UNCHANGED tables
       ELSE /\ NextChunk(b, f, "restore")
            /\ InsertCopies(b, f, "missing")
            /\ UNCHANGED <<anyFailed, restored>>
    /\ UNCHANGED <<priced, mode, dryRun, rebuildAsked, toFeed, backfilled, toRebuild, cleared, spoiled, alone, connected>>

RestoreRows(b, f) ==
    /\ filler[b][f].step = "restore" /\ Works(b)
    /\ InsertCopies(b, f, "missing")
    /\ IF LastChunk(b, f)
       THEN /\ TaskFails(b, f)
            /\ restored' = restored \cup {filler[b][f].task}
       ELSE NextChunk(b, f, "restore") /\ UNCHANGED <<anyFailed, restored>>
    /\ UNCHANGED <<priced, mode, dryRun, rebuildAsked, toFeed, backfilled, toRebuild, cleared, spoiled, alone, connected>>

RestoreBreaks(b, f, applied) ==
    /\ filler[b][f].step = "restore" /\ Breaks(b)
    /\ IF applied THEN InsertCopies(b, f, "missing") ELSE UNCHANGED tables
    /\ spoiled' = spoiled \cup {filler[b][f].task}
    /\ TaskFails(b, f)
    /\ UNCHANGED <<priced, mode, dryRun, rebuildAsked, toFeed, backfilled, toRebuild, cleared, restored, alone, connected>>

(***************************************************************************)
(* Signals and kills                                                       *)
(***************************************************************************)

Interrupt(b) ==
    /\ mode[b] # "idle" /\ ~BackfillOver(b) /\ ~interrupted[b] /\ breaks < MaxBreaks
    /\ interrupted' = [interrupted EXCEPT ![b] = TRUE]
    /\ breaks' = breaks + 1
    /\ UNCHANGED <<priced, tables, mode, backfillLocals, filler, greeksHistory>>

KillBackfill(b) ==
    /\ FillersMayDie /\ mode[b] # "idle" /\ ~BackfillOver(b)
    /\ BackfillGoesOn(b, "dead")
    /\ spoiled' = spoiled \cup {t \in GreekTasks : \E x \in HaveLoaded(t) : x[1] = b}
    /\ filler' = [filler EXCEPT ![b] = [f \in FillersOf[b] |-> AtRest("left")]]
    /\ UNCHANGED <<priced, tables, backfillLocals, interrupted, breaks, restored, alone, connected>>

FillerStep(b, f) ==
    \/ Connect(b, f) \/ ConnectBreaks(b, f) \/ HandTask(b, f) \/ FillerLeaves(b, f)
    \/ LoadRows(b, f) \/ LoadBreaks(b, f) \/ DeleteRows(b, f) \/ InsertFilled(b, f) \/ RestoreRows(b, f)
    \/ \E applied \in BOOLEAN : DeleteBreaks(b, f, applied) \/ InsertBreaks(b, f, applied) \/ RestoreBreaks(b, f, applied)

BackfillStep(b) ==
    \/ CloseTasks(b) \/ CallBreaks(b) \/ TruncateDerived(b) \/ ReinsertDerived(b) \/ RebuildBreaks(b)
    \/ \E rebuild \in BOOLEAN : Recheck(b, rebuild)

GreeksNext ==
    \E b \in Backfills :
        \/ \E dry \in BOOLEAN : StartBackfill(b, dry)
        \/ BackfillStep(b) \/ Interrupt(b) \/ KillBackfill(b)
        \/ \E f \in FillersOf[b] : FillerStep(b, f)

GreeksSpec == GreeksInit /\ [][GreeksNext]_greeksVars

(***************************************************************************)
(* Properties                                                              *)
(***************************************************************************)

\* Copies of a chunk that a filler has deleted and not written.
InHand(t, c) ==
    Cardinality({x \in HaveLoaded(t) :
        LET it == filler[x[1]][x[2]] IN
        c \in IF it.step = "delete" THEN ChunksOf(it.loaded) \ it.left ELSE it.left})

\* Every bar is in the table once, with or without its greeks, or in the hands
\* of the filler that replaces it: only a call that breaks after another was
\* applied, or two backfills with one task, loses or doubles rows.
EveryBarOnce ==
    \A t \in GreekTasks \ spoiled, c \in Chunks :
        optionRows[t][c].missing + optionRows[t][c].filled + InHand(t, c) = 1

\* A backfill that is to rebuild, filled rows and ends without an error leaves
\* aggregates that are those of the table, whatever earlier ones that broke or
\* did not rebuild had left in them, unless another was at work at its end or
\* since.
AggregatesFollow ==
    \A b \in alone :
        mode[b] = "done" /\ backfilled[b] /\ rebuildAsked[b] => \A a \in Derived : derived[a] = optionRows

\* The feeder, which nothing else can stop, is not left alone: once a filler
\* of its has been connected, one is there until the last task is handed out,
\* whatever fails.  (When none gets a connection the feeder waits for ever.)
FeederIsHeard ==
    \A b \in connected : mode[b] = "feed" => ~AllLeft(b)

(***************************************************************************)
(* What the code says                                                      *)
(***************************************************************************)

\* greeks_backfill.go:354 "(original rows restored)": then the task's bars are
\* in the table once each.
RestoredAsBefore ==
    \A t \in restored, c \in Chunks : optionRows[t][c].missing + optionRows[t][c].filled = 1
=============================================================================
