----------------------------- MODULE FileImport -----------------------------
(***************************************************************************)
(* The import of a flat file of the US market for one date (ImportOption-  *)
(* File and ImportStockFile of internal/usmarket/importer.go, with the     *)
(* ledger of internal/importledger): one importer at a time, in one of the *)
(* three modes its callers use.  A replacing import clears the date first; *)
(* a counting one (skipExisting) is refused when the date has rows; and an *)
(* appending one (--skip-existing=false) does not look, and adds its rows  *)
(* to those it would have found.  The file may be another version at       *)
(* another time; a version is known to the ledger by its hash.  The rows   *)
(* go into a table of bars, whose materialized views copy them into        *)
(* aggregates; a replacing import clears both, one after the other.        *)
(*                                                                         *)
(* Any call to the database may fail for its caller, applied or not, and   *)
(* the process may be killed.  There is no time: the importers ask for no  *)
(* PendingTTL, so that a pending row never lapses.                         *)
(***************************************************************************)
EXTENDS Naturals, FiniteSets

CONSTANTS
    Versions,     \* contents the file has at one time or another
    NoVersion,    \* no version
    NumBatches,   \* batches a file is inserted in
    MaxLoads,     \* bound: imports
    LoadsMayDie,  \* the process may be killed
    MaxLost       \* bound: calls that fail

ASSUME FileImportConstants ==
    /\ NoVersion \notin Versions
    /\ NumBatches \in Nat \ {0}
    /\ MaxLoads \in Nat /\ MaxLost \in Nat /\ LoadsMayDie \in BOOLEAN

Batches == 1..NumBatches

VARIABLES
    bars,        \* how often each batch of each version is in the table
    aggregates,  \* and in what is derived from it
    fileLedger,  \* latest status of each version
    latest,      \* the last row of the ledger for the date
    loadStep,    \* control of the importer
    version, batch,              \* its file and its next batch
    replaceDates, skipExisting,  \* its mode
    ended,       \* how the last import ended
    loads, lost,
    \* History
    under,       \* what the last import that got to its pending row did not look for
    clearing,    \* a replacing import has cleared, and not got beyond it
    trouble      \* a call of this import has failed

tableVars == <<bars, aggregates>>
fileLedgerVars == <<fileLedger, latest>>
loadLocals == <<version, batch, replaceDates, skipExisting>>
fileVars == <<tableVars, fileLedgerVars, loadStep, loadLocals, ended, loads, lost, under, clearing, trouble>>

Nothing == [v \in Versions |-> [b \in Batches |-> 0]]

FileInit ==
    /\ bars = Nothing /\ aggregates = Nothing
    /\ fileLedger = [v \in Versions |-> "none"]
    /\ latest = [of |-> NoVersion, status |-> "none"]
    /\ loadStep = "idle" /\ version = NoVersion /\ batch = 1
    /\ replaceDates = FALSE /\ skipExisting = FALSE
    /\ ended = "none" /\ loads = 0 /\ lost = 0
    /\ under = Nothing /\ clearing = FALSE /\ trouble = FALSE

\* The ledger's latest row of this version becomes another one.
RecordRow(status) ==
    /\ fileLedger' = [fileLedger EXCEPT ![version] = status]
    /\ latest' = [of |-> version, status |-> status]

LoadEnds(how) == loadStep' = "idle" /\ ended' = how

GoesOn(next) == loadStep' = next /\ UNCHANGED ended

CallFails == lost < MaxLost /\ lost' = lost + 1 /\ trouble' = TRUE

\* The file is hashed; a replacing import does not ask whether it has been
\* imported.  No caller asks for both, to replace and to skip.
StartLoad(v, replace, skip) ==
    /\ loadStep = "idle" /\ loads < MaxLoads
    /\ ~(replace /\ skip)
    /\ loads' = loads + 1
    /\ version' = v /\ batch' = 1
    /\ replaceDates' = replace /\ skipExisting' = skip
    /\ trouble' = FALSE
    /\ GoesOn(IF replace THEN "replace" ELSE "check")
    /\ UNCHANGED <<tableVars, fileLedgerVars, lost, under, clearing>>

\* A version that was imported is not imported again, not even by an import
\* that is to append.
AlreadySucceeded ==
    /\ loadStep = "check"
    /\ IF fileLedger[version] = "success" THEN LoadEnds("skipped")
       ELSE GoesOn(IF skipExisting THEN "count" ELSE "start")
    /\ UNCHANGED <<tableVars, fileLedgerVars, loadLocals, loads, lost, under, clearing, trouble>>

\* CountExistingOptionBars counts the rows of the date in the table.
CountExisting ==
    /\ loadStep = "count"
    /\ IF bars # Nothing THEN LoadEnds("existing") ELSE GoesOn("start")
    /\ UNCHANGED <<tableVars, fileLedgerVars, loadLocals, loads, lost, under, clearing, trouble>>

ReplaceBars ==
    /\ loadStep = "replace"
    /\ bars' = Nothing /\ clearing' = TRUE
    /\ GoesOn("aggregates")
    /\ UNCHANGED <<aggregates, fileLedgerVars, loadLocals, loads, lost, under, trouble>>

\* Mutant: the aggregates are not cleared.
ReplaceNoAggregates ==
    /\ loadStep = "aggregates"
    /\ GoesOn("start")
    /\ UNCHANGED <<tableVars, fileLedgerVars, loadLocals, loads, lost, under, clearing, trouble>>

ReplaceAggregates ==
    /\ loadStep = "aggregates"
    /\ aggregates' = Nothing
    /\ GoesOn("start")
    /\ UNCHANGED <<bars, fileLedgerVars, loadLocals, loads, lost, under, clearing, trouble>>

\* ReplaceOptionMarketDates: a deletion fails, and with it the import.
ReplaceFails(applied) ==
    /\ loadStep \in {"replace", "aggregates"} /\ CallFails
    /\ bars' = IF applied /\ loadStep = "replace" THEN Nothing ELSE bars
    /\ aggregates' = IF applied /\ loadStep = "aggregates" THEN Nothing ELSE aggregates
    /\ clearing' = (clearing \/ applied)
    /\ LoadEnds("failed")
    /\ UNCHANGED <<fileLedgerVars, loadLocals, loads, under>>

\* The pending row goes into the ledger; an import that has not looked builds
\* on whatever there is.
Announces ==
    /\ RecordRow("pending")
    /\ under' = IF replaceDates \/ skipExisting THEN Nothing ELSE bars
    /\ clearing' = (clearing /\ ~replaceDates)

\* Repository.Start: refused if the latest row is pending.
LedgerStart ==
    /\ loadStep = "start"
    /\ IF fileLedger[version] = "pending"
       THEN LoadEnds("running") /\ UNCHANGED <<fileLedgerVars, under, clearing>>
       ELSE Announces /\ GoesOn("prepare")
    /\ UNCHANGED <<tableVars, loadLocals, loads, lost, trouble>>

LedgerStartFails(applied) ==
    /\ loadStep = "start" /\ fileLedger[version] # "pending" /\ CallFails
    /\ IF applied THEN Announces ELSE UNCHANGED <<fileLedgerVars, under, clearing>>
    /\ LoadEnds("failed")
    /\ UNCHANGED <<tableVars, loadLocals, loads>>

\* A query of the ledger or of the table fails.
LookupFails ==
    /\ loadStep \in {"check", "count"} /\ CallFails
    /\ LoadEnds("failed")
    /\ UNCHANGED <<tableVars, fileLedgerVars, loadLocals, loads, under, clearing>>

\* The stock coverage is looked up and the file is opened ...
Prepare ==
    /\ loadStep = "prepare"
    /\ GoesOn("insert")
    /\ UNCHANGED <<tableVars, fileLedgerVars, loadLocals, loads, lost, under, clearing, trouble>>

\* ... and if that fails the pending row is left as it is.
PrepareFails ==
    /\ loadStep = "prepare" /\ CallFails
    /\ LoadEnds("failed")
    /\ UNCHANGED <<tableVars, fileLedgerVars, loadLocals, loads, under, clearing>>

Inserted(table) == [table EXCEPT ![version][batch] = @ + 1]

InsertBatch ==
    /\ loadStep = "insert" /\ batch <= NumBatches
    /\ bars' = Inserted(bars) /\ aggregates' = Inserted(aggregates)
    /\ batch' = batch + 1
    /\ UNCHANGED <<fileLedgerVars, loadStep, version, replaceDates, skipExisting, ended, loads, lost, under,
                   clearing, trouble>>

\* A batch is not sent, or is and says it was not; or the file breaks off.
InsertFails(applied) ==
    /\ loadStep = "insert" /\ batch <= NumBatches /\ CallFails
    /\ IF applied THEN bars' = Inserted(bars) /\ aggregates' = Inserted(aggregates)
       ELSE UNCHANGED tableVars
    /\ GoesOn("fail")
    /\ UNCHANGED <<fileLedgerVars, loadLocals, loads, under, clearing>>

\* RecordFailure; the import has failed also when that cannot be recorded.
RecordLoadFailure ==
    /\ loadStep = "fail"
    /\ RecordRow("failed") /\ LoadEnds("failed")
    /\ UNCHANGED <<tableVars, loadLocals, loads, lost, under, clearing, trouble>>

RecordLoadFailureFails(applied) ==
    /\ loadStep = "fail" /\ CallFails
    /\ IF applied THEN RecordRow("failed") ELSE UNCHANGED fileLedgerVars
    /\ LoadEnds("failed")
    /\ UNCHANGED <<tableVars, loadLocals, loads, under, clearing>>

MarkLoaded ==
    /\ loadStep = "insert" /\ batch > NumBatches
    /\ RecordRow("success") /\ LoadEnds("loaded")
    /\ UNCHANGED <<tableVars, loadLocals, loads, lost, under, clearing, trouble>>

MarkLoadedFails(applied) ==
    /\ loadStep = "insert" /\ batch > NumBatches /\ CallFails
    /\ IF applied THEN RecordRow("success") ELSE UNCHANGED fileLedgerVars
    /\ LoadEnds("failed")
    /\ UNCHANGED <<tableVars, loadLocals, loads, under, clearing>>

\* The process is killed; a call it had under way is one that failed before.
LoadDies ==
    /\ LoadsMayDie /\ loadStep # "idle"
    /\ trouble' = TRUE
    /\ LoadEnds("died")
    /\ UNCHANGED <<tableVars, fileLedgerVars, loadLocals, loads, lost, under, clearing>>

FileNext ==
    \/ \E v \in Versions, replace, skip \in BOOLEAN : StartLoad(v, replace, skip)
    \/ AlreadySucceeded \/ CountExisting \/ LookupFails
    \/ ReplaceBars \/ ReplaceAggregates
    \/ LedgerStart \/ Prepare \/ PrepareFails \/ InsertBatch
    \/ RecordLoadFailure \/ MarkLoaded
    \/ \E applied \in BOOLEAN :
          \/ ReplaceFails(applied) \/ LedgerStartFails(applied) \/ InsertFails(applied)
          \/ RecordLoadFailureFails(applied) \/ MarkLoadedFails(applied)
    \/ LoadDies

FileSpec == FileInit /\ [][FileNext]_fileVars

(***************************************************************************)
(* Properties                                                              *)
(***************************************************************************)

WholeFile(v) == [Nothing EXCEPT ![v] = [b \in Batches |-> 1]]

Appended(found, file) == [v \in Versions |-> [b \in Batches |-> found[v][b] + file[v][b]]]

\* Whatever failed and however often the file is imported, an import puts no
\* bar into the table twice, which would not notice: it is a plain MergeTree.
\* Only what an appending import did not look for may be there besides.
NoBarTwice == \A v \in Versions, b \in Batches : bars[v][b] <= under[v][b] + 1

\* When the last thing the ledger says of the date is that a version was
\* imported, the table holds all of that version and nothing else if the
\* import cleared or counted, and what was there plus all of the version if
\* it appended; and the aggregates agree.  Not so after a replacing import
\* has cleared what there was and not got to its pending row, for that leaves
\* no trace in the ledger.
LedgerIsRight ==
    latest.status = "success" /\ ~clearing =>
        bars = Appended(under, WholeFile(latest.of)) /\ aggregates = bars

(***************************************************************************)
(* What the error message says                                             *)
(***************************************************************************)

\* internal/usmarket/importer.go:263, 349: rerun with replace-dates to rebuild
\* safely.  A replacing import none of whose own calls failed leaves the date
\* with the file it was for.
ReplaceRebuilds ==
    loadStep = "idle" /\ loads > 0 /\ replaceDates /\ ~trouble => bars = WholeFile(version)
=============================================================================
