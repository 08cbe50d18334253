--------------------------- MODULE ArchiveImport ---------------------------
(***************************************************************************)
(* The import of the hourly Polymarket archive (Sync of polymarket_archive *)
(* in internal/syncpipeline/jobs, ImportArchive and its event writer in    *)
(* internal/polymarket).  A run fingerprints the files, compares them with *)
(* the catalog's checkpoints, and from the first file that is not what was *)
(* imported on it imports all of them again, after reading some before it  *)
(* to bring the books up.  The rows of a file are a partition of the event *)
(* table; they are sent in batches, two of them in flight at a time.       *)
(*                                                                         *)
(* Files are numbered in the order of their hours.  Any call to the        *)
(* database may fail for its caller, applied or not; a run may be          *)
(* interrupted, killed, or run dry; files may be rewritten at any time.    *)
(***************************************************************************)
EXTENDS ArchiveBooks

CONSTANTS
    FileHours,       \* hours of the planned files, ascending
    Contents,        \* what each file may hold: its events, and whether it is broken after them
    BatchSizes,      \* options.BatchSize
    MaxImports,      \* bound: runs
    MaxRewrites,     \* bound: rewritings of files
    MaxFaults,       \* bound: failing calls to the database
    RewriteAnyTime,  \* files are rewritten during runs, not only between them
    ImportsMayStop   \* a run may be interrupted or killed, or run dry

ASSUME ArchiveImportConstants ==
    /\ FileHours \in Seq(Int)
    /\ \A f, g \in DOMAIN FileHours : f < g => FileHours[f] < FileHours[g]
    /\ BatchSizes \subseteq Nat \ {0}
    /\ MaxImports \in Nat /\ MaxRewrites \in Nat /\ MaxFaults \in Nat
    /\ RewriteAnyTime \in BOOLEAN /\ ImportsMayStop \in BOOLEAN

Files == DOMAIN FileHours

\* No two events of a file are alike: the key of one names its row.
ASSUME ArchiveContents ==
    \A f \in Files : \A content \in Contents[f] :
        /\ content \in [events : Seq(RawEvents), broken : BOOLEAN]
        /\ IsInjective(content.events)

Conns == 0..1   \* EventConns, WriterConcurrency of them

\* The checkpoint of a file is the last row inserted for it into
\* polymarket_raw_file_catalog.  The Enum8 of the status does not know
\* "skipped" (schema/clickhouse/polymarket.sql).
NoCheckpoint == [status |-> "none", print |-> 0]

IdleConn == [pending |-> <<>>, flight |-> <<>>, reply |-> "none"]

VARIABLES
    disk,        \* the files: content, and a print that every rewriting changes
    writableFrom, batchSize,  \* configuration
    catalog,     \* the checkpoint of each file
    table,       \* the rows of each file's partition of polymarket_l2_event
    step,        \* control of the run
    dry,         \* DryRun
    prints,      \* fingerprints in the plan
    work,        \* files still to come, the one at work first
    processor,   \* the ArchiveProcessor
    input,       \* what is still to be read of the file at work
    waiting,     \* rows still to be appended
    conn,        \* the connections of the event writer
    current,     \* the one rows are appended to
    failure,     \* why the import of the file at work failed
    lastRun,     \* how the last run ended
    imports, rewrites, faults,
    \* History
    seen,        \* events of each file as this run has read them
    emitted,     \* rows this run's processor has emitted for each file
    imported,    \* files this run has imported
    stored,      \* rows that went with each file's success
    unsure       \* files whose success was recorded by a call that failed

archiveConfig == <<writableFrom, batchSize>>
planVars == <<dry, prints, work>>
writerVars == <<input, waiting, conn, current>>
runHistory == <<seen, emitted, imported>>
importVars == <<planVars, processor, writerVars, failure>>
archiveVars == <<disk, archiveConfig, catalog, table, step, importVars, lastRun,
                 imports, rewrites, faults, runHistory, stored, unsure>>

NoFile == [events |-> <<>>, broken |-> FALSE]
NoEvents == [f \in Files |-> <<>>]
NoRows == [f \in Files |-> EmptyBag]
IdleWriter == [c \in Conns |-> IdleConn]

\* The rows of a list, each as often as it is there.
BagOf(rows) == [row \in ToSet(rows) |-> Cardinality({k \in DOMAIN rows : rows[k] = row})]

ArchiveInit ==
    /\ disk \in [Files -> [content : UNION {Contents[f] : f \in Files}, print : {1}]]
    /\ \A f \in Files : disk[f].content \in Contents[f]
    /\ writableFrom \in 1..2 /\ batchSize \in BatchSizes
    /\ catalog = [f \in Files |-> NoCheckpoint]
    /\ table = [f \in Files |-> EmptyBag]
    /\ step = "idle" /\ lastRun = "none"
    /\ dry = FALSE /\ prints = [f \in Files |-> 0] /\ work = <<>>
    /\ processor = NewProcessor
    /\ input = NoFile /\ waiting = <<>> /\ conn = IdleWriter /\ current = 0
    /\ failure = "none"
    /\ imports = 0 /\ rewrites = 0 /\ faults = 0
    /\ seen = NoEvents /\ emitted = NoRows /\ imported = {}
    /\ stored = NoRows /\ unsure = {}

\* The file at work, and a row of the catalog for it.
This == Head(work).file
Checkpoint(status) == [catalog EXCEPT ![This] = [status |-> status, print |-> disk[This].print]]

\* A call to the database fails for its caller.
Fault == faults < MaxFaults /\ faults' = faults + 1

\* The run is over: its locals are gone, and if it did not come to its end
\* so is what it had to show.
RunEnds(how) ==
    /\ step' = "idle" /\ lastRun' = how
    /\ dry' = FALSE /\ prints' = [f \in Files |-> 0] /\ work' = <<>>
    /\ processor' = NewProcessor
    /\ input' = NoFile /\ waiting' = <<>> /\ conn' = IdleWriter /\ current' = 0
    /\ failure' = "none"
    /\ IF how = "done" THEN UNCHANGED runHistory
       ELSE seen' = NoEvents /\ emitted' = NoRows /\ imported' = {}

NextFile(p) ==
    /\ processor' = p
    /\ work' = Tail(work)
    /\ step' = "next"

(***************************************************************************)
(* Planning                                                                *)
(***************************************************************************)

\* planPolymarketArchive: the files are listed and fingerprinted.
StartImport(dryRun) ==
    /\ step = "idle" /\ imports < MaxImports
    /\ dryRun => ImportsMayStop
    /\ imports' = imports + 1
    /\ step' = "plan"
    /\ dry' = dryRun
    /\ prints' = [f \in Files |-> disk[f].print]
    /\ seen' = NoEvents /\ emitted' = NoRows /\ imported' = {}
    /\ UNCHANGED <<disk, archiveConfig, catalog, table, work, processor, writerVars, failure,
                   lastRun, rewrites, faults, stored, unsure>>

\* Mutant: the files before the first dirty one do not count as committed.
WorkOnAnew(f, first, checkpoints) ==
    [file |-> f, warm |-> f < first, committed |-> FALSE,
     replace |-> first <= f /\ checkpoints[f] # NoCheckpoint]

WorkOn(f, first, checkpoints) ==
    [file |-> f, warm |-> f < first, committed |-> writableFrom <= f /\ f < first,
     replace |-> first <= f /\ checkpoints[f] # NoCheckpoint]

\* dirtyPolymarketFiles: from the first dirty file on all are imported, and
\* those of the hours before it are read.
DirtyFiles(checkpoints) ==
    LET dirty == {f \in Files : /\ f >= writableFrom
                                /\ checkpoints[f] # [status |-> "success", print |-> prints[f]]}
        first == Min(dirty)
        start == Min({f \in Files : FileHours[f] >= FileHours[first] - Horizon})
    IN  IF dirty = {} THEN <<>>
        ELSE [i \in 1..(Len(FileHours) - start + 1) |-> WorkOn(start + i - 1, first, checkpoints)]

LoadCheckpoints ==
    /\ step = "plan"
    /\ work' = DirtyFiles(catalog)
    /\ step' = "next"
    /\ UNCHANGED <<disk, archiveConfig, catalog, table, dry, prints, processor, writerVars, failure,
                   lastRun, imports, rewrites, faults, runHistory, stored, unsure>>

\* A dry run goes on as if nothing had ever been imported.
LoadCheckpointsFails ==
    /\ step = "plan" /\ Fault
    /\ IF dry THEN /\ work' = DirtyFiles([f \in Files |-> NoCheckpoint])
                   /\ step' = "next"
                   /\ UNCHANGED <<dry, prints, processor, writerVars, failure, lastRun, runHistory>>
       ELSE RunEnds("lost")
    /\ UNCHANGED <<disk, archiveConfig, catalog, table, imports, rewrites, stored, unsure>>

(***************************************************************************)
(* ImportArchive, from file to file                                        *)
(***************************************************************************)

Advanced == Advance(processor, FileHours[This])

\* A file that is only read; if it cannot be, the run is over.
WarmFile ==
    /\ step = "next" /\ work # <<>> /\ Head(work).warm
    /\ LET content == disk[This].content
       IN  IF content.broken THEN RunEnds("unreadable")
           ELSE /\ NextFile(Warm(Advanced, content.events, Head(work).committed))
                /\ seen' = [seen EXCEPT ![This] = content.events]
                /\ UNCHANGED <<dry, prints, writerVars, failure, lastRun, emitted, imported>>
    /\ UNCHANGED <<disk, archiveConfig, catalog, table, imports, rewrites, faults, stored, unsure>>

BeginImport ==
    /\ step = "next" /\ work # <<>> /\ ~Head(work).warm
    /\ processor' = BeginFile(Advanced)
    /\ step' = IF dry THEN "open" ELSE "pending"
    /\ UNCHANGED <<disk, archiveConfig, catalog, table, planVars, writerVars, failure, lastRun,
                   imports, rewrites, faults, runHistory, stored, unsure>>

\* The context has ended: the loop sees it before the next file.
Interrupted ==
    /\ ImportsMayStop /\ step = "next" /\ work # <<>>
    /\ RunEnds("interrupted")
    /\ UNCHANGED <<disk, archiveConfig, catalog, table, imports, rewrites, faults, stored, unsure>>

RunComplete ==
    /\ step = "next" /\ work = <<>>
    /\ RunEnds("done")
    /\ UNCHANGED <<disk, archiveConfig, catalog, table, imports, rewrites, faults, stored, unsure>>

(***************************************************************************)
(* importArchiveFile                                                       *)
(***************************************************************************)

\* A call that changes the database and fails for its caller before the
\* writer is open ends the run where it is, whether it was applied or not.
RecordPending ==
    /\ step = "pending"
    /\ catalog' = Checkpoint("pending")
    /\ unsure' = unsure \ {This}
    /\ step' = IF Head(work).replace THEN "clear" ELSE "open"
    /\ UNCHANGED <<disk, archiveConfig, table, importVars, lastRun, imports, rewrites, faults, runHistory, stored>>

RecordPendingFails(applied) ==
    /\ step = "pending" /\ Fault
    /\ catalog' = IF applied THEN Checkpoint("pending") ELSE catalog
    /\ unsure' = IF applied THEN unsure \ {This} ELSE unsure
    /\ RunEnds("lost")
    /\ UNCHANGED <<disk, archiveConfig, table, imports, rewrites, stored>>

\* clearImportedFileEvents drops the partition.
Cleared == [table EXCEPT ![This] = EmptyBag]

ClearOld ==
    /\ step = "clear"
    /\ table' = Cleared
    /\ step' = "open"
    /\ UNCHANGED <<disk, archiveConfig, catalog, importVars, lastRun, imports, rewrites, faults,
                   runHistory, stored, unsure>>

ClearOldFails(applied) ==
    /\ step = "clear" /\ Fault
    /\ table' = IF applied THEN Cleared ELSE table
    /\ RunEnds("lost")
    /\ UNCHANGED <<disk, archiveConfig, catalog, imports, rewrites, stored, unsure>>

\* The writer is opened and the file read; the reader holds it open.
OpenFile ==
    /\ step = "open"
    /\ input' = disk[This].content
    /\ seen' = [seen EXCEPT ![This] = disk[This].content.events]
    /\ emitted' = [emitted EXCEPT ![This] = EmptyBag]
    /\ step' = "scan"
    /\ UNCHANGED <<disk, archiveConfig, catalog, table, planVars, processor, waiting, conn, current, failure,
                   lastRun, imports, rewrites, faults, imported, stored, unsure>>

OpenWriterFails ==
    /\ step = "open" /\ ~dry /\ Fault
    /\ failure' = "lost" /\ step' = "fail"
    /\ UNCHANGED <<disk, archiveConfig, catalog, table, planVars, processor, writerVars, lastRun,
                   imports, rewrites, runHistory, stored, unsure>>

\* An event goes through the processor, which may emit two rows for it.
TakeEvent ==
    /\ step = "scan" /\ waiting = <<>> /\ input.events # <<>>
    /\ LET out == Process(processor, Head(input.events), TRUE, FALSE)
       IN  /\ processor' = out.processor
           /\ waiting' = IF dry THEN <<>> ELSE out.rows
           /\ emitted' = [emitted EXCEPT ![This] = @ (+) BagOf(out.rows)]
    /\ input' = [input EXCEPT !.events = Tail(@)]
    /\ UNCHANGED <<disk, archiveConfig, catalog, table, step, planVars, conn, current, failure, lastRun,
                   imports, rewrites, faults, seen, imported, stored, unsure>>

Sent(rows) == [pending |-> <<>>, flight |-> rows, reply |-> "flying"]

\* asyncEventWriter.Append: the connection must have its reply first; a full
\* batch is sent and the other connection takes the next rows.
AppendRow ==
    /\ step = "scan" /\ waiting # <<>> /\ conn[current].reply \in {"none", "ok"}
    /\ waiting' = Tail(waiting)
    /\ LET rows == Append(conn[current].pending, Head(waiting))
       IN  IF Len(rows) >= batchSize
           THEN conn' = [conn EXCEPT ![current] = Sent(rows)] /\ current' = 1 - current
           ELSE conn' = [conn EXCEPT ![current] = [IdleConn EXCEPT !.pending = rows]] /\ UNCHANGED current
    /\ UNCHANGED <<disk, archiveConfig, catalog, table, step, planVars, processor, input, failure, lastRun,
                   imports, rewrites, faults, runHistory, stored, unsure>>

Aborts(why) == failure' = why /\ step' = "abort"

\* The batch sent before has failed, or the next one cannot be prepared.
AppendFails ==
    /\ step = "scan" /\ waiting # <<>>
    /\ IF conn[current].reply = "ok" THEN Fault
       ELSE conn[current].reply = "failed" /\ UNCHANGED faults
    /\ Aborts("lost")
    /\ UNCHANGED <<disk, archiveConfig, catalog, table, planVars, processor, writerVars, lastRun,
                   imports, rewrites, runHistory, stored, unsure>>

\* All events are taken.  Close sends what is pending.
EndOfFile ==
    /\ step = "scan" /\ waiting = <<>> /\ input.events = <<>>
    /\ IF ~input.broken
       THEN /\ conn' = IF conn[current].pending = <<>> THEN conn
                       ELSE [conn EXCEPT ![current] = Sent(@.pending)]
            /\ step' = "close" /\ UNCHANGED failure
       ELSE /\ failure' = "unreadable" /\ step' = IF dry THEN "skip" ELSE "abort"
            /\ UNCHANGED conn
    /\ UNCHANGED <<disk, archiveConfig, catalog, table, planVars, processor, input, waiting, current, lastRun,
                   imports, rewrites, faults, runHistory, stored, unsure>>

\* Close waits for the replies, one connection after the other.
CloseConn(c) ==
    /\ step = "close" /\ conn[c].reply \in {"ok", "failed"}
    /\ \A d \in Conns : d < c => conn[d].reply = "none"
    /\ IF conn[c].reply = "ok" THEN UNCHANGED <<failure, step>> ELSE Aborts("lost")
    /\ conn' = [conn EXCEPT ![c] = IdleConn]
    /\ UNCHANGED <<disk, archiveConfig, catalog, table, planVars, processor, input, waiting, current, lastRun,
                   imports, rewrites, faults, runHistory, stored, unsure>>

AllReplied == \A c \in Conns : conn[c].reply = "none"

\* Mutant: the success does not wait for the replies.
SucceedEarly ==
    /\ step = "close"
    /\ IF dry THEN UNCHANGED <<catalog, stored>>
       ELSE catalog' = Checkpoint("success") /\ stored' = [stored EXCEPT ![This] = emitted[This]]
    /\ imported' = imported \cup {This}
    /\ NextFile(CommitFile(processor))
    /\ UNCHANGED <<disk, archiveConfig, table, dry, prints, writerVars, failure, lastRun,
                   imports, rewrites, faults, seen, emitted, unsure>>

Succeed ==
    /\ step = "close" /\ AllReplied
    /\ IF dry THEN UNCHANGED <<catalog, stored>>
       ELSE catalog' = Checkpoint("success") /\ stored' = [stored EXCEPT ![This] = emitted[This]]
    /\ imported' = imported \cup {This}
    /\ NextFile(CommitFile(processor))
    /\ UNCHANGED <<disk, archiveConfig, table, dry, prints, writerVars, failure, lastRun,
                   imports, rewrites, faults, seen, emitted, unsure>>

SucceedFails(applied) ==
    /\ step = "close" /\ AllReplied /\ ~dry /\ Fault
    /\ IF applied THEN /\ catalog' = Checkpoint("success")
                       /\ stored' = [stored EXCEPT ![This] = emitted[This]]
                       /\ unsure' = unsure \cup {This}
       ELSE UNCHANGED <<catalog, stored, unsure>>
    /\ Aborts("lost")
    /\ UNCHANGED <<disk, archiveConfig, table, planVars, processor, writerVars, lastRun,
                   imports, rewrites, runHistory>>

(***************************************************************************)
(* What importArchiveFile defers, and what becomes of the run              *)
(***************************************************************************)

\* Abort drops what is pending and waits for what is in flight.
Drain ==
    /\ step = "abort" /\ \A c \in Conns : conn[c].reply # "flying"
    /\ conn' = IdleWriter /\ current' = 0
    /\ input' = NoFile /\ waiting' = <<>>
    /\ step' = "drop"
    /\ UNCHANGED <<disk, archiveConfig, catalog, table, planVars, processor, failure, lastRun,
                   imports, rewrites, faults, runHistory, stored, unsure>>

DropPartial ==
    /\ step = "drop"
    /\ table' = Cleared
    /\ step' = "fail"
    /\ UNCHANGED <<disk, archiveConfig, catalog, importVars, lastRun, imports, rewrites, faults,
                   runHistory, stored, unsure>>

DropPartialFails(applied) ==
    /\ step = "drop" /\ Fault
    /\ table' = IF applied THEN Cleared ELSE table
    /\ step' = "fail"
    /\ UNCHANGED <<disk, archiveConfig, catalog, importVars, lastRun, imports, rewrites,
                   runHistory, stored, unsure>>

\* Only a file that cannot be read is the end of nothing but itself.
AfterFailure ==
    IF failure = "unreadable"
    THEN step' = "skip" /\ UNCHANGED <<importVars, lastRun, runHistory>>
    ELSE RunEnds("lost")

RecordImportFailure ==
    /\ step = "fail"
    /\ catalog' = Checkpoint("failed")
    /\ unsure' = unsure \ {This}
    /\ AfterFailure
    /\ UNCHANGED <<disk, archiveConfig, table, imports, rewrites, faults, stored>>

RecordImportFailureFails(applied) ==
    /\ step = "fail" /\ Fault
    /\ catalog' = IF applied THEN Checkpoint("failed") ELSE catalog
    /\ unsure' = IF applied THEN unsure \ {This} ELSE unsure
    /\ AfterFailure
    /\ UNCHANGED <<disk, archiveConfig, table, imports, rewrites, stored>>

\* The file is skipped.  Its row in the catalog should say so, but the
\* catalog has no such status and the insert is refused: only a dry run,
\* which writes nothing, goes on.
SkipFile ==
    /\ step = "skip"
    /\ IF dry THEN /\ NextFile(RollbackFile(processor))
                   /\ seen' = [seen EXCEPT ![This] = <<>>]
                   /\ emitted' = [emitted EXCEPT ![This] = EmptyBag]
                   /\ input' = NoFile /\ failure' = "none"
                   /\ UNCHANGED <<dry, prints, waiting, conn, current, lastRun, imported>>
       ELSE RunEnds("refused")
    /\ UNCHANGED <<disk, archiveConfig, catalog, table, imports, rewrites, faults, stored, unsure>>

(***************************************************************************)
(* Batches in flight, and the environment                                  *)
(***************************************************************************)

BatchLands(c) ==
    /\ conn[c].reply = "flying"
    /\ table' = [table EXCEPT ![This] = @ (+) BagOf(conn[c].flight)]
    /\ conn' = [conn EXCEPT ![c] = [IdleConn EXCEPT !.reply = "ok"]]
    /\ UNCHANGED <<disk, archiveConfig, catalog, step, planVars, processor, input, waiting, current, failure,
                   lastRun, imports, rewrites, faults, runHistory, stored, unsure>>

BatchFails(c, applied) ==
    /\ conn[c].reply = "flying" /\ Fault
    /\ table' = IF applied THEN [table EXCEPT ![This] = @ (+) BagOf(conn[c].flight)] ELSE table
    /\ conn' = [conn EXCEPT ![c] = [IdleConn EXCEPT !.reply = "failed"]]
    /\ UNCHANGED <<disk, archiveConfig, catalog, step, planVars, processor, input, waiting, current, failure,
                   lastRun, imports, rewrites, runHistory, stored, unsure>>

\* The process is killed; of the batches in flight some still land.
Killed ==
    /\ ImportsMayStop /\ step # "idle"
    /\ \E landing \in SUBSET {c \in Conns : conn[c].reply = "flying"} :
          LET rows(c) == IF c \in landing THEN conn[c].flight ELSE <<>>
          IN  table' = IF landing = {} THEN table
                       ELSE [table EXCEPT ![This] = @ (+) BagOf(rows(0) \o rows(1))]
    /\ RunEnds("killed")
    /\ UNCHANGED <<disk, archiveConfig, catalog, imports, rewrites, faults, stored, unsure>>

Rewrite(f, content) ==
    /\ rewrites < MaxRewrites /\ (RewriteAnyTime \/ step = "idle")
    /\ rewrites' = rewrites + 1
    /\ disk' = [disk EXCEPT ![f] = [content |-> content, print |-> @.print + 1]]
    /\ UNCHANGED <<archiveConfig, catalog, table, step, importVars, lastRun, imports, faults,
                   runHistory, stored, unsure>>

\* What the run does by itself, its database answering.
ImportStep ==
    \/ LoadCheckpoints \/ WarmFile \/ BeginImport \/ RunComplete
    \/ RecordPending \/ ClearOld \/ OpenFile
    \/ TakeEvent \/ AppendRow \/ AppendFails \/ EndOfFile
    \/ Succeed \/ Drain \/ DropPartial \/ RecordImportFailure \/ SkipFile
    \/ \E c \in Conns : CloseConn(c) \/ BatchLands(c)

ImportFails ==
    \/ LoadCheckpointsFails \/ OpenWriterFails
    \/ \E applied \in BOOLEAN :
          \/ RecordPendingFails(applied) \/ ClearOldFails(applied) \/ SucceedFails(applied)
          \/ DropPartialFails(applied) \/ RecordImportFailureFails(applied)
          \/ \E c \in Conns : BatchFails(c, applied)

ArchiveNext ==
    \/ \E dryRun \in BOOLEAN : StartImport(dryRun)
    \/ ImportStep \/ ImportFails
    \/ Interrupted \/ Killed
    \/ \E f \in Files : \E content \in Contents[f] : Rewrite(f, content)

ArchiveSpec == ArchiveInit /\ [][ArchiveNext]_archiveVars

(***************************************************************************)
(* Properties                                                              *)
(***************************************************************************)

\* What the importer takes for granted of the files, sorting nothing: a file
\* holds what was received from its hour on, and neither clock of a stream
\* goes back, in a file or from one to a later one.
StreamsInOrder ==
    \A f, g \in Files : \A here \in Contents[f], there \in Contents[g] :
        \A i \in DOMAIN here.events, j \in DOMAIN there.events :
            LET d == here.events[i]
                e == there.events[j]
            IN  /\ FileHours[f] <= d.recv
                /\ d.stream = e.stream /\ (f < g \/ (f = g /\ here = there /\ i < j)) =>
                       d.exch <= e.exch /\ d.recv <= e.recv

\* A file the catalog calls a success has exactly the rows in its partition
\* that were emitted for it by the import that recorded the success, each as
\* often in a table that is a plain MergeTree: failed batches, lost replies,
\* kills and later runs notwithstanding.  Left out is a success whose own
\* reply was lost and whose failure could not be recorded afterwards: its
\* partition is dropped (importArchiveFile).
SuccessMeansRows ==
    \A f \in Files \ unsure : catalog[f].status = "success" => table[f] = stored[f]

\* Whatever was imported before, a run that comes to its end has emitted for
\* the files it imported the rows that all files together, as it read them,
\* call for: reading committed files puts the books where importing them
\* had, and a file that is skipped leaves no trace in them.  (This is so for
\* StreamsInOrder only: an event in the window that has no book to go to is
\* applied by a run that reads its file and not by one that imports it, and
\* if a book from before the window follows, the next synthetic row tells.)
AsIfInOneGo ==
    step = "idle" /\ lastRun = "done" =>
        \A f \in imported : emitted[f] = SetToBag(RowsOf(seen, writableFrom - 1, f))

(***************************************************************************)
(* What the tests say                                                      *)
(***************************************************************************)

NothingDirty ==
    \A f \in Files : f >= writableFrom => catalog[f] = [status |-> "success", print |-> disk[f].print]

\* TestDirtyPolymarketFilesWarmsBeforeEarliestDirtyAndReprocessesTail
\* (internal/syncpipeline/jobs/polymarket_test.go): the files after one that
\* changed are imported again, so that once nothing is dirty the table holds
\* the rows the files call for.
TailIsReprocessed ==
    step = "idle" /\ NothingDirty =>
        \A f \in Files : f >= writableFrom =>
            BagToSet(table[f]) = RowsOf([g \in Files |-> disk[g].content.events], writableFrom - 1, f)
=============================================================================
