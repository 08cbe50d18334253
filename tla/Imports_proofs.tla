--------------------------- MODULE Imports_proofs ---------------------------
(***************************************************************************)
(* Proofs about three importers: FileImport, for any versions of a flat    *)
(* file and any number of batches, imports, failing calls and kills;       *)
(* GreeksBackfill, for any number of backfills, fillers, tasks, chunks,    *)
(* failing calls and kills; and ArchiveImport, for any files and contents, *)
(* any number of runs, rewritings, failing calls, interruptions and kills, *)
(* with the books of ArchiveBooks that a run keeps and with the staging of *)
(* ArchiveStaging, for any number of files and workers.                    *)
(***************************************************************************)
EXTENDS FileImport, GreeksBackfill, ArchiveImport, ArchiveStaging, Sums, FiniteSetTheorems, SequenceTheorems,
        TLAPS

(***************************************************************************)
(* FileImport                                                              *)
(***************************************************************************)

LoadSteps == {"idle", "check", "count", "replace", "aggregates", "start", "prepare", "insert", "fail"}

Table == [Versions -> [Batches -> Nat]]

LoadType ==
    /\ bars \in Table /\ aggregates \in Table /\ under \in Table
    /\ loadStep \in LoadSteps
    /\ loadStep # "idle" => version \in Versions
    /\ batch \in Nat /\ batch >= 1
    /\ clearing \in BOOLEAN

\* What was there before, and what has been inserted of the file at work.
SoFar == [v \in Versions |-> [b \in Batches |-> IF v = version /\ b < batch THEN under[v][b] + 1 ELSE under[v][b]]]

\* An import that clears or counts gets to its pending row with an empty
\* table, any import to its batches with what it builds on and those it has
\* inserted; before them it is at the first one.
Progress ==
    /\ loadStep = "aggregates" => bars = Nothing
    /\ loadStep = "start" /\ (replaceDates \/ skipExisting) => bars = Nothing
    /\ loadStep = "prepare" => bars = under
    /\ loadStep \notin {"idle", "insert", "fail"} => batch = 1
    /\ loadStep = "insert" => bars = SoFar /\ batch <= NumBatches + 1
    /\ loadStep \in {"check", "count"} => ~replaceDates
    /\ loadStep = "count" => skipExisting

\* The aggregates follow the bars but for a clearing that has stopped short.
Following ==
    /\ ~clearing => aggregates = bars
    /\ loadStep = "start" /\ replaceDates => aggregates = Nothing

\* While rows come in, the ledger says pending.
Announced == loadStep \in {"prepare", "insert", "fail"} => latest.status = "pending"

FileInv == LoadType /\ NoBarTwice /\ Progress /\ Following /\ Announced /\ LedgerIsRight

LEMMA NothingType == Nothing \in Table /\ \A v \in Versions, b \in Batches : Nothing[v][b] = 0
  BY DEF Nothing, Table

LEMMA WholeFileIsSoFar ==
    ASSUME version \in Versions, under \in Table, batch = NumBatches + 1
    PROVE  SoFar = Appended(under, WholeFile(version))
<1>1. \A b \in Batches : b < batch
  BY FileImportConstants DEF Batches
<1>2. WholeFile(version) = [v \in Versions |-> IF v = version THEN [b \in Batches |-> 1] ELSE [b \in Batches |-> 0]]
  BY DEF WholeFile, Nothing
<1>3. ASSUME NEW v \in Versions, NEW b \in Batches
      PROVE  under[v][b] + WholeFile(version)[v][b] = IF v = version /\ b < batch THEN under[v][b] + 1 ELSE under[v][b]
  <2>1. WholeFile(version)[v][b] = IF v = version THEN 1 ELSE 0
    BY <1>2
  <2>2. under[v][b] \in Nat
    BY DEF Table
  <2>3. QED
    BY <1>1, <2>1, <2>2
<1>4. ASSUME NEW v \in Versions
      PROVE  [b \in Batches |-> under[v][b] + WholeFile(version)[v][b]]
               = [b \in Batches |-> IF v = version /\ b < batch THEN under[v][b] + 1 ELSE under[v][b]]
  BY <1>3
<1>5. Appended(under, WholeFile(version)) = [v \in Versions |-> [b \in Batches |-> under[v][b] + WholeFile(version)[v][b]]]
  BY DEF Appended
<1>6. QED
  BY <1>4, <1>5 DEF SoFar

LEMMA NothingSoFar == ASSUME under \in Table, batch = 1 PROVE SoFar = under
<1>1. \A b \in Batches : ~(b < batch)
  BY DEF Batches
<1>2. SoFar = [v \in Versions |-> [b \in Batches |-> under[v][b]]]
  BY <1>1 DEF SoFar
<1>3. QED
  BY <1>2 DEF Table

\* A table that holds what was found, or nothing, holds nothing twice.
LEMMA NotTwice ==
    ASSUME under \in Table, NEW held \in {under, Nothing}
    PROVE  \A v \in Versions, b \in Batches : held[v][b] <= under[v][b] + 1
<1> SUFFICES ASSUME NEW v \in Versions, NEW b \in Batches PROVE held[v][b] <= under[v][b] + 1
  OBVIOUS
<1>1. under[v][b] \in Nat
  BY DEF Table
<1>2. held[v][b] = under[v][b] \/ held[v][b] = 0
  BY NothingType
<1>3. QED
  BY <1>1, <1>2

LEMMA FileInitially == FileInit => FileInv
<1> SUFFICES ASSUME FileInit PROVE FileInv
  OBVIOUS
<1>0. /\ bars = Nothing /\ aggregates = Nothing /\ loadStep = "idle" /\ batch = 1
      /\ under = Nothing /\ clearing = FALSE
  BY DEF FileInit
<1>1. LoadType /\ NoBarTwice
  <2>2. bars \in Table /\ aggregates \in Table /\ under \in Table
    BY <1>0, NothingType
  <2>1. NoBarTwice
    BY <1>0, <2>2, NotTwice DEF NoBarTwice
  <2>3. batch \in Nat /\ batch >= 1
    BY <1>0
  <2>4. clearing \in BOOLEAN
    BY <1>0, Zenon
  <2>5. loadStep \in LoadSteps /\ ~(loadStep # "idle")
    BY <1>0 DEF LoadSteps
  <2>6. LoadType
    BY <2>2, <2>3, <2>4, <2>5 DEF LoadType
  <2>7. QED
    BY <2>1, <2>6
<1>2. Progress /\ Following /\ Announced /\ LedgerIsRight
  BY DEF FileInit, Progress, Following, Announced, LedgerIsRight
<1>3. QED
  BY <1>1, <1>2 DEF FileInv

(***************************************************************************)
(* Steps that leave tables and ledger alone                                *)
(***************************************************************************)

LEMMA QuietSteps ==
    ASSUME FileInv, UNCHANGED <<tableVars, fileLedgerVars, under, clearing>>,
           \/ \E v \in Versions, replace, skip \in BOOLEAN : StartLoad(v, replace, skip)
           \/ AlreadySucceeded \/ CountExisting \/ LookupFails \/ Prepare \/ PrepareFails \/ LoadDies
    PROVE  FileInv'
<1> USE DEF FileInv
<1>0. UNCHANGED <<bars, aggregates, latest, under, clearing>>
  BY DEF tableVars, fileLedgerVars
<1>1. NoBarTwice' /\ LedgerIsRight'
  <2>1. \A v : WholeFile(v)' = WholeFile(v)
    BY DEF WholeFile, Nothing
  <2>2. QED
    BY <1>0, <2>1 DEF NoBarTwice, LedgerIsRight, Appended
<1>2. ASSUME NEW v \in Versions, NEW replace \in BOOLEAN, NEW skip \in BOOLEAN, StartLoad(v, replace, skip)
      PROVE  FileInv'
  BY <1>0, <1>1, <1>2 DEF StartLoad, GoesOn, LoadType, LoadSteps, Progress, Following, Announced
<1>3. CASE AlreadySucceeded
  BY <1>0, <1>1, <1>3 DEF AlreadySucceeded, GoesOn, LoadEnds, loadLocals, LoadType, LoadSteps,
                          Progress, Following, Announced
<1>4. CASE CountExisting
  <2>1. /\ loadStep = "count" /\ UNCHANGED <<version, replaceDates, skipExisting, batch>>
        /\ loadStep' = IF bars # Nothing THEN "idle" ELSE "start"
    BY <1>4 DEF CountExisting, GoesOn, LoadEnds, loadLocals
  <2>2. QED
    BY <1>0, <1>1, <2>1 DEF LoadType, LoadSteps, Progress, Following, Announced
<1>5. CASE LookupFails \/ PrepareFails \/ LoadDies
  BY <1>0, <1>1, <1>5 DEF LookupFails, PrepareFails, LoadDies, CallFails, GoesOn, LoadEnds, loadLocals,
                          LoadType, LoadSteps, Progress, Following, Announced
<1>6. CASE Prepare
  <2>1. /\ loadStep = "prepare" /\ loadStep' = "insert" /\ UNCHANGED <<version, replaceDates, skipExisting, batch>>
    BY <1>6 DEF Prepare, GoesOn, loadLocals
  <2>2. bars = SoFar /\ batch = 1 /\ batch <= NumBatches + 1
    BY <2>1, NothingSoFar, FileImportConstants DEF Progress, LoadType
  <2>3. SoFar' = SoFar
    BY <1>0, <2>1 DEF SoFar
  <2>4. QED
    BY <1>0, <1>1, <2>1, <2>2, <2>3 DEF LoadType, LoadSteps, Progress, Following, Announced
<1>7. QED
  BY <1>2, <1>3, <1>4, <1>5, <1>6

(***************************************************************************)
(* Steps that clear                                                        *)
(***************************************************************************)

LEMMA ClearingSteps ==
    ASSUME FileInv,
           \/ ReplaceBars \/ ReplaceAggregates
           \/ \E applied \in BOOLEAN : ReplaceFails(applied)
    PROVE  FileInv'
<1> USE DEF FileInv
<1>1. CASE ReplaceBars
  <2>1. /\ loadStep = "replace" /\ loadStep' = "aggregates" /\ bars' = Nothing /\ clearing' = TRUE
        /\ UNCHANGED <<aggregates, latest, under, version, replaceDates, skipExisting, batch>>
    BY <1>1 DEF ReplaceBars, GoesOn, fileLedgerVars, loadLocals
  <2>2. LoadType' /\ NoBarTwice'
    <3>1. \A v \in Versions, b \in Batches : Nothing[v][b] <= under[v][b] + 1
      BY NotTwice DEF LoadType
    <3>2. QED
      BY <2>1, <3>1, NothingType DEF LoadType, LoadSteps, NoBarTwice
  <2>3. Nothing' = Nothing
    BY DEF Nothing
  <2>4. QED
    BY <2>1, <2>2, <2>3 DEF Progress, Following, Announced, LedgerIsRight
<1>2. CASE ReplaceAggregates
  <2>1. /\ loadStep = "aggregates" /\ loadStep' = "start" /\ aggregates' = Nothing
        /\ UNCHANGED <<bars, clearing, latest, under, version, replaceDates, skipExisting, batch>>
    BY <1>2 DEF ReplaceAggregates, GoesOn, fileLedgerVars, loadLocals
  <2>2. LoadType' /\ NoBarTwice'
    BY <2>1, NothingType DEF LoadType, LoadSteps, NoBarTwice
  <2>3. bars = Nothing
    BY <2>1 DEF Progress
  <2>n. Nothing' = Nothing
    BY DEF Nothing
  <2>4. LedgerIsRight'
    <3>1. \A v : WholeFile(v)' = WholeFile(v)
      BY DEF WholeFile, Nothing
    <3>2. QED
      BY <2>1, <2>3, <3>1 DEF LedgerIsRight, Appended
  <2>5. QED
    BY <2>1, <2>2, <2>3, <2>n, <2>4 DEF Progress, Following, Announced
<1>3. ASSUME NEW applied \in BOOLEAN, ReplaceFails(applied) PROVE FileInv'
  <2>1. /\ loadStep \in {"replace", "aggregates"} /\ loadStep' = "idle"
        /\ bars' = IF applied /\ loadStep = "replace" THEN Nothing ELSE bars
        /\ aggregates' = IF applied /\ loadStep = "aggregates" THEN Nothing ELSE aggregates
        /\ clearing' = (clearing \/ applied)
        /\ UNCHANGED <<latest, under, version, replaceDates, skipExisting, batch>>
    BY <1>3 DEF ReplaceFails, LoadEnds, fileLedgerVars, loadLocals
  <2>2. bars' \in {bars, Nothing} /\ aggregates' \in {aggregates, Nothing}
    BY <2>1
  <2>3. LoadType' /\ NoBarTwice'
    <3>1. \A v \in Versions, b \in Batches : Nothing[v][b] <= under[v][b] + 1
      BY NotTwice DEF LoadType
    <3>2. QED
      BY <2>1, <2>2, <3>1, NothingType DEF LoadType, LoadSteps, NoBarTwice
  <2>4. ~clearing' => ~clearing /\ bars' = bars /\ aggregates' = aggregates
    BY <2>1
  <2>5. LedgerIsRight'
    <3>1. \A v : WholeFile(v)' = WholeFile(v)
      BY DEF WholeFile, Nothing
    <3>2. QED
      BY <2>1, <2>4, <3>1 DEF LedgerIsRight, Appended
  <2>6. QED
    BY <2>1, <2>3, <2>4, <2>5 DEF Progress, Following, Announced
<1>4. QED
  BY <1>1, <1>2, <1>3

(***************************************************************************)
(* Steps that write the ledger                                             *)
(***************************************************************************)

LEMMA StartSteps ==
    ASSUME FileInv, LedgerStart \/ \E applied \in BOOLEAN : LedgerStartFails(applied)
    PROVE  FileInv'
<1> USE DEF FileInv
<1>1. /\ loadStep = "start" /\ UNCHANGED <<bars, aggregates, version, replaceDates, skipExisting, batch>>
      /\ loadStep' \in {"prepare", "idle"}
      /\ \/ UNCHANGED <<latest, under, clearing>> /\ loadStep' = "idle"
         \/ Announces
  BY DEF LedgerStart, LedgerStartFails, GoesOn, LoadEnds, tableVars, fileLedgerVars, loadLocals
<1>2. batch = 1
  BY <1>1 DEF Progress
<1>3. CASE UNCHANGED <<latest, under, clearing>> /\ loadStep' = "idle"
  <2>1. \A v : WholeFile(v)' = WholeFile(v)
    BY DEF WholeFile, Nothing
  <2>2. QED
    BY <1>1, <1>2, <1>3, <2>1 DEF LoadType, LoadSteps, NoBarTwice, Progress, Following, Announced, LedgerIsRight, Appended
<1>4. CASE Announces
  <2>1. /\ latest'.status = "pending" /\ clearing' = (clearing /\ ~replaceDates)
        /\ under' = IF replaceDates \/ skipExisting THEN Nothing ELSE bars
    BY <1>4 DEF Announces, RecordRow
  <2>2. under' = bars
    BY <1>1, <2>1 DEF Progress
  <2>3. LoadType'
    BY <1>1, <2>1, <2>2 DEF LoadType, LoadSteps
  <2>4. NoBarTwice'
    <3>1. under' \in Table /\ bars' = under'
      BY <1>1, <2>2 DEF LoadType
    <3>2. \A v \in Versions, b \in Batches : under'[v][b] \in Nat
      BY <3>1 DEF Table
    <3>3. QED
      BY <3>1, <3>2 DEF NoBarTwice
  <2>5. Progress' /\ Announced' /\ LedgerIsRight'
    BY <1>1, <1>2, <2>1, <2>2 DEF Progress, Announced, LedgerIsRight
  <2>6. Following'
    BY <1>1, <2>1 DEF Following, Progress
  <2>7. QED
    BY <2>3, <2>4, <2>5, <2>6
<1>5. QED
  BY <1>1, <1>3, <1>4

LEMMA EndSteps ==
    ASSUME FileInv,
           \/ RecordLoadFailure \/ MarkLoaded
           \/ \E applied \in BOOLEAN : RecordLoadFailureFails(applied) \/ MarkLoadedFails(applied)
    PROVE  FileInv'
<1> USE DEF FileInv
<1>1. /\ UNCHANGED <<bars, aggregates, under, clearing, version, replaceDates, skipExisting, batch>>
      /\ loadStep' = "idle"
      /\ loadStep \in {"insert", "fail"}
      /\ \/ latest' = latest \/ latest'.status = "failed"
         \/ loadStep = "insert" /\ batch > NumBatches /\ latest' = [of |-> version, status |-> "success"]
  BY DEF RecordLoadFailure, MarkLoaded, RecordLoadFailureFails, MarkLoadedFails, RecordRow, LoadEnds,
         tableVars, fileLedgerVars, loadLocals
<1>2. LoadType' /\ NoBarTwice' /\ Progress' /\ Following' /\ Announced'
  BY <1>1 DEF LoadType, LoadSteps, NoBarTwice, Progress, Following, Announced
<1>3. LedgerIsRight'
  <2>1. CASE latest' = latest \/ latest'.status = "failed"
    <3>1. \A v : WholeFile(v)' = WholeFile(v)
      BY DEF WholeFile, Nothing
    <3>2. QED
      BY <1>1, <2>1, <3>1 DEF LedgerIsRight, Appended
  <2>2. CASE loadStep = "insert" /\ batch > NumBatches /\ latest' = [of |-> version, status |-> "success"]
    <3>1. version \in Versions /\ batch = NumBatches + 1 /\ bars = SoFar
      BY <2>2, FileImportConstants DEF LoadType, LoadSteps, Progress
    <3>2. bars = Appended(under, WholeFile(version))
      BY <3>1, WholeFileIsSoFar DEF LoadType
    <3>3. ~clearing => aggregates = bars
      BY DEF Following
    <3>4. Appended(under, WholeFile(latest.of))' = Appended(under, WholeFile(version))
      <4>1. latest'.of = version /\ UNCHANGED under
        BY <1>1, <2>2
      <4>2. WholeFile(latest.of)' = WholeFile(version)
        BY <4>1 DEF WholeFile, Nothing
      <4>3. QED
        BY <4>1, <4>2 DEF Appended
    <3>5. bars' = Appended(under, WholeFile(latest.of))' /\ (~clearing' => aggregates' = bars')
      BY <1>1, <3>2, <3>3, <3>4
    <3>6. QED
      BY <3>5 DEF LedgerIsRight
  <2>3. QED
    BY <1>1, <2>1, <2>2
<1>4. QED
  BY <1>2, <1>3

(***************************************************************************)
(* Steps that insert                                                       *)
(***************************************************************************)

\* The next batch goes where only what was there before is.
LEMMA InsertedSoFar ==
    ASSUME LoadType, Progress, loadStep = "insert", batch <= NumBatches
    PROVE  /\ Inserted(bars) \in Table /\ Inserted(aggregates) \in Table
           /\ Inserted(bars) = [v \in Versions |-> [b \in Batches |->
                                   IF v = version /\ b < batch + 1 THEN under[v][b] + 1 ELSE under[v][b]]]
<1>1. version \in Versions /\ batch \in Batches /\ bars = SoFar /\ NumBatches \in Nat
  BY FileImportConstants DEF LoadType, LoadSteps, Progress, Batches
<1>2. Inserted(bars) \in Table /\ Inserted(aggregates) \in Table
  BY <1>1 DEF Inserted, LoadType, Table
<1>3. \A b \in Batches : b < batch + 1 <=> b < batch \/ b = batch
  BY <1>1 DEF Batches
<1>4. bars[version][batch] = under[version][batch]
  BY <1>1 DEF SoFar, Batches
<1>5. Inserted(bars) = [bars EXCEPT ![version][batch] = under[version][batch] + 1]
  BY <1>4 DEF Inserted
<1>6. ASSUME NEW v \in Versions, NEW b \in Batches
      PROVE  Inserted(bars)[v][b] = IF v = version /\ b < batch + 1 THEN under[v][b] + 1 ELSE under[v][b]
  <2>1. Inserted(bars)[v][b] = IF v = version /\ b = batch THEN under[v][b] + 1 ELSE SoFar[v][b]
    BY <1>1, <1>5 DEF LoadType, Table
  <2>2. SoFar[v][b] = IF v = version /\ b < batch THEN under[v][b] + 1 ELSE under[v][b]
    BY DEF SoFar
  <2>3. QED
    BY <1>3, <2>1, <2>2
<1>7. QED
  BY <1>2, <1>6 DEF Table

LEMMA InsertSteps ==
    ASSUME FileInv, InsertBatch \/ \E applied \in BOOLEAN : InsertFails(applied)
    PROVE  FileInv'
<1> USE DEF FileInv
<1>1. /\ loadStep = "insert" /\ batch <= NumBatches
      /\ UNCHANGED <<latest, under, clearing, version, replaceDates, skipExisting>>
      /\ \/ /\ bars' = Inserted(bars) /\ aggregates' = Inserted(aggregates)
            /\ \/ batch' = batch + 1 /\ loadStep' = "insert"
               \/ batch' = batch /\ loadStep' = "fail"
         \/ UNCHANGED <<bars, aggregates, batch>> /\ loadStep' = "fail"
  BY DEF InsertBatch, InsertFails, GoesOn, tableVars, fileLedgerVars, loadLocals
<1>2. /\ Inserted(bars) \in Table /\ Inserted(aggregates) \in Table
      /\ Inserted(bars) = [v \in Versions |-> [b \in Batches |->
                              IF v = version /\ b < batch + 1 THEN under[v][b] + 1 ELSE under[v][b]]]
  BY <1>1, InsertedSoFar
<1>3. LoadType'
  <2>1. bars' \in Table /\ aggregates' \in Table /\ under' \in Table
    BY <1>1, <1>2 DEF LoadType
  <2>2. batch' \in Nat /\ batch' >= 1
    BY <1>1 DEF LoadType
  <2>3. loadStep' \in LoadSteps /\ version' \in Versions /\ clearing' \in BOOLEAN
    BY <1>1 DEF LoadType, LoadSteps
  <2>4. QED
    BY <2>1, <2>2, <2>3 DEF LoadType
<1>4. NoBarTwice'
  <2>0. \A v \in Versions, b \in Batches : under[v][b] \in Nat
    BY DEF LoadType, Table
  <2>1. \A v \in Versions, b \in Batches : Inserted(bars)[v][b] <= under[v][b] + 1
    BY <1>2, <2>0
  <2>2. QED
    BY <1>1, <2>1 DEF NoBarTwice
<1>5. Progress'
  <2>1. CASE loadStep' = "fail"
    BY <2>1 DEF Progress
  <2>2. CASE loadStep' = "insert"
    <3>1. bars' = Inserted(bars) /\ batch' = batch + 1
      BY <1>1, <2>2
    <3>2. bars' = SoFar'
      BY <1>1, <1>2, <3>1 DEF SoFar
    <3>3. batch + 1 <= NumBatches + 1
      BY <1>1, FileImportConstants DEF LoadType
    <3>4. QED
      BY <2>2, <3>1, <3>2, <3>3 DEF Progress
  <2>3. QED
    BY <1>1, <2>1, <2>2
<1>6. Following'
  BY <1>1 DEF Following, Inserted
<1>7. latest.status = "pending"
  BY <1>1 DEF Announced
<1>8. Announced' /\ LedgerIsRight'
  BY <1>1, <1>7 DEF Announced, LedgerIsRight
<1>9. QED
  BY <1>3, <1>4, <1>5, <1>6, <1>8

LEMMA FileStep == FileInv /\ [FileNext]_fileVars => FileInv'
<1> SUFFICES ASSUME FileInv, [FileNext]_fileVars PROVE FileInv'
  OBVIOUS
<1>1. CASE UNCHANGED fileVars
  BY <1>1 DEF fileVars, tableVars, fileLedgerVars, loadLocals, FileInv, LoadType, NoBarTwice, Progress,
              Following, Announced, LedgerIsRight, SoFar, WholeFile, Appended, Nothing
<1>2. CASE \/ \E v \in Versions, replace, skip \in BOOLEAN : StartLoad(v, replace, skip)
           \/ AlreadySucceeded \/ CountExisting \/ LookupFails \/ Prepare \/ PrepareFails \/ LoadDies
  <2>1. UNCHANGED <<tableVars, fileLedgerVars, under, clearing>>
    BY <1>2 DEF StartLoad, AlreadySucceeded, CountExisting, LookupFails, Prepare, PrepareFails, LoadDies
  <2>2. QED
    BY <1>2, <2>1, QuietSteps
<1>3. CASE ReplaceBars \/ ReplaceAggregates \/ \E applied \in BOOLEAN : ReplaceFails(applied)
  BY <1>3, ClearingSteps
<1>4. CASE LedgerStart \/ \E applied \in BOOLEAN : LedgerStartFails(applied)
  BY <1>4, StartSteps
<1>5. CASE InsertBatch \/ \E applied \in BOOLEAN : InsertFails(applied)
  BY <1>5, InsertSteps
<1>6. CASE \/ RecordLoadFailure \/ MarkLoaded
           \/ \E applied \in BOOLEAN : RecordLoadFailureFails(applied) \/ MarkLoadedFails(applied)
  BY <1>6, EndSteps
<1>7. QED
  BY <1>1, <1>2, <1>3, <1>4, <1>5, <1>6 DEF FileNext

LEMMA FileInvariant == FileSpec => []FileInv
<1>1. QED
  BY FileInitially, FileStep, PTL DEF FileSpec

\* However often ImportOptionFile or ImportStockFile is run, in whichever
\* mode, and whatever fails or is killed, no import puts a bar into the table
\* twice: it is there once, besides what an appending import was told not to
\* look for.
THEOREM NoDuplicates == FileSpec => []NoBarTwice
<1>1. FileInv => NoBarTwice
  BY DEF FileInv
<1>2. QED
  BY <1>1, FileInvariant, PTL

\* A success the ledger shows last means that the table holds that version of
\* the file whole, alone if the import cleared or counted and on top of what
\* it found if it appended, and the aggregates the same, unless a replacing
\* import cleared them since and did not get to its pending row.
THEOREM TruthfulLedger == FileSpec => []LedgerIsRight
<1>1. FileInv => LedgerIsRight
  BY DEF FileInv
<1>2. QED
  BY <1>1, FileInvariant, PTL

(***************************************************************************)
(* GreeksBackfill                                                          *)
(***************************************************************************)

\* Min, of a set of numbers that is not empty.
LEMMA MinFacts ==
    ASSUME NEW S \in SUBSET Nat, S # {}
    PROVE  Min(S) \in S /\ \A y \in S : Min(S) <= y
<1> DEFINE To(x) == S \cap (0..x)
           Starts == {To(x) : x \in S}
<1>1. \A x \in S : x \in Nat /\ IsFiniteSet(0..x)
  BY FS_Interval
<1>2. \A x \in S : To(x) \in FiniteSubsetsOf(Nat)
  BY <1>1, FS_Subset DEF FiniteSubsetsOf
<1>3. Starts \subseteq FiniteSubsetsOf(Nat) /\ Starts # {}
  BY <1>2
<1>4. PICK T \in Starts : \A U \in Starts : ~(<<U, T>> \in StrictSubsetOrdering(Nat))
  BY <1>3, FS_StrictSubsetOrderingWellFounded, WFMin
<1>5. PICK x \in S : T = To(x)
  BY <1>4
<1>6. ASSUME NEW y \in S, ~(x <= y) PROVE FALSE
  <2>1. x \in Nat /\ y \in Nat /\ y < x
    BY <1>6, <1>1
  <2>2. To(y) \subseteq To(x) /\ x \in To(x) /\ x \notin To(y)
    BY <2>1
  <2>3. To(y) \in SUBSET Nat /\ To(x) \in SUBSET Nat /\ To(y) \in Starts
    OBVIOUS
  <2>4. <<To(y), To(x)>> \in StrictSubsetOrdering(Nat)
    BY <2>2, <2>3 DEF StrictSubsetOrdering
  <2>5. QED
    BY <1>4, <1>5, <2>3, <2>4
<1>7. QED
  BY <1>6 DEF Min

Acts == {"delete", "insert", "restore"}
Steps == {"connect", "wait", "load", "left"} \cup Acts
FillerStates == [step : Steps, task : 0..NumTasks, loaded : [Chunks -> Nat], left : SUBSET Chunks]
TableRow == [missing : Nat, filled : Nat]

GreeksTyped ==
    /\ mode \in [Backfills -> {"idle", "feed", "drain", "rebuild", "done", "failed", "dead"}]
    /\ toFeed \in [Backfills -> SUBSET GreekTasks]
    /\ DOMAIN filler = Backfills
    /\ \A b \in Backfills : DOMAIN filler[b] = FillersOf[b]
    /\ \A b \in Backfills : \A f \in FillersOf[b] : filler[b][f] \in FillerStates
    /\ optionRows \in [GreekTasks -> [Chunks -> TableRow]]

Sound(it) ==
    /\ it.step = "load" => it.task \in GreekTasks
    /\ it.step \in Acts => it.task \in GreekTasks /\ it.left # {} /\ it.left \subseteq ChunksOf(it.loaded)

FillersSound ==
    \A b \in Backfills :
        /\ mode[b] = "idle" => AllLeft(b)
        /\ \A f \in FillersOf[b] : Sound(filler[b][f])

\* What the table has of a chunk while a filler is at its task.
Fits(it, row, c) ==
    /\ it.loaded[c] \in {0, 1}
    /\ it.loaded[c] = 0 => row.missing + row.filled = 1
    /\ it.loaded[c] = 1 =>
        /\ row.missing = IF (it.step = "delete" /\ c \in it.left) \/ (it.step = "restore" /\ c \notin it.left)
                         THEN 1 ELSE 0
        /\ row.filled = IF it.step = "insert" /\ c \notin it.left THEN 1 ELSE 0

Once(row) == row.missing + row.filled = 1

Holds(b, f, t) == filler[b][f].task = t /\ filler[b][f].step \in Acts
Unheld(t) == \A b \in Backfills : \A f \in FillersOf[b] : ~Holds(b, f, t)

RowsInOrder(t) ==
    /\ \A b, d \in Backfills : \A f \in FillersOf[b], g \in FillersOf[d] :
          Holds(b, f, t) /\ Holds(d, g, t) => b = d /\ f = g
    /\ Unheld(t) => \A c \in Chunks : Once(optionRows[t][c])
    /\ \A b \in Backfills : \A f \in FillersOf[b] :
          Holds(b, f, t) => \A c \in Chunks : Fits(filler[b][f], optionRows[t][c], c)

RowsInv == \A t \in GreekTasks \ spoiled : RowsInOrder(t)

GreeksInv == GreeksTyped /\ FillersSound /\ RowsInv

\* Filler f of b is the only one that changes.
Moves(b, f, it) ==
    /\ DOMAIN filler' = Backfills
    /\ \A d \in Backfills : DOMAIN filler'[d] = FillersOf[d]
    /\ filler'[b][f] = it
    /\ \A d \in Backfills : \A g \in FillersOf[d] : <<d, g>> # <<b, f>> => filler'[d][g] = filler[d][g]

LEMMA MovesFacts ==
    ASSUME GreeksTyped, NEW b \in Backfills, NEW f \in FillersOf[b], NEW it,
           filler' = [filler EXCEPT ![b][f] = it]
    PROVE  Moves(b, f, it)
<1>1. filler' = [filler EXCEPT ![b] = [filler[b] EXCEPT ![f] = it]]
  OBVIOUS
<1>2. filler'[b] = [filler[b] EXCEPT ![f] = it] /\ \A d \in Backfills \ {b} : filler'[d] = filler[d]
  BY <1>1 DEF GreeksTyped
<1>3. DOMAIN filler' = Backfills /\ \A d \in Backfills : DOMAIN filler'[d] = FillersOf[d]
  BY <1>1, <1>2 DEF GreeksTyped
<1>4. filler'[b][f] = it
  BY <1>2 DEF GreeksTyped
<1>5. \A g \in FillersOf[b] : g # f => filler'[b][g] = filler[b][g]
  BY <1>2 DEF GreeksTyped
<1>6. QED
  BY <1>2, <1>3, <1>4, <1>5 DEF Moves

\* One filler moves, and only the rows of its task t with it.
LEMMA MoveKeeps ==
    ASSUME GreeksInv, NEW b \in Backfills, NEW f \in FillersOf[b], NEW it \in FillerStates,
           Moves(b, f, it), Sound(it), UNCHANGED mode, mode[b] # "idle",
           toFeed' \in [Backfills -> SUBSET GreekTasks],
           NEW t, optionRows' \in [GreekTasks -> [Chunks -> TableRow]],
           \A u \in GreekTasks : u # t => optionRows'[u] = optionRows[u],
           spoiled \subseteq spoiled',
           filler[b][f].step \in Acts => filler[b][f].task = t,
           it.step \in Acts => it.task = t,
           t \in GreekTasks \ spoiled' =>
               /\ it.step \in Acts => /\ filler[b][f].step \in Acts \/ Unheld(t)
                                      /\ \A c \in Chunks : Fits(it, optionRows'[t][c], c)
               /\ it.step \notin Acts =>
                    IF filler[b][f].step \in Acts THEN \A c \in Chunks : Once(optionRows'[t][c])
                    ELSE optionRows'[t] = optionRows[t]
    PROVE  GreeksInv'
<1>m. /\ filler'[b][f] = it
      /\ \A d \in Backfills : \A g \in FillersOf[d] : <<d, g>> # <<b, f>> => filler'[d][g] = filler[d][g]
  BY DEF Moves
<1>1. GreeksTyped'
  BY <1>m DEF GreeksInv, GreeksTyped, Moves
<1>2. FillersSound'
  <2> SUFFICES ASSUME NEW d \in Backfills
               PROVE  /\ mode[d] = "idle" => \A g \in FillersOf[d] : filler'[d][g].step = "left"
                      /\ \A g \in FillersOf[d] : Sound(filler'[d][g])
    BY DEF FillersSound, AllLeft, Sound, ChunksOf
  <2>1. mode[d] = "idle" => d # b
    OBVIOUS
  <2>2. QED
    BY <1>m, <2>1 DEF GreeksInv, FillersSound, AllLeft
<1>3. ASSUME NEW u \in GreekTasks \ spoiled' PROVE RowsInOrder(u)'
  <2>0. RowsInOrder(u)
    BY <1>3 DEF GreeksInv, RowsInv
  <2>h. \A d \in Backfills : \A g \in FillersOf[d] : <<d, g>> # <<b, f>> => (Holds(d, g, u)' <=> Holds(d, g, u))
    BY <1>m DEF Holds
  <2>1. CASE u # t
    <3>1. ~Holds(b, f, u) /\ ~Holds(b, f, u)'
      BY <2>1, <1>m DEF Holds
    <3>2. \A d \in Backfills : \A g \in FillersOf[d] : Holds(d, g, u)' <=> Holds(d, g, u)
      BY <2>h, <3>1
    <3>3. optionRows'[u] = optionRows[u] /\ (Unheld(u)' <=> Unheld(u))
      BY <2>1, <3>2, <1>3 DEF Unheld
    <3>4. \A d \in Backfills : \A g \in FillersOf[d] : Holds(d, g, u) => filler'[d][g] = filler[d][g]
      BY <1>m, <3>1
    <3>5. QED
      BY <2>0, <3>2, <3>3, <3>4 DEF RowsInOrder, Once, Fits
  <2>2. CASE u = t /\ it.step \in Acts
    <3>1. Holds(b, f, t)'
      BY <1>m, <2>2 DEF Holds
    <3>2. \A d \in Backfills : \A g \in FillersOf[d] : <<d, g>> # <<b, f>> => ~Holds(d, g, t)
      <4>1. CASE filler[b][f].step \in Acts
        <5>1. Holds(b, f, t)
          BY <4>1 DEF Holds
        <5>2. QED
          BY <2>0, <2>2, <5>1 DEF RowsInOrder
      <4>2. CASE Unheld(t)
        BY <4>2 DEF Unheld
      <4>3. QED
        BY <4>1, <4>2, <2>2, <1>3
    <3>3. \A d \in Backfills : \A g \in FillersOf[d] : Holds(d, g, t)' <=> <<d, g>> = <<b, f>>
      BY <2>h, <2>2, <3>1, <3>2
    <3>4. \A c \in Chunks : Fits(it, optionRows'[t][c], c)
      BY <2>2, <1>3
    <3>5. ~Unheld(t)'
      BY <3>1 DEF Unheld
    <3>6. QED
      BY <2>2, <3>3, <3>4, <3>5, <1>m DEF RowsInOrder, Fits
  <2>3. CASE u = t /\ it.step \notin Acts
    <3>1. ~Holds(b, f, t)'
      BY <1>m, <2>3 DEF Holds
    <3>2. CASE filler[b][f].step \in Acts
      <4>1. Holds(b, f, t)
        BY <3>2 DEF Holds
      <4>2. \A d \in Backfills : \A g \in FillersOf[d] : ~Holds(d, g, t)'
        BY <2>0, <2>3, <2>h, <3>1, <4>1 DEF RowsInOrder
      <4>3. QED
        BY <2>3, <3>2, <4>2, <1>3 DEF RowsInOrder, Once
    <3>3. CASE filler[b][f].step \notin Acts
      <4>1. ~Holds(b, f, t)
        BY <3>3 DEF Holds
      <4>2. \A d \in Backfills : \A g \in FillersOf[d] : Holds(d, g, t)' <=> Holds(d, g, t)
        BY <2>3, <2>h, <3>1, <4>1
      <4>3. optionRows'[t] = optionRows[t] /\ (Unheld(t)' <=> Unheld(t))
        BY <2>3, <3>3, <4>2, <1>3 DEF Unheld
      <4>4. \A d \in Backfills : \A g \in FillersOf[d] : Holds(d, g, t) => filler'[d][g] = filler[d][g]
        BY <1>m, <4>1
      <4>5. QED
        BY <2>0, <2>3, <4>2, <4>3, <4>4 DEF RowsInOrder, Once, Fits
    <3>4. QED
      BY <3>2, <3>3
  <2>4. QED
    BY <2>1, <2>2, <2>3
<1>4. QED
  BY <1>1, <1>2, <1>3 DEF GreeksInv, RowsInv

\* A filler moves that is at no rows, before and after.
LEMMA IdleMoveKeeps ==
    ASSUME GreeksInv, NEW b \in Backfills, NEW f \in FillersOf[b], NEW it \in FillerStates,
           Moves(b, f, it), Sound(it), it.step \notin Acts, filler[b][f].step \notin Acts,
           UNCHANGED <<mode, optionRows>>, mode[b] # "idle", spoiled \subseteq spoiled',
           toFeed' \in [Backfills -> SUBSET GreekTasks]
    PROVE  GreeksInv'
  BY MoveKeeps DEF GreeksInv, GreeksTyped

\* A backfill goes on, and nothing changes of its fillers and of the rows.
LEMMA CallKeeps ==
    ASSUME GreeksInv, NEW b \in Backfills, UNCHANGED <<filler, optionRows, spoiled>>,
           NEW m \in {"feed", "drain", "rebuild", "done", "failed", "dead"},
           mode' = mode \/ mode' = [mode EXCEPT ![b] = m],
           toFeed' \in [Backfills -> SUBSET GreekTasks]
    PROVE  GreeksInv'
<1>1. GreeksTyped'
  BY DEF GreeksInv, GreeksTyped
<1>2. \A d \in Backfills : mode'[d] = "idle" => mode[d] = "idle"
  BY DEF GreeksInv, GreeksTyped
<1>3. FillersSound'
  BY <1>2 DEF GreeksInv, FillersSound, AllLeft, Sound, ChunksOf
<1>4. \A b1 \in Backfills : \A f \in FillersOf[b1] : \A t \in GreekTasks : Holds(b1, f, t)' <=> Holds(b1, f, t)
  BY DEF Holds
<1>5. RowsInv'
  BY <1>4 DEF GreeksInv, RowsInv, RowsInOrder, Unheld, Once, Fits
<1>6. QED
  BY <1>1, <1>3, <1>5 DEF GreeksInv

\* The fillers of b start or are gone, and leave no rows that count.
LEMMA ResetKeeps ==
    ASSUME GreeksInv, NEW b \in Backfills, NEW rest \in {"connect", "left"},
           filler' = [filler EXCEPT ![b] = [f \in FillersOf[b] |-> AtRest(rest)]],
           NEW m \in {"feed", "dead"}, mode' = [mode EXCEPT ![b] = m],
           toFeed' \in [Backfills -> SUBSET GreekTasks],
           UNCHANGED optionRows, spoiled \subseteq spoiled',
           \A t \in GreekTasks \ spoiled' : \A f \in FillersOf[b] : ~Holds(b, f, t)
    PROVE  GreeksInv'
<1>r. AtRest(rest) \in FillerStates /\ Sound(AtRest(rest)) /\ AtRest(rest).step = rest
  BY GreeksConstants DEF AtRest, NoTask, FillerStates, Steps, Acts, Sound
<1>m. /\ DOMAIN filler' = Backfills
      /\ \A d \in Backfills \ {b} : filler'[d] = filler[d]
      /\ DOMAIN filler'[b] = FillersOf[b] /\ \A f \in FillersOf[b] : filler'[b][f] = AtRest(rest)
  BY DEF GreeksInv, GreeksTyped
<1>n. mode'[b] # "idle" /\ \A d \in Backfills \ {b} : mode'[d] = mode[d]
  BY DEF GreeksInv, GreeksTyped
<1>1. GreeksTyped'
  <2>1. mode' \in [Backfills -> {"idle", "feed", "drain", "rebuild", "done", "failed", "dead"}]
    BY DEF GreeksInv, GreeksTyped
  <2>2. \A d \in Backfills : DOMAIN filler'[d] = FillersOf[d]
    BY <1>m DEF GreeksInv, GreeksTyped
  <2>3. \A d \in Backfills : \A f \in FillersOf[d] : filler'[d][f] \in FillerStates
    BY <1>m, <1>r DEF GreeksInv, GreeksTyped
  <2>4. QED
    BY <1>m, <2>1, <2>2, <2>3 DEF GreeksInv, GreeksTyped
<1>2. FillersSound'
  <2> SUFFICES ASSUME NEW d \in Backfills
               PROVE  /\ mode'[d] = "idle" => \A f \in FillersOf[d] : filler'[d][f].step = "left"
                      /\ \A f \in FillersOf[d] : Sound(filler'[d][f])
    BY DEF FillersSound, AllLeft, Sound, ChunksOf
  <2>1. CASE d = b
    BY <2>1, <1>m, <1>n, <1>r
  <2>2. CASE d # b
    BY <2>2, <1>m, <1>n DEF GreeksInv, FillersSound, AllLeft
  <2>3. QED
    BY <2>1, <2>2
<1>3. ASSUME NEW t \in GreekTasks \ spoiled' PROVE RowsInOrder(t)'
  <2>0. RowsInOrder(t)
    BY <1>3 DEF GreeksInv, RowsInv
  <2>1. \A d \in Backfills : \A f \in FillersOf[d] : Holds(d, f, t)' <=> Holds(d, f, t)
    <3>1. \A f \in FillersOf[b] : ~Holds(b, f, t)'
      BY <1>m, <1>r DEF Holds, Acts
    <3>2. \A d \in Backfills \ {b} : \A f \in FillersOf[d] : Holds(d, f, t)' <=> Holds(d, f, t)
      BY <1>m DEF Holds
    <3>3. QED
      BY <3>1, <3>2, <1>3
  <2>2. \A d \in Backfills : \A f \in FillersOf[d] : Holds(d, f, t) => filler'[d][f] = filler[d][f]
    BY <1>m, <1>3
  <2>3. Unheld(t)' <=> Unheld(t)
    BY <2>1 DEF Unheld
  <2>4. QED
    BY <2>0, <2>1, <2>2, <2>3 DEF RowsInOrder, Once, Fits
<1>4. QED
  BY <1>1, <1>2, <1>3 DEF GreeksInv, RowsInv

\* A filler at rows is at the chunk it will strike off next.
LEMMA AtRows ==
    ASSUME GreeksInv, NEW b \in Backfills, NEW f \in FillersOf[b], filler[b][f].step \in Acts
    PROVE  /\ mode[b] # "idle" /\ filler[b][f] \in FillerStates
           /\ filler[b][f].task \in GreekTasks
           /\ ChunksOf(filler[b][f].loaded) \subseteq Chunks
           /\ filler[b][f].left \subseteq ChunksOf(filler[b][f].loaded)
           /\ ChunkAt(b, f) \in filler[b][f].left
           /\ IsFiniteSet(filler[b][f].left)
           /\ Cardinality(filler[b][f].left) \in Nat \ {0}
           /\ Cardinality(filler[b][f].left) = 1 <=> filler[b][f].left = {ChunkAt(b, f)}
<1> DEFINE it == filler[b][f]
<1>1. it \in FillerStates /\ Sound(it) /\ mode[b] # "idle"
  BY DEF GreeksInv, GreeksTyped, FillersSound, AllLeft, Acts
<1>2. it.task \in GreekTasks /\ it.left # {} /\ it.left \subseteq ChunksOf(it.loaded)
  BY <1>1 DEF Sound
<1>3. ChunksOf(it.loaded) \subseteq Chunks /\ Chunks \subseteq Nat
  BY DEF ChunksOf, Chunks
<1>4. Min(it.left) \in it.left
  BY <1>2, <1>3, MinFacts
<1>5. IsFiniteSet(Chunks)
  BY GreeksConstants, FS_Interval DEF Chunks
<1>6. IsFiniteSet(it.left) /\ Cardinality(it.left) \in Nat /\ Cardinality(it.left) # 0
  BY <1>2, <1>3, <1>5, FS_Subset, FS_EmptySet, FS_CardinalityType
<1>7. Cardinality(it.left) = 1 <=> \E x : it.left = {x}
  BY <1>6, FS_Singleton
<1>8. ChunkAt(b, f) \in it.left
  BY <1>4 DEF ChunkAt
<1>9. Cardinality(it.left) = 1 <=> it.left = {ChunkAt(b, f)}
  BY <1>7, <1>8
<1>10. QED
  BY <1>1, <1>2, <1>3, <1>6, <1>8, <1>9

LEMMA AtWork ==
    ASSUME GreeksInv, NEW b \in Backfills, NEW f \in FillersOf[b], filler[b][f].step # "left"
    PROVE  /\ mode[b] # "idle" /\ filler[b][f] \in FillerStates /\ Sound(filler[b][f])
           /\ toFeed \in [Backfills -> SUBSET GreekTasks]
  BY DEF GreeksInv, GreeksTyped, FillersSound, AllLeft

LEMMA AtRestSound ==
    ASSUME NEW rest \in {"connect", "wait", "left"}
    PROVE  AtRest(rest) \in FillerStates /\ Sound(AtRest(rest)) /\ AtRest(rest).step = rest
  BY GreeksConstants DEF AtRest, NoTask, FillerStates, Steps, Acts, Sound

\* A filler that is at no rows takes another step to none.
LEMMA StepKeeps ==
    ASSUME GreeksInv, NEW b \in Backfills, NEW f \in FillersOf[b],
           filler[b][f].step \in {"connect", "wait"}, NEW rest \in {"wait", "left"},
           filler' = [filler EXCEPT ![b][f].step = rest],
           UNCHANGED <<mode, optionRows, toFeed, spoiled>>
    PROVE  GreeksInv'
<1> DEFINE it == [filler[b][f] EXCEPT !.step = rest]
<1>1. mode[b] # "idle" /\ filler[b][f] \in FillerStates /\ toFeed' \in [Backfills -> SUBSET GreekTasks]
  BY AtWork
<1>2. it \in FillerStates /\ it.step = rest
  BY <1>1 DEF FillerStates, Steps
<1>3. Sound(it) /\ it.step \notin Acts /\ filler[b][f].step \notin Acts
  BY <1>2 DEF Sound, Acts
<1>4. filler' = [filler EXCEPT ![b][f] = it]
  OBVIOUS
<1>5. Moves(b, f, it)
  BY <1>4, MovesFacts DEF GreeksInv
<1> HIDE DEF it
<1>6. QED
  BY <1>1, <1>2, <1>3, <1>5, IdleMoveKeeps

LEMMA GivenTask ==
    ASSUME NEW r \in FillerStates, NEW t \in GreekTasks
    PROVE  [r EXCEPT !.step = "load", !.task = t] \in FillerStates
<1>1. t \in 0..NumTasks /\ "load" \in Steps
  BY GreeksConstants DEF Steps, GreekTasks
<1>2. [r EXCEPT !.step = "load"] \in FillerStates
  BY <1>1 DEF FillerStates
<1>3. [[r EXCEPT !.step = "load"] EXCEPT !.task = t] \in FillerStates
  BY <1>1, <1>2 DEF FillerStates
<1>4. [r EXCEPT !.step = "load", !.task = t] = [[r EXCEPT !.step = "load"] EXCEPT !.task = t]
  OBVIOUS
<1>5. QED
  BY <1>3, <1>4

LEMMA HandStep ==
    ASSUME GreeksInv, NEW b \in Backfills, NEW f \in FillersOf[b], HandTask(b, f) PROVE GreeksInv'
<1> DEFINE t == Min(toFeed[b])
           it == [filler[b][f] EXCEPT !.step = "load", !.task = t]
<1>1. filler[b][f].step = "wait" /\ UNCHANGED <<mode, optionRows, spoiled>>
  BY DEF HandTask, tables, greeksHistory
<1>2. mode[b] # "idle" /\ filler[b][f] \in FillerStates /\ toFeed \in [Backfills -> SUBSET GreekTasks]
  BY <1>1, AtWork
<1>3. toFeed[b] # {} /\ toFeed[b] \in SUBSET Nat
  BY <1>2 DEF HandTask, GreekTasks
<1>4. t \in GreekTasks
  BY <1>2, <1>3, MinFacts
<1>5. toFeed' \in [Backfills -> SUBSET GreekTasks]
  BY <1>2 DEF HandTask
<1>6. filler' = [filler EXCEPT ![b][f].step = "load", ![b][f].task = t]
  BY DEF HandTask
<1> HIDE DEF t
<1>7. it \in FillerStates /\ it.step = "load" /\ it.task = t
  BY <1>2, <1>4, GivenTask DEF FillerStates
<1>8. Sound(it) /\ it.step \notin Acts /\ filler[b][f].step \notin Acts
  BY <1>1, <1>4, <1>7 DEF Sound, Acts
<1>9. filler' = [filler EXCEPT ![b][f] = it]
  BY <1>6 DEF GreeksInv, GreeksTyped
<1>10. Moves(b, f, it)
  BY <1>9, MovesFacts DEF GreeksInv
<1> HIDE DEF it
<1>11. QED
  BY <1>1, <1>2, <1>5, <1>7, <1>8, <1>10, IdleMoveKeeps

\* A filler that is at no rows is through with its task.
LEMMA RestKeeps ==
    ASSUME GreeksInv, NEW b \in Backfills, NEW f \in FillersOf[b], filler[b][f].step = "load",
           TaskDone(b, f), UNCHANGED <<mode, optionRows, toFeed, spoiled>>
    PROVE  GreeksInv'
<1>1. mode[b] # "idle" /\ toFeed' \in [Backfills -> SUBSET GreekTasks] /\ filler[b][f].step \notin Acts
  BY AtWork DEF Acts
<1>2. AtRest("wait") \in FillerStates /\ Sound(AtRest("wait")) /\ AtRest("wait").step \notin Acts
  BY AtRestSound DEF Acts
<1>3. Moves(b, f, AtRest("wait"))
  BY MovesFacts DEF TaskDone, GreeksInv
<1>4. QED
  BY <1>1, <1>2, <1>3, IdleMoveKeeps

LEMMA NobodyAt == ASSUME NEW t, HaveLoaded(t) = {} PROVE Unheld(t)
<1> SUFFICES ASSUME NEW b \in Backfills, NEW f \in FillersOf[b], Holds(b, f, t) PROVE FALSE
  BY DEF Unheld
<1> DEFINE x == <<b, f>>
<1>1. x \in {b} \X FillersOf[b]
  OBVIOUS
<1>2. x \in Pool
  BY <1>1 DEF Pool
<1>3. filler[x[1]][x[2]].task = t /\ filler[x[1]][x[2]].step \in {"delete", "insert", "restore"}
  BY DEF Holds, Acts
<1> HIDE DEF x
<1>4. x \in HaveLoaded(t)
  BY <1>2, <1>3 DEF HaveLoaded
<1>5. QED
  BY <1>4

LEMMA LoadStep ==
    ASSUME GreeksInv, NEW b \in Backfills, NEW f \in FillersOf[b], LoadRows(b, f) PROVE GreeksInv'
<1> DEFINE t == filler[b][f].task
           it == [step |-> "delete", task |-> t, loaded |-> Loaded(t), left |-> ChunksOf(Loaded(t))]
<1>1. filler[b][f].step = "load" /\ UNCHANGED <<mode, optionRows, toFeed>>
  BY DEF LoadRows, tables, backfillLocals
<1>2. CASE TaskDone(b, f) /\ UNCHANGED spoiled
  BY <1>1, <1>2, RestKeeps
<1>3. CASE /\ ChunksOf(Loaded(t)) # {}
           /\ filler' = [filler EXCEPT ![b][f] = it]
           /\ spoiled' = IF HaveLoaded(t) = {} THEN spoiled ELSE spoiled \cup {t}
  <2>1. mode[b] # "idle" /\ toFeed' \in [Backfills -> SUBSET GreekTasks] /\ t \in GreekTasks
    BY <1>1, AtWork DEF Sound
  <2>2. optionRows \in [GreekTasks -> [Chunks -> TableRow]]
    BY DEF GreeksInv, GreeksTyped
  <2>3. Loaded(t) \in [Chunks -> Nat] /\ ChunksOf(Loaded(t)) \subseteq Chunks
    BY <2>1, <2>2 DEF Loaded, ChunksOf, TableRow
  <2>4. it \in FillerStates /\ it.step \in Acts /\ it.task = t
    BY <2>1, <2>3, GreeksConstants DEF FillerStates, Steps, Acts, GreekTasks
  <2>5. Sound(it)
    BY <1>3, <2>1 DEF Sound
  <2>6. Moves(b, f, it)
    BY <1>3, MovesFacts DEF GreeksInv
  <2>7. ASSUME t \notin spoiled' PROVE Unheld(t) /\ \A c \in Chunks : Fits(it, optionRows'[t][c], c)
    <3>1. Unheld(t) /\ t \notin spoiled
      BY <1>3, <2>7, NobodyAt
    <3>2. \A c \in Chunks : Once(optionRows[t][c])
      BY <2>1, <3>1 DEF GreeksInv, RowsInv, RowsInOrder
    <3>3. ASSUME NEW c \in Chunks PROVE Fits(it, optionRows[t][c], c)
      <4>1. /\ optionRows[t][c].missing \in Nat /\ optionRows[t][c].filled \in Nat
            /\ optionRows[t][c].missing + optionRows[t][c].filled = 1
        BY <2>1, <2>2, <3>2 DEF TableRow, Once
      <4>2. Loaded(t)[c] = IF <<t, c>> \in priced THEN optionRows[t][c].missing ELSE 0
        BY DEF Loaded
      <4>3. c \in ChunksOf(Loaded(t)) <=> Loaded(t)[c] > 0
        BY DEF ChunksOf
      <4>4. it.step = "delete" /\ it.loaded[c] = Loaded(t)[c] /\ (c \in it.left <=> c \in ChunksOf(Loaded(t)))
        OBVIOUS
      <4> DEFINE had == Loaded(t)[c]
      <4>5. had = 0 \/ (had = 1 /\ optionRows[t][c].missing = 1 /\ optionRows[t][c].filled = 0)
        BY <4>1, <4>2
      <4>6. it.loaded[c] = had /\ (c \in it.left <=> had > 0)
        BY <4>3, <4>4
      <4> HIDE DEF had, it
      <4>7. QED
        BY <4>1, <4>4, <4>5, <4>6 DEF Fits
    <3>4. QED
      BY <1>1, <3>1, <3>3
  <2>8. filler[b][f].step \notin Acts /\ spoiled \subseteq spoiled'
    BY <1>1, <1>3 DEF Acts
  <2> HIDE DEF it
  <2>9. QED
    BY <1>1, <2>1, <2>2, <2>4, <2>5, <2>6, <2>7, <2>8, MoveKeeps
<1>4. QED
  BY <1>2, <1>3 DEF LoadRows

\* A filler at rows takes the next chunk, or the first one of its next step.
LEMMA NextFacts ==
    ASSUME GreeksInv, NEW b \in Backfills, NEW f \in FillersOf[b], filler[b][f].step \in Acts,
           NEW then \in Acts, NextChunk(b, f, then)
    PROVE  \E it \in FillerStates :
               /\ Moves(b, f, it) /\ Sound(it) /\ it.step \in Acts
               /\ it.task = filler[b][f].task /\ it.loaded = filler[b][f].loaded
               /\ \/ it.step = filler[b][f].step /\ it.left = filler[b][f].left \ {ChunkAt(b, f)}
                  \/ /\ filler[b][f].left = {ChunkAt(b, f)}
                     /\ it.step = then /\ it.left = ChunksOf(filler[b][f].loaded)
<1> DEFINE old == filler[b][f]
           c == ChunkAt(b, f)
<1>1. /\ old \in FillerStates /\ old.task \in GreekTasks
      /\ ChunksOf(old.loaded) \subseteq Chunks /\ old.left \subseteq ChunksOf(old.loaded) /\ c \in old.left
      /\ Cardinality(old.left) \in Nat \ {0} /\ (Cardinality(old.left) = 1 <=> old.left = {c})
  BY AtRows
<1>2. CASE Cardinality(old.left) > 1
  <2> DEFINE it == [old EXCEPT !.left = old.left \ {c}]
  <2>1. filler' = [filler EXCEPT ![b][f].left = @ \ {c}]
    BY <1>2 DEF NextChunk
  <2>2. filler' = [filler EXCEPT ![b][f] = it]
    BY <2>1
  <2>3. Moves(b, f, it)
    BY <2>2, MovesFacts DEF GreeksInv
  <2>4. it \in FillerStates /\ it.step = old.step /\ it.task = old.task /\ it.loaded = old.loaded
        /\ it.left = old.left \ {c}
    BY <1>1 DEF FillerStates
  <2>5. old.left \ {c} # {}
    BY <1>1, <1>2
  <2>6. Sound(it)
    BY <1>1, <2>4, <2>5 DEF Sound, Acts
  <2>7. QED
    BY <2>3, <2>4, <2>6
<1>3. CASE ~(Cardinality(old.left) > 1)
  <2> DEFINE it == [old EXCEPT !.step = then, !.left = ChunksOf(old.loaded)]
  <2>1. filler' = [filler EXCEPT ![b][f].step = then, ![b][f].left = ChunksOf(old.loaded)]
    BY <1>3 DEF NextChunk
  <2>2. filler' = [filler EXCEPT ![b][f] = it]
    BY <2>1 DEF GreeksInv, GreeksTyped
  <2>3. Moves(b, f, it)
    BY <2>2, MovesFacts DEF GreeksInv
  <2>4. it \in FillerStates /\ it.step = then /\ it.task = old.task /\ it.loaded = old.loaded
        /\ it.left = ChunksOf(old.loaded)
    <3> DEFINE all == ChunksOf(old.loaded)
               stepped == [old EXCEPT !.step = then]
    <3>1. all \in SUBSET Chunks /\ old \in FillerStates /\ then \in Steps
      BY <1>1 DEF Steps
    <3>2. it = [stepped EXCEPT !.left = all]
      OBVIOUS
    <3> HIDE DEF it, all
    <3>3. /\ stepped \in FillerStates /\ stepped.step = then
          /\ stepped.task = old.task /\ stepped.loaded = old.loaded
      BY <3>1 DEF FillerStates
    <3> HIDE DEF stepped
    <3>4. /\ it \in FillerStates /\ it.left = all /\ it.step = stepped.step
          /\ it.task = stepped.task /\ it.loaded = stepped.loaded
      BY <3>1, <3>2, <3>3 DEF FillerStates
    <3>5. QED
      BY <3>3, <3>4 DEF all
  <2>5. old.left = {c}
    BY <1>1, <1>3
  <2>6. Sound(it)
    BY <1>1, <2>4, <2>5 DEF Sound, Acts
  <2>7. QED
    BY <2>3, <2>4, <2>5, <2>6
<1>4. QED
  BY <1>2, <1>3

\* Of the task of one filler, what the table has; nothing else of the rows moves.
RowOf(t, c, row) ==
    /\ optionRows' \in [GreekTasks -> [Chunks -> TableRow]]
    /\ \A u \in GreekTasks : u # t => optionRows'[u] = optionRows[u]
    /\ optionRows'[t][c] = row
    /\ \A d \in Chunks : d # c => optionRows'[t][d] = optionRows[t][d]

\* What a filler at the rows of task t goes on with, or what it leaves.
LeftFit(t, it) ==
    t \notin spoiled => IF it.step \in Acts THEN \A c \in Chunks : Fits(it, optionRows'[t][c], c)
                        ELSE \A c \in Chunks : Once(optionRows'[t][c])

\* A filler at the rows of its task writes one of them and goes on.
LEMMA ActKeeps ==
    ASSUME GreeksInv, NEW b \in Backfills, NEW f \in FillersOf[b], filler[b][f].step \in Acts,
           NEW it \in FillerStates, Moves(b, f, it), Sound(it),
           it.step \in Acts => it.task = filler[b][f].task,
           UNCHANGED <<mode, toFeed, spoiled>>,
           NEW c \in Chunks, NEW row, RowOf(filler[b][f].task, c, row), LeftFit(filler[b][f].task, it)
    PROVE  GreeksInv'
<1> DEFINE t == filler[b][f].task
<1>1. /\ optionRows' \in [GreekTasks -> [Chunks -> TableRow]]
      /\ \A u \in GreekTasks : u # t => optionRows'[u] = optionRows[u]
  BY DEF RowOf
<1>2. mode[b] # "idle" /\ toFeed' \in [Backfills -> SUBSET GreekTasks] /\ spoiled \subseteq spoiled'
  BY AtRows DEF GreeksInv, GreeksTyped
<1>3. t \in GreekTasks \ spoiled' =>
          /\ it.step \in Acts => \A d \in Chunks : Fits(it, optionRows'[t][d], d)
          /\ it.step \notin Acts => \A d \in Chunks : Once(optionRows'[t][d])
  BY DEF LeftFit
<1>4. filler[b][f].step \in Acts => filler[b][f].task = t
  OBVIOUS
<1> HIDE DEF t
<1>5. QED
  BY <1>1, <1>2, <1>3, <1>4, MoveKeeps DEF t

\* One row of one task replaced.
LEMMA RowReplaced ==
    ASSUME optionRows \in [GreekTasks -> [Chunks -> TableRow]], NEW t \in GreekTasks, NEW c \in Chunks,
           NEW row \in TableRow, optionRows' = [optionRows EXCEPT ![t] = [optionRows[t] EXCEPT ![c] = row]]
    PROVE  RowOf(t, c, row)
<1> DEFINE new == [optionRows[t] EXCEPT ![c] = row]
<1>1. optionRows[t] \in [Chunks -> TableRow]
  OBVIOUS
<1>2. new \in [Chunks -> TableRow] /\ new[c] = row /\ \A d \in Chunks : d # c => new[d] = optionRows[t][d]
  BY <1>1
<1> HIDE DEF new
<1>3. optionRows' = [optionRows EXCEPT ![t] = new]
  BY DEF new
<1>4. optionRows'[t] = new /\ \A u \in GreekTasks : u # t => optionRows'[u] = optionRows[u]
  BY <1>3
<1>5. optionRows' \in [GreekTasks -> [Chunks -> TableRow]]
  BY <1>2, <1>3
<1>6. QED
  BY <1>2, <1>4, <1>5 DEF RowOf

LEMMA DeletedRow ==
    ASSUME GreeksInv, NEW b \in Backfills, NEW f \in FillersOf[b], filler[b][f].step \in Acts,
           optionRows' = Deleted(b, f)
    PROVE  LET t == filler[b][f].task  c == ChunkAt(b, f) IN
           RowOf(t, c, [missing |-> 0, filled |-> optionRows[t][c].filled])
<1> DEFINE t == filler[b][f].task
           c == ChunkAt(b, f)
<1>1. t \in GreekTasks /\ c \in Chunks /\ optionRows \in [GreekTasks -> [Chunks -> TableRow]]
  BY AtRows DEF GreeksInv, GreeksTyped
<1>2. optionRows' = [optionRows EXCEPT ![t][c].missing = 0]
  BY DEF Deleted
<1> DEFINE row == [missing |-> 0, filled |-> optionRows[t][c].filled]
<1>3. row = [optionRows[t][c] EXCEPT !.missing = 0] /\ row \in TableRow
  BY <1>1 DEF TableRow
<1> HIDE DEF row
<1>4. optionRows' = [optionRows EXCEPT ![t] = [optionRows[t] EXCEPT ![c] = row]]
  BY <1>2, <1>3
<1>5. RowOf(t, c, row)
  BY <1>1, <1>3, <1>4, RowReplaced
<1>6. QED
  BY <1>5 DEF row

LEMMA RowPlus ==
    ASSUME NEW r \in TableRow, NEW n \in Nat
    PROVE  /\ [r EXCEPT !.filled = @ + n] = [missing |-> r.missing, filled |-> r.filled + n]
           /\ [r EXCEPT !.missing = @ + n] = [missing |-> r.missing + n, filled |-> r.filled]
           /\ r.missing \in Nat /\ r.filled \in Nat
  BY DEF TableRow

LEMMA CopiedRow ==
    ASSUME GreeksInv, NEW b \in Backfills, NEW f \in FillersOf[b], filler[b][f].step \in Acts,
           NEW kind \in {"filled", "missing"}, InsertCopies(b, f, kind)
    PROVE  LET t == filler[b][f].task  c == ChunkAt(b, f)  n == filler[b][f].loaded[c] IN
           RowOf(t, c, [missing |-> optionRows[t][c].missing + IF kind = "missing" THEN n ELSE 0,
                        filled |-> optionRows[t][c].filled + IF kind = "filled" THEN n ELSE 0])
<1> DEFINE t == filler[b][f].task
           c == ChunkAt(b, f)
           n == filler[b][f].loaded[c]
           row == [missing |-> optionRows[t][c].missing + IF kind = "missing" THEN n ELSE 0,
                   filled |-> optionRows[t][c].filled + IF kind = "filled" THEN n ELSE 0]
<1>1. /\ t \in GreekTasks /\ c \in Chunks /\ optionRows \in [GreekTasks -> [Chunks -> TableRow]]
      /\ filler[b][f] \in FillerStates
  BY AtRows DEF GreeksInv, GreeksTyped
<1>2. n \in Nat /\ optionRows[t][c] \in TableRow
  BY <1>1 DEF FillerStates
<1>3. row \in TableRow
  BY <1>2 DEF TableRow
<1>r. optionRows[t][c].missing \in Nat /\ optionRows[t][c].filled \in Nat
  BY <1>2, RowPlus
<1>4. optionRows' = [optionRows EXCEPT ![t] = [optionRows[t] EXCEPT ![c] = row]]
  <2>1. CASE kind = "filled"
    <3>1. optionRows' = [optionRows EXCEPT ![t][c].filled = @ + n]
      BY <2>1 DEF InsertCopies
    <3>2. row = [missing |-> optionRows[t][c].missing, filled |-> optionRows[t][c].filled + n]
      <4> HIDE DEF t, c, n
      <4>1. QED
        BY <1>r, <2>1
    <3> HIDE DEF row
    <3>3. row = [optionRows[t][c] EXCEPT !.filled = @ + n]
      BY <1>2, <3>2, RowPlus
    <3>4. QED
      BY <3>1, <3>3
  <2>2. CASE kind = "missing"
    <3>1. optionRows' = [optionRows EXCEPT ![t][c].missing = @ + n]
      BY <2>2 DEF InsertCopies
    <3>2. row = [missing |-> optionRows[t][c].missing + n, filled |-> optionRows[t][c].filled]
      <4> HIDE DEF t, c, n
      <4>1. QED
        BY <1>r, <2>2
    <3> HIDE DEF row
    <3>3. row = [optionRows[t][c] EXCEPT !.missing = @ + n]
      BY <1>2, <3>2, RowPlus
    <3>4. QED
      BY <3>1, <3>3
  <2>3. QED
    BY <2>1, <2>2
<1> HIDE DEF row
<1>5. RowOf(t, c, row)
  BY <1>1, <1>3, <1>4, RowReplaced
<1>6. QED
  BY <1>5 DEF row

\* What a filler finds of its task's rows, and how the rows it has left count.
LEMMA HeldFits ==
    ASSUME GreeksInv, NEW b \in Backfills, NEW f \in FillersOf[b], filler[b][f].step \in Acts,
           filler[b][f].task \notin spoiled, NEW c \in Chunks
    PROVE  LET it == filler[b][f]  row == optionRows[it.task][c] IN
           /\ Fits(it, row, c) /\ row.missing \in Nat /\ row.filled \in Nat
           /\ it.left \subseteq ChunksOf(it.loaded)
           /\ c \in ChunksOf(it.loaded) <=> it.loaded[c] = 1
<1> DEFINE t == filler[b][f].task
<1>1. t \in GreekTasks /\ filler[b][f].left \subseteq ChunksOf(filler[b][f].loaded)
      /\ optionRows \in [GreekTasks -> [Chunks -> TableRow]]
  BY AtRows DEF GreeksInv, GreeksTyped
<1>2. Holds(b, f, t) /\ RowsInOrder(t)
  BY <1>1 DEF Holds, GreeksInv, RowsInv
<1>3. Fits(filler[b][f], optionRows[t][c], c)
  BY <1>2 DEF RowsInOrder
<1>4. c \in ChunksOf(filler[b][f].loaded) <=> filler[b][f].loaded[c] = 1
  BY <1>3 DEF Fits, ChunksOf
<1>5. optionRows[t][c].missing \in Nat /\ optionRows[t][c].filled \in Nat
  BY <1>1 DEF TableRow
<1>6. QED
  BY <1>1, <1>3, <1>4, <1>5

LEMMA DeleteStep ==
    ASSUME GreeksInv, NEW b \in Backfills, NEW f \in FillersOf[b], DeleteRows(b, f) PROVE GreeksInv'
<1> DEFINE old == filler[b][f]
           t == old.task
           c == ChunkAt(b, f)
<1>1. old.step = "delete" /\ old.step \in Acts /\ "insert" \in Acts /\ UNCHANGED <<mode, toFeed, spoiled>>
      /\ optionRows' = Deleted(b, f) /\ NextChunk(b, f, "insert")
  BY DEF DeleteRows, backfillLocals, greeksHistory, Acts
<1>2. RowOf(t, c, [missing |-> 0, filled |-> optionRows[t][c].filled])
  BY <1>1, DeletedRow
<1>3. PICK it \in FillerStates :
          /\ Moves(b, f, it) /\ Sound(it) /\ it.step \in Acts /\ it.task = t /\ it.loaded = old.loaded
          /\ \/ it.step = "delete" /\ it.left = old.left \ {c}
             \/ old.left = {c} /\ it.step = "insert" /\ it.left = ChunksOf(old.loaded)
  BY <1>1, NextFacts
<1>4. c \in old.left /\ c \in Chunks
  BY <1>1, AtRows
<1>5. ASSUME t \notin spoiled, NEW d \in Chunks PROVE Fits(it, optionRows'[t][d], d)
  <2>1. /\ Fits(old, optionRows[t][d], d) /\ optionRows[t][d].filled \in Nat
        /\ old.left \subseteq ChunksOf(old.loaded) /\ (d \in ChunksOf(old.loaded) <=> old.loaded[d] = 1)
    BY <1>1, <1>5, HeldFits
  <2>2. CASE d = c
    <3>1. optionRows'[t][d].missing = 0 /\ optionRows'[t][d].filled = optionRows[t][d].filled
      BY <1>2, <2>2 DEF RowOf
    <3> HIDE DEF t, c, old
    <3>2. QED
      BY <1>1, <1>3, <1>4, <2>1, <2>2, <3>1 DEF Fits
  <2>3. CASE d # c
    <3>1. optionRows'[t][d] = optionRows[t][d]
      BY <1>2, <2>3 DEF RowOf
    <3> HIDE DEF t, c, old
    <3>2. QED
      BY <1>1, <1>3, <2>1, <2>3, <3>1 DEF Fits
  <2>4. QED
    BY <2>2, <2>3
<1>6. LeftFit(t, it)
  BY <1>3, <1>5 DEF LeftFit
<1>7. QED
  BY <1>1, <1>2, <1>3, <1>4, <1>6, ActKeeps

LEMMA InsertStep ==
    ASSUME GreeksInv, NEW b \in Backfills, NEW f \in FillersOf[b], InsertFilled(b, f) PROVE GreeksInv'
<1> DEFINE old == filler[b][f]
           t == old.task
           c == ChunkAt(b, f)
<1>1. old.step = "insert" /\ old.step \in Acts /\ UNCHANGED <<mode, toFeed, spoiled>>
      /\ InsertCopies(b, f, "filled")
  BY DEF InsertFilled, greeksHistory, Acts
<1>2. RowOf(t, c, [missing |-> optionRows[t][c].missing + 0, filled |-> optionRows[t][c].filled + old.loaded[c]])
  BY <1>1, CopiedRow
<1>4. c \in old.left /\ c \in Chunks /\ (LastChunk(b, f) <=> old.left = {c})
  BY <1>1, AtRows DEF LastChunk
<1>5. ASSUME t \notin spoiled, NEW d \in Chunks
      PROVE  /\ Fits(old, optionRows[t][d], d)
             /\ optionRows[t][d].missing \in Nat /\ optionRows[t][d].filled \in Nat
             /\ old.left \subseteq ChunksOf(old.loaded) /\ (d \in ChunksOf(old.loaded) <=> old.loaded[d] = 1)
             /\ optionRows'[t][d].missing = optionRows[t][d].missing
             /\ optionRows'[t][d].filled = optionRows[t][d].filled + IF d = c THEN old.loaded[d] ELSE 0
  <2>1. /\ Fits(old, optionRows[t][d], d) /\ optionRows[t][d].filled \in Nat /\ optionRows[t][d].missing \in Nat
        /\ old.left \subseteq ChunksOf(old.loaded) /\ (d \in ChunksOf(old.loaded) <=> old.loaded[d] = 1)
    BY <1>1, <1>5, HeldFits
  <2>2. /\ optionRows'[t][c] = [missing |-> optionRows[t][c].missing + 0,
                                filled |-> optionRows[t][c].filled + old.loaded[c]]
        /\ d # c => optionRows'[t][d] = optionRows[t][d]
    BY <1>2 DEF RowOf
  <2>3. /\ d = c => /\ optionRows'[t][d].missing = optionRows[t][c].missing + 0
                    /\ optionRows'[t][d].filled = optionRows[t][c].filled + old.loaded[c]
        /\ d # c => optionRows'[t][d] = optionRows[t][d]
    BY <2>2
  <2> HIDE DEF old, t, c
  <2>4. QED
    BY <2>1, <2>3
<1>6. CASE LastChunk(b, f)
  <2>1. Moves(b, f, AtRest("wait"))
    BY <1>6, MovesFacts DEF InsertFilled, TaskDone, GreeksInv
  <2>2. AtRest("wait") \in FillerStates /\ Sound(AtRest("wait")) /\ AtRest("wait").step \notin Acts
    BY AtRestSound DEF Acts
  <2>3. ASSUME t \notin spoiled, NEW d \in Chunks PROVE Once(optionRows'[t][d])
    <3> HIDE DEF old, t, c
    <3>1. QED
      BY <1>1, <1>4, <1>5, <1>6, <2>3 DEF Once, Fits
  <2>4. LeftFit(t, AtRest("wait"))
    BY <2>2, <2>3 DEF LeftFit
  <2>5. QED
    BY <1>1, <1>2, <1>4, <2>1, <2>2, <2>4, ActKeeps
<1>7. CASE ~LastChunk(b, f)
  <2>1. PICK it \in FillerStates :
            /\ Moves(b, f, it) /\ Sound(it) /\ it.step \in Acts /\ it.task = t /\ it.loaded = old.loaded
            /\ it.step = "insert" /\ it.left = old.left \ {c}
    <3>1. NextChunk(b, f, "insert") /\ "insert" \in Acts /\ old.left # {c}
      BY <1>4, <1>7 DEF InsertFilled, Acts
    <3>2. QED
      BY <1>1, <3>1, NextFacts
  <2>2. ASSUME t \notin spoiled, NEW d \in Chunks PROVE Fits(it, optionRows'[t][d], d)
    <3> HIDE DEF old, t, c
    <3>1. QED
      BY <1>1, <1>4, <1>5, <2>1, <2>2 DEF Fits
  <2>3. LeftFit(t, it)
    BY <2>1, <2>2 DEF LeftFit
  <2>4. QED
    BY <1>1, <1>2, <1>4, <2>1, <2>3, ActKeeps
<1>8. QED
  BY <1>6, <1>7

LEMMA RestoreStep ==
    ASSUME GreeksInv, NEW b \in Backfills, NEW f \in FillersOf[b], RestoreRows(b, f) PROVE GreeksInv'
<1> DEFINE old == filler[b][f]
           t == old.task
           c == ChunkAt(b, f)
<1>1. old.step = "restore" /\ old.step \in Acts /\ UNCHANGED <<mode, toFeed, spoiled>>
      /\ InsertCopies(b, f, "missing")
  BY DEF RestoreRows, Acts
<1>2. RowOf(t, c, [missing |-> optionRows[t][c].missing + old.loaded[c], filled |-> optionRows[t][c].filled + 0])
  BY <1>1, CopiedRow
<1>3. c \in old.left /\ c \in Chunks /\ (LastChunk(b, f) <=> old.left = {c})
  BY <1>1, AtRows DEF LastChunk
<1>4. ASSUME t \notin spoiled, NEW d \in Chunks
      PROVE  /\ Fits(old, optionRows[t][d], d)
             /\ optionRows[t][d].missing \in Nat /\ optionRows[t][d].filled \in Nat
             /\ old.left \subseteq ChunksOf(old.loaded) /\ (d \in ChunksOf(old.loaded) <=> old.loaded[d] = 1)
             /\ optionRows'[t][d].missing = optionRows[t][d].missing + IF d = c THEN old.loaded[d] ELSE 0
             /\ optionRows'[t][d].filled = optionRows[t][d].filled
  <2>1. /\ Fits(old, optionRows[t][d], d) /\ optionRows[t][d].filled \in Nat /\ optionRows[t][d].missing \in Nat
        /\ old.left \subseteq ChunksOf(old.loaded) /\ (d \in ChunksOf(old.loaded) <=> old.loaded[d] = 1)
    BY <1>1, <1>4, HeldFits
  <2>2. /\ optionRows'[t][c] = [missing |-> optionRows[t][c].missing + old.loaded[c],
                                filled |-> optionRows[t][c].filled + 0]
        /\ d # c => optionRows'[t][d] = optionRows[t][d]
    BY <1>2 DEF RowOf
  <2>3. /\ d = c => /\ optionRows'[t][d].missing = optionRows[t][c].missing + old.loaded[c]
                    /\ optionRows'[t][d].filled = optionRows[t][c].filled + 0
        /\ d # c => optionRows'[t][d] = optionRows[t][d]
    BY <2>2
  <2> HIDE DEF old, t, c
  <2>4. QED
    BY <2>1, <2>3
<1>5. CASE LastChunk(b, f)
  <2>1. Moves(b, f, AtRest("wait"))
    BY <1>5, MovesFacts DEF RestoreRows, TaskFails, TaskDone, GreeksInv
  <2>2. AtRest("wait") \in FillerStates /\ Sound(AtRest("wait")) /\ AtRest("wait").step \notin Acts
    BY AtRestSound DEF Acts
  <2>3. ASSUME t \notin spoiled, NEW d \in Chunks PROVE Once(optionRows'[t][d])
    <3> HIDE DEF old, t, c
    <3>1. QED
      BY <1>1, <1>3, <1>4, <1>5, <2>3 DEF Once, Fits
  <2>4. LeftFit(t, AtRest("wait"))
    BY <2>2, <2>3 DEF LeftFit
  <2>5. QED
    BY <1>1, <1>2, <1>3, <2>1, <2>2, <2>4, ActKeeps
<1>6. CASE ~LastChunk(b, f)
  <2>1. PICK it \in FillerStates :
            /\ Moves(b, f, it) /\ Sound(it) /\ it.step \in Acts /\ it.task = t /\ it.loaded = old.loaded
            /\ it.step = "restore" /\ it.left = old.left \ {c}
    <3>1. NextChunk(b, f, "restore") /\ "restore" \in Acts /\ old.left # {c}
      BY <1>3, <1>6 DEF RestoreRows, Acts
    <3>2. QED
      BY <1>1, <3>1, NextFacts
  <2>2. ASSUME t \notin spoiled, NEW d \in Chunks PROVE Fits(it, optionRows'[t][d], d)
    <3> HIDE DEF old, t, c
    <3>1. QED
      BY <1>1, <1>3, <1>4, <2>1, <2>2 DEF Fits
  <2>3. LeftFit(t, it)
    BY <2>1, <2>2 DEF LeftFit
  <2>4. QED
    BY <1>1, <1>2, <1>3, <2>1, <2>3, ActKeeps
<1>7. QED
  BY <1>5, <1>6

\* A filler leaves its rows where a break has struck: in order only at the
\* first delete, and when nothing came of it.
LEMMA GivesUp ==
    ASSUME GreeksInv, NEW b \in Backfills, NEW f \in FillersOf[b], filler[b][f].step \in Acts,
           TaskDone(b, f), UNCHANGED <<mode, toFeed>>, spoiled \subseteq spoiled',
           optionRows' \in [GreekTasks -> [Chunks -> TableRow]],
           \A u \in GreekTasks : u # filler[b][f].task => optionRows'[u] = optionRows[u],
           filler[b][f].task \notin spoiled' =>
               /\ filler[b][f].step = "delete" /\ FirstChunk(b, f) /\ UNCHANGED optionRows
    PROVE  GreeksInv'
<1> DEFINE old == filler[b][f]
           t == old.task
<1>1. Moves(b, f, AtRest("wait"))
  BY MovesFacts DEF TaskDone, GreeksInv
<1>2. AtRest("wait") \in FillerStates /\ Sound(AtRest("wait")) /\ AtRest("wait").step \notin Acts
  BY AtRestSound DEF Acts
<1>3. mode[b] # "idle" /\ toFeed' \in [Backfills -> SUBSET GreekTasks]
  BY AtRows DEF GreeksInv, GreeksTyped
<1>4. ASSUME t \notin spoiled', NEW d \in Chunks PROVE Once(optionRows'[t][d])
  <2>1. /\ Fits(old, optionRows[t][d], d)
        /\ optionRows[t][d].missing \in Nat /\ optionRows[t][d].filled \in Nat
        /\ (d \in ChunksOf(old.loaded) <=> old.loaded[d] = 1)
    BY <1>4, HeldFits
  <2>2. old.step = "delete" /\ old.left = ChunksOf(old.loaded) /\ optionRows' = optionRows
    BY <1>4 DEF FirstChunk
  <2> HIDE DEF old, t
  <2>3. QED
    BY <2>1, <2>2 DEF Once, Fits
<1>5. QED
  BY <1>1, <1>2, <1>3, <1>4, MoveKeeps

LEMMA DeleteBreaksStep ==
    ASSUME GreeksInv, NEW b \in Backfills, NEW f \in FillersOf[b], NEW applied \in BOOLEAN,
           DeleteBreaks(b, f, applied)
    PROVE  GreeksInv'
<1>1. /\ filler[b][f].step = "delete" /\ filler[b][f].step \in Acts /\ TaskDone(b, f) /\ UNCHANGED <<mode, toFeed>>
      /\ spoiled' = IF applied \/ ~FirstChunk(b, f) THEN spoiled \cup {filler[b][f].task} ELSE spoiled
      /\ optionRows' = IF applied THEN Deleted(b, f) ELSE optionRows
  BY DEF DeleteBreaks, TaskFails, Acts
<1>2. /\ optionRows' \in [GreekTasks -> [Chunks -> TableRow]]
      /\ \A u \in GreekTasks : u # filler[b][f].task => optionRows'[u] = optionRows[u]
  <2>1. CASE applied
    BY <1>1, <2>1, DeletedRow DEF RowOf
  <2>2. CASE ~applied
    BY <1>1, <2>2 DEF GreeksInv, GreeksTyped
  <2>3. QED
    BY <2>1, <2>2
<1>3. filler[b][f].task \notin spoiled' => FirstChunk(b, f) /\ UNCHANGED optionRows
  BY <1>1
<1>4. spoiled \subseteq spoiled'
  BY <1>1
<1>5. QED
  BY <1>1, <1>2, <1>3, <1>4, GivesUp

LEMMA RestoreBreaksStep ==
    ASSUME GreeksInv, NEW b \in Backfills, NEW f \in FillersOf[b], NEW applied \in BOOLEAN,
           RestoreBreaks(b, f, applied)
    PROVE  GreeksInv'
<1>1. /\ filler[b][f].step \in Acts /\ TaskDone(b, f) /\ UNCHANGED <<mode, toFeed>>
      /\ spoiled' = spoiled \cup {filler[b][f].task}
      /\ IF applied THEN InsertCopies(b, f, "missing") ELSE UNCHANGED optionRows
  BY DEF RestoreBreaks, TaskFails, Acts, tables
<1>2. /\ optionRows' \in [GreekTasks -> [Chunks -> TableRow]]
      /\ \A u \in GreekTasks : u # filler[b][f].task => optionRows'[u] = optionRows[u]
  <2>1. CASE applied
    BY <1>1, <2>1, CopiedRow DEF RowOf
  <2>2. CASE ~applied
    BY <1>1, <2>2 DEF GreeksInv, GreeksTyped
  <2>3. QED
    BY <2>1, <2>2
<1>3. QED
  BY <1>1, <1>2, GivesUp

LEMMA InsertBreaksStep ==
    ASSUME GreeksInv, NEW b \in Backfills, NEW f \in FillersOf[b], NEW applied \in BOOLEAN,
           InsertBreaks(b, f, applied)
    PROVE  GreeksInv'
<1> DEFINE old == filler[b][f]
           t == old.task
           all == ChunksOf(old.loaded)
           stepped == [old EXCEPT !.step = "restore"]
           it == [stepped EXCEPT !.left = all]
<1>1. /\ old.step = "insert" /\ old.step \in Acts /\ UNCHANGED <<mode, toFeed>>
      /\ spoiled' = IF applied \/ ~FirstChunk(b, f) THEN spoiled \cup {t} ELSE spoiled
      /\ IF applied THEN InsertCopies(b, f, "filled") ELSE UNCHANGED optionRows
      /\ filler' = [filler EXCEPT ![b][f].step = "restore", ![b][f].left = all]
  BY DEF InsertBreaks, Acts, tables, backfillLocals
<1>2. /\ mode[b] # "idle" /\ old \in FillerStates /\ t \in GreekTasks /\ all \in SUBSET Chunks /\ all # {}
      /\ toFeed' \in [Backfills -> SUBSET GreekTasks]
  BY <1>1, AtRows DEF GreeksInv, GreeksTyped
<1>3. /\ optionRows' \in [GreekTasks -> [Chunks -> TableRow]]
      /\ \A u \in GreekTasks : u # t => optionRows'[u] = optionRows[u]
  <2>1. CASE applied
    BY <1>1, <2>1, CopiedRow DEF RowOf
  <2>2. CASE ~applied
    BY <1>1, <2>2 DEF GreeksInv, GreeksTyped
  <2>3. QED
    BY <2>1, <2>2
<1>4. filler' = [filler EXCEPT ![b][f] = it]
  BY <1>1 DEF GreeksInv, GreeksTyped
<1>5. Moves(b, f, it)
  BY <1>4, MovesFacts DEF GreeksInv
<1>6. /\ it \in FillerStates /\ it.step = "restore" /\ it.left = all
      /\ it.task = t /\ it.loaded = old.loaded
  <2> HIDE DEF all
  <2>1. /\ stepped \in FillerStates /\ stepped.step = "restore"
        /\ stepped.task = t /\ stepped.loaded = old.loaded
    BY <1>2 DEF FillerStates, Steps, Acts
  <2> HIDE DEF stepped
  <2>2. QED
    BY <1>2, <2>1 DEF FillerStates
<1>7. Sound(it) /\ it.step \in Acts
  BY <1>2, <1>6 DEF Sound, Acts
<1>8. ASSUME t \notin spoiled', NEW d \in Chunks PROVE Fits(it, optionRows'[t][d], d)
  <2>1. old.left = all /\ optionRows' = optionRows /\ t \notin spoiled
    BY <1>1, <1>8 DEF FirstChunk
  <2>2. /\ Fits(old, optionRows[t][d], d)
        /\ optionRows[t][d].missing \in Nat /\ optionRows[t][d].filled \in Nat
        /\ (d \in all <=> old.loaded[d] = 1)
    BY <1>1, <2>1, HeldFits
  <2> HIDE DEF it, old, t, all
  <2>3. QED
    BY <1>1, <1>6, <2>1, <2>2 DEF Fits
<1>9. spoiled \subseteq spoiled'
  BY <1>1
<1> HIDE DEF it
<1>10. QED
  BY <1>1, <1>2, <1>3, <1>5, <1>6, <1>7, <1>8, <1>9, MoveKeeps

LEMMA StartStep ==
    ASSUME GreeksInv, NEW b \in Backfills, NEW try \in BOOLEAN, StartBackfill(b, try) PROVE GreeksInv'
<1>1. mode[b] = "idle" /\ UNCHANGED <<optionRows, spoiled>> /\ toFeed' = [toFeed EXCEPT ![b] = TasksMissing]
  BY DEF StartBackfill, tables
<1>2. toFeed' \in [Backfills -> SUBSET GreekTasks]
  BY <1>1 DEF GreeksInv, GreeksTyped, TasksMissing
<1>3. CASE TasksMissing = {}
  <2>1. mode' = [mode EXCEPT ![b] = "done"] /\ UNCHANGED filler
    BY <1>3 DEF StartBackfill, BackfillGoesOn
  <2>2. QED
    BY <1>1, <1>2, <2>1, CallKeeps
<1>4. CASE TasksMissing # {}
  <2>1. mode' = [mode EXCEPT ![b] = "feed"] /\ filler' = [filler EXCEPT ![b] = [f \in FillersOf[b] |-> AtRest("connect")]]
    BY <1>4 DEF StartBackfill, BackfillGoesOn
  <2>2. \A t \in GreekTasks : \A f \in FillersOf[b] : ~Holds(b, f, t)
    BY <1>1 DEF GreeksInv, FillersSound, AllLeft, Holds, Acts
  <2>3. QED
    BY <1>1, <1>2, <2>1, <2>2, ResetKeeps
<1>5. QED
  BY <1>3, <1>4

LEMMA KillStep ==
    ASSUME GreeksInv, NEW b \in Backfills, KillBackfill(b) PROVE GreeksInv'
<1>1. /\ UNCHANGED <<optionRows, toFeed>> /\ mode' = [mode EXCEPT ![b] = "dead"]
      /\ filler' = [filler EXCEPT ![b] = [f \in FillersOf[b] |-> AtRest("left")]]
      /\ spoiled' = spoiled \cup {t \in GreekTasks : \E x \in HaveLoaded(t) : x[1] = b}
  BY DEF KillBackfill, BackfillGoesOn, tables, backfillLocals
<1>2. ASSUME NEW t \in GreekTasks \ spoiled', NEW f \in FillersOf[b], Holds(b, f, t) PROVE FALSE
  <2> DEFINE x == <<b, f>>
  <2>1. x \in Pool
    BY DEF Pool
  <2>2. filler[x[1]][x[2]].task = t /\ filler[x[1]][x[2]].step \in {"delete", "insert", "restore"} /\ x[1] = b
    BY <1>2 DEF Holds, Acts
  <2> HIDE DEF x
  <2>3. x \in HaveLoaded(t)
    BY <2>1, <2>2 DEF HaveLoaded
  <2>4. QED
    BY <1>1, <1>2, <2>2, <2>3
<1>3. toFeed' \in [Backfills -> SUBSET GreekTasks]
  BY <1>1 DEF GreeksInv, GreeksTyped
<1>4. QED
  BY <1>1, <1>2, <1>3, ResetKeeps

LEMMA GreeksStep == GreeksInv /\ [GreeksNext]_greeksVars => GreeksInv'
<1> SUFFICES ASSUME GreeksInv, [GreeksNext]_greeksVars PROVE GreeksInv'
  OBVIOUS
<1>0. toFeed \in [Backfills -> SUBSET GreekTasks]
  BY DEF GreeksInv, GreeksTyped
<1>1. CASE UNCHANGED greeksVars
  <2>1. UNCHANGED <<mode, filler, toFeed, optionRows, spoiled>>
    BY <1>1 DEF greeksVars, tables, backfillLocals, greeksHistory
  <2>2. QED
    BY <2>1 DEF GreeksInv, GreeksTyped, FillersSound, AllLeft, RowsInv, RowsInOrder, Unheld, Holds, Once, Fits, Sound, ChunksOf
<1>2. ASSUME NEW b \in Backfills, NEW try \in BOOLEAN, StartBackfill(b, try) PROVE GreeksInv'
  BY <1>2, StartStep
<1>3. ASSUME NEW b \in Backfills, BackfillStep(b) \/ Interrupt(b) PROVE GreeksInv'
  <2>1. UNCHANGED <<filler, optionRows, spoiled, toFeed>>
    BY <1>3 DEF BackfillStep, CloseTasks, Recheck, CallBreaks, TruncateDerived, ReinsertDerived, RebuildBreaks,
                Interrupt, tables, backfillLocals, greeksHistory
  <2>2. \E m \in {"feed", "drain", "rebuild", "done", "failed", "dead"} : mode' = mode \/ mode' = [mode EXCEPT ![b] = m]
    BY <1>3 DEF BackfillStep, CloseTasks, Recheck, CallBreaks, TruncateDerived, ReinsertDerived, RebuildBreaks,
                Interrupt, BackfillGoesOn
  <2>3. QED
    BY <1>0, <2>1, <2>2, CallKeeps
<1>4. ASSUME NEW b \in Backfills, KillBackfill(b) PROVE GreeksInv'
  BY <1>4, KillStep
<1>5. ASSUME NEW b \in Backfills, NEW f \in FillersOf[b], FillerStep(b, f) PROVE GreeksInv'
  <2>1. CASE Connect(b, f) \/ ConnectBreaks(b, f) \/ FillerLeaves(b, f)
    <3>1. /\ UNCHANGED <<mode, optionRows, toFeed, spoiled>> /\ filler[b][f].step \in {"connect", "wait"}
          /\ \E rest \in {"wait", "left"} : filler' = [filler EXCEPT ![b][f].step = rest]
      BY <2>1 DEF Connect, ConnectBreaks, FillerLeaves, tables, backfillLocals, greeksHistory
    <3>2. QED
      BY <3>1, StepKeeps
  <2>2. CASE HandTask(b, f)
    BY <2>2, HandStep
  <2>3. CASE LoadRows(b, f)
    BY <2>3, LoadStep
  <2>4. CASE LoadBreaks(b, f)
    <3>1. filler[b][f].step = "load" /\ TaskDone(b, f) /\ UNCHANGED <<mode, optionRows, toFeed, spoiled>>
      BY <2>4 DEF LoadBreaks, TaskFails, tables, greeksHistory
    <3>2. QED
      BY <3>1, RestKeeps
  <2>5. CASE DeleteRows(b, f)
    BY <2>5, DeleteStep
  <2>6. CASE InsertFilled(b, f)
    BY <2>6, InsertStep
  <2>7. CASE RestoreRows(b, f)
    BY <2>7, RestoreStep
  <2>8. ASSUME NEW applied \in BOOLEAN,
               DeleteBreaks(b, f, applied) \/ InsertBreaks(b, f, applied) \/ RestoreBreaks(b, f, applied)
        PROVE  GreeksInv'
    BY <2>8, DeleteBreaksStep, InsertBreaksStep, RestoreBreaksStep
  <2>9. QED
    BY <1>5, <2>1, <2>2, <2>3, <2>4, <2>5, <2>6, <2>7, <2>8 DEF FillerStep
<1>6. QED
  BY <1>1, <1>2, <1>3, <1>4, <1>5 DEF GreeksNext

LEMMA GreeksInitially == GreeksInit => GreeksInv
<1> SUFFICES ASSUME GreeksInit PROVE GreeksInv
  OBVIOUS
<1>1. /\ DOMAIN filler = Backfills /\ \A b \in Backfills : DOMAIN filler[b] = FillersOf[b]
      /\ \A b \in Backfills : \A f \in FillersOf[b] : filler[b][f] = AtRest("left")
  BY DEF GreeksInit
<1>2. AtRest("left") \in FillerStates /\ Sound(AtRest("left")) /\ AtRest("left").step = "left"
  BY AtRestSound
<1>3. optionRows = [t \in GreekTasks |-> [c \in Chunks |-> [missing |-> 1, filled |-> 0]]]
  BY DEF GreeksInit, AllMissing
<1>4. optionRows \in [GreekTasks -> [Chunks -> TableRow]]
  BY <1>3 DEF TableRow
<1>5. GreeksTyped
  BY <1>1, <1>2, <1>4 DEF GreeksTyped, GreeksInit
<1>6. FillersSound
  BY <1>1, <1>2 DEF FillersSound, AllLeft
<1>7. \A t \in GreekTasks, c \in Chunks : Once(optionRows[t][c])
  BY <1>3 DEF Once
<1>8. \A b \in Backfills : \A f \in FillersOf[b] : \A t \in GreekTasks : ~Holds(b, f, t)
  BY <1>1, <1>2 DEF Holds, Acts
<1>9. RowsInv
  BY <1>7, <1>8 DEF RowsInv, RowsInOrder
<1>10. QED
  BY <1>5, <1>6, <1>9 DEF GreeksInv

LEMMA GreeksInvariant == GreeksSpec => []GreeksInv
  BY GreeksInitially, GreeksStep, PTL DEF GreeksSpec

\* Rows in order are rows that are there once or in one filler's hands.
LEMMA OnceEach == ASSUME GreeksInv PROVE EveryBarOnce
<1> SUFFICES ASSUME NEW t \in GreekTasks \ spoiled, NEW c \in Chunks
             PROVE  optionRows[t][c].missing + optionRows[t][c].filled + InHand(t, c) = 1
  BY DEF EveryBarOnce
<1> DEFINE row == optionRows[t][c]
           Has(it) == c \in IF it.step = "delete" THEN ChunksOf(it.loaded) \ it.left ELSE it.left
           hands == {x \in HaveLoaded(t) : Has(filler[x[1]][x[2]])}
<1>1. RowsInOrder(t) /\ row.missing \in Nat /\ row.filled \in Nat
  BY DEF GreeksInv, GreeksTyped, RowsInv, TableRow
<1>2. InHand(t, c) = Cardinality(hands)
  BY DEF InHand
<1>3. \A x \in HaveLoaded(t) :
          x = <<x[1], x[2]>> /\ x[1] \in Backfills /\ x[2] \in FillersOf[x[1]] /\ Holds(x[1], x[2], t)
  BY DEF HaveLoaded, Pool, Holds, Acts
<1>4. CASE Unheld(t)
  <2>1. HaveLoaded(t) = {}
    BY <1>3, <1>4 DEF Unheld
  <2>2. Cardinality(hands) = 0
    BY <2>1, FS_EmptySet
  <2>3. row.missing + row.filled = 1
    BY <1>1, <1>4 DEF RowsInOrder, Once
  <2> HIDE DEF row, hands
  <2>4. row.missing + row.filled + Cardinality(hands) = 1
    BY <1>1, <2>2, <2>3
  <2>5. QED
    BY <1>2, <2>4 DEF row
<1>5. CASE ~Unheld(t)
  <2>1. PICK b \in Backfills : \E f \in FillersOf[b] : Holds(b, f, t)
    BY <1>5 DEF Unheld
  <2>p. PICK f \in FillersOf[b] : Holds(b, f, t)
    BY <2>1
  <2> DEFINE it == filler[b][f]
             at == <<b, f>>
  <2>2. Holds(b, f, t) /\ it.step \in Acts /\ it.task = t
    BY <2>p DEF Holds
  <2>3. \A x \in HaveLoaded(t) : x = at
    BY <1>1, <1>3, <2>p DEF RowsInOrder
  <2>4. at \in HaveLoaded(t) /\ filler[at[1]][at[2]] = it
    <3>1. at \in Pool /\ at[1] = b /\ at[2] = f
      BY DEF Pool
    <3>2. filler[at[1]][at[2]] = it
      BY <3>1
    <3>3. filler[at[1]][at[2]].task = t /\ filler[at[1]][at[2]].step \in {"delete", "insert", "restore"}
      BY <2>2, <3>2 DEF Acts
    <3> HIDE DEF at, it
    <3>4. QED
      BY <3>1, <3>2, <3>3 DEF HaveLoaded
  <2>5. hands = IF Has(it) THEN {at} ELSE {}
    <3> HIDE DEF at, it, Has
    <3>1. QED
      BY <2>3, <2>4
  <2>6. Cardinality(hands) = IF Has(it) THEN 1 ELSE 0
    BY <2>5, FS_EmptySet, FS_Singleton
  <2>7. /\ Fits(it, row, c) /\ it.left \subseteq ChunksOf(it.loaded)
        /\ (c \in ChunksOf(it.loaded) <=> it.loaded[c] = 1)
    BY <2>2, HeldFits
  <2> HIDE DEF it, row, hands
  <2>8. row.missing + row.filled + Cardinality(hands) = 1
    BY <1>1, <2>2, <2>6, <2>7 DEF Fits, Acts
  <2>9. QED
    BY <1>2, <2>8 DEF row
<1>6. QED
  BY <1>4, <1>5

\* For any number of backfills, fillers, tasks, batches and failing calls: a
\* bar that BackfillOptionGreeksFromLocalData replaces is not lost and not
\* doubled, but where a call broke after another one had been applied, or
\* where two backfills had its task.
THEOREM BarsOnce == GreeksSpec => []EveryBarOnce
  BY GreeksInvariant, OnceEach, PTL

\* A backfill has no connection before it starts; from the first one on, one
\* of its fillers takes tasks until they are all handed out.
HeardInv ==
    /\ connected \subseteq Backfills
    /\ \A b \in Backfills :
          /\ mode[b] = "idle" => b \notin connected
          /\ b \in connected /\ mode[b] = "feed" =>
                \E f \in FillersOf[b] : filler[b][f].step \notin {"connect", "left"}

\* A filler that has been connected leaves only when the tasks are handed out,
\* and a dry run gets no filler to touch a row.
MovesOn(b, f) ==
    \E it : /\ Moves(b, f, it)
            /\ it.step \in Acts => filler[b][f].step \in Acts \/ ~dryRun[b]
            /\ mode[b] = "feed" /\ it.step \in {"connect", "left"} =>
                  filler[b][f].step \in {"connect", "left"} /\ UNCHANGED connected

LEMMA FillerMoves ==
    ASSUME GreeksInv, NEW b \in Backfills, NEW f \in FillersOf[b], FillerStep(b, f)
    PROVE  UNCHANGED mode /\ connected' \subseteq connected \cup {b} /\ MovesOn(b, f)
<1>0. UNCHANGED mode /\ connected' \subseteq connected \cup {b}
  BY DEF FillerStep, Connect, ConnectBreaks, HandTask, FillerLeaves, LoadRows, LoadBreaks, DeleteRows,
         InsertFilled, RestoreRows, DeleteBreaks, InsertBreaks, RestoreBreaks, greeksHistory
<1> SUFFICES MovesOn(b, f)
  BY <1>0
<1>s. ASSUME NEW rest, rest \notin Acts, filler[b][f].step # "left", filler' = [filler EXCEPT ![b][f].step = rest],
             mode[b] = "feed" /\ rest \in {"connect", "left"} =>
                 filler[b][f].step \in {"connect", "left"} /\ UNCHANGED connected
      PROVE  MovesOn(b, f)
  <2> DEFINE it == [filler[b][f] EXCEPT !.step = rest]
  <2>1. filler' = [filler EXCEPT ![b][f] = it]
    BY <1>s
  <2>2. Moves(b, f, it)
    BY <2>1, MovesFacts DEF GreeksInv
  <2>3. it.step = rest
    BY <1>s, AtWork DEF FillerStates
  <2> HIDE DEF it
  <2>4. QED
    BY <1>s, <2>2, <2>3 DEF MovesOn
<1>r. ASSUME TaskDone(b, f) PROVE MovesOn(b, f)
  <2>1. Moves(b, f, AtRest("wait"))
    BY <1>r, MovesFacts DEF TaskDone, GreeksInv
  <2>2. AtRest("wait").step = "wait"
    BY AtRestSound
  <2>3. QED
    BY <2>1, <2>2 DEF MovesOn, Acts
<1>n. ASSUME filler[b][f].step \in Acts, NEW then \in Acts, NextChunk(b, f, then) PROVE MovesOn(b, f)
  <2>1. PICK it \in FillerStates : Moves(b, f, it) /\ it.step \in Acts
    BY <1>n, NextFacts
  <2>2. QED
    BY <1>n, <2>1 DEF Acts, MovesOn
<1>1. CASE Connect(b, f)
  <2>0. "wait" \notin Acts
    BY DEF Acts
  <2>1. filler' = [filler EXCEPT ![b][f].step = "wait"] /\ filler[b][f].step = "connect"
    BY <1>1 DEF Connect
  <2>2. QED
    BY <2>0, <2>1, <1>s
<1>2. CASE ConnectBreaks(b, f)
  <2>0. "left" \notin Acts
    BY DEF Acts
  <2>1. filler' = [filler EXCEPT ![b][f].step = "left"] /\ filler[b][f].step = "connect" /\ UNCHANGED connected
    BY <1>2 DEF ConnectBreaks, greeksHistory
  <2>2. QED
    BY <2>0, <2>1, <1>s
<1>3. CASE FillerLeaves(b, f)
  <2>0. "left" \notin Acts
    BY DEF Acts
  <2>1. filler' = [filler EXCEPT ![b][f].step = "left"] /\ filler[b][f].step = "wait" /\ mode[b] # "feed"
    BY <1>3 DEF FillerLeaves
  <2>2. QED
    BY <2>0, <2>1, <1>s
<1>4. CASE HandTask(b, f)
  <2> DEFINE t == Min(toFeed[b])
             it == [filler[b][f] EXCEPT !.step = "load", !.task = t]
  <2>1. filler' = [filler EXCEPT ![b][f].step = "load", ![b][f].task = t] /\ filler[b][f].step = "wait"
    BY <1>4 DEF HandTask
  <2> HIDE DEF t
  <2>2. filler' = [filler EXCEPT ![b][f] = it]
    BY <2>1 DEF GreeksInv, GreeksTyped
  <2>3. Moves(b, f, it)
    BY <2>2, MovesFacts DEF GreeksInv
  <2>4. it.step = "load"
    BY <2>1, AtWork DEF FillerStates
  <2> HIDE DEF it
  <2>5. QED
    BY <2>1, <2>3, <2>4 DEF MovesOn, Acts
<1>5. CASE LoadRows(b, f)
  <2> DEFINE t == filler[b][f].task
             it == [step |-> "delete", task |-> t, loaded |-> Loaded(t), left |-> ChunksOf(Loaded(t))]
  <2>1. CASE ~dryRun[b] /\ filler' = [filler EXCEPT ![b][f] = it]
    <3>1. Moves(b, f, it) /\ it.step = "delete"
      BY <2>1, MovesFacts DEF GreeksInv
    <3> HIDE DEF it
    <3>2. QED
      BY <2>1, <3>1 DEF MovesOn, Acts
  <2>2. QED
    BY <1>5, <1>r, <2>1 DEF LoadRows
<1>6. CASE LoadBreaks(b, f)
  BY <1>6, <1>r DEF LoadBreaks, TaskFails
<1>7. CASE DeleteRows(b, f)
  BY <1>7, <1>n DEF DeleteRows, Acts
<1>8. CASE InsertFilled(b, f)
  BY <1>8, <1>n, <1>r DEF InsertFilled, Acts
<1>9. CASE RestoreRows(b, f)
  BY <1>9, <1>n, <1>r DEF RestoreRows, TaskFails, Acts
<1>10. ASSUME NEW applied \in BOOLEAN, DeleteBreaks(b, f, applied) \/ RestoreBreaks(b, f, applied)
       PROVE  MovesOn(b, f)
  BY <1>10, <1>r DEF DeleteBreaks, RestoreBreaks, TaskFails
<1>11. ASSUME NEW applied \in BOOLEAN, InsertBreaks(b, f, applied) PROVE MovesOn(b, f)
  <2> DEFINE all == ChunksOf(filler[b][f].loaded)
             it == [filler[b][f] EXCEPT !.step = "restore", !.left = all]
  <2>1. filler' = [filler EXCEPT ![b][f].step = "restore", ![b][f].left = all] /\ filler[b][f].step = "insert"
    BY <1>11 DEF InsertBreaks
  <2> HIDE DEF all
  <2>2. filler' = [filler EXCEPT ![b][f] = it]
    BY <2>1 DEF GreeksInv, GreeksTyped
  <2>3. Moves(b, f, it)
    BY <2>2, MovesFacts DEF GreeksInv
  <2>4. it.step = "restore"
    BY <2>1, AtWork DEF FillerStates
  <2> HIDE DEF it
  <2>5. QED
    BY <2>1, <2>3, <2>4 DEF MovesOn, Acts
<1>12. QED
  BY <1>1, <1>2, <1>3, <1>4, <1>5, <1>6, <1>7, <1>8, <1>9, <1>10, <1>11 DEF FillerStep

LEMMA HeardStep == GreeksInv /\ HeardInv /\ [GreeksNext]_greeksVars => HeardInv'
<1> SUFFICES ASSUME GreeksInv, HeardInv, [GreeksNext]_greeksVars PROVE HeardInv'
  OBVIOUS
<1>1. CASE UNCHANGED greeksVars
  BY <1>1 DEF greeksVars, greeksHistory, HeardInv
<1>2. ASSUME NEW b \in Backfills, NEW try \in BOOLEAN, StartBackfill(b, try) PROVE HeardInv'
  <2>1. /\ mode[b] = "idle" /\ UNCHANGED connected
        /\ \A d \in Backfills : d # b => mode'[d] = mode[d] /\ filler'[d] = filler[d]
    BY <1>2 DEF StartBackfill, BackfillGoesOn, GreeksInv, GreeksTyped
  <2>2. b \notin connected'
    BY <2>1 DEF HeardInv
  <2>3. QED
    BY <2>1, <2>2 DEF HeardInv
<1>3. ASSUME NEW b \in Backfills, BackfillStep(b) \/ Interrupt(b) PROVE HeardInv'
  <2>1. UNCHANGED <<filler, connected>>
    BY <1>3 DEF BackfillStep, CloseTasks, Recheck, CallBreaks, TruncateDerived, ReinsertDerived, RebuildBreaks,
                Interrupt, greeksHistory
  <2>2. \A d \in Backfills : mode'[d] # mode[d] => mode'[d] \notin {"idle", "feed"}
    BY <1>3 DEF BackfillStep, CloseTasks, Recheck, CallBreaks, TruncateDerived, ReinsertDerived, RebuildBreaks,
                Interrupt, BackfillGoesOn, GreeksInv, GreeksTyped
  <2>3. QED
    BY <2>1, <2>2 DEF HeardInv
<1>4. ASSUME NEW b \in Backfills, KillBackfill(b) PROVE HeardInv'
  <2>1. /\ UNCHANGED connected /\ mode'[b] = "dead"
        /\ \A d \in Backfills : d # b => mode'[d] = mode[d] /\ filler'[d] = filler[d]
    BY <1>4 DEF KillBackfill, BackfillGoesOn, GreeksInv, GreeksTyped
  <2>2. QED
    BY <2>1 DEF HeardInv
<1>5. ASSUME NEW b \in Backfills, NEW f \in FillersOf[b], FillerStep(b, f) PROVE HeardInv'
  <2>1. UNCHANGED mode /\ connected' \subseteq connected \cup {b} /\ MovesOn(b, f)
    BY <1>5, FillerMoves
  <2>2. PICK it : /\ Moves(b, f, it)
                  /\ mode[b] = "feed" /\ it.step \in {"connect", "left"} =>
                        filler[b][f].step \in {"connect", "left"} /\ UNCHANGED connected
    BY <2>1 DEF MovesOn
  <2>3. /\ filler'[b][f] = it
        /\ \A d \in Backfills : \A g \in FillersOf[d] : <<d, g>> # <<b, f>> => filler'[d][g] = filler[d][g]
    BY <2>2 DEF Moves
  <2>4. mode[b] # "idle"
    <3>1. filler[b][f].step # "left"
      BY <1>5 DEF FillerStep, Connect, ConnectBreaks, HandTask, FillerLeaves, LoadRows, LoadBreaks, DeleteRows,
                  InsertFilled, RestoreRows, DeleteBreaks, InsertBreaks, RestoreBreaks
    <3>2. QED
      BY <3>1, AtWork
  <2>5. ASSUME NEW d \in Backfills, d \in connected', mode'[d] = "feed"
        PROVE  \E g \in FillersOf[d] : filler'[d][g].step \notin {"connect", "left"}
    <3>1. CASE d # b
      BY <2>1, <2>3, <2>5, <3>1 DEF HeardInv
    <3>2. CASE d = b /\ it.step \notin {"connect", "left"}
      BY <2>3, <3>2
    <3>3. CASE d = b /\ it.step \in {"connect", "left"}
      <4>1. filler[b][f].step \in {"connect", "left"} /\ b \in connected /\ mode[b] = "feed"
        BY <2>1, <2>2, <2>5, <3>3
      <4>2. PICK g \in FillersOf[b] : filler[b][g].step \notin {"connect", "left"}
        BY <4>1 DEF HeardInv
      <4>3. filler'[b][g] = filler[b][g]
        BY <2>3, <4>1, <4>2
      <4>4. QED
        BY <3>3, <4>2, <4>3
    <3>4. QED
      BY <3>1, <3>2, <3>3
  <2>6. connected' \subseteq Backfills /\ \A d \in Backfills : mode'[d] = "idle" => d \notin connected'
    BY <2>1, <2>4 DEF HeardInv
  <2>7. QED
    BY <2>5, <2>6 DEF HeardInv
<1>6. QED
  BY <1>1, <1>2, <1>3, <1>4, <1>5 DEF GreeksNext

\* The goroutine that hands out the tasks, which waits in a send that nothing
\* ends, has a worker to receive it from the first connection on, for any
\* number of workers and whatever calls fail.
THEOREM FeederHeard == GreeksSpec => []FeederIsHeard
<1>1. GreeksInit => HeardInv
  BY DEF GreeksInit, HeardInv
<1>2. HeardInv => FeederIsHeard
  BY DEF HeardInv, FeederIsHeard, AllLeft
<1>3. QED
  BY <1>1, <1>2, GreeksInvariant, HeardStep, PTL DEF GreeksSpec

(***************************************************************************)
(* GreeksBackfill: the aggregates                                          *)
(***************************************************************************)

Copies == [GreekTasks -> [Chunks -> TableRow]]

LocalsTyped ==
    /\ derived \in [Derived -> Copies] /\ alone \subseteq Backfills
    /\ dryRun \in [Backfills -> BOOLEAN] /\ backfilled \in [Backfills -> BOOLEAN]
    /\ cleared \in [Backfills -> BOOLEAN] /\ toRebuild \in [Backfills -> SUBSET Derived]
    /\ rebuildAsked \in [Backfills -> BOOLEAN]

\* How far a backfill is, with its fillers and its flags.
Course(b) ==
    /\ mode[b] \notin {"feed", "drain"} => AllLeft(b)
    /\ mode[b] = "idle" => ~backfilled[b]
    /\ dryRun[b] => ~backfilled[b] /\ \A f \in FillersOf[b] : filler[b][f].step \notin Acts
    /\ cleared[b] => mode[b] \in {"rebuild", "failed", "dead"}

\* A backfill at whose end no other was at work has the tables to itself.
Alone(b) ==
    /\ mode[b] \notin {"idle", "feed", "drain"}
    /\ \A d \in Backfills \ {b} : mode[d] \notin {"feed", "drain", "rebuild"}
    /\ mode[b] = "rebuild" =>
          /\ toRebuild[b] # {}
          /\ \A a \in Derived \ toRebuild[b] : derived[a] = optionRows
          /\ cleared[b] => derived[Rebuilding(b)] = NoCopies
    /\ mode[b] = "done" /\ backfilled[b] /\ rebuildAsked[b] => \A a \in Derived : derived[a] = optionRows

RebuildInv ==
    /\ LocalsTyped
    /\ \A b \in Backfills : Course(b)
    /\ \A b \in alone : Alone(b)

LEMMA PlusFacts ==
    /\ NoCopies \in Copies /\ AllMissing \in Copies
    /\ \A x, y \in Copies : Plus(x, y) \in Copies
    /\ \A x \in Copies : Plus(NoCopies, x) = x
<1>1. NoCopies \in Copies /\ AllMissing \in Copies
  BY DEF NoCopies, AllMissing, Copies, TableRow
<1>2. ASSUME NEW x \in Copies, NEW y \in Copies PROVE Plus(x, y) \in Copies
  BY DEF Plus, Copies, TableRow
<1>3. ASSUME NEW x \in Copies PROVE Plus(NoCopies, x) = x
  <2>1. ASSUME NEW t \in GreekTasks, NEW c \in Chunks PROVE Plus(NoCopies, x)[t][c] = x[t][c]
    <3>1. x[t][c] \in TableRow
      BY DEF Copies
    <3>2. /\ x[t][c].missing \in Nat /\ x[t][c].filled \in Nat
          /\ x[t][c] = [missing |-> x[t][c].missing, filled |-> x[t][c].filled]
      BY <3>1 DEF TableRow
    <3>3. NoCopies[t][c].missing = 0 /\ NoCopies[t][c].filled = 0
      BY DEF NoCopies
    <3>4. Plus(NoCopies, x)[t][c] = [missing |-> NoCopies[t][c].missing + x[t][c].missing,
                                     filled |-> NoCopies[t][c].filled + x[t][c].filled]
      BY DEF Plus
    <3>5. QED
      BY <3>2, <3>3, <3>4
  <2>3. Plus(NoCopies, x) \in Copies
    BY <1>1, <1>2
  <2>4. QED
    BY <2>1, <2>3 DEF Copies
<1>4. QED
  BY <1>1, <1>2, <1>3

\* A backfill at work is the only one that may be alone; while its fillers are
\* at work none is.
LEMMA NobodyElse ==
    ASSUME RebuildInv, NEW b \in Backfills
    PROVE  /\ mode[b] \in {"feed", "drain", "rebuild"} => alone \subseteq {b}
           /\ mode[b] \in {"feed", "drain"} => alone = {}
<1>1. ASSUME NEW d \in alone, d # b PROVE mode[b] \notin {"feed", "drain", "rebuild"}
  BY <1>1 DEF RebuildInv, Alone
<1>2. b \in alone => mode[b] \notin {"feed", "drain"}
  BY DEF RebuildInv, Alone
<1>3. QED
  BY <1>1, <1>2

\* An insert goes into the aggregates as it goes into the table.
LEMMA CopiedDerived ==
    ASSUME GreeksInv, LocalsTyped, NEW b \in Backfills, NEW f \in FillersOf[b], filler[b][f].step \in Acts,
           NEW kind \in {"filled", "missing"}, InsertCopies(b, f, kind)
    PROVE  derived' \in [Derived -> Copies]
<1> DEFINE t == filler[b][f].task
           c == ChunkAt(b, f)
           n == filler[b][f].loaded[c]
<1>1. t \in GreekTasks /\ c \in Chunks /\ filler[b][f] \in FillerStates
  BY AtRows
<1>2. n \in Nat /\ \A a \in Derived : derived[a] \in Copies
  BY <1>1 DEF FillerStates, LocalsTyped
<1>3. CASE kind = "filled"
  <2>1. derived' = [a \in Derived |-> [derived[a] EXCEPT ![t][c].filled = @ + n]]
    BY <1>3 DEF InsertCopies
  <2> HIDE DEF t, c, n
  <2>2. \A a \in Derived : [derived[a] EXCEPT ![t][c].filled = @ + n] \in Copies
    BY <1>1, <1>2 DEF Copies, TableRow
  <2>3. QED
    BY <2>1, <2>2
<1>4. CASE kind = "missing"
  <2>1. derived' = [a \in Derived |-> [derived[a] EXCEPT ![t][c].missing = @ + n]]
    BY <1>4 DEF InsertCopies
  <2> HIDE DEF t, c, n
  <2>2. \A a \in Derived : [derived[a] EXCEPT ![t][c].missing = @ + n] \in Copies
    BY <1>1, <1>2 DEF Copies, TableRow
  <2>3. QED
    BY <2>1, <2>2
<1>5. QED
  BY <1>3, <1>4

LEMMA RebuildInitially == GreeksInit => RebuildInv
<1> SUFFICES ASSUME GreeksInit PROVE RebuildInv
  OBVIOUS
<1>1. derived \in [Derived -> Copies]
  BY PlusFacts DEF GreeksInit
<1>2. LocalsTyped
  BY <1>1 DEF GreeksInit, LocalsTyped
<1>3. ASSUME NEW b \in Backfills PROVE Course(b)
  <2>1. \A f \in FillersOf[b] : filler[b][f].step = "left"
    BY AtRestSound DEF GreeksInit
  <2>2. ~backfilled[b] /\ ~cleared[b] /\ ~dryRun[b]
    BY DEF GreeksInit
  <2>3. QED
    BY <2>1, <2>2 DEF Course, AllLeft
<1>4. QED
  BY <1>2, <1>3 DEF RebuildInv, GreeksInit

\* A filler at work leaves the aggregates to be rebuilt.
LEMMA RebuildFillers ==
    ASSUME GreeksInv, RebuildInv, NEW b \in Backfills, NEW f \in FillersOf[b], FillerStep(b, f)
    PROVE  RebuildInv'
<1>1. /\ filler[b][f].step # "left" /\ UNCHANGED <<mode, dryRun, rebuildAsked, cleared, toRebuild, alone>>
  BY DEF FillerStep, Connect, ConnectBreaks, HandTask, FillerLeaves, LoadRows, LoadBreaks, DeleteRows,
         InsertFilled, RestoreRows, DeleteBreaks, InsertBreaks, RestoreBreaks, backfillLocals, greeksHistory
<1>2. mode[b] \in {"feed", "drain"} /\ alone = {}
  <2>1. mode[b] \in {"feed", "drain"}
    BY <1>1 DEF RebuildInv, Course, AllLeft
  <2>2. QED
    BY <2>1, NobodyElse
<1>3. /\ backfilled' = backfilled \/ (backfilled' = [backfilled EXCEPT ![b] = TRUE] /\ filler[b][f].step \in Acts)
  BY DEF FillerStep, Connect, ConnectBreaks, HandTask, FillerLeaves, LoadRows, LoadBreaks, DeleteRows,
         InsertFilled, RestoreRows, DeleteBreaks, InsertBreaks, RestoreBreaks, backfillLocals, Acts
<1>4. derived' \in [Derived -> Copies]
  <2>1. \/ derived' = derived
        \/ filler[b][f].step \in Acts /\ (InsertCopies(b, f, "filled") \/ InsertCopies(b, f, "missing"))
    BY DEF FillerStep, Connect, ConnectBreaks, HandTask, FillerLeaves, LoadRows, LoadBreaks, DeleteRows,
           InsertFilled, RestoreRows, DeleteBreaks, InsertBreaks, RestoreBreaks, tables, Acts
  <2>2. QED
    BY <2>1, CopiedDerived DEF RebuildInv, LocalsTyped
<1>5. LocalsTyped'
  BY <1>1, <1>3, <1>4 DEF RebuildInv, LocalsTyped
<1>6. PICK it : Moves(b, f, it) /\ (it.step \in Acts => filler[b][f].step \in Acts \/ ~dryRun[b])
  BY FillerMoves DEF MovesOn
<1>7. ASSUME NEW d \in Backfills PROVE Course(d)'
  <2>1. CASE d # b
    <3>1. \A g \in FillersOf[d] : filler'[d][g] = filler[d][g]
      BY <1>6, <2>1 DEF Moves
    <3>2. backfilled'[d] = backfilled[d]
      BY <1>3, <2>1 DEF RebuildInv, LocalsTyped
    <3>3. QED
      BY <1>1, <3>1, <3>2 DEF RebuildInv, Course, AllLeft
  <2>2. CASE d = b
    <3>1. dryRun[b] => filler[b][f].step \notin Acts /\ it.step \notin Acts
      BY <1>6 DEF RebuildInv, Course
    <3>2. dryRun[b] => ~backfilled[b] /\ backfilled' = backfilled
      BY <1>3, <3>1 DEF RebuildInv, Course
    <3>3. dryRun[b] => \A g \in FillersOf[b] : filler'[b][g].step \notin Acts
      BY <1>6, <3>1 DEF RebuildInv, Course, Moves
    <3>4. ~cleared[b]
      BY <1>2 DEF RebuildInv, Course
    <3>5. QED
      BY <1>1, <1>2, <2>2, <3>2, <3>3, <3>4 DEF Course
  <2>3. QED
    BY <2>1, <2>2
<1>8. QED
  BY <1>1, <1>2, <1>5, <1>7 DEF RebuildInv

\* A backfill rebuilds the aggregates, each from nothing.
LEMMA RebuildTables ==
    ASSUME GreeksInv, RebuildInv, NEW b \in Backfills,
           TruncateDerived(b) \/ ReinsertDerived(b) \/ RebuildBreaks(b)
    PROVE  RebuildInv'
<1>0. optionRows \in Copies
  BY DEF GreeksInv, GreeksTyped, Copies
<1>1. /\ mode[b] = "rebuild" /\ UNCHANGED <<optionRows, filler, dryRun, rebuildAsked, backfilled, alone>>
  BY DEF TruncateDerived, ReinsertDerived, RebuildBreaks, backfillLocals, greeksHistory
<1>2. alone \subseteq {b}
  BY <1>1, NobodyElse
<1>3. Rebuilding(b) \in Derived
  BY DEF Rebuilding, Derived
<1>4. /\ Truncated(b) \in [Derived -> Copies] /\ Truncated(b)[Rebuilding(b)] = NoCopies
      /\ \A a \in Derived : a # Rebuilding(b) => Truncated(b)[a] = derived[a]
  BY <1>3, PlusFacts DEF Truncated, RebuildInv, LocalsTyped
<1>5. /\ Reinserted(b) \in [Derived -> Copies]
      /\ Reinserted(b)[Rebuilding(b)] = Plus(derived[Rebuilding(b)], optionRows)
      /\ \A a \in Derived : a # Rebuilding(b) => Reinserted(b)[a] = derived[a]
  <2>1. derived \in [Derived -> Copies] /\ Plus(derived[Rebuilding(b)], optionRows) \in Copies
    BY <1>0, <1>3, PlusFacts DEF RebuildInv, LocalsTyped
  <2>2. Reinserted(b) = [derived EXCEPT ![Rebuilding(b)] = Plus(derived[Rebuilding(b)], optionRows)]
    BY DEF Reinserted
  <2>3. QED
    BY <1>3, <2>1, <2>2
<1>6. /\ cleared' \in [Backfills -> BOOLEAN] /\ toRebuild' \in [Backfills -> SUBSET Derived]
      /\ derived' \in [Derived -> Copies]
  BY <1>4, <1>5 DEF TruncateDerived, ReinsertDerived, RebuildBreaks, backfillLocals, RebuildInv, LocalsTyped
<1>7. /\ mode'[b] \in {"rebuild", "done", "failed"} /\ (mode'[b] = "done" => ~cleared'[b])
      /\ \A d \in Backfills : d # b => mode'[d] = mode[d] /\ cleared'[d] = cleared[d]
  BY <1>1 DEF TruncateDerived, ReinsertDerived, RebuildBreaks, BackfillGoesOn, backfillLocals,
              RebuildInv, LocalsTyped, GreeksInv, GreeksTyped
<1>8. LocalsTyped'
  BY <1>1, <1>6 DEF RebuildInv, LocalsTyped
<1>9. ASSUME NEW d \in Backfills PROVE Course(d)'
  BY <1>1, <1>7 DEF RebuildInv, Course, AllLeft
<1>10. ASSUME b \in alone PROVE Alone(b)'
  <2>1. Alone(b)
    BY <1>10 DEF RebuildInv
  <2>2. /\ mode'[b] \notin {"idle", "feed", "drain"}
        /\ \A d \in Backfills \ {b} : mode'[d] \notin {"feed", "drain", "rebuild"}
    BY <1>7, <2>1 DEF Alone
  <2>3. CASE TruncateDerived(b)
    <3>1. /\ derived' = Truncated(b) /\ cleared'[b] = TRUE /\ mode' = mode /\ toRebuild' = toRebuild
      BY <2>3 DEF TruncateDerived, RebuildInv, LocalsTyped
    <3>2. Rebuilding(b)' = Rebuilding(b) /\ NoCopies' = NoCopies
      BY <3>1 DEF Rebuilding, NoCopies
    <3>3. toRebuild[b] # {} /\ toRebuild[b] \subseteq Derived
      BY <1>1, <2>1 DEF Alone, RebuildInv, LocalsTyped
    <3>4. Rebuilding(b) \in toRebuild[b]
      BY <3>3 DEF Rebuilding, Derived
    <3>5. \A a \in Derived \ toRebuild'[b] : derived'[a] = optionRows'
      BY <1>1, <1>4, <2>1, <3>1, <3>4 DEF Alone
    <3>6. derived'[Rebuilding(b)'] = NoCopies'
      BY <1>4, <3>1, <3>2
    <3>7. QED
      BY <1>1, <2>2, <3>1, <3>3, <3>5, <3>6 DEF Alone
  <2>4. CASE ReinsertDerived(b)
    <3>1. /\ cleared[b] /\ derived' = Reinserted(b) /\ cleared'[b] = FALSE
          /\ toRebuild'[b] = toRebuild[b] \ {Rebuilding(b)}
          /\ mode' = IF Cardinality(toRebuild[b]) = 1 THEN [mode EXCEPT ![b] = "done"] ELSE mode
      BY <2>4 DEF ReinsertDerived, RebuildInv, LocalsTyped
    <3>2. derived'[Rebuilding(b)] = optionRows
      BY <1>0, <1>1, <1>3, <1>5, <2>1, <3>1, PlusFacts DEF Alone
    <3>3. \A a \in Derived \ toRebuild'[b] : derived'[a] = optionRows'
      BY <1>1, <1>5, <2>1, <3>1, <3>2 DEF Alone
    <3>4. toRebuild[b] \in SUBSET Derived /\ toRebuild[b] # {} /\ IsFiniteSet(toRebuild[b])
      <4>1. IsFiniteSet({"klines"} \cup {"chains"})
        BY FS_Singleton, FS_AddElement
      <4>2. IsFiniteSet(Derived)
        <5>1. Derived = {"klines"} \cup {"chains"}
          BY DEF Derived
        <5>2. QED
          BY <4>1, <5>1
      <4>3. toRebuild[b] \in SUBSET Derived /\ toRebuild[b] # {}
        BY <1>1, <2>1 DEF Alone, RebuildInv, LocalsTyped
      <4>4. QED
        BY <4>2, <4>3, FS_Subset
    <3>5. Rebuilding(b) \in toRebuild[b]
      BY <3>4 DEF Rebuilding, Derived
    <3>6. Cardinality(toRebuild[b]) = 1 <=> toRebuild'[b] = {}
      <4>1. Cardinality(toRebuild[b]) = 1 <=> \E x : toRebuild[b] = {x}
        BY <3>4, FS_Singleton
      <4>2. QED
        BY <3>1, <3>5, <4>1
    <3>7. mode'[b] = "done" => toRebuild'[b] = {}
      BY <1>1, <3>1, <3>6
    <3>8. mode'[b] = "rebuild" => toRebuild'[b] # {}
      BY <1>1, <3>1, <3>6 DEF GreeksInv, GreeksTyped
    <3>9. QED
      BY <2>2, <3>1, <3>3, <3>7, <3>8 DEF Alone
  <2>5. CASE RebuildBreaks(b)
    <3>1. mode'[b] = "failed"
      BY <2>5 DEF RebuildBreaks, BackfillGoesOn, GreeksInv, GreeksTyped
    <3>2. QED
      BY <2>2, <3>1 DEF Alone
  <2>6. QED
    BY <2>3, <2>4, <2>5
<1>11. QED
  BY <1>1, <1>2, <1>8, <1>9, <1>10 DEF RebuildInv

\* A backfill starts, ends or is killed.
LEMMA RebuildCalls ==
    ASSUME GreeksInv, RebuildInv, NEW b \in Backfills,
           \/ \E try \in BOOLEAN : StartBackfill(b, try)
           \/ CloseTasks(b) \/ CallBreaks(b) \/ Interrupt(b) \/ KillBackfill(b)
           \/ \E rebuild \in BOOLEAN : Recheck(b, rebuild)
    PROVE  RebuildInv'
<1>1. CASE \E try \in BOOLEAN : StartBackfill(b, try)
  <2>1. PICK try \in BOOLEAN : StartBackfill(b, try)
    BY <1>1
  <2>2. /\ mode[b] = "idle" /\ alone' = {} /\ dryRun' = [dryRun EXCEPT ![b] = try]
        /\ UNCHANGED <<derived, backfilled, rebuildAsked, cleared, toRebuild>>
        /\ \/ mode'[b] = "done" /\ filler'[b] = filler[b]
           \/ /\ mode'[b] = "feed"
              /\ \A f \in FillersOf[b] : filler'[b][f] = AtRest("connect")
        /\ \A d \in Backfills : d # b => mode'[d] = mode[d] /\ filler'[d] = filler[d]
    BY <2>1 DEF StartBackfill, BackfillGoesOn, tables, GreeksInv, GreeksTyped
  <2>3. LocalsTyped'
    BY <2>2 DEF RebuildInv, LocalsTyped
  <2>4. /\ \A d \in Backfills : d # b => dryRun'[d] = dryRun[d]
        /\ \A f \in FillersOf[b] : filler'[b][f].step \notin Acts
        /\ mode'[b] = "done" => \A f \in FillersOf[b] : filler'[b][f].step = "left"
        /\ ~backfilled[b] /\ ~cleared[b]
    BY <2>2, AtRestSound DEF RebuildInv, LocalsTyped, Course, AllLeft, Acts
  <2>5. ASSUME NEW d \in Backfills PROVE Course(d)'
    <3>1. CASE d = b
      BY <2>2, <2>4, <3>1 DEF Course, AllLeft
    <3>2. CASE d # b
      BY <2>2, <2>4, <3>2 DEF RebuildInv, Course, AllLeft
    <3>3. QED
      BY <3>1, <3>2
  <2>6. QED
    BY <2>2, <2>3, <2>5 DEF RebuildInv
<1>2. CASE CloseTasks(b) \/ Interrupt(b)
  <2>1. /\ UNCHANGED <<derived, optionRows, dryRun, rebuildAsked, backfilled, cleared, toRebuild, alone, filler>>
        /\ \/ mode' = mode
           \/ mode[b] = "feed" /\ mode' = [mode EXCEPT ![b] = "drain"]
    BY <1>2 DEF CloseTasks, Interrupt, BackfillGoesOn, tables, backfillLocals, greeksHistory
  <2>2. LocalsTyped'
    BY <2>1 DEF RebuildInv, LocalsTyped
  <2>3. /\ mode'[b] = mode[b] \/ (mode[b] = "feed" /\ mode'[b] = "drain")
        /\ \A d \in Backfills : d # b => mode'[d] = mode[d]
    BY <2>1 DEF GreeksInv, GreeksTyped
  <2>4. ASSUME NEW d \in Backfills PROVE Course(d)'
    BY <2>1, <2>3 DEF RebuildInv, Course, AllLeft
  <2>5. ASSUME NEW d \in alone PROVE Alone(d)'
    <3>1. Alone(d) /\ mode[d] \notin {"feed", "drain"} /\ d \in Backfills
      BY DEF RebuildInv, LocalsTyped, Alone
    <3>2. mode'[d] = mode[d] /\ \A e \in Backfills \ {d} :
              mode[e] \notin {"feed", "drain", "rebuild"} => mode'[e] \notin {"feed", "drain", "rebuild"}
      BY <2>3, <3>1
    <3>3. Rebuilding(d)' = Rebuilding(d) /\ NoCopies' = NoCopies
      BY <2>1 DEF Rebuilding, NoCopies
    <3>4. QED
      BY <2>1, <3>1, <3>2, <3>3 DEF Alone
  <2>6. QED
    BY <2>1, <2>2, <2>4, <2>5 DEF RebuildInv
<1>3. ASSUME NEW rebuild \in BOOLEAN, Recheck(b, rebuild) PROVE RebuildInv'
  <2>1. /\ mode[b] = "drain" /\ UNCHANGED <<derived, optionRows, dryRun, backfilled, cleared, filler>> /\ AllLeft(b)
        /\ \/ toRebuild' = [toRebuild EXCEPT ![b] = Derived] /\ mode' = [mode EXCEPT ![b] = "rebuild"]
           \/ toRebuild' = toRebuild /\ mode' = [mode EXCEPT ![b] = "failed"]
           \/ toRebuild' = toRebuild /\ mode' = [mode EXCEPT ![b] = "done"] /\ ~Rebuilds(b, rebuild)
        /\ rebuildAsked' = [rebuildAsked EXCEPT ![b] = rebuild]
        /\ alone' = alone \/ (alone' = alone \cup {b} /\ ~OthersAtWork(b))
    BY <1>3 DEF Recheck, BackfillGoesOn, tables
  <2>2. LocalsTyped' /\ alone = {}
    BY <2>1, NobodyElse DEF RebuildInv, LocalsTyped
  <2>3. /\ \/ mode'[b] = "rebuild" /\ toRebuild'[b] = Derived
           \/ mode'[b] = "failed"
           \/ mode'[b] = "done" /\ ~Rebuilds(b, rebuild)
        /\ rebuildAsked'[b] = rebuild
        /\ \A d \in Backfills : d # b => mode'[d] = mode[d]
    BY <2>1 DEF RebuildInv, LocalsTyped, GreeksInv, GreeksTyped
  <2>4. ~cleared[b] /\ (~Rebuilds(b, rebuild) => ~backfilled[b] \/ ~rebuild)
    BY <2>1 DEF RebuildInv, Course, Rebuilds
  <2>5. ASSUME NEW d \in Backfills PROVE Course(d)'
    BY <2>1, <2>3, <2>4 DEF RebuildInv, Course, AllLeft
  <2>6. ASSUME b \in alone' PROVE Alone(b)'
    <3>1. \A d \in Backfills \ {b} : mode'[d] \notin {"feed", "drain", "rebuild"}
      BY <2>1, <2>2, <2>3, <2>6 DEF OthersAtWork, BackfillOver
    <3>2. QED
      BY <2>1, <2>3, <2>4, <3>1 DEF Alone, Derived
  <2>7. QED
    BY <2>1, <2>2, <2>5, <2>6 DEF RebuildInv
<1>4. CASE CallBreaks(b) \/ KillBackfill(b)
  <2>1. /\ UNCHANGED <<derived, optionRows, dryRun, rebuildAsked, backfilled, cleared, toRebuild, alone>>
        /\ \/ mode' = [mode EXCEPT ![b] = "failed"] /\ filler' = filler /\ (mode[b] # "idle" => AllLeft(b))
           \/ /\ mode' = [mode EXCEPT ![b] = "dead"] /\ mode[b] # "idle"
              /\ filler' = [filler EXCEPT ![b] = [f \in FillersOf[b] |-> AtRest("left")]]
    BY <1>4 DEF CallBreaks, KillBackfill, BackfillGoesOn, tables, backfillLocals, greeksHistory
  <2>2. LocalsTyped'
    BY <2>1 DEF RebuildInv, LocalsTyped
  <2>3. /\ mode'[b] \in {"failed", "dead"}
        /\ \A f \in FillersOf[b] : filler'[b][f].step = "left"
        /\ \A d \in Backfills : d # b => mode'[d] = mode[d] /\ filler'[d] = filler[d]
    BY <2>1, AtRestSound DEF GreeksInv, GreeksTyped, RebuildInv, Course, AllLeft
  <2>4. ASSUME NEW d \in Backfills PROVE Course(d)'
    BY <2>1, <2>3 DEF RebuildInv, Course, AllLeft, Acts
  <2>5. ASSUME NEW d \in alone PROVE Alone(d)'
    <3>1. Alone(d) /\ d \in Backfills
      BY DEF RebuildInv, LocalsTyped
    <3>2. Rebuilding(d)' = Rebuilding(d) /\ NoCopies' = NoCopies
      BY <2>1 DEF Rebuilding, NoCopies
    <3>3. QED
      BY <2>1, <2>3, <3>1, <3>2 DEF Alone
  <2>6. QED
    BY <2>1, <2>2, <2>4, <2>5 DEF RebuildInv
<1>5. QED
  BY <1>1, <1>2, <1>3, <1>4

LEMMA RebuildStep == GreeksInv /\ RebuildInv /\ [GreeksNext]_greeksVars => RebuildInv'
<1> SUFFICES ASSUME GreeksInv, RebuildInv, [GreeksNext]_greeksVars PROVE RebuildInv'
  OBVIOUS
<1>1. CASE UNCHANGED greeksVars
  <2>1. UNCHANGED <<mode, filler, derived, optionRows, dryRun, rebuildAsked, backfilled, cleared, toRebuild, alone>>
    BY <1>1 DEF greeksVars, tables, backfillLocals, greeksHistory
  <2>2. QED
    BY <2>1 DEF RebuildInv, LocalsTyped, Course, Alone, AllLeft, Rebuilding, NoCopies
<1>2. ASSUME NEW b \in Backfills,
             \/ \E try \in BOOLEAN : StartBackfill(b, try)
             \/ BackfillStep(b) \/ Interrupt(b) \/ KillBackfill(b)
      PROVE  RebuildInv'
  BY <1>2, RebuildCalls, RebuildTables DEF BackfillStep
<1>3. ASSUME NEW b \in Backfills, NEW f \in FillersOf[b], FillerStep(b, f) PROVE RebuildInv'
  BY <1>3, RebuildFillers
<1>4. QED
  BY <1>1, <1>2, <1>3 DEF GreeksNext

\* For any number of backfills: one that was to rebuild, filled rows and ended
\* without an error, with no other at work at its end or since, has left
\* aggregates that are those of the table, whatever was in them before.
THEOREM AggregatesRight == GreeksSpec => []AggregatesFollow
<1>1. RebuildInv => AggregatesFollow
  BY DEF RebuildInv, Alone, AggregatesFollow
<1>2. QED
  BY <1>1, GreeksInvariant, RebuildInitially, RebuildStep, PTL DEF GreeksSpec

(***************************************************************************)
(* Lists of rows, of whatever the rows are, and bags                       *)
(***************************************************************************)

Listed(s) == \E S : s \in Seq(S)

\* How often a list has a row.
Spots(r, s) == {k \in DOMAIN s : s[k] = r}
Times(r, s) == Cardinality(Spots(r, s))

IsBag(b) == b \in [DOMAIN b -> Nat \ {0}]
Count(r, b) == IF r \in DOMAIN b THEN b[r] ELSE 0

LEMMA ListFacts ==
    ASSUME NEW s, Listed(s)
    PROVE  Len(s) \in Nat /\ DOMAIN s = 1..Len(s)
  BY DEF Listed

LEMMA ShortLists == Listed(<<>>) /\ (\A x : Listed(<<x>>)) /\ (\A x, y : Listed(<<x, y>>))
<1>1. <<>> \in Seq({})
  OBVIOUS
<1>2. ASSUME NEW x PROVE <<x>> \in Seq({x})
  OBVIOUS
<1>3. ASSUME NEW x, NEW y PROVE <<x, y>> \in Seq({x, y})
  OBVIOUS
<1>4. QED
  BY <1>1, <1>2, <1>3 DEF Listed

LEMMA Wider ==
    ASSUME NEW S, NEW T, S \subseteq T, NEW s \in Seq(S)
    PROVE  s \in Seq(T)
<1>1. PICK n \in Nat : s \in [1..n -> S]
  BY SeqDef
<1>2. s \in [1..n -> T]
  BY <1>1
<1>3. QED
  BY <1>2, SeqDef

LEMMA AppendFacts ==
    ASSUME NEW s, Listed(s), NEW x
    PROVE  /\ Listed(Append(s, x)) /\ Len(Append(s, x)) = Len(s) + 1
           /\ Append(s, x)[Len(s) + 1] = x
           /\ \A k \in 1..Len(s) : Append(s, x)[k] = s[k]
<1>1. PICK S : s \in Seq(S)
  BY DEF Listed
<1>2. s \in Seq(S \cup {x}) /\ x \in S \cup {x}
  BY <1>1, Wider
<1>3. QED
  BY <1>2 DEF Listed

LEMMA TailFacts ==
    ASSUME NEW s, Listed(s), s # <<>>
    PROVE  /\ Listed(Tail(s)) /\ Len(s) >= 1 /\ Len(Tail(s)) = Len(s) - 1
           /\ Head(s) = s[1]
           /\ \A k \in 1..Len(Tail(s)) : Tail(s)[k] = s[k + 1]
<1>1. PICK S : s \in Seq(S)
  BY DEF Listed
<1>2. QED
  BY <1>1 DEF Listed

LEMMA JoinFacts ==
    ASSUME NEW s, Listed(s), NEW t, Listed(t)
    PROVE  Listed(s \o t)
<1>1. PICK S, T : s \in Seq(S) /\ t \in Seq(T)
  BY DEF Listed
<1>2. s \in Seq(S \cup T) /\ t \in Seq(S \cup T)
  BY <1>1, Wider
<1>3. QED
  BY <1>2 DEF Listed

LEMMA TimesType ==
    ASSUME NEW s, Listed(s), NEW r
    PROVE  /\ Times(r, s) \in Nat /\ IsFiniteSet(Spots(r, s))
           /\ Times(r, s) = 0 <=> r \notin {s[k] : k \in DOMAIN s}
<1> DEFINE D == 1..Len(s)
           K == Spots(r, s)
<1>1. DOMAIN s = D /\ IsFiniteSet(D)
  BY ListFacts, FS_Interval
<1>2. K \subseteq D
  BY <1>1 DEF Spots
<1> HIDE DEF D
<1>3. IsFiniteSet(K)
  <2> HIDE DEF K
  <2>1. QED
    BY <1>1, <1>2, FS_Subset
<1>4. Cardinality(K) \in Nat /\ (Cardinality(K) = 0 <=> K = {})
  <2> HIDE DEF K
  <2>1. QED
    BY <1>3, FS_CardinalityType, FS_EmptySet
<1>5. Times(r, s) = Cardinality(K)
  BY DEF Times
<1>6. K = {} <=> r \notin {s[k] : k \in DOMAIN s}
  BY DEF Spots
<1>7. QED
  BY <1>3, <1>4, <1>5, <1>6

LEMMA TimesEmpty == \A r : Times(r, <<>>) = 0
<1>1. \A r : Spots(r, <<>>) = {}
  BY DEF Spots
<1>2. QED
  BY <1>1, FS_EmptySet DEF Times

LEMMA TimesAppend ==
    ASSUME NEW s, Listed(s), NEW x, NEW r
    PROVE  Times(r, Append(s, x)) = Times(r, s) + (IF x = r THEN 1 ELSE 0)
<1> DEFINE K == Spots(r, s)
           L == Spots(r, Append(s, x))
           n == Len(s)
<1>1. n \in Nat /\ DOMAIN s = 1..n /\ DOMAIN Append(s, x) = 1..(n + 1)
  BY ListFacts, AppendFacts
<1>2. Append(s, x)[n + 1] = x /\ \A k \in 1..n : Append(s, x)[k] = s[k]
  BY AppendFacts
<1>3. IsFiniteSet(K) /\ Cardinality(K) \in Nat
  BY TimesType DEF Times
<1>k. n + 1 \notin K
  BY <1>1 DEF Spots
<1>4. Times(r, s) = Cardinality(K) /\ Times(r, Append(s, x)) = Cardinality(L)
  BY DEF Times
<1>5. CASE x = r
  <2>1. L = K \cup {n + 1}
    BY <1>1, <1>2, <1>5 DEF Spots
  <2> DEFINE m == n + 1
  <2> HIDE DEF K, L, n, m
  <2>2. Cardinality(K \cup {m}) = Cardinality(K) + 1
    BY <1>3, <1>k, FS_AddElement DEF m
  <2>3. QED
    BY <1>3, <1>4, <1>5, <2>1, <2>2 DEF m
<1>6. CASE x # r
  <2>1. L = K
    BY <1>1, <1>2, <1>6 DEF Spots
  <2> HIDE DEF K, L
  <2>2. QED
    BY <1>3, <1>4, <1>6, <2>1
<1>7. QED
  BY <1>5, <1>6

LEMMA TimesTail ==
    ASSUME NEW s, Listed(s), s # <<>>, NEW r
    PROVE  Times(r, s) = Times(r, Tail(s)) + (IF Head(s) = r THEN 1 ELSE 0)
<1> DEFINE K == Spots(r, s)
           T == Spots(r, Tail(s))
           M == {k \in K : k # 1}
           n == Len(s)
           f == [k \in T |-> k + 1]
<1>1. n \in Nat /\ n >= 1 /\ DOMAIN s = 1..n /\ DOMAIN Tail(s) = 1..(n - 1) /\ Head(s) = s[1]
  BY ListFacts, TailFacts
<1>2. \A k \in 1..(n - 1) : Tail(s)[k] = s[k + 1]
  BY <1>1, TailFacts, ListFacts
<1>3. IsFiniteSet(T) /\ Cardinality(T) \in Nat /\ Times(r, Tail(s)) = Cardinality(T)
  BY TailFacts, TimesType DEF Times
<1>4. Times(r, s) = Cardinality(K)
  BY DEF Times
<1>5. f \in Bijection(T, M)
  <2>1. f \in [T -> M]
    BY <1>1, <1>2 DEF Spots
  <2>2. \A k, l \in T : f[k] = f[l] => k = l
    BY <1>1 DEF Spots
  <2>3. \A m \in M : \E k \in T : f[k] = m
    <3> SUFFICES ASSUME NEW m \in M PROVE m - 1 \in T /\ f[m - 1] = m
      OBVIOUS
    <3>1. m \in 1..n /\ m # 1 /\ s[m] = r
      BY <1>1 DEF Spots
    <3>2. m - 1 \in 1..(n - 1) /\ Tail(s)[m - 1] = s[m]
      BY <1>1, <1>2, <3>1
    <3>3. QED
      BY <1>1, <3>1, <3>2 DEF Spots
  <2> HIDE DEF f, T, M
  <2>4. QED
    BY <2>1, <2>2, <2>3 DEF Bijection, Injection, Surjection, IsInjective
<1>6. IsFiniteSet(M) /\ Cardinality(M) = Cardinality(T)
  <2> HIDE DEF f, T, M
  <2>1. QED
    BY <1>3, <1>5, FS_Bijection DEF ExistsBijection
<1>7. CASE Head(s) = r
  <2>1. K = M \cup {1} /\ 1 \notin M
    BY <1>1, <1>7 DEF Spots
  <2> HIDE DEF K, M, T
  <2>2. Cardinality(K) = Cardinality(M) + 1
    BY <1>6, <2>1, FS_AddElement
  <2>3. QED
    BY <1>3, <1>4, <1>6, <1>7, <2>2
<1>8. CASE Head(s) # r
  <2>1. K = M
    BY <1>1, <1>8 DEF Spots
  <2> HIDE DEF K, M, T
  <2>2. QED
    BY <1>3, <1>4, <1>6, <1>8, <2>1
<1>9. QED
  BY <1>7, <1>8

LEMMA CountType == ASSUME NEW b, IsBag(b), NEW r PROVE Count(r, b) \in Nat
  BY DEF IsBag, Count

LEMMA EmptyBagFacts == IsBag(EmptyBag) /\ \A r : Count(r, EmptyBag) = 0
  BY DEF IsBag, EmptyBag, SetToBag, Count

LEMMA BagSumFacts ==
    ASSUME NEW a, IsBag(a), NEW b, IsBag(b)
    PROVE  /\ IsBag(a (+) b)
           /\ \A r : Count(r, a (+) b) = Count(r, a) + Count(r, b)
<1> DEFINE both == a (+) b
<1>1. both = [e \in DOMAIN a \cup DOMAIN b |-> Count(e, a) + Count(e, b)]
  BY DEF (+), Count
<1>2. \A e : Count(e, a) \in Nat /\ Count(e, b) \in Nat
  BY CountType
<1>3. \A e \in DOMAIN a : Count(e, a) > 0
  BY DEF IsBag, Count
<1>4. \A e \in DOMAIN b : Count(e, b) > 0
  BY DEF IsBag, Count
<1>5. \A e : e \notin DOMAIN a \cup DOMAIN b => Count(e, a) + Count(e, b) = 0
  BY DEF Count
<1>6. \A e \in DOMAIN a \cup DOMAIN b : Count(e, a) + Count(e, b) \in Nat \ {0}
  BY <1>2, <1>3, <1>4
<1> HIDE DEF both
<1>7. IsBag(both)
  BY <1>1, <1>6 DEF IsBag
<1>8. \A r : Count(r, both) = Count(r, a) + Count(r, b)
  <2> SUFFICES ASSUME NEW r PROVE Count(r, both) = Count(r, a) + Count(r, b)
    OBVIOUS
  <2> DEFINE sum(e) == Count(e, a) + Count(e, b)
  <2>1. both = [e \in DOMAIN a \cup DOMAIN b |-> sum(e)] /\ (r \notin DOMAIN a \cup DOMAIN b => sum(r) = 0)
    BY <1>1, <1>5
  <2> HIDE DEF sum
  <2>2. Count(r, both) = sum(r)
    BY <2>1 DEF Count
  <2>3. QED
    BY <2>2 DEF sum
<1>9. QED
  BY <1>7, <1>8 DEF both

LEMMA BagOfFacts ==
    ASSUME NEW s, Listed(s)
    PROVE  IsBag(BagOf(s)) /\ \A r : Count(r, BagOf(s)) = Times(r, s)
<1>1. BagOf(s) = [r \in {s[k] : k \in DOMAIN s} |-> Times(r, s)]
  BY DEF BagOf, ToSet, Times, Spots
<1>2. \A r : Times(r, s) \in Nat /\ (Times(r, s) = 0 <=> r \notin {s[k] : k \in DOMAIN s})
  BY TimesType
<1> DEFINE R == {s[k] : k \in DOMAIN s}
<1> HIDE DEF R
<1>3. BagOf(s) = [r \in R |-> Times(r, s)] /\ \A r : Times(r, s) \in Nat /\ (Times(r, s) = 0 <=> r \notin R)
  BY <1>1, <1>2 DEF R
<1>4. QED
  BY <1>3 DEF IsBag, Count

LEMMA SameBag ==
    ASSUME NEW a, IsBag(a), NEW b, IsBag(b), \A r : Count(r, a) = Count(r, b)
    PROVE  a = b
<1>1. \A r : (r \in DOMAIN a <=> Count(r, a) # 0) /\ (r \in DOMAIN b <=> Count(r, b) # 0)
  BY DEF IsBag, Count
<1>2. DOMAIN a = DOMAIN b
  BY <1>1
<1>3. \A r \in DOMAIN a : a[r] = b[r]
  BY <1>2 DEF Count
<1>4. QED
  BY <1>2, <1>3 DEF IsBag

(***************************************************************************)
(* ArchiveImport: the invariant                                            *)
(***************************************************************************)

\* The success of the file at work is not on record, or it is unsure.
Unsettled ==
    /\ catalog[This] # NoCheckpoint
    /\ catalog[This].status = "success" => This \in unsure

\* What outlives a run.  A file that has no checkpoint has no rows.
Kept ==
    /\ DOMAIN catalog = Files /\ DOMAIN table = Files /\ DOMAIN stored = Files
    /\ \A f \in Files : IsBag(table[f]) /\ (catalog[f] = NoCheckpoint => table[f] = EmptyBag)
    /\ SuccessMeansRows

Emitted == DOMAIN emitted = Files /\ \A f \in Files : IsBag(emitted[f])

Rests(c) == conn[c].reply = "none" /\ conn[c].pending = <<>>

\* Rows are pending at one connection, which has no reply to wait for; before
\* a file is scanned and after it is dealt with there are none on their way.
Writer ==
    /\ current \in Conns /\ DOMAIN conn = Conns
    /\ Listed(waiting)
    /\ \A c \in Conns :
          /\ Listed(conn[c].pending) /\ Listed(conn[c].flight)
          /\ conn[c].reply \in {"none", "flying", "ok", "failed"}
          /\ conn[c].reply # "flying" => conn[c].flight = <<>>
          /\ conn[c].pending # <<>> => c = current /\ conn[c].reply = "none"
    /\ dry \/ step \notin {"scan", "close", "abort"} => waiting = <<>> /\ \A c \in Conns : Rests(c)
    /\ step = "close" => waiting = <<>> /\ \A c \in Conns : conn[c].pending = <<>>

\* The files still to come are different ones, and what is imported without
\* replacing anything has never been imported.
Workload ==
    /\ Listed(work)
    /\ step \in {"idle", "plan"} => work = <<>>
    /\ step \notin {"idle", "plan", "next"} => work # <<>>
    /\ step = "pending" => ~Head(work).warm
    /\ \A i \in 1..Len(work) : work[i].file \in Files
    /\ \A i, j \in 1..Len(work) : work[i].file = work[j].file => i = j
    /\ ~dry => \A i \in 1..Len(work) :
          (i > 1 \/ step \in {"next", "pending"}) /\ ~work[i].warm /\ ~work[i].replace
             => catalog[work[i].file] = NoCheckpoint

\* From its pending row on until it is settled, the success of the file at
\* work is not on record; its partition is empty when the writer is opened.
Recorded ==
    /\ ~dry /\ step \in {"clear", "open", "scan", "close", "abort", "drop", "fail"} => Unsettled
    /\ ~dry /\ step = "open" => table[This] = EmptyBag
    /\ dry => step \notin {"pending", "clear", "abort", "drop", "fail"}

OnTheWay(r) ==
    Times(r, conn[0].flight) + Times(r, conn[0].pending)
      + Times(r, conn[1].flight) + Times(r, conn[1].pending) + Times(r, waiting)

Balanced == \A r : Count(r, table[This]) + OnTheWay(r) = Count(r, emitted[This])

\* Unless a batch has failed, every row emitted is in the table or on its way.
Balance ==
    ~dry /\ step \in {"scan", "close"} /\ (\A c \in Conns : conn[c].reply # "failed") => Balanced

ArchiveInv == Kept /\ Emitted /\ Writer /\ Workload /\ Recorded /\ Balance

(***************************************************************************)
(* What the actions have in common                                         *)
(***************************************************************************)

LEMMA ThisFacts ==
    ASSUME Workload, work # <<>>
    PROVE  /\ This \in Files /\ Len(work) \in Nat /\ Len(work) >= 1
           /\ Head(work) = work[1] /\ This = work[1].file
  BY ListFacts, TailFacts DEF Workload, This

LEMMA KeptStays ==
    ASSUME Kept, UNCHANGED <<catalog, table, stored, unsure>>
    PROVE  Kept'
  BY DEF Kept, SuccessMeansRows

LEMMA TableChanges ==
    ASSUME Kept, This \in Files, Unsettled, NEW b, IsBag(b),
           table' = [table EXCEPT ![This] = b], UNCHANGED <<catalog, stored, unsure>>
    PROVE  Kept'
<1>1. DOMAIN table' = Files /\ table'[This] = b /\ \A f \in Files \ {This} : table'[f] = table[f]
  BY DEF Kept
<1>2. \A f \in Files : IsBag(table'[f]) /\ (catalog'[f] = NoCheckpoint => table'[f] = EmptyBag)
  <2> SUFFICES ASSUME NEW f \in Files
               PROVE  IsBag(table'[f]) /\ (catalog'[f] = NoCheckpoint => table'[f] = EmptyBag)
    OBVIOUS
  <2>1. CASE f = This
    BY <1>1, <2>1 DEF Unsettled
  <2>2. CASE f # This
    BY <1>1, <2>2 DEF Kept
  <2>3. QED
    BY <2>1, <2>2
<1>3. SuccessMeansRows'
  <2> SUFFICES ASSUME NEW f \in Files \ unsure, catalog[f].status = "success"
               PROVE  table'[f] = stored[f]
    BY DEF SuccessMeansRows
  <2>1. f # This
    BY DEF Unsettled
  <2>2. QED
    BY <1>1, <2>1 DEF Kept, SuccessMeansRows
<1>4. QED
  BY <1>1, <1>2, <1>3 DEF Kept

LEMMA CheckpointFacts ==
    ASSUME Kept, This \in Files, NEW status, catalog' = Checkpoint(status)
    PROVE  /\ DOMAIN catalog' = Files /\ catalog'[This].status = status
           /\ \A f \in Files \ {This} : catalog'[f] = catalog[f]
           /\ status # "none" => catalog'[This] # NoCheckpoint
<1>1. DOMAIN catalog' = Files /\ catalog'[This] = [status |-> status, print |-> disk[This].print]
      /\ \A f \in Files \ {This} : catalog'[f] = catalog[f]
  BY DEF Kept, Checkpoint
<1>2. catalog'[This].status = status
  BY <1>1
<1>3. NoCheckpoint.status = "none"
  BY DEF NoCheckpoint
<1>4. QED
  BY <1>1, <1>2, <1>3

LEMMA CatalogChanges ==
    ASSUME Kept, This \in Files, NEW status, status \notin {"none", "success"},
           catalog' = Checkpoint(status), unsure' = unsure \ {This}, UNCHANGED <<table, stored>>
    PROVE  Kept'
<1>1. /\ DOMAIN catalog' = Files /\ catalog'[This].status = status
      /\ \A f \in Files \ {This} : catalog'[f] = catalog[f]
      /\ catalog'[This] # NoCheckpoint
  BY CheckpointFacts
<1>2. \A f \in Files : catalog'[f] = NoCheckpoint => catalog[f] = NoCheckpoint
  BY <1>1
<1>3. SuccessMeansRows'
  <2> SUFFICES ASSUME NEW f \in Files \ unsure', catalog'[f].status = "success"
               PROVE  table'[f] = stored'[f]
    BY DEF SuccessMeansRows
  <2>1. f # This
    BY <1>1
  <2>2. QED
    BY <1>1, <2>1 DEF Kept, SuccessMeansRows
<1>4. QED
  BY <1>1, <1>2, <1>3 DEF Kept

LEMMA NothingEmitted == ASSUME emitted' = NoRows PROVE Emitted'
<1>1. DOMAIN emitted' = Files /\ \A f \in Files : emitted'[f] = EmptyBag
  BY DEF NoRows
<1>2. QED
  BY <1>1, EmptyBagFacts DEF Emitted

LEMMA WriterStays ==
    ASSUME Writer, UNCHANGED <<dry, waiting, conn, current>>,
           step' \in {"scan", "close", "abort"} => step \in {"scan", "close", "abort"},
           step \in {"scan", "close", "abort"} => step' \in {"scan", "close", "abort"},
           step' = "close" => step = "close"
    PROVE  Writer'
  BY DEF Writer, Rests

LEMMA WorkStays ==
    ASSUME Workload, work # <<>>, UNCHANGED <<dry, work>>,
           step' \notin {"idle", "plan"}, step' = "pending" => ~Head(work).warm,
           dry \/ \A f \in Files \ {This} : catalog'[f] = catalog[f],
           step' \in {"next", "pending"} => step \in {"next", "pending"} /\ UNCHANGED catalog
    PROVE  Workload'
<1>1. This = work[1].file /\ Len(work) \in Nat /\ Len(work) >= 1
  BY ThisFacts
<1>2. \A i \in 2..Len(work) : work[i].file \in Files \ {This}
  BY <1>1 DEF Workload
<1>3. ~dry' => \A i \in 1..Len(work') :
         (i > 1 \/ step' \in {"next", "pending"}) /\ ~work'[i].warm /\ ~work'[i].replace
            => catalog'[work'[i].file] = NoCheckpoint
  <2> SUFFICES ASSUME ~dry, NEW i \in 1..Len(work), i > 1 \/ step' \in {"next", "pending"},
                      ~work[i].warm, ~work[i].replace
               PROVE  catalog'[work[i].file] = NoCheckpoint
    OBVIOUS
  <2>1. CASE i > 1
    BY <1>1, <1>2, <2>1 DEF Workload
  <2>2. CASE step' \in {"next", "pending"}
    BY <2>2 DEF Workload
  <2>3. QED
    BY <2>1, <2>2
<1>4. QED
  BY <1>3 DEF Workload

LEMMA WorkGoesOn ==
    ASSUME Workload, work # <<>>, work' = Tail(work), step' = "next", UNCHANGED dry,
           dry \/ \A f \in Files \ {This} : catalog'[f] = catalog[f]
    PROVE  Workload'
<1> DEFINE n == Len(work)
<1>1. /\ n \in Nat /\ n >= 1 /\ Listed(work') /\ Len(work') = n - 1 /\ This = work[1].file
      /\ \A k \in 1..Len(work') : work'[k] = work[k + 1]
  BY ThisFacts, TailFacts DEF Workload
<1>2. \A k \in 1..Len(work') : k + 1 \in 1..n /\ k + 1 > 1 /\ work'[k] = work[k + 1] /\ k \in Int
  BY <1>1
<1>3. \A k \in 1..n : work[k].file \in Files
  BY DEF Workload
<1>4. \A k, l \in 1..n : work[k].file = work[l].file => k = l
  BY DEF Workload
<1>5. \A k \in 1..n : k > 1 => work[k].file # This
  BY <1>1, <1>4
<1>6. ASSUME ~dry, NEW k \in 1..Len(work'), ~work'[k].warm, ~work'[k].replace
      PROVE  catalog'[work'[k].file] = NoCheckpoint
  <2>1. k + 1 \in 1..n /\ k + 1 > 1 /\ ~work[k + 1].warm /\ ~work[k + 1].replace
    BY <1>2, <1>6
  <2>2. catalog[work[k + 1].file] = NoCheckpoint
    BY <1>6, <2>1 DEF Workload
  <2>3. work[k + 1].file \in Files \ {This}
    BY <1>3, <1>5, <2>1
  <2>4. QED
    BY <1>2, <1>6, <2>2, <2>3
<1>7. \A k \in 1..Len(work') : work'[k].file \in Files
  BY <1>2, <1>3
<1>8. ASSUME NEW k \in 1..Len(work'), NEW l \in 1..Len(work'), work'[k].file = work'[l].file
      PROVE  k = l
  <2>1. k + 1 = l + 1
    BY <1>2, <1>4, <1>8
  <2>2. QED
    BY <1>2, <2>1
<1> HIDE DEF n
<1>9. QED
  BY <1>1, <1>6, <1>7, <1>8 DEF Workload

LEMMA RunEndsKeeps ==
    ASSUME Emitted, NEW how, RunEnds(how)
    PROVE  Emitted' /\ Writer' /\ Workload' /\ Recorded' /\ Balance'
<1>1. /\ step' = "idle" /\ dry' = FALSE /\ work' = <<>> /\ waiting' = <<>> /\ current' = 0
      /\ conn' = IdleWriter /\ (emitted' = emitted \/ emitted' = NoRows)
  BY DEF RunEnds, runHistory
<1>2. Emitted'
  BY <1>1, NothingEmitted DEF Emitted
<1>3. Writer'
  BY <1>1, ShortLists DEF Writer, Rests, IdleWriter, IdleConn, Conns
<1>4. Workload'
  <2>1. Listed(work') /\ Len(work') = 0
    BY <1>1, ShortLists
  <2>2. QED
    BY <1>1, <2>1 DEF Workload
<1>5. QED
  BY <1>1, <1>2, <1>3, <1>4 DEF Recorded, Balance

\* A batch in flight is one of the file at work, whose success is not on record.
LEMMA FlyingFacts ==
    ASSUME ArchiveInv, NEW c \in Conns, conn[c].reply = "flying"
    PROVE  /\ ~dry /\ step \in {"scan", "close", "abort"} /\ work # <<>>
           /\ This \in Files /\ Unsettled /\ IsBag(table[This]) /\ IsBag(BagOf(conn[c].flight))
<1>1. ~dry /\ step \in {"scan", "close", "abort"}
  BY DEF ArchiveInv, Writer, Rests
<1>2. work # <<>>
  BY <1>1 DEF ArchiveInv, Workload
<1>3. This \in Files
  BY <1>2, ThisFacts DEF ArchiveInv
<1>4. Unsettled /\ IsBag(table[This])
  BY <1>1, <1>3 DEF ArchiveInv, Recorded, Kept
<1>5. Listed(conn[c].flight)
  BY DEF ArchiveInv, Writer
<1>6. QED
  BY <1>1, <1>2, <1>3, <1>4, <1>5, BagOfFacts

LEMMA RowsAreListed ==
    ASSUME NEW p, NEW e
    PROVE  Listed(Process(p, e, TRUE, FALSE).rows)
  BY ShortLists DEF Process

LEMMA EndKeeps ==
    ASSUME ArchiveInv, NEW how, RunEnds(how), Kept'
    PROVE  ArchiveInv'
  BY RunEndsKeeps DEF ArchiveInv

(***************************************************************************)
(* The plan                                                                *)
(***************************************************************************)

\* The least dirty file and the least one to be read are files; a file that is
\* imported and replaces nothing has no checkpoint.
LEMMA PlanFacts ==
    ASSUME NEW checkpoints
    PROVE  LET plan == DirtyFiles(checkpoints) IN
           /\ Listed(plan)
           /\ \A i \in 1..Len(plan) :
                 /\ plan[i].file \in Files
                 /\ ~plan[i].warm /\ ~plan[i].replace => checkpoints[plan[i].file] = NoCheckpoint
           /\ \A i, j \in 1..Len(plan) : plan[i].file = plan[j].file => i = j
<1> DEFINE N == Len(FileHours)
           dirty == {f \in Files : /\ f >= writableFrom
                                   /\ checkpoints[f] # [status |-> "success", print |-> prints[f]]}
           first == Min(dirty)
           near == {f \in Files : FileHours[f] >= FileHours[first] - Horizon}
           start == Min(near)
           m == N - start + 1
           plan == [i \in 1..m |-> WorkOn(start + i - 1, first, checkpoints)]
<1>1. N \in Nat /\ Files = 1..N /\ FileHours \in Seq(Int)
  BY ArchiveImportConstants DEF Files
<1>2. DirtyFiles(checkpoints) = IF dirty = {} THEN <<>> ELSE plan
  BY DEF DirtyFiles
<1>3. CASE dirty = {}
  <2>1. DirtyFiles(checkpoints) = <<>>
    BY <1>2, <1>3
  <2>2. Listed(<<>>) /\ Len(<<>>) = 0
    BY ShortLists
  <2> HIDE DEF dirty, plan, m, start
  <2>3. QED
    BY <2>1, <2>2
<1>4. CASE dirty # {}
  <2>1. first \in 1..N
    <3>1. dirty \subseteq 1..N
      BY <1>1
    <3> HIDE DEF dirty
    <3>2. first \in dirty
      BY <1>1, <1>4, <3>1, MinFacts
    <3>3. QED
      BY <3>1, <3>2
  <2>2. start \in 1..N
    <3> HIDE DEF first
    <3>1. near \subseteq 1..N
      BY <1>1
    <3>2. first \in near
      <4>1. FileHours[first] \in Int /\ Horizon \in Nat
        BY <1>1, <2>1, ArchiveBooksConstants
      <4>2. QED
        BY <1>1, <2>1, <4>1
    <3> HIDE DEF near
    <3>3. start \in near
      BY <1>1, <3>1, <3>2, MinFacts
    <3>4. QED
      BY <3>1, <3>3
  <2> HIDE DEF start, first
  <2>3. m \in Nat /\ \A i \in 1..m : start + i - 1 \in 1..N
    BY <1>1, <2>2
  <2>4. plan \in Seq({WorkOn(start + i - 1, first, checkpoints) : i \in 1..m})
    <3> DEFINE S == {WorkOn(start + i - 1, first, checkpoints) : i \in 1..m}
    <3>1. plan \in [1..m -> S]
      OBVIOUS
    <3> HIDE DEF S, plan, m
    <3>2. QED
      BY <2>3, <3>1, SeqDef DEF S
  <2>5. Listed(plan)
    <3> DEFINE S == {WorkOn(start + i - 1, first, checkpoints) : i \in 1..m}
    <3>1. plan \in Seq(S)
      BY <2>4
    <3> HIDE DEF S, plan
    <3>2. QED
      BY <3>1 DEF Listed
  <2>6. Len(plan) = m
    <3>1. DOMAIN plan = 1..m
      OBVIOUS
    <3>2. DOMAIN plan = 1..Len(plan) /\ Len(plan) \in Nat
      BY <2>5, ListFacts
    <3> HIDE DEF plan, m
    <3>3. QED
      BY <2>3, <3>1, <3>2
  <2>7. \A i \in 1..m : plan[i] = WorkOn(start + i - 1, first, checkpoints)
    OBVIOUS
  <2> HIDE DEF plan
  <2>8. ASSUME NEW i \in 1..m
        PROVE  /\ plan[i].file = start + i - 1
               /\ ~plan[i].warm /\ ~plan[i].replace => checkpoints[plan[i].file] = NoCheckpoint
    <3> DEFINE f == start + i - 1
    <3>2. f \in 1..N /\ plan[i] = WorkOn(f, first, checkpoints)
      BY <2>3, <2>7
    <3> HIDE DEF f
    <3>1. /\ plan[i].file = f
          /\ plan[i].warm = (f < first)
          /\ plan[i].replace = (first <= f /\ checkpoints[f] # NoCheckpoint)
      <4> DEFINE before == f < first
                 again == first <= f /\ checkpoints[f] # NoCheckpoint
                 counts == writableFrom <= f /\ f < first
      <4>1. plan[i] = [file |-> f, warm |-> before, committed |-> counts, replace |-> again]
        BY <3>2 DEF WorkOn
      <4> HIDE DEF before, again, counts
      <4>2. plan[i].file = f /\ plan[i].warm = before /\ plan[i].replace = again
        BY <4>1
      <4>3. QED
        BY <4>2 DEF before, again
    <3>3. f \in Int /\ first \in Int
      BY <1>1, <2>1, <3>2
    <3>4. (f < first) \/ (first <= f)
      BY <3>3
    <3>5. QED
      BY <3>1, <3>4 DEF f
  <2>9. \A i, j \in 1..m : plan[i].file = plan[j].file => i = j
    <3>1. \A i \in 1..m : plan[i].file = start + i - 1
      BY <2>8
    <3>2. start \in Int /\ \A i \in 1..m : i \in Int
      BY <1>1, <2>2, <2>3
    <3> HIDE DEF m
    <3>3. QED
      BY <3>1, <3>2
  <2>10. DirtyFiles(checkpoints) = plan
    BY <1>2, <1>4 DEF plan
  <2> HIDE DEF m
  <2>11. \A i \in 1..m :
            /\ plan[i].file \in Files
            /\ ~plan[i].warm /\ ~plan[i].replace => checkpoints[plan[i].file] = NoCheckpoint
    BY <1>1, <2>3, <2>8
  <2>12. QED
    BY <2>5, <2>6, <2>9, <2>10, <2>11
<1>5. QED
  BY <1>3, <1>4

LEMMA StartKeeps ==
    ASSUME ArchiveInv, NEW noSend \in BOOLEAN, StartImport(noSend)
    PROVE  ArchiveInv'
<1>1. /\ step = "idle" /\ step' = "plan" /\ emitted' = NoRows
      /\ UNCHANGED <<catalog, table, stored, unsure, work, waiting, conn, current>>
  BY DEF StartImport, writerVars
<1>2. Kept' /\ Emitted'
  BY <1>1, KeptStays, NothingEmitted DEF ArchiveInv
<1>3. Writer'
  BY <1>1 DEF ArchiveInv, Writer, Rests
<1>4. Workload'
  BY <1>1 DEF ArchiveInv, Workload
<1>5. QED
  BY <1>1, <1>2, <1>3, <1>4 DEF ArchiveInv, Recorded, Balance

LEMMA PlanKeeps ==
    ASSUME ArchiveInv, step = "plan", step' = "next", NEW checkpoints, work' = DirtyFiles(checkpoints),
           dry \/ checkpoints = catalog,
           UNCHANGED <<catalog, table, stored, unsure, emitted, dry, waiting, conn, current>>
    PROVE  ArchiveInv'
<1>1. /\ Listed(work')
      /\ \A i \in 1..Len(work') :
            /\ work'[i].file \in Files
            /\ ~work'[i].warm /\ ~work'[i].replace => checkpoints[work'[i].file] = NoCheckpoint
      /\ \A i, j \in 1..Len(work') : work'[i].file = work'[j].file => i = j
  BY PlanFacts
<1>2. Kept' /\ Emitted'
  BY KeptStays DEF ArchiveInv, Emitted
<1>3. Writer'
  BY WriterStays DEF ArchiveInv
<1>4. Workload'
  BY <1>1 DEF Workload
<1>5. QED
  BY <1>2, <1>3, <1>4 DEF ArchiveInv, Recorded, Balance

LEMMA LoadCheckpointsKeeps ==
    ASSUME ArchiveInv, LoadCheckpoints
    PROVE  ArchiveInv'
  BY PlanKeeps DEF LoadCheckpoints, writerVars, runHistory

LEMMA LoadCheckpointsFailsKeeps ==
    ASSUME ArchiveInv, LoadCheckpointsFails
    PROVE  ArchiveInv'
<1>1. step = "plan" /\ UNCHANGED <<catalog, table, stored, unsure>>
  BY DEF LoadCheckpointsFails
<1>2. CASE dry
  <2>1. /\ work' = DirtyFiles([f \in Files |-> NoCheckpoint]) /\ step' = "next"
        /\ UNCHANGED <<dry, waiting, conn, current, emitted>>
    BY <1>2 DEF LoadCheckpointsFails, writerVars, runHistory
  <2>2. QED
    BY <1>1, <1>2, <2>1, PlanKeeps
<1>3. CASE ~dry
  <2>1. RunEnds("lost")
    BY <1>3 DEF LoadCheckpointsFails
  <2>2. QED
    BY <1>1, <2>1, KeptStays, EndKeeps DEF ArchiveInv
<1>4. QED
  BY <1>2, <1>3

(***************************************************************************)
(* From file to file                                                       *)
(***************************************************************************)

LEMMA WarmFileKeeps ==
    ASSUME ArchiveInv, WarmFile
    PROVE  ArchiveInv'
<1>1. step = "next" /\ work # <<>> /\ UNCHANGED <<catalog, table, stored, unsure>>
  BY DEF WarmFile
<1>2. Kept'
  BY <1>1, KeptStays DEF ArchiveInv
<1>3. CASE disk[This].content.broken
  <2>1. RunEnds("unreadable")
    BY <1>3 DEF WarmFile
  <2>2. QED
    BY <1>2, <2>1, EndKeeps
<1>4. CASE ~disk[This].content.broken
  <2>1. work' = Tail(work) /\ step' = "next" /\ UNCHANGED <<dry, waiting, conn, current, emitted>>
    BY <1>4 DEF WarmFile, NextFile, writerVars
  <2>2. Workload'
    BY <1>1, <2>1, WorkGoesOn DEF ArchiveInv
  <2>3. Writer'
    BY <1>1, <2>1, WriterStays DEF ArchiveInv
  <2>4. QED
    BY <1>2, <2>1, <2>2, <2>3 DEF ArchiveInv, Emitted, Recorded, Balance
<1>5. QED
  BY <1>3, <1>4

LEMMA BeginImportKeeps ==
    ASSUME ArchiveInv, BeginImport
    PROVE  ArchiveInv'
<1>1. /\ step = "next" /\ work # <<>> /\ ~Head(work).warm
      /\ step' = IF dry THEN "open" ELSE "pending"
      /\ UNCHANGED <<catalog, table, stored, unsure, dry, work, waiting, conn, current, emitted>>
  BY DEF BeginImport, planVars, writerVars, runHistory
<1>2. Kept' /\ Emitted' /\ Writer'
  BY <1>1, KeptStays, WriterStays DEF ArchiveInv, Emitted
<1>3. Workload'
  BY <1>1, WorkStays DEF ArchiveInv
<1>4. QED
  BY <1>1, <1>2, <1>3 DEF ArchiveInv, Recorded, Balance

LEMMA LoopEndKeeps ==
    ASSUME ArchiveInv, Interrupted \/ RunComplete
    PROVE  ArchiveInv'
<1>1. UNCHANGED <<catalog, table, stored, unsure>> /\ (RunEnds("interrupted") \/ RunEnds("done"))
  BY DEF Interrupted, RunComplete
<1>2. QED
  BY <1>1, KeptStays, EndKeeps DEF ArchiveInv

(***************************************************************************)
(* importArchiveFile                                                       *)
(***************************************************************************)

LEMMA RecordPendingKeeps ==
    ASSUME ArchiveInv, RecordPending
    PROVE  ArchiveInv'
<1>1. /\ step = "pending" /\ catalog' = Checkpoint("pending") /\ unsure' = unsure \ {This}
      /\ step' = IF Head(work).replace THEN "clear" ELSE "open"
      /\ UNCHANGED <<table, stored, dry, work, waiting, conn, current, emitted>>
  BY DEF RecordPending, importVars, planVars, writerVars, runHistory
<1>2. work # <<>> /\ ~Head(work).warm /\ ~dry
  BY <1>1 DEF ArchiveInv, Workload, Recorded
<1>3. This \in Files /\ Len(work) >= 1 /\ Len(work) \in Nat /\ Head(work) = work[1] /\ This = work[1].file
  BY <1>2, ThisFacts DEF ArchiveInv
<1>4. /\ DOMAIN catalog' = Files /\ catalog'[This].status = "pending"
      /\ \A f \in Files \ {This} : catalog'[f] = catalog[f]
      /\ catalog'[This] # NoCheckpoint
  BY <1>1, <1>3, CheckpointFacts DEF ArchiveInv
<1>5. Kept'
  BY <1>1, <1>3, CatalogChanges DEF ArchiveInv
<1>6. Emitted' /\ Writer'
  BY <1>1, WriterStays DEF ArchiveInv, Emitted
<1>7. Workload'
  BY <1>1, <1>2, <1>4, WorkStays DEF ArchiveInv
<1>8. step' = "open" => table[This] = EmptyBag
  <2> SUFFICES ASSUME step' = "open" PROVE table[This] = EmptyBag
    OBVIOUS
  <2>1. ~work[1].replace /\ ~work[1].warm
    BY <1>1, <1>2, <1>3
  <2>2. 1 \in 1..Len(work)
    BY <1>3
  <2>3. catalog[work[1].file] = NoCheckpoint
    BY <1>1, <1>2, <2>1, <2>2 DEF ArchiveInv, Workload
  <2>4. QED
    BY <1>3, <2>3 DEF ArchiveInv, Kept
<1>9. Recorded'
  <2>1. This' = This
    BY <1>1 DEF This
  <2>2. Unsettled'
    BY <1>4, <2>1 DEF Unsettled
  <2>3. QED
    BY <1>1, <1>2, <1>8, <2>1, <2>2 DEF Recorded
<1>10. QED
  BY <1>1, <1>5, <1>6, <1>7, <1>9 DEF ArchiveInv, Balance

LEMMA RecordPendingFailsKeeps ==
    ASSUME ArchiveInv, NEW applied \in BOOLEAN, RecordPendingFails(applied)
    PROVE  ArchiveInv'
<1>1. step = "pending" /\ RunEnds("lost") /\ UNCHANGED <<table, stored>>
  BY DEF RecordPendingFails
<1>2. This \in Files
  BY <1>1, ThisFacts DEF ArchiveInv, Workload
<1>3. CASE applied
  <2>1. catalog' = Checkpoint("pending") /\ unsure' = unsure \ {This}
    BY <1>3 DEF RecordPendingFails
  <2>2. QED
    BY <1>1, <1>2, <2>1, CatalogChanges, EndKeeps DEF ArchiveInv
<1>4. CASE ~applied
  <2>1. UNCHANGED <<catalog, unsure>>
    BY <1>4 DEF RecordPendingFails
  <2>2. QED
    BY <1>1, <2>1, KeptStays, EndKeeps DEF ArchiveInv
<1>5. QED
  BY <1>3, <1>4

LEMMA ClearFacts ==
    ASSUME ArchiveInv, step \in {"clear", "drop"}, UNCHANGED <<catalog, stored, unsure>>,
           table' = Cleared \/ UNCHANGED table
    PROVE  Kept' /\ This \in Files /\ work # <<>> /\ ~dry /\ Unsettled
<1>1. work # <<>> /\ ~dry
  BY DEF ArchiveInv, Workload, Recorded
<1>2. This \in Files
  BY <1>1, ThisFacts DEF ArchiveInv
<1>3. Unsettled
  BY <1>1 DEF ArchiveInv, Recorded
<1>4. CASE table' = Cleared
  <2>1. table' = [table EXCEPT ![This] = EmptyBag]
    BY <1>4 DEF Cleared
  <2>2. QED
    BY <1>1, <1>2, <1>3, <2>1, TableChanges, EmptyBagFacts DEF ArchiveInv
<1>5. CASE UNCHANGED table
  BY <1>1, <1>2, <1>3, <1>5, KeptStays DEF ArchiveInv
<1>6. QED
  BY <1>4, <1>5

LEMMA ClearOldKeeps ==
    ASSUME ArchiveInv, ClearOld
    PROVE  ArchiveInv'
<1>1. /\ step = "clear" /\ table' = Cleared /\ step' = "open"
      /\ UNCHANGED <<catalog, stored, unsure, dry, work, waiting, conn, current, emitted>>
  BY DEF ClearOld, importVars, planVars, writerVars, runHistory
<1>2. Kept' /\ This \in Files /\ work # <<>> /\ ~dry /\ Unsettled
  BY <1>1, ClearFacts
<1>3. Emitted' /\ Writer'
  BY <1>1, WriterStays DEF ArchiveInv, Emitted
<1>4. Workload'
  BY <1>1, <1>2, WorkStays DEF ArchiveInv
<1>5. This' = This /\ Unsettled' /\ table'[This] = EmptyBag
  BY <1>1, <1>2 DEF This, Unsettled, Cleared, ArchiveInv, Kept
<1>6. QED
  BY <1>1, <1>2, <1>3, <1>4, <1>5 DEF ArchiveInv, Recorded, Balance

LEMMA ClearOldFailsKeeps ==
    ASSUME ArchiveInv, NEW applied \in BOOLEAN, ClearOldFails(applied)
    PROVE  ArchiveInv'
<1>1. /\ step = "clear" /\ (table' = Cleared \/ UNCHANGED table) /\ RunEnds("lost")
      /\ UNCHANGED <<catalog, stored, unsure>>
  BY DEF ClearOldFails
<1>2. QED
  BY <1>1, ClearFacts, EndKeeps

LEMMA OpenFileKeeps ==
    ASSUME ArchiveInv, OpenFile
    PROVE  ArchiveInv'
<1>1. /\ step = "open" /\ step' = "scan" /\ emitted' = [emitted EXCEPT ![This] = EmptyBag]
      /\ UNCHANGED <<catalog, table, stored, unsure, dry, work, waiting, conn, current>>
  BY DEF OpenFile, planVars
<1>2. work # <<>> /\ This \in Files
  BY <1>1, ThisFacts DEF ArchiveInv, Workload
<1>3. This' = This /\ emitted'[This] = EmptyBag
  BY <1>1, <1>2 DEF This, ArchiveInv, Emitted
<1>4. Kept'
  BY <1>1, KeptStays DEF ArchiveInv
<1>5. Emitted'
  BY <1>1, <1>2, EmptyBagFacts DEF ArchiveInv, Emitted
<1>6. Writer'
  <2>1. waiting = <<>> /\ \A c \in Conns : Rests(c)
    BY <1>1 DEF ArchiveInv, Writer
  <2>2. waiting' = <<>> /\ \A c \in Conns : Rests(c)'
    BY <1>1, <2>1 DEF Rests
  <2>3. QED
    BY <1>1, <2>2 DEF ArchiveInv, Writer
<1>7. Workload'
  BY <1>1, <1>2, WorkStays DEF ArchiveInv
<1>8. Recorded'
  <2>1. ~dry => Unsettled'
    BY <1>1, <1>3 DEF ArchiveInv, Recorded, Unsettled
  <2>2. QED
    BY <1>1, <2>1 DEF Recorded
<1>9. ASSUME ~dry PROVE Balanced'
  <2>1. table[This] = EmptyBag
    BY <1>1, <1>9 DEF ArchiveInv, Recorded
  <2>2. waiting = <<>> /\ \A c \in Conns : conn[c].flight = <<>> /\ conn[c].pending = <<>>
    BY <1>1 DEF ArchiveInv, Writer, Rests
  <2>3. \A r : OnTheWay(r)' = 0
    BY <1>1, <2>2, TimesEmpty DEF OnTheWay, Conns
  <2>4. \A r : Count(r, table'[This]) = 0 /\ Count(r, emitted'[This]) = 0
    BY <1>1, <1>3, <2>1, EmptyBagFacts
  <2>5. QED
    BY <1>3, <2>3, <2>4 DEF Balanced
<1>10. QED
  BY <1>1, <1>4, <1>5, <1>6, <1>7, <1>8, <1>9 DEF ArchiveInv, Balance

LEMMA OpenWriterFailsKeeps ==
    ASSUME ArchiveInv, OpenWriterFails
    PROVE  ArchiveInv'
<1>1. /\ step = "open" /\ step' = "fail" /\ ~dry
      /\ UNCHANGED <<catalog, table, stored, unsure, dry, work, waiting, conn, current, emitted>>
  BY DEF OpenWriterFails, planVars, writerVars, runHistory
<1>2. work # <<>>
  BY <1>1 DEF ArchiveInv, Workload
<1>3. Kept' /\ Emitted' /\ Writer' /\ Workload'
  BY <1>1, <1>2, KeptStays, WriterStays, WorkStays DEF ArchiveInv, Emitted
<1>4. Unsettled'
  BY <1>1 DEF ArchiveInv, Recorded, Unsettled, This
<1>5. QED
  BY <1>1, <1>3, <1>4 DEF ArchiveInv, Recorded, Balance

(***************************************************************************)
(* The scan                                                                *)
(***************************************************************************)

\* What a step changes while a file is scanned or its writer is closed.
LEMMA ScanFacts ==
    ASSUME ArchiveInv, step \in {"scan", "close", "abort"}
    PROVE  work # <<>> /\ This \in Files /\ (~dry => Unsettled)
<1>1. work # <<>>
  BY DEF ArchiveInv, Workload
<1>2. QED
  BY <1>1, ThisFacts DEF ArchiveInv, Recorded

LEMMA ScanKeeps ==
    ASSUME ArchiveInv, step \in {"scan", "close", "abort"}, step' \in {"scan", "close", "abort"},
           step' = "abort" => ~dry,
           UNCHANGED <<catalog, stored, unsure, dry, work>>
    PROVE  Workload' /\ Recorded' /\ This' = This /\ work # <<>> /\ This \in Files
<1>1. work # <<>> /\ This \in Files /\ (~dry => Unsettled)
  BY ScanFacts
<1>2. Workload'
  BY <1>1, WorkStays DEF ArchiveInv
<1>3. This' = This /\ (~dry => Unsettled')
  BY <1>1 DEF This, Unsettled
<1>4. QED
  BY <1>1, <1>2, <1>3 DEF Recorded

Carried(r, c) == Times(r, conn[c].flight) + Times(r, conn[c].pending)

LEMMA OnTheWayFacts ==
    ASSUME Writer, NEW r
    PROVE  /\ \A c \in Conns : Carried(r, c) \in Nat
           /\ Times(r, waiting) \in Nat
           /\ OnTheWay(r) = Carried(r, 0) + Carried(r, 1) + Times(r, waiting)
<1>1. \A c \in Conns : Times(r, conn[c].flight) \in Nat /\ Times(r, conn[c].pending) \in Nat
  BY TimesType DEF Writer
<1>2. Times(r, waiting) \in Nat
  BY TimesType DEF Writer
<1>3. 0 \in Conns /\ 1 \in Conns
  BY DEF Conns
<1>4. QED
  BY <1>1, <1>2, <1>3 DEF Carried, OnTheWay

\* A row that goes to connection c was waiting, or has been emitted before.
LEMMA OnTheWayChanges ==
    ASSUME Writer, Writer', NEW c \in Conns, NEW r,
           \A d \in Conns \ {c} : conn'[d] = conn[d],
           NEW x \in Int, Carried(r, c)' = Carried(r, c) + x,
           NEW y \in Int, Times(r, waiting') = Times(r, waiting) + y
    PROVE  OnTheWay(r)' = OnTheWay(r) + x + y
<1>1. /\ OnTheWay(r) = Carried(r, 0) + Carried(r, 1) + Times(r, waiting)
      /\ \A d \in Conns : Carried(r, d) \in Nat
      /\ Times(r, waiting) \in Nat
  BY OnTheWayFacts
<1>2. /\ OnTheWay(r)' = Carried(r, 0)' + Carried(r, 1)' + Times(r, waiting')
      /\ \A d \in Conns : Carried(r, d)' \in Nat
  <2>1. (\A d \in Conns : Times(r, conn'[d].flight) \in Nat /\ Times(r, conn'[d].pending) \in Nat)
        /\ Times(r, waiting') \in Nat
    BY TimesType DEF Writer
  <2>2. 0 \in Conns /\ 1 \in Conns
    BY DEF Conns
  <2>3. QED
    BY <2>1, <2>2 DEF Carried, OnTheWay
<1>3. \A d \in Conns \ {c} : Carried(r, d)' = Carried(r, d)
  BY DEF Carried
<1>4. c = 0 \/ c = 1
  BY DEF Conns
<1>5. 0 \in Conns /\ 1 \in Conns
  BY DEF Conns
<1>6. CASE c = 0
  <2>1. Carried(r, 0)' = Carried(r, 0) + x /\ Carried(r, 1)' = Carried(r, 1)
    BY <1>3, <1>5, <1>6
  <2>2. QED
    BY <1>1, <1>2, <1>5, <2>1
<1>7. CASE c = 1
  <2>1. Carried(r, 1)' = Carried(r, 1) + x /\ Carried(r, 0)' = Carried(r, 0)
    BY <1>3, <1>5, <1>7
  <2>2. QED
    BY <1>1, <1>2, <1>5, <2>1
<1>8. QED
  BY <1>4, <1>6, <1>7

\* What a connection may be.
Connected(k) ==
    /\ Listed(k.pending) /\ Listed(k.flight)
    /\ k.reply \in {"none", "flying", "ok", "failed"}
    /\ k.reply # "flying" => k.flight = <<>>
    /\ k.pending # <<>> => k.reply = "none"

LEMMA ConnChanges ==
    ASSUME Writer, NEW c \in Conns, NEW k, conn' = [conn EXCEPT ![c] = k], Connected(k),
           current' \in Conns, k.pending # <<>> => c = current',
           current' # current => c = current,
           ~dry, UNCHANGED dry, Listed(waiting'), step' \in {"scan", "close", "abort"},
           step' = "close" => waiting' = <<>> /\ \A d \in Conns : conn'[d].pending = <<>>
    PROVE  Writer' /\ conn'[c] = k /\ \A d \in Conns \ {c} : conn'[d] = conn[d]
<1>1. DOMAIN conn' = Conns /\ conn'[c] = k /\ \A d \in Conns \ {c} : conn'[d] = conn[d]
  BY DEF Writer
<1>2. ASSUME NEW d \in Conns
      PROVE  /\ Listed(conn'[d].pending) /\ Listed(conn'[d].flight)
             /\ conn'[d].reply \in {"none", "flying", "ok", "failed"}
             /\ conn'[d].reply # "flying" => conn'[d].flight = <<>>
             /\ conn'[d].pending # <<>> => d = current' /\ conn'[d].reply = "none"
  <2>1. CASE d = c
    BY <1>1, <2>1 DEF Connected
  <2>2. CASE d # c
    BY <1>1, <2>2 DEF Writer
  <2>3. QED
    BY <2>1, <2>2
<1>3. QED
  BY <1>1, <1>2 DEF Writer

LEMMA KindsOfConn ==
    /\ \A p : Listed(p) => Connected([IdleConn EXCEPT !.pending = p])
    /\ \A p : Listed(p) => Connected(Sent(p))
    /\ \A y \in {"ok", "failed"} : Connected([IdleConn EXCEPT !.reply = y])
    /\ Connected(IdleConn)
    /\ IdleConn.pending = <<>> /\ IdleConn.flight = <<>> /\ IdleConn.reply = "none"
    /\ \A p : LET k == [IdleConn EXCEPT !.pending = p] IN k.pending = p /\ k.flight = <<>> /\ k.reply = "none"
    /\ \A p : Sent(p).pending = <<>> /\ Sent(p).flight = p /\ Sent(p).reply = "flying"
    /\ \A y : LET k == [IdleConn EXCEPT !.reply = y] IN k.pending = <<>> /\ k.flight = <<>> /\ k.reply = y
<1>1. Listed(<<>>)
  BY ShortLists
<1>2. IdleConn.pending = <<>> /\ IdleConn.flight = <<>> /\ IdleConn.reply = "none"
  BY DEF IdleConn
<1>3. ASSUME NEW p
      PROVE  LET k == [IdleConn EXCEPT !.pending = p] IN k.pending = p /\ k.flight = <<>> /\ k.reply = "none"
  BY DEF IdleConn
<1>4. ASSUME NEW p
      PROVE  Sent(p).pending = <<>> /\ Sent(p).flight = p /\ Sent(p).reply = "flying"
  BY DEF Sent
<1>5. ASSUME NEW y
      PROVE  LET k == [IdleConn EXCEPT !.reply = y] IN k.pending = <<>> /\ k.flight = <<>> /\ k.reply = y
  BY DEF IdleConn
<1>6. QED
  BY <1>1, <1>2, <1>3, <1>4, <1>5 DEF Connected

LEMMA TakeEventKeeps ==
    ASSUME ArchiveInv, TakeEvent
    PROVE  ArchiveInv'
<1> DEFINE rows == Process(processor, Head(input.events), TRUE, FALSE).rows
<1>1. /\ step = "scan" /\ step' = "scan" /\ waiting = <<>> /\ waiting' = IF dry THEN <<>> ELSE rows
      /\ emitted' = [emitted EXCEPT ![This] = emitted[This] (+) BagOf(rows)]
      /\ UNCHANGED <<catalog, table, stored, unsure, dry, work, conn, current>>
  BY DEF TakeEvent, planVars
<1>2. Listed(rows) /\ Listed(waiting')
  BY <1>1, RowsAreListed, ShortLists
<1> HIDE DEF rows
<1>3. Workload' /\ Recorded' /\ This' = This /\ work # <<>> /\ This \in Files
  BY <1>1, ScanKeeps
<1>4. Kept'
  BY <1>1, KeptStays DEF ArchiveInv
<1>5. IsBag(emitted[This]) /\ IsBag(BagOf(rows)) /\ \A r : Count(r, BagOf(rows)) = Times(r, rows)
  BY <1>2, <1>3, BagOfFacts DEF ArchiveInv, Emitted
<1>6. emitted'[This] = emitted[This] (+) BagOf(rows) /\ DOMAIN emitted' = Files
      /\ \A f \in Files \ {This} : emitted'[f] = emitted[f]
  BY <1>1, <1>3 DEF ArchiveInv, Emitted
<1>7. IsBag(emitted'[This]) /\ \A r : Count(r, emitted'[This]) = Count(r, emitted[This]) + Times(r, rows)
  BY <1>5, <1>6, BagSumFacts
<1>8. Emitted'
  BY <1>6, <1>7 DEF ArchiveInv, Emitted
<1>9. Writer'
  <2>1. dry => waiting' = <<>> /\ \A c \in Conns : Rests(c)'
    BY <1>1 DEF ArchiveInv, Writer, Rests
  <2>2. QED
    BY <1>1, <1>2, <2>1 DEF ArchiveInv, Writer
<1>10. ASSUME ~dry, Balanced PROVE Balanced'
  <2> SUFFICES ASSUME NEW r PROVE Count(r, table'[This]) + OnTheWay(r)' = Count(r, emitted'[This])
    BY <1>3 DEF Balanced
  <2>1. Count(r, table[This]) + OnTheWay(r) = Count(r, emitted[This])
    BY <1>10 DEF Balanced
  <2>2. Times(r, waiting) = 0 /\ Times(r, waiting') = Times(r, rows) /\ Times(r, rows) \in Nat
    BY <1>1, <1>2, <1>10, TimesEmpty, TimesType
  <2>3. 0 \in Conns /\ Carried(r, 0)' = Carried(r, 0) /\ Carried(r, 0) \in Nat
    BY <1>1, OnTheWayFacts DEF Conns, Carried, ArchiveInv
  <2> DEFINE t == Times(r, rows)
             w == Times(r, waiting)
  <2>4. t \in Int /\ w = 0 /\ Times(r, waiting') = w + t
    BY <2>2
  <2>5. Carried(r, 0)' = Carried(r, 0) + 0 /\ \A d \in Conns \ {0} : conn'[d] = conn[d]
    BY <1>1, <2>3
  <2> HIDE DEF t, w
  <2>6. OnTheWay(r)' = OnTheWay(r) + 0 + t
    BY <1>9, <2>3, <2>4, <2>5, OnTheWayChanges DEF ArchiveInv, w
  <2>7. OnTheWay(r) \in Int /\ Count(r, table[This]) \in Int /\ Count(r, emitted[This]) \in Int
    <3>1. 1 \in Conns
      BY DEF Conns
    <3>2. OnTheWay(r) \in Int
      BY <2>3, <3>1, OnTheWayFacts DEF ArchiveInv
    <3>3. QED
      BY <1>3, <3>2, CountType DEF ArchiveInv, Kept, Emitted
  <2>8. Count(r, emitted'[This]) = Count(r, emitted[This]) + t /\ table' = table
    BY <1>1, <1>7 DEF t
  <2>9. QED
    BY <2>1, <2>4, <2>6, <2>7, <2>8
<1>11. Balance'
  BY <1>1, <1>10 DEF ArchiveInv, Balance
<1>12. QED
  BY <1>3, <1>4, <1>8, <1>9, <1>11 DEF ArchiveInv

\* Rows that only move between the list and the connections stay balanced.
LEMMA BalanceMoves ==
    ASSUME ArchiveInv, Writer', Balanced, This' = This, This \in Files,
           UNCHANGED <<table, emitted>>, NEW c \in Conns, \A d \in Conns \ {c} : conn'[d] = conn[d],
           \A r : Carried(r, c)' + Times(r, waiting') = Carried(r, c) + Times(r, waiting)
    PROVE  Balanced'
<1> SUFFICES ASSUME NEW r PROVE Count(r, table'[This]) + OnTheWay(r)' = Count(r, emitted'[This])
  BY DEF Balanced
<1> DEFINE before == Carried(r, c)
           after == Carried(r, c)'
           listed == Times(r, waiting)
           left == Times(r, waiting')
           x == after - before
           y == left - listed
<1>1. before \in Nat /\ listed \in Nat
  BY OnTheWayFacts DEF ArchiveInv
<1>2. after \in Nat /\ left \in Nat
  <2>1. Listed(conn'[c].flight) /\ Listed(conn'[c].pending) /\ Listed(waiting')
    BY DEF Writer
  <2>2. QED
    BY <2>1, TimesType DEF Carried
<1>3. after + left = before + listed
  OBVIOUS
<1> HIDE DEF before, after, listed, left
<1>4. x \in Int /\ y \in Int /\ x + y = 0 /\ after = before + x /\ left = listed + y
  BY <1>1, <1>2, <1>3
<1> HIDE DEF x, y
<1>5. Carried(r, c)' = Carried(r, c) + x /\ Times(r, waiting') = Times(r, waiting) + y
  BY <1>4 DEF before, after, listed, left
<1>6. OnTheWay(r)' = OnTheWay(r) + x + y
  BY <1>4, <1>5, OnTheWayChanges DEF ArchiveInv
<1>7. OnTheWay(r) \in Int
  <2>1. 0 \in Conns /\ 1 \in Conns
    BY DEF Conns
  <2>2. QED
    BY <2>1, OnTheWayFacts DEF ArchiveInv
<1>8. OnTheWay(r)' = OnTheWay(r)
  BY <1>4, <1>6, <1>7
<1>9. QED
  BY <1>8 DEF Balanced

LEMMA AppendRowKeeps ==
    ASSUME ArchiveInv, AppendRow
    PROVE  ArchiveInv'
<1>c. PICK c \in Conns : c = current
  BY DEF ArchiveInv, Writer
<1> DEFINE row == Head(waiting)
           rows == Append(conn[c].pending, row)
           full == Len(rows) >= batchSize
           k == IF full THEN Sent(rows) ELSE [IdleConn EXCEPT !.pending = rows]
<1>1. /\ step = "scan" /\ step' = "scan" /\ waiting # <<>> /\ conn[c].reply \in {"none", "ok"}
      /\ waiting' = Tail(waiting)
      /\ UNCHANGED <<catalog, table, stored, unsure, dry, work, emitted>>
  BY <1>c DEF AppendRow, planVars, runHistory
<1>2. conn' = [conn EXCEPT ![c] = k] /\ current' = IF full THEN 1 - current ELSE current
  BY <1>c DEF AppendRow
<1>3. 1 - c \in Conns /\ Listed(conn[c].pending) /\ conn[c].flight = <<>> /\ ~dry /\ Listed(waiting)
  BY <1>1, <1>c DEF ArchiveInv, Writer, Conns
<1>4. Listed(rows) /\ Listed(waiting')
  BY <1>1, <1>3, AppendFacts, TailFacts
<1>5. Connected(k) /\ (full => k.pending = <<>> /\ k.flight = rows) /\ (~full => k.pending = rows /\ k.flight = <<>>)
  <2> HIDE DEF rows, full
  <2>1. QED
    BY <1>4, KindsOfConn
<1> HIDE DEF full, k
<1>6. Workload' /\ Recorded' /\ This' = This /\ This \in Files
  BY <1>1, ScanKeeps
<1>7. Kept' /\ Emitted'
  BY <1>1, KeptStays DEF ArchiveInv, Emitted
<1>8. Writer' /\ conn'[c] = k /\ \A d \in Conns \ {c} : conn'[d] = conn[d]
  <2>1. current' \in Conns /\ (k.pending # <<>> => c = current') /\ Writer
    BY <1>2, <1>3, <1>5, <1>c DEF ArchiveInv
  <2>2. QED
    BY <1>1, <1>2, <1>3, <1>4, <1>5, <1>c, <2>1, ConnChanges
<1>9. \A r : Carried(r, c)' + Times(r, waiting') = Carried(r, c) + Times(r, waiting)
  <2> SUFFICES ASSUME NEW r
               PROVE  Carried(r, c)' + Times(r, waiting') = Carried(r, c) + Times(r, waiting)
    OBVIOUS
  <2> DEFINE one == IF row = r THEN 1 ELSE 0
             p == Times(r, conn[c].pending)
             w == Times(r, waiting')
  <2>1. one \in Nat /\ p \in Nat /\ w \in Nat
    BY <1>3, <1>4, TimesType
  <2>2. Times(r, rows) = p + one
    BY <1>3, TimesAppend
  <2>3. Times(r, waiting) = w + one
    BY <1>1, <1>3, TimesTail
  <2> HIDE DEF one, p, w, rows
  <2>4. Carried(r, c) = p
    <3>1. Carried(r, c) = Times(r, <<>>) + p
      BY <1>3 DEF Carried, p
    <3>2. QED
      BY <2>1, <3>1, TimesEmpty
  <2>5. Carried(r, c)' = p + one
    <3>1. Carried(r, c)' = Times(r, k.flight) + Times(r, k.pending)
      BY <1>2, <1>8 DEF Carried
    <3>2. CASE full
      BY <1>5, <2>1, <2>2, <3>1, <3>2, TimesEmpty
    <3>3. CASE ~full
      BY <1>5, <2>1, <2>2, <3>1, <3>3, TimesEmpty
    <3>4. QED
      BY <3>2, <3>3
  <2>6. QED
    BY <2>1, <2>3, <2>4, <2>5 DEF w
<1>10. Balance'
  <2> SUFFICES ASSUME \A d \in Conns : conn'[d].reply # "failed" PROVE Balanced'
    BY DEF Balance
  <2>1. \A d \in Conns : conn[d].reply # "failed"
    BY <1>1, <1>8
  <2>2. Balanced
    BY <1>1, <1>3, <2>1 DEF ArchiveInv, Balance
  <2>3. QED
    BY <1>1, <1>6, <1>8, <1>9, <2>2, BalanceMoves
<1>11. QED
  BY <1>6, <1>7, <1>8, <1>10 DEF ArchiveInv

\* The import of the file at work is given up.
LEMMA AbortKeeps ==
    ASSUME ArchiveInv, step \in {"scan", "close"}, step' = "abort", ~dry, Writer',
           UNCHANGED <<catalog, table, stored, unsure, dry, work, emitted>>
    PROVE  ArchiveInv'
<1>1. Workload' /\ Recorded'
  BY ScanKeeps
<1>2. Kept' /\ Emitted'
  BY KeptStays DEF ArchiveInv, Emitted
<1>3. QED
  BY <1>1, <1>2 DEF ArchiveInv, Balance

LEMMA AppendFailsKeeps ==
    ASSUME ArchiveInv, AppendFails
    PROVE  ArchiveInv'
<1>1. /\ step = "scan" /\ waiting # <<>> /\ step' = "abort"
      /\ UNCHANGED <<catalog, table, stored, unsure, dry, work, waiting, conn, current, emitted>>
  BY DEF AppendFails, Aborts, planVars, writerVars, runHistory
<1>2. ~dry /\ Writer'
  BY <1>1, WriterStays DEF ArchiveInv, Writer
<1>3. QED
  BY <1>1, <1>2, AbortKeeps

LEMMA EndOfFileKeeps ==
    ASSUME ArchiveInv, EndOfFile
    PROVE  ArchiveInv'
<1>1. /\ step = "scan" /\ waiting = <<>>
      /\ UNCHANGED <<catalog, table, stored, unsure, dry, work, waiting, current, emitted>>
  BY DEF EndOfFile, planVars, runHistory
<1>2. work # <<>> /\ This \in Files
  BY <1>1, ScanFacts
<1>3. Kept' /\ Emitted'
  BY <1>1, KeptStays DEF ArchiveInv, Emitted
<1>4. CASE input.broken
  <2>1. step' = (IF dry THEN "skip" ELSE "abort") /\ UNCHANGED conn
    BY <1>4 DEF EndOfFile
  <2>2. Writer'
    BY <1>1, <2>1 DEF ArchiveInv, Writer, Rests
  <2>3. CASE dry
    <3>1. Workload'
      BY <1>1, <1>2, <2>1, <2>3, WorkStays DEF ArchiveInv
    <3>2. QED
      BY <1>1, <1>3, <2>1, <2>2, <2>3, <3>1 DEF ArchiveInv, Recorded, Balance
  <2>4. CASE ~dry
    BY <1>1, <2>1, <2>2, <2>4, AbortKeeps
  <2>5. QED
    BY <2>3, <2>4
<1>5. CASE ~input.broken
  <2>1. /\ step' = "close"
        /\ conn' = IF conn[current].pending = <<>> THEN conn
                   ELSE [conn EXCEPT ![current] = Sent(conn[current].pending)]
    BY <1>5 DEF EndOfFile
  <2>2. current \in Conns /\ \A d \in Conns \ {current} : conn[d].pending = <<>>
    BY DEF ArchiveInv, Writer
  <2>3. Workload' /\ Recorded' /\ This' = This
    BY <1>1, <2>1, ScanKeeps
  <2>4. CASE conn[current].pending = <<>>
    <3>1. conn' = conn /\ \A d \in Conns : conn'[d].pending = <<>>
      BY <2>1, <2>2, <2>4
    <3>2. Writer'
      BY <1>1, <2>1, <3>1 DEF ArchiveInv, Writer, Rests
    <3>3. Balance'
      <4> SUFFICES ASSUME ~dry, \A d \in Conns : conn[d].reply # "failed" PROVE Balanced'
        BY <1>1, <3>1 DEF Balance
      <4>1. Balanced
        BY <1>1 DEF ArchiveInv, Balance
      <4>2. QED
        BY <1>1, <2>3, <3>1, <4>1 DEF Balanced, OnTheWay
    <3>4. QED
      BY <1>3, <2>3, <3>2, <3>3 DEF ArchiveInv
  <2>5. CASE conn[current].pending # <<>>
    <3> DEFINE p == conn[current].pending
    <3>1. ~dry /\ Listed(p) /\ conn[current].reply = "none" /\ conn[current].flight = <<>>
      BY <1>1, <2>2, <2>5 DEF ArchiveInv, Writer, Rests
    <3>2. /\ Connected(Sent(p)) /\ Sent(p).pending = <<>> /\ Sent(p).flight = p /\ Sent(p).reply = "flying"
      BY <3>1, KindsOfConn
    <3>3. conn' = [conn EXCEPT ![current] = Sent(p)]
      BY <2>1, <2>5
    <3> HIDE DEF p
    <3>4. \A d \in Conns : conn'[d].pending = <<>>
      BY <2>2, <3>2, <3>3 DEF ArchiveInv, Writer
    <3>5. Listed(waiting')
      BY <1>1, ShortLists
    <3>6. Writer' /\ conn'[current] = Sent(p) /\ \A d \in Conns \ {current} : conn'[d] = conn[d]
      <4>1. Writer
        BY DEF ArchiveInv
      <4>2. QED
        BY <1>1, <2>1, <2>2, <3>1, <3>2, <3>3, <3>4, <3>5, <4>1, ConnChanges
    <3>7. Balance'
      <4> SUFFICES ASSUME \A d \in Conns : conn'[d].reply # "failed" PROVE Balanced'
        BY DEF Balance
      <4>1. \A d \in Conns : conn[d].reply # "failed"
        BY <3>1, <3>6
      <4>2. Balanced
        BY <1>1, <3>1, <4>1 DEF ArchiveInv, Balance
      <4>c. PICK c \in Conns : c = current
        BY <2>2
      <4>3. \A r : Carried(r, c)' = Times(r, p) + Times(r, <<>>)
        BY <1>1, <3>2, <3>6, <4>c DEF Carried
      <4>4. \A r : Carried(r, c) = Times(r, <<>>) + Times(r, p)
        BY <3>1, <4>c DEF Carried, p
      <4>5. \A r : Times(r, p) \in Nat /\ Times(r, <<>>) = 0
        BY <3>1, TimesType, TimesEmpty
      <4>6. \A r : Carried(r, c)' + Times(r, waiting') = Carried(r, c) + Times(r, waiting)
        BY <1>1, <4>3, <4>4, <4>5
      <4>7. \A d \in Conns \ {c} : conn'[d] = conn[d]
        BY <3>6, <4>c
      <4>8. QED
        BY <1>1, <1>2, <2>3, <3>6, <4>2, <4>6, <4>7, BalanceMoves
    <3>8. QED
      BY <1>3, <2>3, <3>6, <3>7 DEF ArchiveInv
  <2>6. QED
    BY <2>4, <2>5
<1>6. QED
  BY <1>4, <1>5

LEMMA CloseConnKeeps ==
    ASSUME ArchiveInv, NEW c \in Conns, CloseConn(c)
    PROVE  ArchiveInv'
<1>1. /\ step = "close" /\ conn[c].reply \in {"ok", "failed"}
      /\ conn' = [conn EXCEPT ![c] = IdleConn]
      /\ UNCHANGED <<catalog, table, stored, unsure, dry, work, waiting, current, emitted>>
  BY DEF CloseConn, planVars, runHistory
<1>2. step' = IF conn[c].reply = "ok" THEN "close" ELSE "abort"
  BY <1>1 DEF CloseConn, Aborts
<1>3. /\ ~dry /\ waiting = <<>> /\ conn[c].pending = <<>> /\ conn[c].flight = <<>> /\ current \in Conns
      /\ \A d \in Conns : conn[d].pending = <<>>
  BY <1>1 DEF ArchiveInv, Writer, Rests
<1>4. Connected(IdleConn) /\ IdleConn.pending = <<>> /\ IdleConn.flight = <<>> /\ IdleConn.reply = "none"
  BY KindsOfConn
<1>5. \A d \in Conns : conn'[d].pending = <<>>
  BY <1>1, <1>3, <1>4 DEF ArchiveInv, Writer
<1>6. Writer' /\ conn'[c] = IdleConn /\ \A d \in Conns \ {c} : conn'[d] = conn[d]
  <2>1. Writer /\ Listed(waiting')
    BY <1>1, <1>3, ShortLists DEF ArchiveInv
  <2>2. QED
    BY <1>1, <1>2, <1>3, <1>4, <1>5, <2>1, ConnChanges
<1>7. CASE conn[c].reply = "failed"
  BY <1>1, <1>2, <1>3, <1>6, <1>7, AbortKeeps
<1>8. CASE conn[c].reply = "ok"
  <2>1. step' = "close"
    BY <1>2, <1>8
  <2>2. Workload' /\ Recorded' /\ This' = This /\ This \in Files
    BY <1>1, <2>1, ScanKeeps
  <2>3. Kept' /\ Emitted'
    BY <1>1, KeptStays DEF ArchiveInv, Emitted
  <2>4. Balance'
    <3> SUFFICES ASSUME \A d \in Conns : conn'[d].reply # "failed" PROVE Balanced'
      BY DEF Balance
    <3>1. \A d \in Conns : conn[d].reply # "failed"
      BY <1>6, <1>8
    <3>2. Balanced
      BY <1>1, <1>3, <3>1 DEF ArchiveInv, Balance
    <3>3. \A r : Carried(r, c)' + Times(r, waiting') = Carried(r, c) + Times(r, waiting)
      BY <1>1, <1>3, <1>4, <1>6 DEF Carried
    <3>4. QED
      BY <1>1, <1>6, <2>2, <3>2, <3>3, BalanceMoves
  <2>5. QED
    BY <1>6, <2>2, <2>3, <2>4 DEF ArchiveInv
<1>9. QED
  BY <1>1, <1>7, <1>8

\* When all replies are there, the partition holds what was emitted.
LEMMA AllLanded ==
    ASSUME ArchiveInv, step = "close", AllReplied, ~dry
    PROVE  This \in Files /\ work # <<>> /\ table[This] = emitted[This]
<1>1. This \in Files /\ work # <<>>
  BY ScanFacts
<1>2. waiting = <<>> /\ \A c \in Conns : conn[c].flight = <<>> /\ conn[c].pending = <<>> /\ conn[c].reply = "none"
  BY DEF ArchiveInv, Writer, AllReplied
<1>3. Balanced
  BY <1>2 DEF ArchiveInv, Balance
<1>4. \A r : OnTheWay(r) = 0
  BY <1>2, TimesEmpty DEF OnTheWay, Conns
<1>5. IsBag(table[This]) /\ IsBag(emitted[This])
  BY <1>1 DEF ArchiveInv, Kept, Emitted
<1>6. \A r : Count(r, table[This]) = Count(r, emitted[This])
  BY <1>3, <1>4, <1>5, CountType DEF Balanced
<1>7. QED
  BY <1>1, <1>5, <1>6, SameBag

LEMMA SuccessKeeps ==
    ASSUME Kept, This \in Files, table[This] = emitted[This], catalog' = Checkpoint("success"),
           stored' = [stored EXCEPT ![This] = emitted[This]], UNCHANGED table,
           unsure' \in {unsure, unsure \cup {This}}
    PROVE  Kept'
<1>1. /\ DOMAIN catalog' = Files /\ catalog'[This] # NoCheckpoint
      /\ \A f \in Files \ {This} : catalog'[f] = catalog[f]
  BY CheckpointFacts
<1>2. /\ DOMAIN stored' = Files /\ stored'[This] = emitted[This]
      /\ \A f \in Files \ {This} : stored'[f] = stored[f]
  BY DEF Kept
<1>3. SuccessMeansRows'
  <2> SUFFICES ASSUME NEW f \in Files \ unsure', catalog'[f].status = "success"
               PROVE  table[f] = stored'[f]
    BY DEF SuccessMeansRows
  <2>1. CASE f = This
    BY <1>2, <2>1
  <2>2. CASE f # This
    BY <1>1, <1>2, <2>2 DEF Kept, SuccessMeansRows
  <2>3. QED
    BY <2>1, <2>2
<1>4. QED
  BY <1>1, <1>2, <1>3 DEF Kept

LEMMA SucceedKeeps ==
    ASSUME ArchiveInv, Succeed
    PROVE  ArchiveInv'
<1>1. /\ step = "close" /\ AllReplied /\ work' = Tail(work) /\ step' = "next"
      /\ UNCHANGED <<table, dry, waiting, conn, current, emitted, unsure>>
  BY DEF Succeed, NextFile, writerVars
<1>2. work # <<>> /\ This \in Files
  BY <1>1, ScanFacts
<1>3. Emitted'
  BY <1>1 DEF ArchiveInv, Emitted
<1>4. waiting = <<>> /\ \A c \in Conns : Rests(c)
  BY <1>1 DEF ArchiveInv, Writer, AllReplied, Rests
<1>5. Writer'
  BY <1>1, <1>4 DEF ArchiveInv, Writer, Rests
<1>6. Kept' /\ (dry \/ \A f \in Files \ {This} : catalog'[f] = catalog[f])
  <2>1. CASE dry
    <3>1. UNCHANGED <<catalog, stored>>
      BY <2>1 DEF Succeed
    <3>2. QED
      BY <1>1, <2>1, <3>1, KeptStays DEF ArchiveInv
  <2>2. CASE ~dry
    <3>1. catalog' = Checkpoint("success") /\ stored' = [stored EXCEPT ![This] = emitted[This]]
      BY <2>2 DEF Succeed
    <3>2. table[This] = emitted[This]
      BY <1>1, <2>2, AllLanded
    <3>3. Kept
      BY DEF ArchiveInv
    <3>4. \A f \in Files \ {This} : catalog'[f] = catalog[f]
      BY <1>2, <3>1, <3>3, CheckpointFacts
    <3>5. unsure' \in {unsure, unsure \cup {This}}
      BY <1>1
    <3>6. QED
      BY <1>1, <1>2, <3>1, <3>2, <3>3, <3>4, <3>5, SuccessKeeps
  <2>3. QED
    BY <2>1, <2>2
<1>7. Workload'
  BY <1>1, <1>2, <1>6, WorkGoesOn DEF ArchiveInv
<1>8. QED
  BY <1>1, <1>3, <1>5, <1>6, <1>7 DEF ArchiveInv, Recorded, Balance

LEMMA SucceedFailsKeeps ==
    ASSUME ArchiveInv, NEW applied \in BOOLEAN, SucceedFails(applied)
    PROVE  ArchiveInv'
<1>1. /\ step = "close" /\ AllReplied /\ ~dry /\ step' = "abort"
      /\ UNCHANGED <<table, dry, work, waiting, conn, current, emitted>>
  BY DEF SucceedFails, Aborts, planVars, writerVars, runHistory
<1>2. CASE ~applied
  <2>1. UNCHANGED <<catalog, stored, unsure>>
    BY <1>2 DEF SucceedFails
  <2>2. Writer'
    BY <1>1, WriterStays DEF ArchiveInv
  <2>3. QED
    BY <1>1, <2>1, <2>2, AbortKeeps
<1>3. CASE applied
  <2>1. /\ catalog' = Checkpoint("success") /\ stored' = [stored EXCEPT ![This] = emitted[This]]
        /\ unsure' = unsure \cup {This}
    BY <1>3 DEF SucceedFails
  <2>2. table[This] = emitted[This] /\ This \in Files /\ work # <<>> /\ Kept
    BY <1>1, AllLanded DEF ArchiveInv
  <2>3. Kept'
    <3>1. unsure' \in {unsure, unsure \cup {This}}
      BY <2>1
    <3>2. QED
      BY <1>1, <2>1, <2>2, <3>1, SuccessKeeps
  <2>4. /\ catalog'[This] # NoCheckpoint /\ \A f \in Files \ {This} : catalog'[f] = catalog[f]
    BY <2>1, <2>2, CheckpointFacts
  <2>5. Writer' /\ Emitted'
    BY <1>1, WriterStays DEF ArchiveInv, Emitted
  <2>6. Workload'
    BY <1>1, <2>2, <2>4, WorkStays DEF ArchiveInv
  <2>7. Unsettled'
    BY <1>1, <2>1, <2>4 DEF Unsettled, This
  <2>8. QED
    BY <1>1, <2>3, <2>5, <2>6, <2>7 DEF ArchiveInv, Recorded, Balance
<1>4. QED
  BY <1>2, <1>3

(***************************************************************************)
(* What importArchiveFile defers                                           *)
(***************************************************************************)

LEMMA DrainKeeps ==
    ASSUME ArchiveInv, Drain
    PROVE  ArchiveInv'
<1>1. /\ step = "abort" /\ step' = "drop" /\ conn' = IdleWriter /\ current' = 0 /\ waiting' = <<>>
      /\ UNCHANGED <<catalog, table, stored, unsure, dry, work, emitted>>
  BY DEF Drain, planVars, runHistory
<1>2. ~dry /\ work # <<>>
  BY <1>1, ScanFacts DEF ArchiveInv, Recorded
<1>3. Kept' /\ Emitted' /\ Workload'
  BY <1>1, <1>2, KeptStays, WorkStays DEF ArchiveInv, Emitted
<1>4. Writer'
  BY <1>1, ShortLists DEF Writer, Rests, IdleWriter, IdleConn, Conns
<1>5. Unsettled'
  BY <1>1, <1>2 DEF ArchiveInv, Recorded, Unsettled, This
<1>6. QED
  BY <1>1, <1>2, <1>3, <1>4, <1>5 DEF ArchiveInv, Recorded, Balance

LEMMA DropKeeps ==
    ASSUME ArchiveInv, DropPartial \/ \E applied \in BOOLEAN : DropPartialFails(applied)
    PROVE  ArchiveInv'
<1>1. /\ step = "drop" /\ step' = "fail" /\ (table' = Cleared \/ UNCHANGED table)
      /\ UNCHANGED <<catalog, stored, unsure, dry, work, waiting, conn, current, emitted>>
  BY DEF DropPartial, DropPartialFails, importVars, planVars, writerVars, runHistory
<1>2. Kept' /\ This \in Files /\ work # <<>> /\ ~dry /\ Unsettled
  BY <1>1, ClearFacts
<1>3. Emitted' /\ Writer' /\ Workload'
  BY <1>1, <1>2, WriterStays, WorkStays DEF ArchiveInv, Emitted
<1>4. Unsettled'
  BY <1>1, <1>2 DEF Unsettled, This
<1>5. QED
  BY <1>1, <1>2, <1>3, <1>4 DEF ArchiveInv, Recorded, Balance

LEMMA FailureKeeps ==
    ASSUME ArchiveInv, RecordImportFailure \/ \E applied \in BOOLEAN : RecordImportFailureFails(applied)
    PROVE  ArchiveInv'
<1>1. /\ step = "fail" /\ AfterFailure /\ UNCHANGED <<table, stored>>
      /\ \/ catalog' = Checkpoint("failed") /\ unsure' = unsure \ {This}
         \/ UNCHANGED <<catalog, unsure>>
  BY DEF RecordImportFailure, RecordImportFailureFails
<1>2. work # <<>> /\ This \in Files
  BY <1>1, ThisFacts DEF ArchiveInv, Workload
<1>3. Kept' /\ \A f \in Files \ {This} : catalog'[f] = catalog[f]
  <2>1. CASE catalog' = Checkpoint("failed") /\ unsure' = unsure \ {This}
    BY <1>1, <1>2, <2>1, CatalogChanges, CheckpointFacts DEF ArchiveInv
  <2>2. CASE UNCHANGED <<catalog, unsure>>
    BY <1>1, <2>2, KeptStays DEF ArchiveInv
  <2>3. QED
    BY <1>1, <2>1, <2>2
<1>4. CASE failure = "unreadable"
  <2>1. step' = "skip" /\ UNCHANGED <<dry, work, waiting, conn, current, emitted>>
    BY <1>1, <1>4 DEF AfterFailure, importVars, planVars, writerVars, runHistory
  <2>2. Emitted' /\ Writer' /\ Workload'
    BY <1>1, <1>2, <1>3, <2>1, WriterStays, WorkStays DEF ArchiveInv, Emitted
  <2>3. QED
    BY <1>3, <2>1, <2>2 DEF ArchiveInv, Recorded, Balance
<1>5. CASE failure # "unreadable"
  <2>1. RunEnds("lost")
    BY <1>1, <1>5 DEF AfterFailure
  <2>2. QED
    BY <1>3, <2>1, EndKeeps
<1>6. QED
  BY <1>4, <1>5

LEMMA SkipFileKeeps ==
    ASSUME ArchiveInv, SkipFile
    PROVE  ArchiveInv'
<1>1. step = "skip" /\ UNCHANGED <<catalog, table, stored, unsure>>
  BY DEF SkipFile
<1>2. Kept' /\ work # <<>> /\ This \in Files
  BY <1>1, KeptStays, ThisFacts DEF ArchiveInv, Workload
<1>3. CASE dry
  <2>1. /\ work' = Tail(work) /\ step' = "next" /\ emitted' = [emitted EXCEPT ![This] = EmptyBag]
        /\ UNCHANGED <<dry, waiting, conn, current>>
    BY <1>3 DEF SkipFile, NextFile
  <2>2. Emitted'
    BY <1>2, <2>1, EmptyBagFacts DEF ArchiveInv, Emitted
  <2>3. Writer' /\ Workload'
    BY <1>1, <1>2, <1>3, <2>1, WriterStays, WorkGoesOn DEF ArchiveInv
  <2>4. QED
    BY <1>2, <2>1, <2>2, <2>3 DEF ArchiveInv, Recorded, Balance
<1>4. CASE ~dry
  <2>1. RunEnds("refused")
    BY <1>4 DEF SkipFile
  <2>2. QED
    BY <1>2, <2>1, EndKeeps
<1>5. QED
  BY <1>3, <1>4

(***************************************************************************)
(* Batches in flight, and the environment                                  *)
(***************************************************************************)

\* Connection c gets its reply; its batch is in the table or not.
LEMMA ReplyFacts ==
    ASSUME ArchiveInv, NEW c \in Conns, conn[c].reply = "flying", NEW y \in {"ok", "failed"},
           conn' = [conn EXCEPT ![c] = [IdleConn EXCEPT !.reply = y]],
           \/ table' = [table EXCEPT ![This] = table[This] (+) BagOf(conn[c].flight)]
           \/ UNCHANGED table,
           UNCHANGED <<catalog, stored, unsure, dry, work, step, waiting, current, emitted>>
    PROVE  /\ Kept' /\ Emitted' /\ Writer' /\ Workload' /\ Recorded'
           /\ This' = This /\ This \in Files /\ ~dry
           /\ conn'[c] = [IdleConn EXCEPT !.reply = y] /\ \A d \in Conns \ {c} : conn'[d] = conn[d]
<1>1. /\ ~dry /\ step \in {"scan", "close", "abort"} /\ work # <<>>
      /\ This \in Files /\ Unsettled /\ IsBag(table[This]) /\ IsBag(BagOf(conn[c].flight))
  BY FlyingFacts
<1> DEFINE b == table[This] (+) BagOf(conn[c].flight)
           k == [IdleConn EXCEPT !.reply = y]
<1>2. IsBag(b)
  BY <1>1, BagSumFacts
<1>3. Connected(k) /\ k.pending = <<>>
  BY KindsOfConn
<1> HIDE DEF b, k
<1>4. Kept'
  <2>1. CASE table' = [table EXCEPT ![This] = b]
    BY <1>1, <1>2, <2>1, TableChanges DEF ArchiveInv
  <2>2. CASE UNCHANGED table
    BY <2>2, KeptStays DEF ArchiveInv
  <2>3. QED
    BY <2>1, <2>2 DEF b
<1>5. Workload' /\ Recorded' /\ This' = This
  <2>1. /\ step' \in {"scan", "close", "abort"}
    BY <1>1
  <2>2. QED
    BY <1>1, <2>1, ScanKeeps
<1>6. conn' = [conn EXCEPT ![c] = k]
  BY DEF k
<1>7. step = "close" => waiting = <<>> /\ \A d \in Conns : conn'[d].pending = <<>>
  BY <1>3, <1>6 DEF ArchiveInv, Writer
<1>8. Writer' /\ conn'[c] = k /\ \A d \in Conns \ {c} : conn'[d] = conn[d]
  <2>1. /\ Writer /\ current' \in Conns /\ Listed(waiting') /\ step' \in {"scan", "close", "abort"}
        /\ current' = current
    BY <1>1 DEF ArchiveInv, Writer
  <2>2. step' = "close" => waiting' = <<>> /\ \A d \in Conns : conn'[d].pending = <<>>
    BY <1>7
  <2>3. QED
    BY <1>1, <1>3, <1>6, <2>1, <2>2, ConnChanges
<1>9. Emitted'
  BY DEF ArchiveInv, Emitted
<1>10. QED
  BY <1>1, <1>4, <1>5, <1>8, <1>9 DEF k

LEMMA BatchFailsKeeps ==
    ASSUME ArchiveInv, NEW c \in Conns, NEW applied \in BOOLEAN, BatchFails(c, applied)
    PROVE  ArchiveInv'
<1>1. /\ conn[c].reply = "flying" /\ conn' = [conn EXCEPT ![c] = [IdleConn EXCEPT !.reply = "failed"]]
      /\ UNCHANGED <<catalog, stored, unsure, dry, work, step, waiting, current, emitted>>
  BY DEF BatchFails, planVars, runHistory
<1>2. \/ table' = [table EXCEPT ![This] = table[This] (+) BagOf(conn[c].flight)]
      \/ UNCHANGED table
  BY DEF BatchFails
<1>3. /\ Kept' /\ Emitted' /\ Writer' /\ Workload' /\ Recorded'
      /\ conn'[c] = [IdleConn EXCEPT !.reply = "failed"]
  <2> DEFINE y == "failed"
  <2>1. y \in {"ok", "failed"} /\ conn' = [conn EXCEPT ![c] = [IdleConn EXCEPT !.reply = y]]
    BY <1>1
  <2> HIDE DEF y
  <2>2. /\ Kept' /\ Emitted' /\ Writer' /\ Workload' /\ Recorded'
        /\ conn'[c] = [IdleConn EXCEPT !.reply = y]
    BY <1>1, <1>2, <2>1, ReplyFacts
  <2>3. QED
    BY <2>2 DEF y
<1>4. conn'[c].reply = "failed"
  BY <1>3, KindsOfConn
<1>5. Balance'
  BY <1>4 DEF Balance
<1>6. QED
  BY <1>3, <1>5 DEF ArchiveInv

LEMMA BatchLandsKeeps ==
    ASSUME ArchiveInv, NEW c \in Conns, BatchLands(c)
    PROVE  ArchiveInv'
<1> DEFINE y == "ok"
           b == BagOf(conn[c].flight)
<1>1. /\ conn[c].reply = "flying" /\ y \in {"ok", "failed"}
      /\ conn' = [conn EXCEPT ![c] = [IdleConn EXCEPT !.reply = y]]
      /\ table' = [table EXCEPT ![This] = table[This] (+) b]
      /\ UNCHANGED <<catalog, stored, unsure, dry, work, step, waiting, current, emitted>>
  BY DEF BatchLands, planVars, runHistory
<1>2. y # "failed"
  OBVIOUS
<1> HIDE DEF y
<1>3. /\ Kept' /\ Emitted' /\ Writer' /\ Workload' /\ Recorded'
      /\ This' = This /\ This \in Files /\ ~dry
      /\ conn'[c] = [IdleConn EXCEPT !.reply = y] /\ \A d \in Conns \ {c} : conn'[d] = conn[d]
  BY <1>1, ReplyFacts
<1>4. conn'[c].reply = y /\ conn'[c].pending = <<>> /\ conn'[c].flight = <<>>
  BY <1>3, KindsOfConn
<1>5. Listed(conn[c].flight) /\ conn[c].pending = <<>>
  BY <1>1 DEF ArchiveInv, Writer
<1>6. IsBag(table[This]) /\ IsBag(b) /\ IsBag(emitted[This]) /\ \A r : Count(r, b) = Times(r, conn[c].flight)
  BY <1>3, <1>5, BagOfFacts DEF ArchiveInv, Kept, Emitted
<1>7. table'[This] = table[This] (+) b
  BY <1>1, <1>3 DEF ArchiveInv, Kept
<1> HIDE DEF b
<1>8. \A r : Count(r, table'[This]) = Count(r, table[This]) + Count(r, b)
  BY <1>6, <1>7, BagSumFacts
<1>9. ASSUME Balanced PROVE Balanced'
  <2> SUFFICES ASSUME NEW r PROVE Count(r, table'[This]) + OnTheWay(r)' = Count(r, emitted[This])
    BY <1>1, <1>3 DEF Balanced
  <2> DEFINE t == Times(r, conn[c].flight)
             x == 0 - t
  <2>1. t \in Nat /\ Count(r, b) = t /\ Count(r, table[This]) \in Nat /\ Count(r, emitted[This]) \in Nat
    BY <1>5, <1>6, TimesType, CountType
  <2>2. Carried(r, c) = t + 0 /\ Carried(r, c)' = 0 + 0
    BY <1>4, <1>5, TimesEmpty DEF Carried
  <2>3. Times(r, waiting) \in Nat /\ Times(r, waiting') = Times(r, waiting) + 0
    <3>1. Times(r, waiting) \in Nat
      BY OnTheWayFacts DEF ArchiveInv
    <3>2. QED
      BY <1>1, <3>1
  <2> HIDE DEF t
  <2>4. x \in Int /\ Carried(r, c)' = Carried(r, c) + x
    BY <2>1, <2>2
  <2> HIDE DEF x
  <2>5. OnTheWay(r)' = OnTheWay(r) + x + 0
    BY <1>3, <2>3, <2>4, OnTheWayChanges DEF ArchiveInv
  <2>6. OnTheWay(r) \in Int
    <3>1. 0 \in Conns /\ 1 \in Conns
      BY DEF Conns
    <3>2. QED
      BY <3>1, OnTheWayFacts DEF ArchiveInv
  <2>7. Count(r, table[This]) + OnTheWay(r) = Count(r, emitted[This])
    BY <1>9 DEF Balanced
  <2>8. Count(r, table'[This]) = Count(r, table[This]) + t
    BY <1>8, <2>1
  <2>9. QED
    BY <2>1, <2>4, <2>5, <2>6, <2>7, <2>8 DEF x
<1>10. Balance'
  <2> SUFFICES ASSUME step \in {"scan", "close"}, \A d \in Conns : conn'[d].reply # "failed"
               PROVE  Balanced'
    BY <1>1 DEF Balance
  <2>1. \A d \in Conns : conn[d].reply # "failed"
    BY <1>1, <1>3
  <2>2. QED
    BY <1>3, <1>9, <2>1 DEF ArchiveInv, Balance
<1>11. QED
  BY <1>3, <1>10 DEF ArchiveInv

LEMMA KilledKeeps ==
    ASSUME ArchiveInv, Killed
    PROVE  ArchiveInv'
<1>1. RunEnds("killed") /\ UNCHANGED <<catalog, stored, unsure>>
  BY DEF Killed
<1>2. PICK landing \in SUBSET {c \in Conns : conn[c].reply = "flying"} :
         LET rows(c) == IF c \in landing THEN conn[c].flight ELSE <<>>
         IN  table' = IF landing = {} THEN table
                      ELSE [table EXCEPT ![This] = @ (+) BagOf(rows(0) \o rows(1))]
  BY DEF Killed
<1> DEFINE rows(c) == IF c \in landing THEN conn[c].flight ELSE <<>>
           all == rows(0) \o rows(1)
<1>3. CASE landing = {}
  <2>1. UNCHANGED table
    BY <1>2, <1>3
  <2>2. QED
    BY <1>1, <2>1, KeptStays, EndKeeps DEF ArchiveInv
<1>4. CASE landing # {}
  <2>1. PICK c \in landing : TRUE
    BY <1>4
  <2>2. This \in Files /\ Unsettled /\ IsBag(table[This])
    BY <2>1, FlyingFacts
  <2>3. Listed(rows(0)) /\ Listed(rows(1))
    BY ShortLists DEF ArchiveInv, Writer, Conns
  <2>4. Listed(all)
    <3> DEFINE left == rows(0)
               right == rows(1)
    <3>1. Listed(left) /\ Listed(right)
      BY <2>3
    <3> HIDE DEF left, right
    <3>2. Listed(left \o right)
      BY <3>1, JoinFacts
    <3>3. QED
      BY <3>2 DEF left, right
  <2>5. table' = [table EXCEPT ![This] = table[This] (+) BagOf(all)]
    BY <1>2, <1>4
  <2> HIDE DEF all
  <2>6. IsBag(table[This] (+) BagOf(all))
    BY <2>2, <2>4, BagOfFacts, BagSumFacts
  <2>7. Kept'
    BY <1>1, <2>2, <2>5, <2>6, TableChanges DEF ArchiveInv
  <2>8. QED
    BY <1>1, <2>7, EndKeeps
<1>5. QED
  BY <1>3, <1>4

\* Nothing the invariant speaks of changes.
LEMMA NothingChanges ==
    ASSUME ArchiveInv,
           UNCHANGED <<catalog, table, stored, unsure, step, dry, work, waiting, conn, current, emitted>>
    PROVE  ArchiveInv'
<1>1. Kept' /\ Emitted' /\ Writer'
  BY KeptStays, WriterStays DEF ArchiveInv, Emitted
<1>2. Workload'
  BY DEF ArchiveInv, Workload
<1>3. Recorded'
  BY DEF ArchiveInv, Recorded, Unsettled, This
<1>4. Balance'
  BY DEF ArchiveInv, Balance, Balanced, OnTheWay, This
<1>5. QED
  BY <1>1, <1>2, <1>3, <1>4 DEF ArchiveInv

LEMMA RewriteKeeps ==
    ASSUME ArchiveInv, NEW f, NEW content, Rewrite(f, content)
    PROVE  ArchiveInv'
  BY NothingChanges DEF Rewrite, importVars, planVars, writerVars, runHistory

LEMMA ArchiveInitInv == ArchiveInit => ArchiveInv
<1> SUFFICES ASSUME ArchiveInit PROVE ArchiveInv
  OBVIOUS
<1>1. /\ catalog = [f \in Files |-> NoCheckpoint] /\ table = [f \in Files |-> EmptyBag]
      /\ step = "idle" /\ dry = FALSE /\ work = <<>> /\ waiting = <<>> /\ conn = IdleWriter /\ current = 0
      /\ emitted = NoRows /\ stored = NoRows
  BY DEF ArchiveInit
<1>2. NoCheckpoint.status = "none"
  BY DEF NoCheckpoint
<1>3. Kept
  BY <1>1, <1>2, EmptyBagFacts DEF Kept, SuccessMeansRows, NoRows
<1>4. Emitted
  BY <1>1, EmptyBagFacts DEF Emitted, NoRows
<1>5. Writer
  BY <1>1, ShortLists DEF Writer, Rests, IdleWriter, IdleConn, Conns
<1>6. Workload
  <2>1. Listed(work) /\ Len(work) = 0
    BY <1>1, ShortLists
  <2>2. QED
    BY <1>1, <2>1 DEF Workload
<1>7. QED
  BY <1>1, <1>3, <1>4, <1>5, <1>6 DEF ArchiveInv, Recorded, Balance

LEMMA ArchiveStepInv == ArchiveInv /\ [ArchiveNext]_archiveVars => ArchiveInv'
<1> SUFFICES ASSUME ArchiveInv, [ArchiveNext]_archiveVars PROVE ArchiveInv'
  OBVIOUS
<1>1. CASE ImportStep
  <2>1. CASE LoadCheckpoints \/ WarmFile \/ BeginImport \/ RunComplete
    BY <2>1, LoadCheckpointsKeeps, WarmFileKeeps, BeginImportKeeps, LoopEndKeeps
  <2>2. CASE RecordPending \/ ClearOld \/ OpenFile
    BY <2>2, RecordPendingKeeps, ClearOldKeeps, OpenFileKeeps
  <2>3. CASE TakeEvent \/ AppendRow \/ AppendFails \/ EndOfFile
    BY <2>3, TakeEventKeeps, AppendRowKeeps, AppendFailsKeeps, EndOfFileKeeps
  <2>4. CASE Succeed \/ Drain \/ DropPartial \/ RecordImportFailure \/ SkipFile
    BY <2>4, SucceedKeeps, DrainKeeps, DropKeeps, FailureKeeps, SkipFileKeeps
  <2>5. CASE \E c \in Conns : CloseConn(c) \/ BatchLands(c)
    BY <2>5, CloseConnKeeps, BatchLandsKeeps
  <2>6. QED
    BY <1>1, <2>1, <2>2, <2>3, <2>4, <2>5 DEF ImportStep
<1>2. CASE ImportFails
  <2>1. CASE LoadCheckpointsFails \/ OpenWriterFails
    BY <2>1, LoadCheckpointsFailsKeeps, OpenWriterFailsKeeps
  <2>2. ASSUME NEW applied \in BOOLEAN,
               \/ RecordPendingFails(applied) \/ ClearOldFails(applied) \/ SucceedFails(applied)
               \/ DropPartialFails(applied) \/ RecordImportFailureFails(applied)
               \/ \E c \in Conns : BatchFails(c, applied)
        PROVE  ArchiveInv'
    BY <2>2, RecordPendingFailsKeeps, ClearOldFailsKeeps, SucceedFailsKeeps, DropKeeps, FailureKeeps,
       BatchFailsKeeps
  <2>3. QED
    BY <1>2, <2>1, <2>2 DEF ImportFails
<1>3. CASE (\E noSend \in BOOLEAN : StartImport(noSend)) \/ Interrupted \/ Killed
  BY <1>3, StartKeeps, LoopEndKeeps, KilledKeeps
<1>4. CASE \E f \in Files : \E content \in Contents[f] : Rewrite(f, content)
  BY <1>4, RewriteKeeps
<1>5. CASE UNCHANGED archiveVars
  BY <1>5, NothingChanges DEF archiveVars, importVars, planVars, writerVars, runHistory
<1>6. QED
  BY <1>1, <1>2, <1>3, <1>4, <1>5 DEF ArchiveNext

\* Whatever calls to the database fail, applied or not, whenever runs are
\* interrupted or killed and files rewritten, a file that the catalog calls a
\* success has in its partition the rows that were emitted for it, each as
\* often (importArchiveFile).
THEOREM SuccessHasRows == ArchiveSpec => []SuccessMeansRows
<1>1. ArchiveInv => SuccessMeansRows
  BY DEF ArchiveInv, Kept
<1>2. QED
  BY <1>1, ArchiveInitInv, ArchiveStepInv, PTL DEF ArchiveSpec

(***************************************************************************)
(* ArchiveBooks: places, their order, and what is listed in it             *)
(***************************************************************************)

Pairs == Int \X Int

LEMMA BeforeFacts ==
    /\ \A x \in Pairs : ~Before(x, x)
    /\ \A x, y \in Pairs : x = y \/ Before(x, y) \/ Before(y, x)
    /\ \A x, y, z \in Pairs : Before(x, y) /\ Before(y, z) => Before(x, z)
<1>1. \A x \in Pairs : x[1] \in Int /\ x[2] \in Int /\ x = <<x[1], x[2]>>
  BY DEF Pairs
<1>2. ASSUME NEW x \in Pairs PROVE ~Before(x, x)
  BY <1>1 DEF Before
<1>3. ASSUME NEW x \in Pairs, NEW y \in Pairs, ~Before(x, y), ~Before(y, x) PROVE x = y
  <2>1. x[1] = y[1] /\ x[2] = y[2]
    BY <1>1, <1>3 DEF Before
  <2>2. QED
    BY <1>1, <2>1
<1>4. ASSUME NEW x \in Pairs, NEW y \in Pairs, NEW z \in Pairs, Before(x, y), Before(y, z)
      PROVE  Before(x, z)
  BY <1>1, <1>4 DEF Before
<1>5. QED
  BY <1>2, <1>3, <1>4

\* A list is given by its elements.
LEMMA SameList ==
    ASSUME NEW s, Listed(s), NEW t, Listed(t), Len(s) = Len(t), \A k \in 1..Len(s) : s[k] = t[k]
    PROVE  s = t
<1>1. PICK S, T : s \in Seq(S) /\ t \in Seq(T)
  BY DEF Listed
<1>2. s \in [1..Len(s) -> S] /\ t \in [1..Len(t) -> T]
  BY <1>1
<1>3. QED
  BY <1>2

\* The elements of S in order.
IsOrder(q, S) ==
    /\ q \in [1..Cardinality(S) -> S]
    /\ \A i, j \in DOMAIN q : i < j => Before(q[i], q[j])

LEMMA OrderFacts ==
    ASSUME NEW S \in SUBSET Pairs, IsFiniteSet(S), NEW q, IsOrder(q, S)
    PROVE  /\ Cardinality(S) \in Nat /\ DOMAIN q = 1..Cardinality(S)
           /\ \A i \in 1..Cardinality(S) : q[i] \in S /\ q[i] \in Pairs
           /\ \A y \in S : \E i \in 1..Cardinality(S) : q[i] = y
           /\ \A i, j \in 1..Cardinality(S) : i < j <=> Before(q[i], q[j])
<1> DEFINE n == Cardinality(S)
           D == 1..n
<1>1. n \in Nat /\ IsFiniteSet(D) /\ Cardinality(D) = n
  <2>1. n \in Nat
    BY FS_CardinalityType
  <2>2. QED
    BY <2>1, FS_Interval
<1>2. q \in [D -> S] /\ \A i, j \in D : i < j => Before(q[i], q[j])
  BY DEF IsOrder
<1>3. \A i \in D : q[i] \in Pairs /\ i \in Int
  <2>1. \A i \in D : i \in Int
    BY <1>1
  <2> HIDE DEF D
  <2>2. QED
    BY <1>2, <2>1
<1>4. ASSUME NEW i \in D, NEW j \in D, Before(q[i], q[j]) PROVE i < j
  <2>1. SUFFICES ASSUME ~(i < j) PROVE FALSE
    OBVIOUS
  <2>2. i = j \/ j < i
    BY <1>3, <2>1
  <2>3. CASE i = j
    BY <1>3, <1>4, <2>3, BeforeFacts
  <2>4. CASE j < i
    BY <1>2, <1>3, <1>4, <2>4, BeforeFacts
  <2>5. QED
    BY <2>2, <2>3, <2>4
<1>5. \A i, j \in D : q[i] = q[j] => i = j
  <2> SUFFICES ASSUME NEW i \in D, NEW j \in D, q[i] = q[j], i # j PROVE FALSE
    OBVIOUS
  <2>1. i < j \/ j < i
    BY <1>3
  <2>2. Before(q[i], q[i])
    BY <1>2, <2>1
  <2>3. QED
    BY <1>3, <2>2, BeforeFacts
<1> HIDE DEF D
<1>6. q \in Injection(D, S)
  BY <1>2, <1>5 DEF Injection, IsInjective
<1>7. q \in Surjection(D, S)
  BY <1>1, <1>6, FS_Injection
<1>8. \A y \in S : \E i \in D : q[i] = y
  BY <1>7 DEF Surjection
<1>9. QED
  BY <1>1, <1>2, <1>3, <1>4, <1>8 DEF D

\* There is only one order: of two, consider the first place they differ at.
LEMMA OneOrder ==
    ASSUME NEW S \in SUBSET Pairs, IsFiniteSet(S), NEW q, IsOrder(q, S), NEW r, IsOrder(r, S)
    PROVE  q = r
<1> DEFINE n == Cardinality(S)
           Bad == {k \in 1..n : q[k] # r[k]}
<1>1. /\ n \in Nat
      /\ \A i \in 1..n : q[i] \in S /\ q[i] \in Pairs /\ r[i] \in S /\ r[i] \in Pairs
      /\ \A y \in S : (\E i \in 1..n : q[i] = y) /\ (\E i \in 1..n : r[i] = y)
      /\ \A i, j \in 1..n : i < j <=> Before(q[i], q[j])
      /\ \A i, j \in 1..n : i < j <=> Before(r[i], r[j])
  BY OrderFacts
<1>2. q \in [1..n -> S] /\ r \in [1..n -> S]
  BY DEF IsOrder
<1>3. SUFFICES ASSUME Bad # {} PROVE FALSE
  <2>1. (\A k \in 1..n : q[k] = r[k]) => q = r
    <3> HIDE DEF n, Bad
    <3>1. q = [k \in 1..n |-> q[k]] /\ r = [k \in 1..n |-> r[k]]
      BY <1>2
    <3>2. QED
      BY <3>1
  <2>2. Bad = {} => \A k \in 1..n : q[k] = r[k]
    OBVIOUS
  <2>3. QED
    BY <2>1, <2>2
<1>4. PICK k \in Bad : \A m \in Bad : k <= m
  <2>1. Bad \subseteq Nat
    BY <1>1
  <2> HIDE DEF Bad
  <2>2. QED
    BY <1>3, <2>1, MinFacts
<1> HIDE DEF n
<1>5. k \in 1..n /\ q[k] # r[k] /\ \A m \in 1..n : m < k => q[m] = r[m]
  BY <1>1, <1>4
<1>6. PICK i \in 1..n : q[i] = r[k]
  BY <1>1, <1>5
<1>7. PICK j \in 1..n : r[j] = q[k]
  BY <1>1, <1>5
<1>8. ~(i < k) /\ ~(j < k) /\ i # k /\ j # k
  <2>1. ASSUME i < k PROVE FALSE
    <3>1. r[i] = r[k] /\ Before(r[i], r[k])
      BY <1>1, <1>5, <1>6, <2>1
    <3>2. QED
      BY <1>1, <1>5, <3>1, BeforeFacts
  <2>2. ASSUME j < k PROVE FALSE
    <3>1. q[j] = q[k] /\ Before(q[j], q[k])
      BY <1>1, <1>5, <1>7, <2>2
    <3>2. QED
      BY <1>1, <1>5, <3>1, BeforeFacts
  <2>3. QED
    BY <1>5, <1>6, <1>7, <2>1, <2>2
<1>9. k < i /\ k < j
  BY <1>1, <1>5, <1>8
<1>10. Before(q[k], r[k]) /\ Before(r[k], q[k])
  BY <1>1, <1>5, <1>6, <1>7, <1>9
<1>11. QED
  BY <1>1, <1>5, <1>10, BeforeFacts

\* An order goes on with what comes after all it has.
LEMMA MoreOrdered ==
    ASSUME NEW S \in SUBSET Pairs, IsFiniteSet(S), NEW q, IsOrder(q, S),
           NEW x \in Pairs, \A y \in S : Before(y, x)
    PROVE  /\ IsFiniteSet(S \cup {x}) /\ Cardinality(S \cup {x}) = Cardinality(S) + 1
           /\ IsOrder([i \in 1..(Cardinality(S) + 1) |-> IF i = Cardinality(S) + 1 THEN x ELSE q[i]], S \cup {x})
<1> DEFINE n == Cardinality(S)
           T == S \cup {x}
           more == [i \in 1..(n + 1) |-> IF i = n + 1 THEN x ELSE q[i]]
<1>1. n \in Nat /\ (\A i \in 1..n : q[i] \in S) /\ (\A i, j \in 1..n : i < j => Before(q[i], q[j]))
  BY OrderFacts
<1>2. x \notin S
  BY BeforeFacts
<1>3. IsFiniteSet(T) /\ Cardinality(T) = n + 1
  BY <1>2, FS_AddElement
<1> HIDE DEF n
<1>4. more \in [1..(n + 1) -> T]
  BY <1>1
<1>5. \A i, j \in 1..(n + 1) : i < j => Before(more[i], more[j])
  <2> SUFFICES ASSUME NEW i \in 1..(n + 1), NEW j \in 1..(n + 1), i < j PROVE Before(more[i], more[j])
    OBVIOUS
  <2>1. i \in 1..n /\ more[i] = q[i]
    BY <1>1
  <2>2. CASE j = n + 1
    BY <1>1, <2>1, <2>2
  <2>3. CASE j # n + 1
    <3>1. j \in 1..n /\ more[j] = q[j]
      BY <1>1, <2>3
    <3>2. QED
      BY <1>1, <2>1, <3>1
  <2>4. QED
    BY <2>2, <2>3
<1>6. IsOrder(more, T)
  <2>1. more \in [1..Cardinality(T) -> T] /\ DOMAIN more = 1..(n + 1)
    BY <1>3, <1>4
  <2> HIDE DEF more, T
  <2>2. QED
    BY <1>5, <2>1 DEF IsOrder
<1>7. QED
  BY <1>3, <1>6 DEF n

\* A finite set that is not empty has a last element.
LEMMA HasLast ==
    ASSUME NEW S \in SUBSET Pairs, IsFiniteSet(S), S # {}
    PROVE  \E x \in S : \A y \in S : y # x => Before(y, x)
<1> DEFINE Bad == {u \in SUBSET S : u # {} /\ \A x \in u : \E y \in u : y # x /\ ~Before(y, x)}
<1>1. SUFFICES ASSUME Bad # {} PROVE FALSE
  OBVIOUS
<1>2. PICK u \in Bad : \A v \in Bad : v \subseteq u => v = u
  <2>1. Bad \subseteq SUBSET S
    OBVIOUS
  <2> HIDE DEF Bad
  <2>2. QED
    BY <1>1, <2>1, Smallest
<1>3. PICK a \in u : TRUE
  OBVIOUS
<1> DEFINE v == u \ {a}
<1>4. v \in SUBSET S /\ v \subseteq u /\ v # u /\ \A y \in u : y \in Pairs
  BY <1>3
<1>5. v \notin Bad
  BY <1>2, <1>4
<1>6. CASE v = {}
  BY <1>2, <1>3, <1>6
<1>7. CASE v # {}
  <2>1. PICK b \in v : \A y \in v : y = b \/ Before(y, b)
    BY <1>4, <1>5, <1>7
  <2>2. b \in Pairs /\ a \in Pairs /\ a # b /\ b \in u
    BY <1>3, <1>4, <2>1
  <2>3. CASE Before(a, b)
    <3>1. \A y \in u : y = b \/ Before(y, b)
      BY <2>1, <2>3
    <3>2. QED
      BY <1>2, <2>2, <3>1
  <2>4. CASE Before(b, a)
    <3>1. \A y \in u : y = a \/ Before(y, a)
      BY <1>4, <2>1, <2>2, <2>4, BeforeFacts
    <3>2. QED
      BY <1>2, <1>3, <3>1
  <2>5. QED
    BY <2>2, <2>3, <2>4, BeforeFacts
<1>8. QED
  BY <1>6, <1>7

LEMMA HasOrder ==
    ASSUME NEW S \in SUBSET Pairs, IsFiniteSet(S)
    PROVE  \E q : IsOrder(q, S)
<1> DEFINE Bad == {u \in SUBSET S : \A q : ~IsOrder(q, u)}
<1>1. SUFFICES ASSUME Bad # {} PROVE FALSE
  OBVIOUS
<1>2. PICK u \in Bad : \A v \in Bad : v \subseteq u => v = u
  <2>1. Bad \subseteq SUBSET S
    OBVIOUS
  <2> HIDE DEF Bad
  <2>2. QED
    BY <1>1, <2>1, Smallest
<1>3. u # {}
  <2>1. Cardinality({}) = 0
    BY FS_EmptySet
  <2>2. IsOrder(<<>>, {})
    BY <2>1 DEF IsOrder
  <2>3. QED
    BY <1>2, <2>2
<1>4. u \in SUBSET Pairs /\ IsFiniteSet(u)
  BY FS_Subset
<1>5. PICK x \in u : \A y \in u : y # x => Before(y, x)
  BY <1>3, <1>4, HasLast
<1> DEFINE v == u \ {x}
<1>6. v \in SUBSET S /\ v \subseteq u /\ v # u /\ v \cup {x} = u /\ v \in SUBSET Pairs /\ IsFiniteSet(v) /\ x \in Pairs
  BY <1>4, <1>5, FS_Subset
<1>7. PICK q : IsOrder(q, v)
  BY <1>2, <1>6
<1>8. \A y \in v : Before(y, x)
  BY <1>5
<1> HIDE DEF v, Bad
<1>9. IsOrder([i \in 1..(Cardinality(v) + 1) |-> IF i = Cardinality(v) + 1 THEN x ELSE q[i]], u)
  BY <1>6, <1>7, <1>8, MoreOrdered
<1>10. QED
  BY <1>2, <1>9 DEF Bad

\* What Listing lists: nothing, one event, or one more than before.
LEMMA OrderListed ==
    ASSUME NEW log, NEW S \in SUBSET Pairs, IsFiniteSet(S)
    PROVE  \E q : IsOrder(q, S) /\ Listing(log, S) = [i \in 1..Cardinality(S) |-> At(log, q[i])]
<1> DEFINE q == CHOOSE r \in [1..Cardinality(S) -> S] : \A i, j \in DOMAIN r : i < j => Before(r[i], r[j])
<1>1. IsOrder(q, S)
  BY HasOrder DEF IsOrder
<1>2. Listing(log, S) = [i \in DOMAIN q |-> At(log, q[i])]
  BY DEF Listing
<1> HIDE DEF q
<1>3. QED
  BY <1>1, <1>2 DEF IsOrder

LEMMA FunctionIsList ==
    ASSUME NEW n \in Nat, NEW f, f = [i \in 1..n |-> f[i]]
    PROVE  Listed(f) /\ Len(f) = n
<1>1. f \in [1..n -> {f[i] : i \in 1..n}]
  OBVIOUS
<1>2. f \in Seq({f[i] : i \in 1..n})
  BY <1>1, SeqDef
<1>3. Listed(f)
  <2> DEFINE S == {f[i] : i \in 1..n}
  <2>1. f \in Seq(S)
    BY <1>2
  <2> HIDE DEF S
  <2>2. QED
    BY <2>1 DEF Listed
<1>4. DOMAIN f = 1..n
  OBVIOUS
<1>5. Len(f) \in Nat /\ DOMAIN f = 1..Len(f)
  BY <1>3, ListFacts
<1>6. QED
  BY <1>3, <1>4, <1>5

LEMMA ListingIsList ==
    ASSUME NEW log, NEW S \in SUBSET Pairs, IsFiniteSet(S)
    PROVE  /\ Listed(Listing(log, S)) /\ Len(Listing(log, S)) = Cardinality(S)
           /\ Cardinality(S) \in Nat /\ DOMAIN Listing(log, S) = 1..Cardinality(S)
<1> DEFINE f == Listing(log, S)
           n == Cardinality(S)
<1>1. PICK q : f = [i \in 1..n |-> At(log, q[i])]
  BY OrderListed
<1>2. n \in Nat
  BY FS_CardinalityType
<1> HIDE DEF f, n
<1>3. f = [i \in 1..n |-> f[i]] /\ DOMAIN f = 1..n
  BY <1>1
<1>4. QED
  BY <1>2, <1>3, FunctionIsList DEF f, n

LEMMA ListingOfNone == ASSUME NEW log PROVE Listing(log, {}) = <<>>
<1>1. Cardinality({}) = 0 /\ IsFiniteSet({}) /\ {} \in SUBSET Pairs
  BY FS_EmptySet
<1>2. PICK q : Listing(log, {}) = [i \in 1..0 |-> At(log, q[i])]
  BY <1>1, OrderListed
<1>3. QED
  BY <1>2

LEMMA ListingOfMore ==
    ASSUME NEW log, NEW S \in SUBSET Pairs, IsFiniteSet(S), NEW x \in Pairs, \A y \in S : Before(y, x)
    PROVE  Listing(log, S \cup {x}) = Append(Listing(log, S), At(log, x))
<1> DEFINE n == Cardinality(S)
           T == S \cup {x}
           s == Listing(log, S)
           t == Listing(log, T)
<1>1. PICK q : IsOrder(q, S) /\ s = [i \in 1..n |-> At(log, q[i])]
  BY OrderListed
<1> DEFINE more == [i \in 1..(n + 1) |-> IF i = n + 1 THEN x ELSE q[i]]
<1>2. n \in Nat /\ IsFiniteSet(T) /\ Cardinality(T) = n + 1 /\ IsOrder(more, T) /\ T \in SUBSET Pairs
  BY <1>1, MoreOrdered, FS_CardinalityType
<1>3. PICK r : IsOrder(r, T) /\ t = [i \in 1..(n + 1) |-> At(log, r[i])]
  <2> HIDE DEF T
  <2>1. QED
    BY <1>2, OrderListed
<1>4. r = more
  <2> HIDE DEF T, more
  <2>1. QED
    BY <1>2, <1>3, OneOrder
<1>5. Listed(s) /\ Len(s) = n /\ Listed(t) /\ Len(t) = n + 1
  <2>1. Listed(t) /\ Len(t) = Cardinality(T)
    <3> HIDE DEF T
    <3>1. QED
      BY <1>2, ListingIsList
  <2>2. QED
    BY <1>2, <2>1, ListingIsList
<1>6. /\ Listed(Append(s, At(log, x))) /\ Len(Append(s, At(log, x))) = n + 1
      /\ Append(s, At(log, x))[n + 1] = At(log, x)
      /\ \A k \in 1..n : Append(s, At(log, x))[k] = s[k]
  <2> HIDE DEF s
  <2>1. QED
    BY <1>5, AppendFacts
<1> HIDE DEF n
<1>7. ASSUME NEW k \in 1..(n + 1) PROVE t[k] = Append(s, At(log, x))[k]
  <2>1. t[k] = At(log, more[k])
    BY <1>3, <1>4
  <2>2. CASE k = n + 1
    BY <1>6, <2>1, <2>2
  <2>3. CASE k # n + 1
    <3>1. k \in 1..n
      BY <1>2, <2>3
    <3>2. s[k] = At(log, q[k]) /\ more[k] = q[k]
      BY <1>1, <1>2, <3>1
    <3>3. QED
      BY <1>6, <2>1, <3>1, <3>2
  <2>4. QED
    BY <2>2, <2>3
<1> HIDE DEF s, t, T, more
<1>8. t = Append(s, At(log, x))
  BY <1>2, <1>5, <1>6, <1>7, SameList
<1>9. QED
  BY <1>8 DEF s, t, T

LEMMA ListingOfOne == ASSUME NEW log, NEW x \in Pairs PROVE Listing(log, {x}) = <<At(log, x)>>
<1>1. IsFiniteSet({}) /\ {} \in SUBSET Pairs /\ {} \cup {x} = {x} /\ \A y \in {} : Before(y, x)
  BY FS_EmptySet
<1>2. Listing(log, {x}) = Append(Listing(log, {}), At(log, x))
  BY <1>1, ListingOfMore
<1>3. Append(<<>>, At(log, x)) = <<At(log, x)>>
  OBVIOUS
<1>4. QED
  BY <1>2, <1>3, ListingOfNone

\* It depends on nothing but the events at those places.
LEMMA SameListing ==
    ASSUME NEW log, NEW other, NEW S \in SUBSET Pairs, IsFiniteSet(S), \A y \in S : At(log, y) = At(other, y)
    PROVE  Listing(log, S) = Listing(other, S)
<1> DEFINE n == Cardinality(S)
<1>1. PICK q : IsOrder(q, S) /\ Listing(log, S) = [i \in 1..n |-> At(log, q[i])]
  BY OrderListed
<1>2. PICK r : IsOrder(r, S) /\ Listing(other, S) = [i \in 1..n |-> At(other, r[i])]
  BY OrderListed
<1>3. q = r /\ \A i \in 1..n : q[i] \in S
  BY <1>1, <1>2, OneOrder, OrderFacts
<1>4. QED
  BY <1>1, <1>2, <1>3

(***************************************************************************)
(* ArchiveImport: the books.  At each place the book the processor has of  *)
(* a stream is what the events of the stream before the place make of it,  *)
(* in the terms of the last part of ArchiveBooks.  That is so until there  *)
(* is nothing to come of the stream but late events.                       *)
(***************************************************************************)

IsLog(log) ==
    /\ DOMAIN log = Files
    /\ \A f \in Files : log[f] = <<>> \/ \E content \in Contents[f] : log[f] = content.events

\* What a log has before a place, and what of it is of a stream and of some types.
Upto(log, x) == {y \in Places(log) : Before(y, x)}
Past(log, s, types, x) == {y \in Upto(log, x) : At(log, y).stream = s /\ At(log, y).type \in types}

\* Where the events are that the book of a stream shows.
Live(log, s, x) ==
    {y \in Past(log, s, {"book", "change"}, x) : \A z \in Past(log, s, {"book"}, x) : ~Before(y, z)}

LastTick(log, s, x) ==
    {y \in Past(log, s, {"tick"}, x) : \A z \in Past(log, s, {"tick"}, x) : ~Before(y, z)}

IsBook(book) ==
    /\ book = [known |-> TRUE, initialized |-> book.initialized, levels |-> book.levels,
               tick |-> book.tick, emitted |-> book.emitted]
    /\ book.initialized \in BOOLEAN /\ book.emitted \in BOOLEAN

\* An event that an import drops because there is no book for it.
Missed(log, warmups, x) == x[1] > warmups /\ InWindow(At(log, x)) /\ ~BookKnown(log, x)

SomeDue(log, warmups, s, x) == \E y \in Past(log, s, EventTypes, x) : Due(log, warmups, y)
SomeMissed(log, warmups, s, x) == \E y \in Past(log, s, EventTypes, x) : Missed(log, warmups, y)

\* Until something is emitted of a stream its book is kept up, ticks that have
\* been missed aside.
KeptUp(book, log, warmups, s, x) ==
    /\ book.initialized <=> Past(log, s, {"book"}, x) # {}
    /\ book.initialized => book.levels = Listing(log, Live(log, s, x))
    /\ book.tick = Listing(log, LastTick(log, s, x)) \/ SomeMissed(log, warmups, s, x)

Followed(book, log, warmups, s, x) ==
    /\ IsBook(book)
    /\ book.emitted <=> SomeDue(log, warmups, s, x)
    /\ ~book.emitted => KeptUp(book, log, warmups, s, x)

BookRight(book, log, warmups, s, x) ==
    IF Past(log, s, EventTypes, x) = {} THEN book = NoBook ELSE Followed(book, log, warmups, s, x)

LEMMA LogFacts ==
    ASSUME NEW log, IsLog(log)
    PROVE  \A f \in Files : /\ log[f] \in Seq(RawEvents)
                            /\ Len(log[f]) \in Nat /\ DOMAIN log[f] = 1..Len(log[f])
                            /\ \A i \in 1..Len(log[f]) : log[f][i] \in RawEvents
<1> SUFFICES ASSUME NEW f \in Files
             PROVE  /\ log[f] \in Seq(RawEvents)
                    /\ Len(log[f]) \in Nat /\ DOMAIN log[f] = 1..Len(log[f])
                    /\ \A i \in 1..Len(log[f]) : log[f][i] \in RawEvents
  OBVIOUS
<1>1. log[f] \in Seq(RawEvents)
  <2>1. CASE log[f] = <<>>
    BY <2>1
  <2>2. CASE \E content \in Contents[f] : log[f] = content.events
    BY <2>2, ArchiveContents
  <2>3. QED
    BY <2>1, <2>2 DEF IsLog
<1>2. QED
  BY <1>1

LEMMA FilesFacts == Len(FileHours) \in Nat /\ Files = 1..Len(FileHours)
  BY ArchiveImportConstants DEF Files

LEMMA PlaceFacts ==
    ASSUME NEW log, IsLog(log)
    PROVE  /\ \A x : x \in Places(log) <=> /\ x \in Pairs /\ x[1] \in Files
                                           /\ x[2] \in 1..Len(log[x[1]])
           /\ \A f \in Files : \A i \in 1..Len(log[f]) : <<f, i>> \in Places(log)
           /\ \A x \in Places(log) : At(log, x) \in RawEvents
<1>1. \A f \in Files : Len(log[f]) \in Nat /\ f \in Int
  BY LogFacts, FilesFacts
<1>2. DOMAIN log = Files
  BY DEF IsLog
<1>3. ASSUME NEW x \in Places(log) PROVE x \in Pairs /\ x[1] \in Files /\ x[2] \in 1..Len(log[x[1]])
  <2>1. PICK f \in Files : x \in {f} \X (1..Len(log[f]))
    BY <1>2 DEF Places
  <2>2. x = <<x[1], x[2]>> /\ x[1] = f /\ x[2] \in 1..Len(log[f])
    BY <2>1
  <2>3. x[1] \in Int /\ x[2] \in Int
    BY <1>1, <2>2
  <2>4. QED
    BY <2>2, <2>3 DEF Pairs
<1>4. ASSUME NEW f \in Files, NEW i \in 1..Len(log[f]) PROVE <<f, i>> \in Places(log)
  BY <1>2 DEF Places
<1>5. ASSUME NEW x \in Pairs, x[1] \in Files, x[2] \in 1..Len(log[x[1]]) PROVE x \in Places(log)
  <2>1. x = <<x[1], x[2]>>
    BY DEF Pairs
  <2>2. <<x[1], x[2]>> \in Places(log)
    BY <1>4, <1>5
  <2>3. QED
    BY <2>1, <2>2
<1>6. ASSUME NEW x \in Places(log) PROVE At(log, x) \in RawEvents
  BY <1>3, LogFacts DEF At
<1>7. QED
  BY <1>3, <1>4, <1>5, <1>6

LEMMA PlacesFinite == ASSUME NEW log, IsLog(log) PROVE IsFiniteSet(Places(log)) /\ Places(log) \in SUBSET Pairs
<1> DEFINE Of(f) == {f} \X (1..Len(log[f]))
           sets == [f \in Files |-> Of(f)]
           All == {sets[f] : f \in Files}
<1>1. \A f \in Files : Len(log[f]) \in Nat
  BY LogFacts
<1>2. \A f \in Files : IsFiniteSet(Of(f))
  <2> SUFFICES ASSUME NEW f \in Files PROVE IsFiniteSet({f} \X (1..Len(log[f])))
    OBVIOUS
  <2>1. IsFiniteSet({f}) /\ IsFiniteSet(1..Len(log[f]))
    <3>1. PICK n \in Nat : n = Len(log[f])
      BY <1>1
    <3>2. IsFiniteSet(1..n)
      BY FS_Interval
    <3>3. IsFiniteSet({f})
      BY FS_Singleton, Zenon
    <3>4. QED
      BY <3>1, <3>2, <3>3
  <2>2. QED
    BY <2>1, FS_Product
<1>3. sets \in Surjection(Files, All)
  BY DEF Surjection
<1>4. IsFiniteSet(Files)
  BY FilesFacts, FS_Interval
<1>5. IsFiniteSet(All)
  <2> HIDE DEF sets, All
  <2>1. QED
    BY <1>3, <1>4, FS_Surjection
<1>6. \A S \in All : IsFiniteSet(S)
  BY <1>2
<1>7. Places(log) = UNION All
  BY DEF Places, IsLog
<1> HIDE DEF All
<1>8. IsFiniteSet(Places(log))
  BY <1>5, <1>6, <1>7, FS_UNION
<1>9. QED
  BY <1>8, PlaceFacts

LEMMA PastFacts ==
    ASSUME NEW log, IsLog(log), NEW x, NEW s
    PROVE  /\ Upto(log, x) \in SUBSET Places(log) /\ Upto(log, x) \in SUBSET Pairs
           /\ \A types : Past(log, s, types, x) \in SUBSET Pairs /\ IsFiniteSet(Past(log, s, types, x))
           /\ \A types : Past(log, s, types, x) \subseteq Past(log, s, EventTypes, x)
           /\ Live(log, s, x) \in SUBSET Pairs /\ IsFiniteSet(Live(log, s, x))
           /\ LastTick(log, s, x) \in SUBSET Pairs /\ IsFiniteSet(LastTick(log, s, x))
<1>1. IsFiniteSet(Places(log)) /\ Places(log) \in SUBSET Pairs
  BY PlacesFinite
<1>2. \A S \in SUBSET Places(log) : IsFiniteSet(S) /\ S \in SUBSET Pairs
  BY <1>1, FS_Subset
<1>3. Upto(log, x) \in SUBSET Places(log)
  BY DEF Upto
<1>4. \A types : Past(log, s, types, x) \in SUBSET Places(log)
  BY <1>3 DEF Past
<1>5. Live(log, s, x) \in SUBSET Places(log) /\ LastTick(log, s, x) \in SUBSET Places(log)
  BY <1>4 DEF Live, LastTick
<1>6. \A y \in Upto(log, x) : At(log, y).type \in EventTypes
  BY <1>3, PlaceFacts DEF RawEvents
<1>7. \A types : Past(log, s, types, x) \subseteq Past(log, s, EventTypes, x)
  BY <1>6 DEF Past
<1>8. QED
  BY <1>2, <1>3, <1>4, <1>5, <1>7

LEMMA EarlierIsPast ==
    ASSUME NEW log, NEW x
    PROVE  /\ \A types : Earlier(log, x, types) = Past(log, At(log, x).stream, types, x)
           /\ Shown(log, x) = Listing(log, Live(log, At(log, x).stream, x))
           /\ TickShown(log, x) = Listing(log, LastTick(log, At(log, x).stream, x))
<1>1. \A types : Earlier(log, x, types) = Past(log, At(log, x).stream, types, x)
  BY DEF Earlier, Past, Upto
<1>2. QED
  BY <1>1 DEF Shown, TickShown, Live, LastTick

(***************************************************************************)
(* Logs that are alike up to some places                                   *)
(***************************************************************************)

Alike(log, x, other, z) == Upto(log, x) = Upto(other, z) /\ \A y \in Upto(log, x) : At(log, y) = At(other, y)

LEMMA AlikeFurther ==
    ASSUME NEW log, IsLog(log), NEW other, IsLog(other), NEW x \in Pairs, NEW z \in Pairs, Alike(log, x, other, z),
           NEW y \in Upto(log, x)
    PROVE  Alike(log, y, other, y)
<1>1. y \in Pairs /\ Before(y, x) /\ Before(y, z) /\ y \in Upto(other, z)
  BY PastFacts DEF Alike, Upto
<1>2. ASSUME NEW u \in Upto(log, y) PROVE u \in Upto(other, y) /\ u \in Upto(log, x)
  <2>1. u \in Pairs /\ u \in Places(log) /\ Before(u, y)
    BY PastFacts DEF Upto
  <2>2. u \in Upto(log, x)
    BY <1>1, <2>1, BeforeFacts DEF Upto
  <2>3. u \in Places(other)
    BY <2>2 DEF Alike, Upto
  <2>4. QED
    BY <2>1, <2>2, <2>3 DEF Upto
<1>3. ASSUME NEW u \in Upto(other, y) PROVE u \in Upto(log, y)
  <2>1. u \in Pairs /\ u \in Places(other) /\ Before(u, y)
    BY PastFacts DEF Upto
  <2>2. u \in Upto(other, z)
    BY <1>1, <2>1, BeforeFacts DEF Upto
  <2>3. u \in Places(log)
    BY <2>2 DEF Alike, Upto
  <2>4. QED
    BY <2>1, <2>3 DEF Upto
<1>4. Upto(log, y) = Upto(other, y)
  BY <1>2, <1>3
<1>5. QED
  BY <1>2, <1>4 DEF Alike

LEMMA AlikePast ==
    ASSUME NEW log, IsLog(log), NEW other, IsLog(other), NEW x \in Pairs, NEW z \in Pairs, Alike(log, x, other, z),
           NEW s
    PROVE  /\ \A types : Past(log, s, types, x) = Past(other, s, types, z)
           /\ Live(log, s, x) = Live(other, s, z) /\ LastTick(log, s, x) = LastTick(other, s, z)
           /\ Listing(log, Live(log, s, x)) = Listing(other, Live(other, s, z))
           /\ Listing(log, LastTick(log, s, x)) = Listing(other, LastTick(other, s, z))
<1>1. \A types : Past(log, s, types, x) = Past(other, s, types, z)
  BY DEF Alike, Past
<1>2. Live(log, s, x) = Live(other, s, z) /\ LastTick(log, s, x) = LastTick(other, s, z)
  BY <1>1 DEF Live, LastTick
<1>3. \A y \in Live(log, s, x) : At(log, y) = At(other, y)
  BY DEF Live, Past, Alike
<1>4. \A y \in LastTick(log, s, x) : At(log, y) = At(other, y)
  BY DEF LastTick, Past, Alike
<1>5. /\ Listing(log, Live(log, s, x)) = Listing(other, Live(log, s, x))
      /\ Listing(log, LastTick(log, s, x)) = Listing(other, LastTick(log, s, x))
  BY <1>3, <1>4, PastFacts, SameListing
<1>6. QED
  BY <1>1, <1>2, <1>5

LEMMA AlikeEvents ==
    ASSUME NEW log, IsLog(log), NEW other, IsLog(other), NEW x \in Pairs, NEW z \in Pairs, Alike(log, x, other, z),
           NEW warmups, NEW y \in Upto(log, x)
    PROVE  /\ At(log, y) = At(other, y)
           /\ Due(log, warmups, y) <=> Due(other, warmups, y)
           /\ Missed(log, warmups, y) <=> Missed(other, warmups, y)
           /\ FirstDue(log, warmups, y) <=> FirstDue(other, warmups, y)
           /\ Shown(log, y) = Shown(other, y) /\ TickShown(log, y) = TickShown(other, y)
<1>1. ASSUME NEW u \in Upto(log, x)
      PROVE  /\ At(log, u) = At(other, u) /\ Alike(log, u, other, u) /\ u \in Pairs
             /\ \A types : Earlier(log, u, types) = Earlier(other, u, types)
             /\ Due(log, warmups, u) <=> Due(other, warmups, u)
             /\ Missed(log, warmups, u) <=> Missed(other, warmups, u)
  <2>1. At(log, u) = At(other, u) /\ Alike(log, u, other, u) /\ u \in Pairs
    BY AlikeFurther, PastFacts DEF Alike
  <2>2. \A types : Earlier(log, u, types) = Earlier(other, u, types)
    BY <2>1, AlikePast, EarlierIsPast
  <2>3. QED
    BY <2>1, <2>2 DEF Due, Missed, BookKnown
<1>2. Shown(log, y) = Shown(other, y) /\ TickShown(log, y) = TickShown(other, y)
  BY <1>1, AlikePast, EarlierIsPast
<1>3. \A u \in Earlier(log, y, EventTypes) : u \in Upto(log, x)
  <2> SUFFICES ASSUME NEW u \in Earlier(log, y, EventTypes) PROVE u \in Upto(log, x)
    OBVIOUS
  <2>1. u \in Places(log) /\ Before(u, y) /\ Before(y, x) /\ u \in Pairs /\ y \in Pairs
    BY PlacesFinite DEF Earlier, Upto
  <2>2. QED
    BY <2>1, BeforeFacts DEF Upto
<1>4. FirstDue(log, warmups, y) <=> FirstDue(other, warmups, y)
  BY <1>1, <1>3 DEF FirstDue
<1>5. QED
  BY <1>1, <1>2, <1>4

LEMMA AlikeRight ==
    ASSUME NEW log, IsLog(log), NEW other, IsLog(other), NEW x \in Pairs, NEW z \in Pairs, Alike(log, x, other, z),
           NEW warmups, NEW s, NEW book, BookRight(book, log, warmups, s, x)
    PROVE  BookRight(book, other, warmups, s, z)
<1>1. \A types : Past(log, s, types, x) = Past(other, s, types, z)
  BY AlikePast
<1>2. /\ Live(log, s, x) = Live(other, s, z)
      /\ Listing(log, Live(log, s, x)) = Listing(other, Live(other, s, z))
      /\ Listing(log, LastTick(log, s, x)) = Listing(other, LastTick(other, s, z))
  BY AlikePast
<1>3. \A y \in Past(log, s, EventTypes, x) : y \in Upto(log, x)
  BY DEF Past
<1>4. /\ SomeDue(log, warmups, s, x) <=> SomeDue(other, warmups, s, z)
      /\ SomeMissed(log, warmups, s, x) <=> SomeMissed(other, warmups, s, z)
  BY <1>1, <1>3, AlikeEvents DEF SomeDue, SomeMissed
<1>5. KeptUp(book, log, warmups, s, x) <=> KeptUp(book, other, warmups, s, z)
  BY <1>1, <1>2, <1>4 DEF KeptUp
<1>6. QED
  BY <1>1, <1>4, <1>5 DEF BookRight, Followed

(***************************************************************************)
(* From a place to the next one                                            *)
(***************************************************************************)

\* z comes right after x.
Follows(log, x, z) ==
    /\ x \in Places(log) /\ z \in Pairs
    /\ \A y \in Places(log) : Before(y, z) <=> y = x \/ Before(y, x)

LEMMA PastNext ==
    ASSUME NEW log, IsLog(log), NEW x, NEW z, Follows(log, x, z), NEW s, NEW types
    PROVE  /\ At(log, x).stream = s /\ At(log, x).type \in types =>
                  Past(log, s, types, z) = Past(log, s, types, x) \cup {x}
           /\ ~(At(log, x).stream = s /\ At(log, x).type \in types) =>
                  Past(log, s, types, z) = Past(log, s, types, x)
           /\ \A y \in Past(log, s, types, x) : Before(y, x) /\ ~Before(x, y) /\ y \in Pairs
           /\ x \in Pairs /\ ~Before(x, x)
<1>1. x \in Places(log) /\ x \in Pairs
  BY PlacesFinite DEF Follows
<1>2. Upto(log, z) = Upto(log, x) \cup {x}
  BY <1>1 DEF Follows, Upto
<1>3. \A y \in Upto(log, x) : Before(y, x) /\ y \in Pairs
  BY PastFacts DEF Upto
<1>4. ~Before(x, x) /\ \A y \in Upto(log, x) : ~Before(x, y)
  BY <1>1, <1>3, BeforeFacts
<1>5. \A y \in Past(log, s, types, x) : y \in Upto(log, x)
  BY DEF Past
<1>6. At(log, x).stream = s /\ At(log, x).type \in types =>
          Past(log, s, types, z) = Past(log, s, types, x) \cup {x}
  BY <1>2 DEF Past
<1>7. ~(At(log, x).stream = s /\ At(log, x).type \in types) =>
          Past(log, s, types, z) = Past(log, s, types, x)
  BY <1>2 DEF Past
<1>8. QED
  BY <1>1, <1>3, <1>4, <1>5, <1>6, <1>7

LEMMA OtherStream ==
    ASSUME NEW log, IsLog(log), NEW x, NEW z, Follows(log, x, z), NEW s, s # At(log, x).stream,
           NEW warmups, NEW book, BookRight(book, log, warmups, s, x)
    PROVE  BookRight(book, log, warmups, s, z)
<1>1. \A types : Past(log, s, types, z) = Past(log, s, types, x)
  BY PastNext
<1>2. Live(log, s, z) = Live(log, s, x) /\ LastTick(log, s, z) = LastTick(log, s, x)
  BY <1>1 DEF Live, LastTick
<1>3. QED
  BY <1>1, <1>2 DEF BookRight, Followed, KeptUp, SomeDue, SomeMissed

\* A stream is seen for the first time.
LEMMA NewFollowed ==
    ASSUME NEW log, IsLog(log), NEW x, NEW s, NEW warmups, Past(log, s, EventTypes, x) = {}
    PROVE  Followed(NewBook, log, warmups, s, x)
<1>1. \A types : Past(log, s, types, x) = {}
  BY PastFacts
<1>2. LastTick(log, s, x) = {}
  BY <1>1 DEF LastTick
<1>3. Listing(log, LastTick(log, s, x)) = <<>>
  BY <1>2, ListingOfNone
<1>4. IsBook(NewBook) /\ ~NewBook.initialized /\ NewBook.tick = <<>> /\ ~NewBook.emitted
  BY DEF IsBook, NewBook
<1>5. ~SomeDue(log, warmups, s, x)
  BY <1>1 DEF SomeDue
<1>6. QED
  BY <1>1, <1>3, <1>4, <1>5 DEF Followed, KeptUp

LEMMA ApplyFacts ==
    ASSUME NEW book, IsBook(book), NEW e
    PROVE  /\ IsBook(ApplyEvent(book, e))
           /\ ApplyEvent(book, e).emitted = book.emitted
           /\ e.type = "book" => /\ ApplyEvent(book, e).initialized /\ ApplyEvent(book, e).levels = <<e>>
                                 /\ ApplyEvent(book, e).tick = book.tick
           /\ e.type = "change" /\ book.initialized =>
                  /\ ApplyEvent(book, e).initialized /\ ApplyEvent(book, e).levels = Append(book.levels, e)
                  /\ ApplyEvent(book, e).tick = book.tick
           /\ e.type = "tick" => /\ (ApplyEvent(book, e).initialized <=> book.initialized)
                                 /\ ApplyEvent(book, e).levels = book.levels
                                 /\ ApplyEvent(book, e).tick = <<e>>
           /\ e.type \notin {"book", "tick"} /\ ~(e.type = "change" /\ book.initialized) => ApplyEvent(book, e) = book
<1>1. PICK i \in BOOLEAN, m \in BOOLEAN : \E l, t :
          book = [known |-> TRUE, initialized |-> i, levels |-> l, tick |-> t, emitted |-> m]
  <2>1. /\ book = [known |-> TRUE, initialized |-> book.initialized, levels |-> book.levels,
                   tick |-> book.tick, emitted |-> book.emitted]
        /\ book.initialized \in BOOLEAN /\ book.emitted \in BOOLEAN
    BY DEF IsBook
  <2>2. QED
    BY <2>1, Zenon
<1>l. PICK l, t : book = [known |-> TRUE, initialized |-> i, levels |-> l, tick |-> t, emitted |-> m]
  BY <1>1
<1> DEFINE With(j, k, u) == [known |-> TRUE, initialized |-> j, levels |-> k, tick |-> u, emitted |-> m]
           next == ApplyEvent(book, e)
<1>b. book.initialized = i /\ book.levels = l /\ book.tick = t /\ book.emitted = m
  BY <1>l
<1>2. ASSUME NEW j \in BOOLEAN, NEW k, NEW u, next = With(j, k, u)
      PROVE  IsBook(next) /\ next.emitted = m /\ next.initialized = j /\ next.levels = k /\ next.tick = u
  <2> HIDE DEF next
  <2>1. next.known = TRUE /\ next.emitted = m /\ next.initialized = j /\ next.levels = k /\ next.tick = u
    BY <1>2
  <2>2. next = [known |-> TRUE, initialized |-> next.initialized, levels |-> next.levels,
                tick |-> next.tick, emitted |-> next.emitted]
    BY <1>2, <2>1
  <2>3. QED
    BY <2>1, <2>2 DEF IsBook
<1>3. CASE e.type = "book"
  <2>1. next = [book EXCEPT !.levels = <<e>>, !.initialized = TRUE]
    BY <1>3 DEF ApplyEvent
  <2>2. next = With(TRUE, <<e>>, t)
    BY <1>l, <2>1
  <2> HIDE DEF next, With
  <2>3. QED
    BY <1>b, <1>2, <1>3, <2>2 DEF next
<1>4. CASE e.type = "change" /\ book.initialized
  <2>1. next = [book EXCEPT !.levels = Append(@, e)]
    BY <1>4 DEF ApplyEvent
  <2>2. next = With(i, Append(l, e), t)
    BY <1>l, <2>1
  <2> HIDE DEF next, With
  <2>3. QED
    BY <1>b, <1>2, <1>4, <2>2 DEF next
<1>5. CASE e.type = "tick"
  <2>1. next = [book EXCEPT !.tick = <<e>>]
    BY <1>5 DEF ApplyEvent
  <2>2. next = With(i, l, <<e>>)
    BY <1>l, <2>1
  <2> HIDE DEF next, With
  <2>3. QED
    BY <1>b, <1>2, <1>5, <2>2 DEF next
<1>6. CASE e.type \notin {"book", "tick"} /\ ~(e.type = "change" /\ book.initialized)
  <2>1. next = book
    BY <1>6 DEF ApplyEvent
  <2>2. QED
    BY <1>6, <2>1
<1>7. QED
  BY <1>3, <1>4, <1>5, <1>6

LEMMA MissedStays ==
    ASSUME NEW log, IsLog(log), NEW x, NEW z, Follows(log, x, z), NEW warmups, NEW s,
           SomeMissed(log, warmups, s, x)
    PROVE  SomeMissed(log, warmups, s, z)
<1>1. Past(log, s, EventTypes, x) \subseteq Past(log, s, EventTypes, z)
  BY PastNext
<1>2. QED
  BY <1>1 DEF SomeMissed

\* A tick changes the tick of a book and nothing else (Book.Apply).
LEMMA ApplyTick ==
    ASSUME NEW book, IsBook(book), NEW e, e.type = "tick"
    PROVE  /\ ApplyEvent(book, e).initialized <=> book.initialized
           /\ ApplyEvent(book, e).levels = book.levels
           /\ ApplyEvent(book, e).tick = <<e>>
<1> DEFINE next == ApplyEvent(book, e)
<1>1. next = [book EXCEPT !.tick = <<e>>]
  BY DEF ApplyEvent
<1> DEFINE i == book.initialized
           l == book.levels
           t == book.tick
           m == book.emitted
<1>2. /\ book = [known |-> TRUE, initialized |-> i, levels |-> l, tick |-> t, emitted |-> m]
      /\ i \in BOOLEAN
  BY DEF IsBook
<1> HIDE DEF i, l, t, m
<1> HIDE DEF next
<1>3. next = [known |-> TRUE, initialized |-> i, levels |-> l, tick |-> <<e>>, emitted |-> m]
  BY <1>1, <1>2
<1>4. next.initialized = i /\ next.levels = l /\ next.tick = <<e>>
  BY <1>3
<1>5. book.initialized = i /\ book.levels = l
  BY DEF i, l
<1>6. (next.initialized <=> book.initialized) /\ next.levels = book.levels /\ next.tick = <<e>>
  BY <1>4, <1>5
<1>7. QED
  BY <1>6 DEF next

\* An event is applied to a book that is kept up.
LEMMA Applied ==
    ASSUME NEW log, IsLog(log), NEW x, NEW z, Follows(log, x, z), NEW warmups,
           NEW book, IsBook(book), KeptUp(book, log, warmups, At(log, x).stream, x)
    PROVE  KeptUp(ApplyEvent(book, At(log, x)), log, warmups, At(log, x).stream, z)
<1> DEFINE e == At(log, x)
           s == e.stream
           next == ApplyEvent(book, e)
<1>0. e.type \in {"book", "change", "tick", "trade"}
  BY PlaceFacts DEF Follows, RawEvents, EventTypes
<1>1. /\ book.initialized <=> Past(log, s, {"book"}, x) # {}
      /\ book.initialized => book.levels = Listing(log, Live(log, s, x))
      /\ book.tick = Listing(log, LastTick(log, s, x)) \/ SomeMissed(log, warmups, s, x)
  BY DEF KeptUp
<1>2. SomeMissed(log, warmups, s, x) => SomeMissed(log, warmups, s, z)
  BY MissedStays
<1>3. /\ \A types : e.type \in types => Past(log, s, types, z) = Past(log, s, types, x) \cup {x}
      /\ \A types : e.type \notin types => Past(log, s, types, z) = Past(log, s, types, x)
      /\ \A types : \A y \in Past(log, s, types, x) : Before(y, x) /\ ~Before(x, y)
      /\ x \in Pairs /\ ~Before(x, x)
  BY PastNext
<1>4. IsBook(next) /\ (e.type \notin {"book", "tick"} /\ ~(e.type = "change" /\ book.initialized) => next = book)
  BY ApplyFacts
<1> HIDE DEF s
<1>5. CASE e.type = "book"
  <2>1. next.initialized /\ next.levels = <<e>> /\ next.tick = book.tick
    BY <1>5, ApplyFacts
  <2>2. /\ Past(log, s, {"book"}, z) = Past(log, s, {"book"}, x) \cup {x}
        /\ Past(log, s, {"book", "change"}, z) = Past(log, s, {"book", "change"}, x) \cup {x}
        /\ Past(log, s, {"tick"}, z) = Past(log, s, {"tick"}, x)
    BY <1>3, <1>5
  <2>3. Live(log, s, z) = {x}
    BY <1>3, <2>2 DEF Live
  <2>4. Listing(log, Live(log, s, z)) = <<e>>
    BY <1>3, <2>3, ListingOfOne
  <2>5. LastTick(log, s, z) = LastTick(log, s, x)
    BY <2>2 DEF LastTick
  <2> HIDE DEF next, e
  <2>6. QED
    BY <1>1, <1>2, <2>1, <2>2, <2>3, <2>4, <2>5 DEF KeptUp, s, next, e
<1>6. CASE e.type = "change" /\ book.initialized
  <2>1. next.initialized /\ next.levels = Append(book.levels, e) /\ next.tick = book.tick
    BY <1>6, ApplyFacts
  <2>2. /\ Past(log, s, {"book"}, z) = Past(log, s, {"book"}, x)
        /\ Past(log, s, {"book", "change"}, z) = Past(log, s, {"book", "change"}, x) \cup {x}
        /\ Past(log, s, {"tick"}, z) = Past(log, s, {"tick"}, x)
    BY <1>3, <1>6
  <2>3. Live(log, s, z) = Live(log, s, x) \cup {x}
    BY <1>3, <2>2 DEF Live
  <2>4. \A y \in Live(log, s, x) : Before(y, x)
    BY <1>3 DEF Live
  <2>5. Listing(log, Live(log, s, x) \cup {x}) = Append(Listing(log, Live(log, s, x)), At(log, x))
    BY <1>3, <2>4, PastFacts, ListingOfMore
  <2>6. LastTick(log, s, z) = LastTick(log, s, x)
    BY <2>2 DEF LastTick
  <2>7. Listing(log, Live(log, s, z)) = Append(Listing(log, Live(log, s, x)), e)
    BY <2>3, <2>5
  <2> HIDE DEF next, e
  <2>8. QED
    BY <1>1, <1>2, <1>6, <2>1, <2>2, <2>6, <2>7 DEF KeptUp, s, next, e
<1>7. CASE e.type = "tick"
  <2>1. (next.initialized <=> book.initialized) /\ next.levels = book.levels /\ next.tick = <<e>>
    <3>1. IsBook(book) /\ e.type = "tick"
      BY <1>7
    <3> HIDE DEF e
    <3>2. QED
      BY <3>1, ApplyTick
  <2>2. /\ Past(log, s, {"book"}, z) = Past(log, s, {"book"}, x)
        /\ Past(log, s, {"book", "change"}, z) = Past(log, s, {"book", "change"}, x)
        /\ Past(log, s, {"tick"}, z) = Past(log, s, {"tick"}, x) \cup {x}
    BY <1>3, <1>7
  <2>3. Live(log, s, z) = Live(log, s, x)
    BY <2>2 DEF Live
  <2>4. LastTick(log, s, z) = {x}
    BY <1>3, <2>2 DEF LastTick
  <2>5. Listing(log, LastTick(log, s, z)) = <<e>>
    BY <1>3, <2>4, ListingOfOne
  <2> HIDE DEF next, e
  <2>6. QED
    BY <1>1, <2>1, <2>2, <2>3, <2>5 DEF KeptUp, s, next, e
<1>8. CASE e.type \notin {"book", "tick"} /\ ~(e.type = "change" /\ book.initialized)
  <2>1. next = book
    BY <1>4, <1>8
  <2>2. /\ Past(log, s, {"book"}, z) = Past(log, s, {"book"}, x)
        /\ Past(log, s, {"tick"}, z) = Past(log, s, {"tick"}, x)
    BY <1>3, <1>8
  <2>3. LastTick(log, s, z) = LastTick(log, s, x)
    BY <2>2 DEF LastTick
  <2>4. book.initialized => Live(log, s, z) = Live(log, s, x)
    <3>1. book.initialized => e.type \notin {"book", "change"}
      BY <1>8
    <3>2. book.initialized => Past(log, s, {"book", "change"}, z) = Past(log, s, {"book", "change"}, x)
      BY <1>3, <3>1
    <3>3. QED
      BY <2>2, <3>2 DEF Live
  <2> HIDE DEF next, e
  <2>5. QED
    BY <1>1, <1>2, <2>1, <2>2, <2>3, <2>4 DEF KeptUp, s, next, e
<1>9. QED
  BY <1>0, <1>5, <1>6, <1>7, <1>8

\* One that is not, for want of a book, is missed.
LEMMA NotApplied ==
    ASSUME NEW log, IsLog(log), NEW x, NEW z, Follows(log, x, z), NEW warmups, Missed(log, warmups, x),
           NEW book, IsBook(book), KeptUp(book, log, warmups, At(log, x).stream, x), ~book.initialized
    PROVE  KeptUp(book, log, warmups, At(log, x).stream, z)
<1> DEFINE s == At(log, x).stream
<1>1. Past(log, s, {"book"}, x) = {} /\ At(log, x).type # "book"
  BY DEF KeptUp, Missed, BookKnown
<1>2. Past(log, s, {"book"}, z) = {}
  BY <1>1, PastNext
<1>3. x \in Past(log, s, EventTypes, z)
  <2>1. At(log, x).type \in EventTypes
    BY PlaceFacts DEF Follows, RawEvents
  <2>2. QED
    BY <2>1, PastNext
<1>4. SomeMissed(log, warmups, s, z)
  BY <1>3 DEF SomeMissed
<1>5. QED
  BY <1>2, <1>4 DEF KeptUp

LEMMA DueNext ==
    ASSUME NEW log, IsLog(log), NEW x, NEW z, Follows(log, x, z), NEW warmups
    PROVE  LET s == At(log, x).stream IN
           /\ SomeDue(log, warmups, s, z) <=> SomeDue(log, warmups, s, x) \/ Due(log, warmups, x)
           /\ FirstDue(log, warmups, x) <=> ~SomeDue(log, warmups, s, x)
           /\ SomeDue(log, warmups, s, x) => BookKnown(log, x)
           /\ Past(log, s, EventTypes, z) # {}
<1> DEFINE s == At(log, x).stream
<1>1. At(log, x).type \in EventTypes /\ x \in Pairs
  BY PlaceFacts DEF Follows, RawEvents
<1>2. Past(log, s, EventTypes, z) = Past(log, s, EventTypes, x) \cup {x}
  BY <1>1, PastNext
<1>3. SomeDue(log, warmups, s, z) <=> SomeDue(log, warmups, s, x) \/ Due(log, warmups, x)
  BY <1>2 DEF SomeDue
<1>4. FirstDue(log, warmups, x) <=> ~SomeDue(log, warmups, s, x)
  BY EarlierIsPast DEF FirstDue, SomeDue
<1>5. ASSUME NEW y \in Past(log, s, EventTypes, x), Due(log, warmups, y) PROVE BookKnown(log, x)
  <2>1. y \in Places(log) /\ y \in Pairs /\ Before(y, x) /\ At(log, y).stream = s
    BY PastFacts DEF Past, Upto
  <2>2. CASE At(log, y).type = "book"
    <3>1. y \in Earlier(log, x, {"book"})
      BY <2>1, <2>2 DEF Earlier
    <3>2. QED
      BY <3>1 DEF BookKnown
  <2>3. CASE At(log, y).type # "book"
    <3>1. PICK u \in Earlier(log, y, {"book"}) : TRUE
      BY <1>5, <2>3 DEF Due, BookKnown
    <3>2. u \in Places(log) /\ u \in Pairs /\ Before(u, y) /\ At(log, u).stream = s /\ At(log, u).type = "book"
      BY <2>1, <3>1, PlacesFinite DEF Earlier
    <3>3. Before(u, x)
      BY <1>1, <2>1, <3>2, BeforeFacts
    <3>4. u \in Earlier(log, x, {"book"})
      BY <3>2, <3>3 DEF Earlier
    <3>5. QED
      BY <3>4 DEF BookKnown
  <2>4. QED
    BY <2>2, <2>3
<1>6. QED
  BY <1>2, <1>3, <1>4, <1>5 DEF SomeDue

\* The clocks of a stream do not go back.
LEMMA LogOrder ==
    ASSUME StreamsInOrder, NEW log, IsLog(log), NEW x \in Places(log), NEW y \in Places(log), Before(x, y),
           At(log, x).stream = At(log, y).stream
    PROVE  At(log, x).exch <= At(log, y).exch /\ At(log, x).recv <= At(log, y).recv
<1>1. /\ x[1] \in Files /\ y[1] \in Files /\ x[1] \in Int /\ y[1] \in Int
      /\ x[2] \in 1..Len(log[x[1]]) /\ y[2] \in 1..Len(log[y[1]])
  BY PlaceFacts, FilesFacts
<1>2. \A f \in Files : Len(log[f]) \in Nat /\ DOMAIN log[f] = 1..Len(log[f])
  BY LogFacts
<1>3. log[x[1]] # <<>> /\ log[y[1]] # <<>>
  BY <1>1, <1>2
<1>4. PICK here \in Contents[x[1]] : log[x[1]] = here.events
  BY <1>1, <1>3 DEF IsLog
<1>5. PICK there \in Contents[y[1]] : log[y[1]] = there.events /\ (x[1] = y[1] => there = here)
  <2>1. CASE x[1] = y[1]
    BY <1>4, <2>1
  <2>2. CASE x[1] # y[1]
    BY <1>1, <1>3, <2>2 DEF IsLog
  <2>3. QED
    BY <2>1, <2>2
<1>6. x[2] \in DOMAIN here.events /\ y[2] \in DOMAIN there.events
  BY <1>1, <1>2, <1>4, <1>5
<1>7. At(log, x) = here.events[x[2]] /\ At(log, y) = there.events[y[2]]
  BY <1>4, <1>5 DEF At
<1>8. x[1] < y[1] \/ (x[1] = y[1] /\ here = there /\ x[2] < y[2])
  BY <1>5 DEF Before
<1>9. QED
  BY <1>1, <1>6, <1>7, <1>8 DEF StreamsInOrder

\* The tick of a book that is shown: had one been missed, then a book would
\* have come after it, in the window, and been emitted.
LEMMA TickIsShown ==
    ASSUME StreamsInOrder, NEW log, IsLog(log), NEW x \in Places(log), NEW warmups \in Int,
           NEW book, KeptUp(book, log, warmups, At(log, x).stream, x), book.initialized,
           InWindow(At(log, x)), ~Late(At(log, x)), ~SomeDue(log, warmups, At(log, x).stream, x)
    PROVE  book.tick = TickShown(log, x)
<1> DEFINE s == At(log, x).stream
<1>1. SUFFICES ASSUME SomeMissed(log, warmups, s, x) PROVE FALSE
  BY EarlierIsPast DEF KeptUp
<1>2. PICK y \in Past(log, s, EventTypes, x) : Missed(log, warmups, y)
  BY <1>1 DEF SomeMissed
<1>3. PICK b \in Past(log, s, {"book"}, x) : TRUE
  BY DEF KeptUp
<1>4. /\ y \in Places(log) /\ y \in Pairs /\ Before(y, x) /\ At(log, y).stream = s
      /\ b \in Places(log) /\ b \in Pairs /\ Before(b, x) /\ At(log, b).stream = s /\ At(log, b).type = "book"
  BY PastFacts DEF Past, Upto
<1>5. At(log, y).type # "book" /\ Earlier(log, y, {"book"}) = {}
  BY <1>2 DEF Missed, BookKnown
<1>6. ~Before(b, y) /\ b # y
  BY <1>4, <1>5 DEF Earlier
<1>7. Before(y, b)
  BY <1>4, <1>6, BeforeFacts
<1>8. /\ At(log, y).exch <= At(log, b).exch /\ At(log, b).exch <= At(log, x).exch
      /\ At(log, b).recv <= At(log, x).recv
  BY <1>4, <1>7, LogOrder
<1>9. /\ At(log, y).exch \in Int /\ At(log, b).exch \in Int /\ At(log, x).exch \in Int
      /\ At(log, b).recv \in Int /\ At(log, x).recv \in Int /\ s \in Streams
  BY <1>4, PlaceFacts DEF RawEvents
<1>10. WindowStart[s] \in Int /\ WindowEnd[s] \in Int /\ Horizon \in Int
  BY <1>9, ArchiveBooksConstants
<1>11. InWindow(At(log, b)) /\ ~Late(At(log, b))
  BY <1>2, <1>4, <1>8, <1>9, <1>10 DEF Missed, InWindow, Late
<1>12. y[1] > warmups /\ y[1] \in Int /\ b[1] \in Int /\ b[1] >= y[1]
  BY <1>2, <1>4, <1>7 DEF Missed, Pairs, Before
<1>13. Due(log, warmups, b)
  BY <1>4, <1>11, <1>12 DEF Due, BookKnown
<1>14. b \in Past(log, s, EventTypes, x)
  BY <1>3, PastFacts
<1>15. QED
  BY <1>13, <1>14 DEF SomeDue

(***************************************************************************)
(* The processor                                                           *)
(***************************************************************************)

IsProcessor(p) ==
    /\ p = [books |-> p.books, logging |-> p.logging, undo |-> p.undo]
    /\ DOMAIN p.books = Streams /\ p.logging \in BOOLEAN

\* The books the undo log leads back to.
Restored(p) == [s \in Streams |-> IF s \in DOMAIN p.undo THEN p.undo[s] ELSE p.books[s]]

\* All the files from f on may hold of a stream is late.
LateFrom(s, f) ==
    \A g \in Files : g >= f => \A content \in Contents[g] : \A i \in DOMAIN content.events :
        content.events[i].stream = s => Late(content.events[i])

\* So is what the log holds of it from x on.
Over(log, s, x, f) ==
    /\ \A y \in Places(log) : ~Before(y, x) /\ At(log, y).stream = s => Late(At(log, y))
    /\ LateFrom(s, f)

BooksRight(books, log, warmups, x, f) ==
    \A s \in Streams : Over(log, s, x, f) \/ BookRight(books[s], log, warmups, s, x)

\* The rows an event is worth, as the log has it.
ShowingRow(log, x) == [of |-> At(log, x), shows |-> Shown(log, x), tick |-> TickShown(log, x)]

RowsFor(log, warmups, x) ==
    IF ~Due(log, warmups, x) THEN <<>>
    ELSE IF FirstDue(log, warmups, x) /\ At(log, x).type # "book" THEN <<ShowingRow(log, x), EventRow(At(log, x))>>
    ELSE <<EventRow(At(log, x))>>

LEMMA SetBookFacts ==
    ASSUME NEW p, IsProcessor(p), NEW s \in Streams, NEW book
    PROVE  LET q == SetBook(p, s, book) IN
           /\ IsProcessor(q) /\ q.logging = p.logging
           /\ q.books[s] = book /\ \A t \in Streams \ {s} : q.books[t] = p.books[t]
           /\ p.logging => Restored(q) = Restored(p)
<1> DEFINE q == SetBook(p, s, book)
<1>1. PICK logging \in BOOLEAN : \E books, undo : p = [books |-> books, logging |-> logging, undo |-> undo]
  BY Zenon DEF IsProcessor
<1>p. PICK books, undo : p = [books |-> books, logging |-> logging, undo |-> undo]
  BY <1>1
<1>2. p.books = books /\ p.logging = logging /\ p.undo = undo /\ DOMAIN books = Streams
  BY <1>p DEF IsProcessor
<1> DEFINE more == IF ~logging \/ s \in DOMAIN undo THEN undo
                   ELSE [t \in DOMAIN undo \cup {s} |-> IF t = s THEN books[s] ELSE undo[t]]
<1>n. q = [p EXCEPT !.books[s] = book,
                    !.undo = IF ~p.logging \/ s \in DOMAIN @ THEN @
                             ELSE [t \in DOMAIN @ \cup {s} |-> IF t = s THEN p.books[s] ELSE @[t]]]
  BY DEF SetBook
<1> HIDE DEF q
<1>3. q = [books |-> [books EXCEPT ![s] = book], logging |-> logging, undo |-> more]
  BY <1>p, <1>n
<1>4. q.books = [books EXCEPT ![s] = book] /\ q.logging = logging /\ q.undo = more
  BY <1>3
<1>5. q = [books |-> q.books, logging |-> q.logging, undo |-> q.undo]
  BY <1>3, <1>4
<1> HIDE DEF q
<1>6. DOMAIN q.books = Streams /\ q.books[s] = book /\ \A t \in Streams \ {s} : q.books[t] = books[t]
  BY <1>2, <1>4
<1>7. ASSUME logging PROVE Restored(q) = Restored(p)
  <2>1. ASSUME NEW t \in Streams
        PROVE  (IF t \in DOMAIN q.undo THEN q.undo[t] ELSE q.books[t])
                  = IF t \in DOMAIN p.undo THEN p.undo[t] ELSE p.books[t]
    <3>1. CASE s \in DOMAIN undo
      BY <1>2, <1>4, <1>6, <3>1
    <3>2. CASE s \notin DOMAIN undo
      <4>1. more = [u \in DOMAIN undo \cup {s} |-> IF u = s THEN books[s] ELSE undo[u]]
        BY <1>7, <3>2
      <4> HIDE DEF more
      <4>2. QED
        BY <1>2, <1>4, <1>6, <3>2, <4>1
    <3>3. QED
      BY <3>1, <3>2
  <2>2. QED
    BY <2>1 DEF Restored
<1>8. QED
  BY <1>2, <1>4, <1>5, <1>6, <1>7 DEF IsProcessor, q

LEMMA DropFacts ==
    ASSUME NEW p, IsProcessor(p), NEW s \in Streams
    PROVE  LET q == [p EXCEPT !.books[s] = NoBook] IN
           /\ IsProcessor(q) /\ q.logging = p.logging
           /\ \A t \in Streams \ {s} : q.books[t] = p.books[t] /\ Restored(q)[t] = Restored(p)[t]
<1> DEFINE q == [p EXCEPT !.books[s] = NoBook]
<1>1. PICK logging \in BOOLEAN : \E books, undo : p = [books |-> books, logging |-> logging, undo |-> undo]
  BY Zenon DEF IsProcessor
<1>p. PICK books, undo : p = [books |-> books, logging |-> logging, undo |-> undo]
  BY <1>1
<1>2. p.books = books /\ p.logging = logging /\ p.undo = undo /\ DOMAIN books = Streams
  BY <1>p DEF IsProcessor
<1>3. q = [books |-> [books EXCEPT ![s] = NoBook], logging |-> logging, undo |-> undo]
  BY <1>p
<1>4. q.books = [books EXCEPT ![s] = NoBook] /\ q.logging = logging /\ q.undo = undo
  BY <1>3
<1>5. q = [books |-> q.books, logging |-> q.logging, undo |-> q.undo]
  BY <1>3, <1>4
<1> HIDE DEF q
<1>6. QED
  BY <1>2, <1>4, <1>5 DEF IsProcessor, Restored, q

LEMMA BookMarked ==
    ASSUME NEW book, IsBook(book)
    PROVE  IsBook([book EXCEPT !.emitted = TRUE]) /\ [book EXCEPT !.emitted = TRUE].emitted
<1>1. PICK i \in BOOLEAN : \E l, t, m :
          book = [known |-> TRUE, initialized |-> i, levels |-> l, tick |-> t, emitted |-> m]
  BY Zenon DEF IsBook
<1>2. PICK l, t, m : book = [known |-> TRUE, initialized |-> i, levels |-> l, tick |-> t, emitted |-> m]
  BY <1>1
<1> DEFINE next == [book EXCEPT !.emitted = TRUE]
<1>n. next = [book EXCEPT !.emitted = TRUE]
  OBVIOUS
<1> HIDE DEF next
<1>3. next = [known |-> TRUE, initialized |-> i, levels |-> l, tick |-> t, emitted |-> TRUE]
  BY <1>2, <1>n
<1>4. next.known = TRUE /\ next.initialized = i /\ next.levels = l /\ next.tick = t /\ next.emitted = TRUE
  BY <1>3
<1>5. next = [known |-> TRUE, initialized |-> next.initialized, levels |-> next.levels,
              tick |-> next.tick, emitted |-> next.emitted]
  BY <1>3, <1>4
<1>6. QED
  BY <1>4, <1>5 DEF IsBook, next

LEMMA OverStays ==
    ASSUME NEW log, NEW x, NEW z, Follows(log, x, z), NEW s, NEW f, Over(log, s, x, f)
    PROVE  Over(log, s, z, f)
  BY DEF Over, Follows

\* A late event is followed by none that is not late.
LEMMA LateAfter ==
    ASSUME StreamsInOrder, NEW log, IsLog(log), NEW x \in Places(log), Late(At(log, x)),
           NEW f \in Int, f > x[1]
    PROVE  LateFrom(At(log, x).stream, f)
<1> DEFINE s == At(log, x).stream
<1>1. At(log, x) \in RawEvents /\ x[1] \in Files /\ x[1] \in Int /\ x[2] \in 1..Len(log[x[1]])
  BY PlaceFacts, FilesFacts
<1>2. PICK here \in Contents[x[1]] : log[x[1]] = here.events
  <2>1. Len(log[x[1]]) \in Nat
    BY <1>1, LogFacts
  <2>2. log[x[1]] # <<>>
    BY <1>1, <2>1
  <2>3. QED
    BY <1>1, <2>2 DEF IsLog
<1>3. x[2] \in DOMAIN here.events /\ here.events[x[2]] = At(log, x)
  BY <1>1, <1>2, LogFacts DEF At
<1>4. WindowEnd[s] \in Int /\ Horizon \in Int /\ At(log, x).recv \in Int
  BY <1>1, ArchiveBooksConstants DEF RawEvents
<1>5. SUFFICES ASSUME NEW g \in Files, g >= f, NEW content \in Contents[g], NEW i \in DOMAIN content.events,
                      content.events[i].stream = s
               PROVE  Late(content.events[i])
  BY DEF LateFrom
<1>6. g \in Int /\ x[1] < g
  BY <1>1, <1>5, FilesFacts
<1>7. At(log, x).recv <= content.events[i].recv
  BY <1>1, <1>3, <1>5, <1>6 DEF StreamsInOrder
<1>8. content.events[i].recv \in Int
  <2>1. content.events \in Seq(RawEvents)
    BY ArchiveContents
  <2>2. content.events[i] \in RawEvents
    BY <2>1
  <2>3. QED
    BY <2>2 DEF RawEvents
<1>9. QED
  BY <1>4, <1>5, <1>7, <1>8 DEF Late

LEMMA LateIsOver ==
    ASSUME StreamsInOrder, NEW log, IsLog(log), NEW x, NEW z, Follows(log, x, z), Late(At(log, x)),
           NEW f \in Int, f > x[1]
    PROVE  Over(log, At(log, x).stream, z, f)
<1> DEFINE s == At(log, x).stream
<1>1. x \in Places(log) /\ At(log, x) \in RawEvents /\ x \in Pairs
  BY PlaceFacts DEF Follows
<1>2. LateFrom(s, f)
  BY <1>1, LateAfter
<1>3. ASSUME NEW y \in Places(log), ~Before(y, z), At(log, y).stream = s PROVE Late(At(log, y))
  <2>1. y \in Pairs /\ ~Before(y, x) /\ y # x /\ At(log, y) \in RawEvents
    BY <1>3, PlaceFacts DEF Follows
  <2>2. Before(x, y)
    BY <1>1, <2>1, BeforeFacts
  <2>3. At(log, x).recv <= At(log, y).recv
    BY <1>1, <1>3, <2>2, LogOrder
  <2>4. WindowEnd[s] \in Int /\ Horizon \in Int /\ At(log, x).recv \in Int /\ At(log, y).recv \in Int
    BY <1>1, <2>1, ArchiveBooksConstants DEF RawEvents
  <2>5. QED
    BY <1>3, <2>3, <2>4 DEF Late
<1>4. QED
  BY <1>2, <1>3 DEF Over

LEMMA BooksGoOn ==
    ASSUME NEW log, IsLog(log), NEW x, NEW z, Follows(log, x, z), NEW warmups, NEW f,
           NEW books, BooksRight(books, log, warmups, x, f), NEW next,
           \A t \in Streams \ {At(log, x).stream} : next[t] = books[t],
           \/ Over(log, At(log, x).stream, z, f)
           \/ BookRight(next[At(log, x).stream], log, warmups, At(log, x).stream, z)
    PROVE  BooksRight(next, log, warmups, z, f)
<1> SUFFICES ASSUME NEW s \in Streams
             PROVE  Over(log, s, z, f) \/ BookRight(next[s], log, warmups, s, z)
  BY DEF BooksRight
<1>1. CASE s = At(log, x).stream
  BY <1>1
<1>2. CASE s # At(log, x).stream
  <2>1. Over(log, s, x, f) \/ BookRight(books[s], log, warmups, s, x)
    BY DEF BooksRight
  <2>2. QED
    BY <1>2, <2>1, OverStays, OtherStream
<1>3. QED
  BY <1>1, <1>2

(***************************************************************************)
(* An event goes through the processor: as one of a file that is imported, *)
(* or of one that is only read and counts as committed if its rows do.     *)
(***************************************************************************)

LEMMA ProcessRight ==
    ASSUME StreamsInOrder, NEW log, IsLog(log), NEW x, NEW z, Follows(log, x, z), NEW warmups \in Int,
           NEW f \in Int, f > x[1],
           NEW p, IsProcessor(p), BooksRight(p.books, log, warmups, x, f),
           NEW writable \in BOOLEAN, NEW committed \in BOOLEAN,
           writable => ~committed /\ x[1] > warmups, ~writable => (committed <=> x[1] > warmups)
    PROVE  LET out == Process(p, At(log, x), writable, committed)
               q == out.processor
           IN  /\ IsProcessor(q) /\ q.logging = p.logging
               /\ BooksRight(q.books, log, warmups, z, f)
               /\ writable => out.rows = RowsFor(log, warmups, x)
               /\ p.logging => \A t \in Streams :
                      \/ Restored(q)[t] = Restored(p)[t]
                      \/ t = At(log, x).stream /\ Late(At(log, x))
<1> DEFINE e == At(log, x)
           s == e.stream
           out == Process(p, e, writable, committed)
           Rest(t) == Restored(out.processor)[t] = Restored(p)[t]
<1>0. x \in Places(log) /\ e \in RawEvents /\ s \in Streams /\ x \in Pairs
  BY PlaceFacts DEF Follows, RawEvents
<1>1. CASE Late(e)
  <2> DEFINE q == [p EXCEPT !.books[s] = NoBook]
  <2>1. out = [processor |-> q, rows |-> <<>>]
    BY <1>1 DEF Process
  <2>q. /\ IsProcessor(q) /\ q.logging = p.logging
        /\ \A t \in Streams \ {s} : q.books[t] = p.books[t] /\ Restored(q)[t] = Restored(p)[t]
    BY <1>0, DropFacts
  <2> HIDE DEF q
  <2>2. /\ IsProcessor(out.processor) /\ out.processor.logging = p.logging /\ out.rows = <<>>
        /\ \A t \in Streams \ {s} : out.processor.books[t] = p.books[t] /\ Rest(t)
    BY <2>1, <2>q
  <2> HIDE DEF out
  <2>3. Over(log, s, z, f)
    BY <1>1, LateIsOver
  <2>4. BooksRight(out.processor.books, log, warmups, z, f)
    BY <2>2, <2>3, BooksGoOn
  <2>5. RowsFor(log, warmups, x) = <<>>
    BY <1>1 DEF RowsFor, Due
  <2>6. QED
    BY <1>1, <2>2, <2>4, <2>5 DEF out
<1>2. CASE ~Late(e)
  <2> DEFINE q == IF p.books[s].known THEN p ELSE SetBook(p, s, NewBook)
             b == q.books[s]
             marks == InWindow(e) /\ committed /\ (b.initialized \/ e.type = "book")
             r == IF marks THEN SetBook(q, s, [b EXCEPT !.emitted = TRUE]) ELSE q
             c == r.books[s]
             Goes(o) == /\ IsProcessor(o) /\ o.logging = p.logging
                        /\ \A t \in Streams \ {s} : o.books[t] = p.books[t]
                        /\ p.logging => Restored(o) = Restored(p)
  <2>1. out = IF c.emitted THEN [processor |-> r, rows |-> IF InWindow(e) /\ writable THEN <<EventRow(e)>> ELSE <<>>]
              ELSE IF ~(InWindow(e) /\ writable) THEN [processor |-> SetBook(r, s, ApplyEvent(c, e)), rows |-> <<>>]
              ELSE IF e.type # "book" /\ ~c.initialized THEN [processor |-> r, rows |-> <<>>]
              ELSE [processor |-> SetBook(r, s, [ApplyEvent(c, e) EXCEPT !.emitted = TRUE]),
                    rows      |-> IF e.type = "book" THEN <<EventRow(e)>> ELSE <<SyntheticRow(e, c), EventRow(e)>>]
    BY <1>2 DEF Process
  <2>2. SUFFICES /\ Goes(out.processor)
                 /\ Followed(out.processor.books[s], log, warmups, s, z)
                 /\ writable => out.rows = RowsFor(log, warmups, x)
    <3> HIDE DEF out
    <3>1. SUFFICES ASSUME /\ Goes(out.processor)
                          /\ Followed(out.processor.books[s], log, warmups, s, z)
                          /\ writable => out.rows = RowsFor(log, warmups, x)
                   PROVE  /\ IsProcessor(out.processor) /\ out.processor.logging = p.logging
                          /\ BooksRight(out.processor.books, log, warmups, z, f)
                          /\ writable => out.rows = RowsFor(log, warmups, x)
                          /\ p.logging => \A t \in Streams : Rest(t)
      BY DEF out
    <3>2. BookRight(out.processor.books[s], log, warmups, s, z)
      BY <3>1, DueNext DEF BookRight
    <3>3. QED
      BY <3>1, <3>2, BooksGoOn
  <2> HIDE DEF out
  \* The book there is, or a new one.
  <2>3. Goes(q) /\ Followed(b, log, warmups, s, x)
    <3>1. BookRight(p.books[s], log, warmups, s, x)
      <4>1. ~Over(log, s, x, f)
        BY <1>0, <1>2, BeforeFacts DEF Over
      <4>2. QED
        BY <1>0, <4>1 DEF BooksRight
    <3>2. CASE Past(log, s, EventTypes, x) = {}
      <4>1. p.books[s] = NoBook
        BY <3>1, <3>2 DEF BookRight
      <4>2. q = SetBook(p, s, NewBook)
        BY <4>1 DEF NoBook
      <4>3. Goes(q) /\ b = NewBook
        BY <1>0, <4>2, SetBookFacts
      <4>4. QED
        BY <3>2, <4>3, NewFollowed
    <3>3. CASE Past(log, s, EventTypes, x) # {}
      <4>1. Followed(p.books[s], log, warmups, s, x)
        BY <3>1, <3>3 DEF BookRight
      <4>2. p.books[s].known
        BY <4>1 DEF Followed, IsBook
      <4>3. q = p
        BY <4>2
      <4>4. QED
        BY <4>1, <4>3
    <3>4. QED
      BY <3>2, <3>3
  <2> HIDE DEF q
  <2>4. /\ IsBook(b) /\ b.emitted \in BOOLEAN /\ b.initialized \in BOOLEAN
        /\ b.emitted <=> SomeDue(log, warmups, s, x)
        /\ ~b.emitted => KeptUp(b, log, warmups, s, x)
    BY <2>3 DEF Followed, IsBook
  <2>5. ~b.emitted => (BookKnown(log, x) <=> b.initialized \/ e.type = "book")
    BY <2>4, EarlierIsPast DEF KeptUp, BookKnown
  <2>6. /\ SomeDue(log, warmups, s, z) <=> SomeDue(log, warmups, s, x) \/ Due(log, warmups, x)
        /\ FirstDue(log, warmups, x) <=> ~SomeDue(log, warmups, s, x)
        /\ SomeDue(log, warmups, s, x) => BookKnown(log, x)
    BY DueNext
  <2>7. Due(log, warmups, x) <=> x[1] > warmups /\ InWindow(e) /\ BookKnown(log, x)
    BY <1>2 DEF Due
  \* It is marked as emitted by an event that counts as committed.
  <2>8. Goes(r) /\ (marks => IsBook(c) /\ c.emitted) /\ (~marks => c = b)
    <3>1. CASE marks
      <4>1. r = SetBook(q, s, [b EXCEPT !.emitted = TRUE])
        BY <3>1
      <4>2. Goes(r) /\ c = [b EXCEPT !.emitted = TRUE]
        <5> HIDE DEF b
        <5>1. QED
          BY <1>0, <2>3, <4>1, SetBookFacts
      <4>3. IsBook([b EXCEPT !.emitted = TRUE]) /\ [b EXCEPT !.emitted = TRUE].emitted
        BY <2>4, BookMarked
      <4>4. QED
        BY <3>1, <4>2, <4>3
    <3>2. CASE ~marks
      BY <2>3, <3>2
    <3>3. QED
      BY <3>1, <3>2
  <2> HIDE DEF b, r
  <2>9. CASE c.emitted
    <3>1. out.processor = r /\ out.rows = IF InWindow(e) /\ writable THEN <<EventRow(e)>> ELSE <<>>
      BY <2>1, <2>9
    <3>2. IsBook(c) /\ (b.emitted \/ marks)
      BY <2>4, <2>8, <2>9
    <3>3. SomeDue(log, warmups, s, z)
      BY <2>4, <2>5, <2>6, <2>7, <3>2
    <3>4. Followed(c, log, warmups, s, z)
      BY <2>9, <3>2, <3>3 DEF Followed
    <3>5. ASSUME writable PROVE out.rows = RowsFor(log, warmups, x)
      <4>1. ~committed /\ x[1] > warmups
        BY <3>5
      <4>2. b.emitted
        BY <3>2, <4>1
      <4>3. ~FirstDue(log, warmups, x) /\ (Due(log, warmups, x) <=> InWindow(e))
        BY <2>4, <2>6, <2>7, <4>1, <4>2
      <4>4. QED
        BY <3>1, <3>5, <4>3 DEF RowsFor
    <3>6. QED
      BY <2>8, <3>1, <3>4, <3>5
  <2>10. CASE ~c.emitted
    <3>1. ~marks /\ c = b /\ ~b.emitted /\ ~SomeDue(log, warmups, s, x) /\ KeptUp(b, log, warmups, s, x)
      BY <2>4, <2>8, <2>10
    <3>2. CASE ~(InWindow(e) /\ writable)
      <4>1. out.processor = SetBook(r, s, ApplyEvent(b, e)) /\ out.rows = <<>>
        BY <2>1, <2>10, <3>1, <3>2
      <4>2. ~Due(log, warmups, x)
        BY <2>5, <2>7, <3>1, <3>2
      <4>3. Goes(out.processor) /\ out.processor.books[s] = ApplyEvent(b, e)
        BY <1>0, <2>8, <4>1, SetBookFacts
      <4>4. KeptUp(ApplyEvent(b, e), log, warmups, s, z)
        BY <2>4, <3>1, Applied
      <4>5. IsBook(ApplyEvent(b, e)) /\ ApplyEvent(b, e).emitted = b.emitted
        BY <2>4, ApplyFacts
      <4>6. Followed(ApplyEvent(b, e), log, warmups, s, z)
        BY <2>6, <3>1, <4>2, <4>4, <4>5 DEF Followed
      <4>7. QED
        BY <4>1, <4>2, <4>3, <4>6 DEF RowsFor
    <3>3. CASE InWindow(e) /\ writable /\ e.type # "book" /\ ~b.initialized
      <4>1. out.processor = r /\ out.rows = <<>>
        BY <2>1, <2>10, <3>1, <3>3
      <4>2. Missed(log, warmups, x) /\ ~Due(log, warmups, x)
        BY <2>5, <2>7, <3>1, <3>3 DEF Missed
      <4>3. KeptUp(b, log, warmups, s, z)
        BY <2>4, <3>1, <3>3, <4>2, NotApplied
      <4>4. Followed(b, log, warmups, s, z)
        BY <2>4, <2>6, <3>1, <4>2, <4>3 DEF Followed
      <4>5. QED
        BY <2>8, <3>1, <4>1, <4>2, <4>4 DEF RowsFor
    <3>4. CASE InWindow(e) /\ writable /\ (e.type = "book" \/ b.initialized)
      <4> DEFINE a == ApplyEvent(b, e)
                 m == [a EXCEPT !.emitted = TRUE]
      <4>1. /\ out.processor = SetBook(r, s, m)
            /\ out.rows = IF e.type = "book" THEN <<EventRow(e)>> ELSE <<SyntheticRow(e, b), EventRow(e)>>
        BY <2>1, <2>10, <3>1, <3>4
      <4>2. Due(log, warmups, x) /\ FirstDue(log, warmups, x)
        BY <2>5, <2>6, <2>7, <3>1, <3>4
      <4> HIDE DEF m
      <4>3. Goes(out.processor) /\ out.processor.books[s] = m
        BY <1>0, <2>8, <4>1, SetBookFacts
      <4>4. IsBook(m) /\ m.emitted
        BY <2>4, ApplyFacts, BookMarked DEF m
      <4>5. Followed(m, log, warmups, s, z)
        BY <2>6, <4>2, <4>4 DEF Followed
      <4>6. ASSUME e.type # "book" PROVE SyntheticRow(e, b) = ShowingRow(log, x)
        <5>1. b.initialized
          BY <3>4, <4>6
        <5>2. b.levels = Shown(log, x)
          BY <3>1, <5>1, EarlierIsPast DEF KeptUp
        <5>3. b.tick = TickShown(log, x)
          BY <1>0, <1>2, <3>1, <3>4, <5>1, TickIsShown
        <5>4. QED
          BY <5>2, <5>3 DEF SyntheticRow, ShowingRow
      <4>7. out.rows = RowsFor(log, warmups, x)
        BY <4>1, <4>2, <4>6 DEF RowsFor
      <4>8. QED
        BY <4>3, <4>5, <4>7
    <3>5. QED
      BY <2>4, <3>2, <3>3, <3>4
  <2>11. c.emitted \in BOOLEAN
    BY <2>4, <2>8
  <2>12. QED
    BY <2>9, <2>10, <2>11
<1>3. QED
  BY <1>1, <1>2

(***************************************************************************)
(* The rows of a file, one event after the other                           *)
(***************************************************************************)

RowsAt(log, warmups, places) ==
    LET due == {x \in places : Due(log, warmups, x)}
        showing == {x \in due : FirstDue(log, warmups, x) /\ At(log, x).type # "book"}
    IN  {EventRow(At(log, x)) : x \in due} \cup {ShowingRow(log, x) : x \in showing}

\* The rows of the file that x is in, up to x.
InFile(log, x) == {y \in Upto(log, x) : y[1] = x[1]}
RowsBefore(log, warmups, x) == RowsAt(log, warmups, InFile(log, x))

LEMMA RowsOfFile ==
    ASSUME NEW log, NEW warmups, NEW f
    PROVE  RowsOf(log, warmups, f) = RowsAt(log, warmups, {x \in Places(log) : x[1] = f})
<1> DEFINE due == {x \in Places(log) : x[1] = f /\ Due(log, warmups, x)}
           also == {x \in {x \in Places(log) : x[1] = f} : Due(log, warmups, x)}
<1>1. due = also
  OBVIOUS
<1>2. RowsOf(log, warmups, f) =
          {EventRow(At(log, x)) : x \in due}
            \cup {ShowingRow(log, x) : x \in {x \in due : FirstDue(log, warmups, x) /\ At(log, x).type # "book"}}
  BY DEF RowsOf, ShowingRow
<1>3. RowsAt(log, warmups, {x \in Places(log) : x[1] = f}) =
          {EventRow(At(log, x)) : x \in also}
            \cup {ShowingRow(log, x) : x \in {x \in also : FirstDue(log, warmups, x) /\ At(log, x).type # "book"}}
  BY DEF RowsAt
<1> HIDE DEF due, also
<1>4. QED
  BY <1>1, <1>2, <1>3

\* No two events of a file are alike.
LEMMA LogDiffers ==
    ASSUME NEW log, IsLog(log), NEW x \in Places(log), NEW y \in Places(log), x[1] = y[1], At(log, x) = At(log, y)
    PROVE  x = y
<1>1. /\ x \in Pairs /\ y \in Pairs /\ x[1] \in Files
      /\ x[2] \in DOMAIN log[x[1]] /\ y[2] \in DOMAIN log[x[1]] /\ log[x[1]] # <<>>
  BY PlaceFacts, LogFacts
<1>2. PICK content \in Contents[x[1]] : log[x[1]] = content.events
  BY <1>1 DEF IsLog
<1>3. IsInjective(log[x[1]])
  BY <1>1, <1>2, ArchiveContents
<1>4. x[2] = y[2]
  BY <1>1, <1>3 DEF IsInjective, At
<1>5. QED
  BY <1>1, <1>4 DEF Pairs

\* A book that is shown shows something.
LEMMA ShownFacts ==
    ASSUME NEW log, IsLog(log), NEW x, BookKnown(log, x), At(log, x).type # "book"
    PROVE  Shown(log, x) # <<>> /\ ShowingRow(log, x) # EventRow(At(log, x))
<1> DEFINE s == At(log, x).stream
           books == Past(log, s, {"book"}, x)
           live == Live(log, s, x)
<1>1. books # {} /\ books \in SUBSET Pairs /\ IsFiniteSet(books)
  BY EarlierIsPast, PastFacts DEF BookKnown
<1>2. PICK b \in books : \A y \in books : y # b => Before(y, b)
  <2> HIDE DEF books
  <2>1. QED
    BY <1>1, HasLast
<1>3. \A y \in books : ~Before(b, y)
  <2> SUFFICES ASSUME NEW y \in books, Before(b, y) PROVE FALSE
    OBVIOUS
  <2>1. y \in Pairs /\ b \in Pairs /\ (y = b \/ Before(y, b))
    BY <1>1, <1>2
  <2> HIDE DEF books
  <2>2. QED
    BY <2>1, BeforeFacts
<1>4. b \in live
  <2>1. b \in Past(log, s, {"book", "change"}, x)
    BY DEF Past
  <2>2. QED
    BY <1>3, <2>1 DEF Live
<1>5. /\ live \in SUBSET Pairs /\ IsFiniteSet(live) /\ Shown(log, x) = Listing(log, live)
  BY PastFacts, EarlierIsPast
<1> HIDE DEF live
<1>6. Cardinality(live) \in Nat /\ Cardinality(live) # 0
  BY <1>4, <1>5, FS_EmptySet, FS_CardinalityType
<1>7. DOMAIN Listing(log, live) = 1..Cardinality(live)
  BY <1>5, ListingIsList
<1>8. 1 \in DOMAIN Shown(log, x)
  BY <1>5, <1>6, <1>7
<1>9. DOMAIN <<>> = {}
  OBVIOUS
<1>10. Shown(log, x) # <<>>
  BY <1>8, <1>9
<1>11. ShowingRow(log, x).shows = Shown(log, x) /\ EventRow(At(log, x)).shows = <<>>
  BY DEF ShowingRow, EventRow
<1>12. QED
  BY <1>10, <1>11

LEMMA SetBagFacts ==
    ASSUME NEW S
    PROVE  IsBag(SetToBag(S)) /\ \A r : Count(r, SetToBag(S)) = IF r \in S THEN 1 ELSE 0
  BY DEF IsBag, SetToBag, Count

LEMMA TimesShort ==
    ASSUME NEW a, NEW b, NEW r
    PROVE  /\ Times(r, <<a>>) = IF a = r THEN 1 ELSE 0
           /\ Times(r, <<a, b>>) = (IF a = r THEN 1 ELSE 0) + (IF b = r THEN 1 ELSE 0)
<1>1. Listed(<<>>) /\ Listed(<<a>>)
  BY ShortLists
<1>0. Append(<<>>, a) = <<a>> /\ Append(<<a>>, b) = <<a, b>>
  <2>1. Append(<<>>, a) = <<a>>
    OBVIOUS
  <2> DEFINE s == Append(<<a>>, b)
             t == <<a, b>>
  <2>2. Listed(s) /\ Len(s) = 2 /\ s[1] = a /\ s[2] = b
    BY <1>1, AppendFacts
  <2>3. Listed(t) /\ Len(t) = 2 /\ t[1] = a /\ t[2] = b
    BY ShortLists
  <2> HIDE DEF s, t
  <2>4. s = t
    BY <2>2, <2>3, SameList
  <2>5. QED
    BY <2>1, <2>4 DEF s, t
<1>2. Times(r, Append(<<>>, a)) = Times(r, <<>>) + (IF a = r THEN 1 ELSE 0)
  BY <1>1, TimesAppend
<1>3. Times(r, Append(<<a>>, b)) = Times(r, <<a>>) + (IF b = r THEN 1 ELSE 0)
  BY <1>1, TimesAppend
<1>4. Times(r, <<a>>) = Times(r, <<>>) + (IF a = r THEN 1 ELSE 0)
  BY <1>0, <1>2
<1>5. Times(r, <<a, b>>) = Times(r, <<a>>) + (IF b = r THEN 1 ELSE 0)
  BY <1>0, <1>3
<1>6. Times(r, <<>>) = 0
  BY TimesEmpty
<1>7. QED
  BY <1>4, <1>5, <1>6

\* New rows, no two of them alike.
LEMMA BagGrows ==
    ASSUME NEW R
    PROVE  /\ SetToBag(R) (+) BagOf(<<>>) = SetToBag(R)
           /\ \A a : a \notin R => SetToBag(R) (+) BagOf(<<a>>) = SetToBag(R \cup {a})
           /\ \A a, b : a \notin R /\ b \notin R /\ a # b =>
                  SetToBag(R) (+) BagOf(<<a, b>>) = SetToBag(R \cup {a, b})
<1>1. \A S : IsBag(SetToBag(S)) /\ \A r : Count(r, SetToBag(S)) = IF r \in S THEN 1 ELSE 0
  BY SetBagFacts
<1>2. ASSUME NEW s, Listed(s), NEW S, \A r : Times(r, s) = IF r \in S \ R THEN 1 ELSE 0, R \subseteq S
      PROVE  SetToBag(R) (+) BagOf(s) = SetToBag(S)
  <2>1. IsBag(BagOf(s)) /\ \A r : Count(r, BagOf(s)) = Times(r, s)
    BY <1>2, BagOfFacts
  <2>2. /\ IsBag(SetToBag(R) (+) BagOf(s))
        /\ \A r : Count(r, SetToBag(R) (+) BagOf(s)) = Count(r, SetToBag(R)) + Count(r, BagOf(s))
    BY <1>1, <2>1, BagSumFacts
  <2>3. \A r : Count(r, SetToBag(R) (+) BagOf(s)) = Count(r, SetToBag(S))
    BY <1>1, <1>2, <2>1, <2>2
  <2>4. QED
    BY <1>1, <2>2, <2>3, SameBag
<1>3. SetToBag(R) (+) BagOf(<<>>) = SetToBag(R)
  BY <1>2, ShortLists, TimesEmpty
<1>4. ASSUME NEW a, a \notin R PROVE SetToBag(R) (+) BagOf(<<a>>) = SetToBag(R \cup {a})
  <2>1. \A r : Times(r, <<a>>) = IF r \in (R \cup {a}) \ R THEN 1 ELSE 0
    BY <1>4, TimesShort
  <2>2. QED
    BY <1>2, <2>1, ShortLists
<1>5. ASSUME NEW a, NEW b, a \notin R, b \notin R, a # b
      PROVE  SetToBag(R) (+) BagOf(<<a, b>>) = SetToBag(R \cup {a, b})
  <2>1. ASSUME NEW r PROVE Times(r, <<a, b>>) = IF r \in (R \cup {a, b}) \ R THEN 1 ELSE 0
    <3>1. Times(r, <<a, b>>) = (IF a = r THEN 1 ELSE 0) + (IF b = r THEN 1 ELSE 0)
      BY TimesShort
    <3>2. QED
      BY <1>5, <3>1
  <2>2. QED
    BY <1>2, <2>1, ShortLists
<1>6. QED
  BY <1>3, <1>4, <1>5

LEMMA RowsNext ==
    ASSUME NEW log, IsLog(log), NEW x, NEW z, Follows(log, x, z), x[1] = z[1], NEW warmups
    PROVE  SetToBag(RowsBefore(log, warmups, x)) (+) BagOf(RowsFor(log, warmups, x))
               = SetToBag(RowsBefore(log, warmups, z))
<1> DEFINE S == InFile(log, x)
           R == RowsAt(log, warmups, S)
           a == EventRow(At(log, x))
           b == ShowingRow(log, x)
           Shows(y) == FirstDue(log, warmups, y) /\ At(log, y).type # "book"
<1>1. x \in Places(log) /\ x \in Pairs /\ S \subseteq Places(log) /\ x \notin S
  BY PlaceFacts, BeforeFacts DEF Follows, InFile, Upto
<1>2. InFile(log, z) = S \cup {x}
  BY DEF Follows, InFile, Upto
<1>3. \A y \in S : At(log, y) # At(log, x)
  BY <1>1, LogDiffers DEF InFile
<1>4. \A r \in R : \E y \in S : r.of = At(log, y)
  <2>1. \A y : EventRow(At(log, y)).of = At(log, y) /\ ShowingRow(log, y).of = At(log, y)
    BY DEF EventRow, ShowingRow
  <2> HIDE DEF S
  <2>2. QED
    BY <2>1 DEF RowsAt
<1>5. a \notin R /\ b \notin R
  <2>1. a.of = At(log, x) /\ b.of = At(log, x)
    BY DEF EventRow, ShowingRow
  <2> HIDE DEF a, b, R, S
  <2>2. QED
    BY <1>3, <1>4, <2>1
<1>6. RowsAt(log, warmups, S \cup {x}) =
          R \cup (IF Due(log, warmups, x) THEN {a} ELSE {})
            \cup (IF Due(log, warmups, x) /\ Shows(x) THEN {b} ELSE {})
  <2> HIDE DEF S
  <2> DEFINE due(T) == {y \in T : Due(log, warmups, y)}
             showing(T) == {y \in due(T) : Shows(y)}
             T == S \cup {x}
  <2>1. /\ RowsAt(log, warmups, T) =
                {EventRow(At(log, y)) : y \in due(T)} \cup {ShowingRow(log, y) : y \in showing(T)}
        /\ RowsAt(log, warmups, S) =
                {EventRow(At(log, y)) : y \in due(S)} \cup {ShowingRow(log, y) : y \in showing(S)}
    BY DEF RowsAt
  <2>2. /\ due(T) = due(S) \cup (IF Due(log, warmups, x) THEN {x} ELSE {})
        /\ showing(T) = showing(S) \cup (IF Due(log, warmups, x) /\ Shows(x) THEN {x} ELSE {})
    OBVIOUS
  <2> HIDE DEF due, showing, Shows
  <2>3. {EventRow(At(log, y)) : y \in due(T)} =
            {EventRow(At(log, y)) : y \in due(S)} \cup (IF Due(log, warmups, x) THEN {a} ELSE {})
    BY <2>2
  <2>4. {ShowingRow(log, y) : y \in showing(T)} =
            {ShowingRow(log, y) : y \in showing(S)}
              \cup (IF Due(log, warmups, x) /\ Shows(x) THEN {b} ELSE {})
    BY <2>2
  <2> HIDE DEF a, b
  <2>5. QED
    BY <2>1, <2>3, <2>4
<1>7. Due(log, warmups, x) /\ Shows(x) => a # b
  BY ShownFacts DEF Due
<1>8. RowsFor(log, warmups, x) = IF ~Due(log, warmups, x) THEN <<>>
                                 ELSE IF Shows(x) THEN <<b, a>> ELSE <<a>>
  BY DEF RowsFor
<1>9. RowsBefore(log, warmups, x) = R /\ RowsBefore(log, warmups, z) = RowsAt(log, warmups, S \cup {x})
  BY <1>2 DEF RowsBefore
<1> HIDE DEF a, b, R, S, Shows
<1>10. CASE ~Due(log, warmups, x)
  <2>1. RowsBefore(log, warmups, z) = R /\ RowsFor(log, warmups, x) = <<>>
    BY <1>6, <1>8, <1>9, <1>10
  <2>2. SetToBag(R) (+) BagOf(<<>>) = SetToBag(R)
    BY BagGrows
  <2>3. QED
    BY <1>9, <2>1, <2>2
<1>11. CASE Due(log, warmups, x) /\ Shows(x)
  <2>1. RowsBefore(log, warmups, z) = R \cup {b, a} /\ RowsFor(log, warmups, x) = <<b, a>>
    BY <1>6, <1>8, <1>9, <1>11
  <2>2. SetToBag(R) (+) BagOf(<<b, a>>) = SetToBag(R \cup {b, a})
    BY <1>5, <1>7, <1>11, BagGrows
  <2>3. QED
    BY <1>9, <2>1, <2>2
<1>12. CASE Due(log, warmups, x) /\ ~Shows(x)
  <2>1. RowsBefore(log, warmups, z) = R \cup {a} /\ RowsFor(log, warmups, x) = <<a>>
    BY <1>6, <1>8, <1>9, <1>12
  <2>2. SetToBag(R) (+) BagOf(<<a>>) = SetToBag(R \cup {a})
    BY <1>5, BagGrows
  <2>3. QED
    BY <1>9, <2>1, <2>2
<1>13. QED
  BY <1>10, <1>11, <1>12

\* Rows depend on nothing but the log up to where they are.
LEMMA SameRows ==
    ASSUME NEW log, IsLog(log), NEW other, IsLog(other), NEW x \in Pairs, NEW z \in Pairs, Alike(log, x, other, z),
           NEW warmups, NEW places, places \subseteq Upto(log, x)
    PROVE  RowsAt(log, warmups, places) = RowsAt(other, warmups, places)
<1> DEFINE due(l) == {y \in places : Due(l, warmups, y)}
           showing(l) == {y \in due(l) : FirstDue(l, warmups, y) /\ At(l, y).type # "book"}
<1>1. ASSUME NEW y \in places
      PROVE  /\ At(log, y) = At(other, y)
             /\ Due(log, warmups, y) <=> Due(other, warmups, y)
             /\ FirstDue(log, warmups, y) <=> FirstDue(other, warmups, y)
             /\ ShowingRow(log, y) = ShowingRow(other, y)
  <2>1. y \in Upto(log, x)
    OBVIOUS
  <2>2. QED
    BY <2>1, AlikeEvents DEF ShowingRow
<1>2. due(log) = due(other) /\ showing(log) = showing(other)
  BY <1>1
<1>3. \A l : RowsAt(l, warmups, places) = {EventRow(At(l, y)) : y \in due(l)} \cup {ShowingRow(l, y) : y \in showing(l)}
  BY DEF RowsAt
<1>4. (\A y \in due(other) : y \in places) /\ \A y \in showing(other) : y \in places
  OBVIOUS
<1> HIDE DEF due, showing
<1>5. /\ {EventRow(At(log, y)) : y \in due(log)} = {EventRow(At(other, y)) : y \in due(other)}
      /\ {ShowingRow(log, y) : y \in showing(log)} = {ShowingRow(other, y) : y \in showing(other)}
  BY <1>1, <1>2, <1>4
<1>6. QED
  BY <1>3, <1>5

(***************************************************************************)
(* From file to file                                                       *)
(***************************************************************************)

NothingFrom(log, f) == \A g \in Files : g >= f => log[g] = <<>>

\* The books are right where file f begins; g is the first that is not open.
BooksBefore(books, log, warmups, f, g) ==
    \A s \in Streams : LateFrom(s, g) \/ BookRight(books[s], log, warmups, s, <<f, 1>>)

SameUpTo(log, other, f) == \A g \in Files : g < f => other[g] = log[g]

LEMMA StepInFile ==
    ASSUME NEW log, IsLog(log), NEW f \in Files, NEW i \in 1..Len(log[f])
    PROVE  Follows(log, <<f, i>>, <<f, i + 1>>)
<1>1. f \in Int /\ i \in Int /\ <<f, i>> \in Places(log)
  BY FilesFacts, LogFacts, PlaceFacts
<1>2. <<f, i + 1>> \in Pairs
  BY <1>1 DEF Pairs
<1>3. ASSUME NEW y \in Places(log)
      PROVE  Before(y, <<f, i + 1>>) <=> y = <<f, i>> \/ Before(y, <<f, i>>)
  <2>1. PICK a \in Int, b \in Int : y = <<a, b>>
    BY PlaceFacts DEF Pairs
  <2>2. /\ Before(y, <<f, i + 1>>) <=> a < f \/ (a = f /\ b < i + 1)
        /\ Before(y, <<f, i>>) <=> a < f \/ (a = f /\ b < i)
        /\ y = <<f, i>> <=> a = f /\ b = i
    BY <2>1 DEF Before
  <2>3. QED
    BY <1>1, <2>2
<1>4. QED
  BY <1>1, <1>2, <1>3 DEF Follows

\* Before a file begins there are the files before it.
LEMMA UptoFile ==
    ASSUME NEW log, IsLog(log), NEW f \in Int
    PROVE  /\ <<f, 1>> \in Pairs
           /\ \A y \in Places(log) : /\ y[1] \in Int /\ y[1] \in Files
                                     /\ Before(y, <<f, 1>>) <=> y[1] < f
<1>1. <<f, 1>> \in Pairs
  BY DEF Pairs
<1>2. ASSUME NEW y \in Places(log)
      PROVE  y[1] \in Int /\ y[1] \in Files /\ (Before(y, <<f, 1>>) <=> y[1] < f)
  <2>1. y[1] \in Files /\ y[1] \in Int /\ y[2] \in 1..Len(log[y[1]])
    BY PlaceFacts, FilesFacts
  <2>2. Len(log[y[1]]) \in Nat
    BY <2>1, LogFacts
  <2>3. y[2] \in Int /\ y[2] >= 1
    BY <2>1, <2>2
  <2>4. QED
    BY <2>1, <2>3 DEF Before
<1>3. QED
  BY <1>1, <1>2

LEMMA AlikeBefore ==
    ASSUME NEW log, IsLog(log), NEW other, IsLog(other), NEW f \in Int, SameUpTo(log, other, f)
    PROVE  Alike(log, <<f, 1>>, other, <<f, 1>>)
<1>1. ASSUME NEW l, IsLog(l) PROVE Upto(l, <<f, 1>>) = {y \in Places(l) : y[1] < f}
  BY <1>1, UptoFile DEF Upto
<1>2. ASSUME NEW l, IsLog(l), NEW m, IsLog(m), SameUpTo(l, m, f), NEW y \in Places(l), y[1] < f
      PROVE  y \in Places(m) /\ At(l, y) = At(m, y)
  <2>1. y \in Pairs /\ y[1] \in Files /\ y[2] \in 1..Len(l[y[1]])
    BY <1>2, PlaceFacts
  <2>2. m[y[1]] = l[y[1]]
    BY <1>2, <2>1 DEF SameUpTo
  <2>3. QED
    BY <1>2, <2>1, <2>2, PlaceFacts DEF At
<1>3. SameUpTo(other, log, f)
  BY DEF SameUpTo
<1>4. \A y : y \in Places(log) /\ y[1] < f <=> y \in Places(other) /\ y[1] < f
  BY <1>2, <1>3
<1>5. Upto(log, <<f, 1>>) = Upto(other, <<f, 1>>)
  BY <1>1, <1>4
<1>6. \A y \in Upto(log, <<f, 1>>) : At(log, y) = At(other, y)
  BY <1>1, <1>2
<1>7. QED
  BY <1>5, <1>6 DEF Alike

\* Where a file ends the next one begins.
LEMMA AlikeNext ==
    ASSUME NEW log, IsLog(log), NEW f \in Files
    PROVE  /\ <<f, Len(log[f]) + 1>> \in Pairs /\ f + 1 \in Int
           /\ Alike(log, <<f, Len(log[f]) + 1>>, log, <<f + 1, 1>>)
<1>1. PICK n \in Nat : n = Len(log[f])
  BY LogFacts
<1>2. f \in Int /\ f + 1 \in Int
  BY FilesFacts
<1>3. <<f, n + 1>> \in Pairs
  BY <1>2 DEF Pairs
<1>4. ASSUME NEW y \in Places(log) PROVE Before(y, <<f, n + 1>>) <=> Before(y, <<f + 1, 1>>)
  <2>1. /\ y[1] \in Files /\ y[1] \in Int /\ y[2] \in 1..Len(log[y[1]])
        /\ Before(y, <<f + 1, 1>>) <=> y[1] < f + 1
    BY <1>2, PlaceFacts, UptoFile
  <2>2. Len(log[y[1]]) \in Nat
    BY <2>1, LogFacts
  <2>3. y[2] \in Int
    BY <2>1, <2>2
  <2>4. y[1] = f => y[2] <= n
    BY <1>1, <2>1, <2>2
  <2>5. Before(y, <<f, n + 1>>) <=> y[1] < f \/ (y[1] = f /\ y[2] < n + 1)
    BY DEF Before
  <2>6. QED
    BY <1>2, <2>1, <2>3, <2>4, <2>5
<1>5. Upto(log, <<f, n + 1>>) = Upto(log, <<f + 1, 1>>)
  BY <1>4 DEF Upto
<1>6. QED
  BY <1>1, <1>2, <1>3, <1>5 DEF Alike

LEMMA LateFurther ==
    ASSUME NEW s, NEW f \in Int, LateFrom(s, f)
    PROVE  LateFrom(s, f + 1)
<1>1. \A g \in Files : g >= f + 1 => g >= f
  BY FilesFacts
<1>2. QED
  BY <1>1 DEF LateFrom

LEMMA SameBooks ==
    ASSUME NEW log, IsLog(log), NEW other, IsLog(other), NEW f \in Int, SameUpTo(log, other, f),
           NEW g, NEW warmups, NEW books, BooksBefore(books, log, warmups, f, g)
    PROVE  BooksBefore(books, other, warmups, f, g)
<1>1. Alike(log, <<f, 1>>, other, <<f, 1>>) /\ <<f, 1>> \in Pairs
  BY AlikeBefore, UptoFile
<1>2. QED
  BY <1>1, AlikeRight DEF BooksBefore

\* A file is opened.
LEMMA BooksOpen ==
    ASSUME NEW log, IsLog(log), NEW other, IsLog(other), NEW f \in Files, SameUpTo(log, other, f),
           NothingFrom(other, f + 1), NEW content \in Contents[f], other[f] = content.events,
           NEW warmups, NEW books, BooksBefore(books, log, warmups, f, f)
    PROVE  BooksRight(books, other, warmups, <<f, 1>>, f + 1)
<1>1. f \in Int
  BY FilesFacts
<1>2. BooksBefore(books, other, warmups, f, f)
  BY <1>1, SameBooks
<1>3. ASSUME NEW s, LateFrom(s, f) PROVE Over(other, s, <<f, 1>>, f + 1)
  <2>1. LateFrom(s, f + 1)
    BY <1>1, <1>3, LateFurther
  <2>2. ASSUME NEW y \in Places(other), ~Before(y, <<f, 1>>), At(other, y).stream = s PROVE Late(At(other, y))
    <3>1. y[1] \in Int /\ y[1] \in Files /\ y[2] \in 1..Len(other[y[1]]) /\ ~(y[1] < f)
      BY <1>1, <2>2, UptoFile, PlaceFacts
    <3>2. y[1] = f
      <4>1. SUFFICES ASSUME y[1] >= f + 1 PROVE FALSE
        BY <1>1, <3>1
      <4>2. other[y[1]] = <<>>
        BY <3>1, <4>1 DEF NothingFrom
      <4>3. Len(<<>>) = 0
        OBVIOUS
      <4>4. QED
        BY <3>1, <4>2, <4>3
    <3>3. DOMAIN other[f] = 1..Len(other[f])
      BY LogFacts
    <3>4. y[2] \in DOMAIN content.events /\ At(other, y) = content.events[y[2]]
      BY <3>1, <3>2, <3>3 DEF At
    <3>5. QED
      BY <1>1, <1>3, <2>2, <3>4 DEF LateFrom
  <2>3. QED
    BY <2>1, <2>2 DEF Over
<1>4. QED
  BY <1>2, <1>3 DEF BooksBefore, BooksRight

\* Its end is reached.
LEMMA BooksClose ==
    ASSUME NEW log, IsLog(log), NEW f \in Files, NEW warmups, NEW books,
           BooksRight(books, log, warmups, <<f, Len(log[f]) + 1>>, f + 1)
    PROVE  BooksBefore(books, log, warmups, f + 1, f + 1)
<1>1. f + 1 \in Int /\ <<f, Len(log[f]) + 1>> \in Pairs /\ <<f + 1, 1>> \in Pairs
      /\ Alike(log, <<f, Len(log[f]) + 1>>, log, <<f + 1, 1>>)
  BY AlikeNext, UptoFile
<1>2. QED
  BY <1>1, AlikeRight DEF BooksRight, BooksBefore, Over

\* It is skipped after all.
LEMMA BooksSkip ==
    ASSUME NEW log, IsLog(log), NEW other, IsLog(other), NEW f \in Files, SameUpTo(log, other, f),
           other[f] = <<>>, NEW warmups, NEW books, BooksBefore(books, log, warmups, f, f + 1)
    PROVE  BooksBefore(books, other, warmups, f + 1, f + 1)
<1>1. f \in Int
  BY FilesFacts
<1>2. BooksBefore(books, other, warmups, f, f + 1)
  BY <1>1, SameBooks
<1>3. Len(other[f]) = 0
  OBVIOUS
<1>4. f + 1 \in Int /\ <<f, 1>> \in Pairs /\ <<f + 1, 1>> \in Pairs
      /\ Alike(other, <<f, 1>>, other, <<f + 1, 1>>)
  <2>1. Len(other[f]) + 1 = 1
    BY <1>3
  <2>2. QED
    BY <1>1, <2>1, AlikeNext, UptoFile
<1>5. QED
  BY <1>2, <1>4, AlikeRight DEF BooksBefore

(***************************************************************************)
(* What ImportArchive does with the processor around a file                *)
(***************************************************************************)

LEMMA NewBooks ==
    /\ IsLog(NoEvents) /\ IsProcessor(NewProcessor) /\ \A f : NothingFrom(NoEvents, f)
    /\ \A warmups, f, g : BooksBefore(NewProcessor.books, NoEvents, warmups, f, g)
<1>1. IsLog(NoEvents) /\ \A f : NothingFrom(NoEvents, f)
  BY DEF IsLog, NoEvents, NothingFrom
<1>2. Places(NoEvents) = {}
  <2>1. \A f \in Files : Len(NoEvents[f]) = 0
    BY DEF NoEvents
  <2>2. \A y \in Places(NoEvents) : FALSE
    BY <1>1, <2>1, PlaceFacts
  <2>3. QED
    BY <2>2
<1>3. \A s, types, x : Past(NoEvents, s, types, x) = {}
  BY <1>2 DEF Past, Upto
<1>4. \A s \in Streams : NewProcessor.books[s] = NoBook
  BY DEF NewProcessor
<1>5. \A warmups, f, g : BooksBefore(NewProcessor.books, NoEvents, warmups, f, g)
  BY <1>3, <1>4 DEF BooksBefore, BookRight
<1>6. IsProcessor(NewProcessor)
  BY DEF IsProcessor, NewProcessor
<1>7. QED
  BY <1>1, <1>5, <1>6

\* The books that AdvanceWatermark drops have nothing to come but late events.
LEMMA AdvanceRight ==
    ASSUME StreamsInOrder, NEW log, NEW f \in Files, NEW warmups,
           NEW p, IsProcessor(p), BooksBefore(p.books, log, warmups, f, f)
    PROVE  LET q == Advance(p, FileHours[f]) IN
           IsProcessor(q) /\ BooksBefore(q.books, log, warmups, f, f)
<1> DEFINE q == Advance(p, FileHours[f])
           Gone(s) == FileHours[f] > WindowEnd[s] + Horizon
<1>1. PICK logging \in BOOLEAN : \E books, undo : p = [books |-> books, logging |-> logging, undo |-> undo]
  BY Zenon DEF IsProcessor
<1>p. PICK books, undo : p = [books |-> books, logging |-> logging, undo |-> undo]
  BY <1>1
<1>2. p.books = books /\ DOMAIN books = Streams
  BY <1>p DEF IsProcessor
<1> DEFINE kept == [s \in Streams |-> IF Gone(s) THEN NoBook ELSE books[s]]
<1>3. q = [books |-> kept, logging |-> logging, undo |-> undo]
  BY <1>p DEF Advance
<1>4. DOMAIN kept = Streams /\ \A s \in Streams : ~Gone(s) => kept[s] = books[s]
  OBVIOUS
<1> HIDE DEF q, kept
<1>5. q.books = kept /\ q.logging = logging /\ q.undo = undo
  BY <1>3
<1>6. IsProcessor(q)
  BY <1>3, <1>4, <1>5 DEF IsProcessor
<1>7. ASSUME NEW s \in Streams, Gone(s) PROVE LateFrom(s, f)
  <2>1. SUFFICES ASSUME NEW g \in Files, g >= f, NEW content \in Contents[g], NEW i \in DOMAIN content.events,
                        content.events[i].stream = s
                 PROVE  Late(content.events[i])
    BY DEF LateFrom
  <2>2. FileHours[g] <= content.events[i].recv
    BY <2>1 DEF StreamsInOrder
  <2>3. FileHours[f] \in Int /\ FileHours[g] \in Int /\ FileHours[f] <= FileHours[g]
    <3>1. FileHours[f] \in Int /\ FileHours[g] \in Int /\ f \in Int /\ g \in Int
      BY ArchiveImportConstants, FilesFacts DEF Files
    <3>2. f < g => FileHours[f] < FileHours[g]
      BY ArchiveImportConstants DEF Files
    <3>3. QED
      BY <2>1, <3>1, <3>2
  <2>4. content.events[i].recv \in Int
    <3>1. content.events \in Seq(RawEvents)
      BY ArchiveContents
    <3>2. content.events[i] \in RawEvents
      BY <3>1
    <3>3. QED
      BY <3>2 DEF RawEvents
  <2>5. WindowEnd[s] \in Int /\ Horizon \in Int
    BY ArchiveBooksConstants
  <2>6. QED
    BY <1>7, <2>1, <2>2, <2>3, <2>4, <2>5 DEF Late
<1>8. BooksBefore(q.books, log, warmups, f, f)
  BY <1>2, <1>4, <1>5, <1>7 DEF BooksBefore
<1>9. QED
  BY <1>6, <1>8 DEF q

\* From BeginFile on what the file does to the books can be undone.
LEMMA BeginRight ==
    ASSUME NEW log, NEW f \in Int, NEW warmups,
           NEW p, IsProcessor(p), BooksBefore(p.books, log, warmups, f, f)
    PROVE  LET q == BeginFile(p) IN
           /\ IsProcessor(q) /\ q.logging /\ BooksBefore(q.books, log, warmups, f, f)
           /\ BooksBefore(Restored(q), log, warmups, f, f + 1)
<1> DEFINE q == BeginFile(p)
<1>1. PICK books, logging, undo : p = [books |-> books, logging |-> logging, undo |-> undo]
  BY Zenon DEF IsProcessor
<1>2. p.books = books /\ DOMAIN books = Streams
  BY <1>1 DEF IsProcessor
<1>n. q = [p EXCEPT !.logging = TRUE, !.undo = <<>>]
  BY DEF BeginFile
<1> HIDE DEF q
<1>3. q = [books |-> books, logging |-> TRUE, undo |-> <<>>]
  BY <1>1, <1>n
<1>4. q.books = books /\ q.logging = TRUE /\ q.undo = <<>>
  BY <1>3
<1>5. IsProcessor(q) /\ BooksBefore(q.books, log, warmups, f, f)
  BY <1>2, <1>3, <1>4 DEF IsProcessor
<1>6. \A s \in Streams : Restored(q)[s] = books[s]
  BY <1>4 DEF Restored
<1>7. BooksBefore(Restored(q), log, warmups, f, f + 1)
  BY <1>2, <1>6, LateFurther DEF BooksBefore
<1>8. QED
  BY <1>4, <1>5, <1>7 DEF q

LEMMA CommitRight ==
    ASSUME NEW p, IsProcessor(p)
    PROVE  IsProcessor(CommitFile(p)) /\ CommitFile(p).books = p.books
<1>1. PICK books, logging, undo : p = [books |-> books, logging |-> logging, undo |-> undo]
  BY Zenon DEF IsProcessor
<1>2. p.books = books /\ DOMAIN books = Streams
  BY <1>1 DEF IsProcessor
<1> DEFINE q == CommitFile(p)
<1>n. q = [p EXCEPT !.logging = FALSE, !.undo = <<>>]
  BY DEF CommitFile
<1> HIDE DEF q
<1>3. q = [books |-> books, logging |-> FALSE, undo |-> <<>>]
  BY <1>1, <1>n
<1>4. q.books = books /\ q.logging = FALSE /\ q.undo = <<>>
  BY <1>3
<1>5. IsProcessor(q) /\ q.books = p.books
  BY <1>2, <1>3, <1>4 DEF IsProcessor
<1>6. QED
  BY <1>5 DEF q

LEMMA RollbackRight == ASSUME NEW p PROVE IsProcessor(RollbackFile(p)) /\ RollbackFile(p).books = Restored(p)
  BY DEF IsProcessor, RollbackFile, Restored

(***************************************************************************)
(* Files that are only read                                                *)
(***************************************************************************)

\* The processors of Warm, one for each number of events.
Warming(p, events, committed, n, after) ==
    after = [i \in 0..n |-> IF i = 0 THEN p
                            ELSE Process(after[i - 1], events[i], FALSE, committed).processor]

LEMMA WarmFacts ==
    ASSUME NEW p, NEW events, Len(events) \in Nat, NEW committed
    PROVE  \E after : /\ Warming(p, events, committed, Len(events), after)
                      /\ Warm(p, events, committed) = after[Len(events)]
<1> DEFINE N == Len(events)
           Next(q, i) == Process(q, events[i], FALSE, committed).processor
           Solves(after, n) == after = [i \in 0..n |-> IF i = 0 THEN p ELSE Next(after[i - 1], i)]
           Bad == {n \in Nat : ~\E after : Solves(after, n)}
<1>1. Bad = {}
  <2>1. SUFFICES ASSUME Bad # {} PROVE FALSE
    OBVIOUS
  <2>2. PICK n \in Bad : \A m \in Bad : n <= m
    <3>1. Bad \in SUBSET Nat
      OBVIOUS
    <3> HIDE DEF Bad
    <3>2. QED
      BY <2>1, <3>1, MinFacts
  <2>3. n \in Nat
    OBVIOUS
  <2>4. n # 0
    <3> SUFFICES ASSUME n = 0 PROVE FALSE
      OBVIOUS
    <3> DEFINE after == [i \in 0..0 |-> p]
    <3>1. Solves(after, 0)
      OBVIOUS
    <3>2. QED
      BY <3>1
  <2>5. n - 1 \in Nat /\ n - 1 \notin Bad
    <3>1. n - 1 \in Nat /\ ~(n <= n - 1)
      BY <2>3, <2>4
    <3> HIDE DEF Bad
    <3>2. QED
      BY <2>2, <3>1
  <2>6. PICK old : Solves(old, n - 1)
    BY <2>5
  <2> DEFINE after == [i \in 0..n |-> IF i = n THEN Next(old[n - 1], n) ELSE old[i]]
  <2>7. ASSUME NEW i \in 0..n PROVE after[i] = IF i = 0 THEN p ELSE Next(after[i - 1], i)
    <3> HIDE DEF Next
    <3>1. CASE i = n
      BY <2>3, <2>4, <3>1
    <3>2. CASE i # n
      <4>1. i \in 0..(n - 1) /\ i # n /\ i - 1 # n
        BY <2>3, <3>2
      <4>2. old[i] = IF i = 0 THEN p ELSE Next(old[i - 1], i)
        BY <2>6, <4>1
      <4>3. after[i] = old[i] /\ (i # 0 => after[i - 1] = old[i - 1])
        BY <2>3, <4>1
      <4> HIDE DEF after
      <4>4. QED
        BY <4>2, <4>3
    <3>3. QED
      BY <3>1, <3>2
  <2>8. after = [i \in 0..n |-> after[i]]
    OBVIOUS
  <2> HIDE DEF after, Next
  <2>9. Solves(after, n)
    BY <2>7, <2>8
  <2>10. QED
    BY <2>3, <2>9
<1>2. \E after : Solves(after, N)
  BY <1>1
<1> DEFINE chosen == CHOOSE after : Solves(after, N)
<1>3. Solves(chosen, N)
  <2> HIDE DEF Solves
  <2>1. QED
    BY <1>2
<1>4. Warm(p, events, committed) = chosen[N]
  BY DEF Warm
<1> HIDE DEF chosen
<1>5. QED
  BY <1>3, <1>4 DEF Warming

LEMMA WarmRight ==
    ASSUME StreamsInOrder, NEW log, IsLog(log), NEW f \in Files, NEW warmups \in Int,
           NEW p, IsProcessor(p), BooksRight(p.books, log, warmups, <<f, 1>>, f + 1),
           NEW committed \in BOOLEAN, committed <=> f > warmups
    PROVE  LET q == Warm(p, log[f], committed) IN
           IsProcessor(q) /\ BooksRight(q.books, log, warmups, <<f, Len(log[f]) + 1>>, f + 1)
<1>1. PICK N \in Nat : N = Len(log[f])
  BY LogFacts
<1>2. PICK after : Warming(p, log[f], committed, N, after) /\ Warm(p, log[f], committed) = after[N]
  BY <1>1, WarmFacts
<1> DEFINE Right(q, i) == IsProcessor(q) /\ BooksRight(q.books, log, warmups, <<f, i + 1>>, f + 1)
           Bad == {n \in 0..N : ~Right(after[n], n)}
<1>3. f \in Int /\ f + 1 \in Int /\ f + 1 > f
  BY FilesFacts
<1>4. after[0] = p /\ \A i \in 1..N : after[i] = Process(after[i - 1], log[f][i], FALSE, committed).processor
  <2> DEFINE Next(q, i) == Process(q, log[f][i], FALSE, committed).processor
  <2>1. after = [i \in 0..N |-> IF i = 0 THEN p ELSE Next(after[i - 1], i)]
    BY <1>2 DEF Warming
  <2>2. 0 \in 0..N /\ \A i \in 1..N : i \in 0..N /\ i # 0
    BY <1>1
  <2> HIDE DEF Next
  <2>3. after[0] = p /\ \A i \in 1..N : after[i] = Next(after[i - 1], i)
    BY <2>1, <2>2
  <2>4. QED
    BY <2>3 DEF Next
<1>5. ASSUME NEW i \in 1..N, Right(after[i - 1], i - 1) PROVE Right(after[i], i)
  <2>1. Follows(log, <<f, i>>, <<f, i + 1>>) /\ At(log, <<f, i>>) = log[f][i] /\ <<f, i>>[1] = f
    BY <1>1, StepInFile DEF At
  <2>2. i \in Int /\ i - 1 + 1 = i
    OBVIOUS
  <2>3. IsProcessor(after[i - 1]) /\ BooksRight(after[i - 1].books, log, warmups, <<f, i>>, f + 1)
    BY <1>5, <2>2
  <2>4. LET q == Process(after[i - 1], At(log, <<f, i>>), FALSE, committed).processor IN
        IsProcessor(q) /\ BooksRight(q.books, log, warmups, <<f, i + 1>>, f + 1)
    BY <1>3, <2>1, <2>3, ProcessRight
  <2>5. QED
    BY <1>4, <2>1, <2>4
<1>6. Right(after[0], 0)
  BY <1>4
<1>7. Bad = {}
  <2> HIDE DEF Right
  <2>1. SUFFICES ASSUME Bad # {} PROVE FALSE
    OBVIOUS
  <2>2. PICK n \in Bad : \A m \in Bad : n <= m
    <3>1. Bad \in SUBSET Nat
      OBVIOUS
    <3> HIDE DEF Bad
    <3>2. QED
      BY <2>1, <3>1, MinFacts
  <2>3. n \in 0..N /\ ~Right(after[n], n) /\ n # 0
    BY <1>6
  <2>4. n \in 1..N /\ n - 1 \in 0..N /\ ~(n <= n - 1)
    BY <1>1, <2>3
  <2>5. Right(after[n - 1], n - 1)
    BY <2>2, <2>4
  <2>6. QED
    BY <1>5, <2>3, <2>4, <2>5
<1>8. Right(after[N], N)
  <2> HIDE DEF Right
  <2>1. QED
    BY <1>1, <1>7
<1>9. QED
  BY <1>1, <1>2, <1>8

(***************************************************************************)
(* The rows of whole files                                                 *)
(***************************************************************************)

LEMMA NoRowsYet ==
    ASSUME NEW log, IsLog(log), NEW f \in Int, NEW warmups
    PROVE  SetToBag(RowsBefore(log, warmups, <<f, 1>>)) = EmptyBag
<1>1. InFile(log, <<f, 1>>) = {}
  <2> SUFFICES ASSUME NEW y \in Upto(log, <<f, 1>>), y[1] = f PROVE FALSE
    BY DEF InFile
  <2>1. QED
    BY UptoFile DEF Upto
<1>2. RowsAt(log, warmups, {}) = {}
  BY DEF RowsAt
<1>3. SetToBag({}) = EmptyBag
  BY DEF SetToBag, EmptyBag
<1>4. QED
  BY <1>1, <1>2, <1>3 DEF RowsBefore

LEMMA RowsAtEnd ==
    ASSUME NEW log, IsLog(log), NEW f \in Files, NEW warmups
    PROVE  RowsBefore(log, warmups, <<f, Len(log[f]) + 1>>) = RowsOf(log, warmups, f)
<1> DEFINE x == <<f, Len(log[f]) + 1>>
<1>1. Upto(log, x) = Upto(log, <<f + 1, 1>>) /\ f + 1 \in Int /\ f \in Int
  BY AlikeNext, FilesFacts DEF Alike
<1>2. \A y \in Places(log) : y[1] = f => y \in Upto(log, x)
  BY <1>1, UptoFile DEF Upto
<1>3. x[1] = f /\ \A y \in Upto(log, x) : y \in Places(log)
  BY DEF Upto
<1> HIDE DEF x
<1>4. InFile(log, x) = {y \in Places(log) : y[1] = f}
  BY <1>2, <1>3 DEF InFile
<1>5. QED
  BY <1>4, RowsOfFile DEF RowsBefore, x

LEMMA SameRowsOf ==
    ASSUME NEW log, IsLog(log), NEW other, IsLog(other), NEW f \in Int, SameUpTo(log, other, f),
           NEW g \in Files, g < f, NEW warmups
    PROVE  RowsOf(other, warmups, g) = RowsOf(log, warmups, g)
<1>1. Alike(log, <<f, 1>>, other, <<f, 1>>) /\ <<f, 1>> \in Pairs
  BY AlikeBefore, UptoFile
<1>2. ASSUME NEW l, IsLog(l) PROVE {y \in Places(l) : y[1] = g} = {y \in Upto(l, <<f, 1>>) : y[1] = g}
  <2>1. \A y \in Places(l) : y[1] = g => Before(y, <<f, 1>>)
    BY <1>2, UptoFile
  <2>2. QED
    BY <2>1 DEF Upto
<1>3. {y \in Places(log) : y[1] = g} = {y \in Places(other) : y[1] = g}
  BY <1>1, <1>2 DEF Alike
<1>4. {y \in Places(log) : y[1] = g} \subseteq Upto(log, <<f, 1>>)
  BY <1>2
<1> DEFINE places == {y \in Places(log) : y[1] = g}
<1>5. RowsOf(log, warmups, g) = RowsAt(log, warmups, places) /\ RowsOf(other, warmups, g) = RowsAt(other, warmups, places)
  BY <1>3, RowsOfFile
<1>6. places \subseteq Upto(log, <<f, 1>>)
  BY <1>4
<1> HIDE DEF places
<1>7. QED
  BY <1>1, <1>5, <1>6, SameRows

(***************************************************************************)
(* The plan ends with the last file, and what it imports is writable       *)
(***************************************************************************)

PlannedWork(plan) ==
    /\ Len(plan) <= Len(FileHours)
    /\ \A i \in 1..Len(plan) :
          /\ plan[i].file = Len(FileHours) - Len(plan) + i
          /\ plan[i].committed \in BOOLEAN
          /\ ~plan[i].warm => writableFrom <= plan[i].file
          /\ plan[i].warm => (plan[i].committed <=> writableFrom <= plan[i].file)

LEMMA PlanShape ==
    ASSUME NEW checkpoints, writableFrom \in Nat
    PROVE  PlannedWork(DirtyFiles(checkpoints))
<1> DEFINE N == Len(FileHours)
           dirty == {f \in Files : /\ f >= writableFrom
                                   /\ checkpoints[f] # [status |-> "success", print |-> prints[f]]}
           first == Min(dirty)
           near == {f \in Files : FileHours[f] >= FileHours[first] - Horizon}
           start == Min(near)
           m == N - start + 1
           plan == [i \in 1..m |-> WorkOn(start + i - 1, first, checkpoints)]
<1>1. N \in Nat /\ Files = 1..N /\ FileHours \in Seq(Int)
  BY ArchiveImportConstants DEF Files
<1>2. DirtyFiles(checkpoints) = IF dirty = {} THEN <<>> ELSE plan
  BY DEF DirtyFiles
<1>3. CASE dirty = {}
  <2>1. DirtyFiles(checkpoints) = <<>>
    BY <1>2, <1>3
  <2>2. Len(<<>>) = 0
    OBVIOUS
  <2> HIDE DEF dirty, plan, m, start
  <2>3. QED
    BY <1>1, <2>1, <2>2 DEF PlannedWork
<1>4. CASE dirty # {}
  <2>1. first \in 1..N /\ writableFrom <= first
    <3>1. dirty \subseteq 1..N /\ \A f \in dirty : writableFrom <= f
      BY <1>1
    <3> HIDE DEF dirty
    <3>2. first \in dirty
      BY <1>1, <1>4, <3>1, MinFacts
    <3>3. QED
      BY <3>1, <3>2
  <2>2. start \in 1..N
    <3> HIDE DEF first
    <3>1. near \subseteq 1..N
      BY <1>1
    <3>2. first \in near
      <4>1. FileHours[first] \in Int /\ Horizon \in Nat
        BY <1>1, <2>1, ArchiveBooksConstants
      <4>2. QED
        BY <1>1, <2>1, <4>1
    <3> HIDE DEF near
    <3>3. start \in near
      BY <1>1, <3>1, <3>2, MinFacts
    <3>4. QED
      BY <3>1, <3>3
  <2> HIDE DEF start, first
  <2>3. m \in Nat /\ m <= N /\ start + 0 = N - m + 1
    BY <1>1, <2>2
  <2>4. Len(plan) = m /\ plan = [i \in 1..m |-> plan[i]]
    <3>1. plan = [i \in 1..m |-> plan[i]]
      OBVIOUS
    <3> HIDE DEF plan, m
    <3>2. QED
      BY <2>3, <3>1, FunctionIsList
  <2>5. \A i \in 1..m : plan[i] = WorkOn(start + i - 1, first, checkpoints)
    OBVIOUS
  <2> HIDE DEF plan
  <2>6. ASSUME NEW i \in 1..m
        PROVE  /\ plan[i].file = N - m + i /\ plan[i].committed \in BOOLEAN
               /\ ~plan[i].warm => writableFrom <= plan[i].file
               /\ plan[i].warm => (plan[i].committed <=> writableFrom <= plan[i].file)
    <3> DEFINE f == start + i - 1
    <3>1. f \in Int /\ f = N - m + i /\ plan[i] = WorkOn(f, first, checkpoints)
      BY <1>1, <2>2, <2>3, <2>5
    <3> HIDE DEF f, m
    <3> DEFINE before == f < first
               again == first <= f /\ checkpoints[f] # NoCheckpoint
               counts == writableFrom <= f /\ f < first
    <3>2. plan[i] = [file |-> f, warm |-> before, committed |-> counts, replace |-> again]
      BY <3>1 DEF WorkOn
    <3>3. counts \in BOOLEAN
      OBVIOUS
    <3> HIDE DEF before, again, counts
    <3>4. plan[i].file = f /\ plan[i].warm = before /\ plan[i].committed = counts
      BY <3>2
    <3>5. first \in Int /\ writableFrom \in Int
      BY <1>1, <2>1
    <3>6. /\ ~before => writableFrom <= f
          /\ before => (counts <=> writableFrom <= f)
      BY <2>1, <3>1, <3>5 DEF before, counts
    <3>7. QED
      BY <3>1, <3>3, <3>4, <3>6
  <2>7. DirtyFiles(checkpoints) = plan
    BY <1>2, <1>4 DEF plan
  <2> HIDE DEF m
  <2>8. QED
    BY <2>3, <2>4, <2>6, <2>7 DEF PlannedWork
<1>5. QED
  BY <1>3, <1>4

(***************************************************************************)
(* ArchiveImport: the invariant of the books                               *)
(***************************************************************************)

\* The file at work, or the one after the last; and how many are not imported.
Turn == Len(FileHours) - Len(work) + 1
Warmups == writableFrom - 1

\* File f is not open yet.
Ahead(p, log, warmups, f) ==
    IsProcessor(p) /\ NothingFrom(log, f) /\ BooksBefore(p.books, log, warmups, f, f)

\* Once it is at work, what it does to the books can be undone.
Undoable(p, log, warmups, f) ==
    /\ IsProcessor(p) /\ p.logging /\ NothingFrom(log, f + 1)
    /\ BooksBefore(Restored(p), log, warmups, f, f + 1)

\* What is left of a file from its event i on.
Unread(rest, events, i) ==
    /\ Listed(rest) /\ Len(rest) = Len(events) - i + 1
    /\ \A k \in 1..Len(rest) : rest[k] = events[i - 1 + k]

\* It is open: books and rows are those of the events before the next one.
Amid(p, log, rest, rows, warmups, f) ==
    \E i \in 1..(Len(log[f]) + 1) :
        /\ Unread(rest, log[f], i)
        /\ BooksRight(p.books, log, warmups, <<f, i>>, f + 1)
        /\ rows = SetToBag(RowsBefore(log, warmups, <<f, i>>))

\* The files imported so far are some of those before f.
ImportedRight(done, rows, log, warmups, f) ==
    \A g \in done : g \in Files /\ g < f /\ rows[g] = SetToBag(RowsOf(log, warmups, g))

Working == step \in {"pending", "clear", "open", "scan", "close"} \/ (step = "skip" /\ dry)

OnDisk == DOMAIN disk = Files /\ \A f \in Files : disk[f].content \in Contents[f]

Books ==
    /\ OnDisk /\ writableFrom \in Nat /\ IsLog(seen) /\ PlannedWork(work)
    /\ step \in {"idle", "plan"} => processor = NewProcessor
    /\ step = "plan" => seen = NoEvents /\ imported = {}
    /\ step \in {"next", "pending", "clear", "open"} => Ahead(processor, seen, Warmups, Turn)
    /\ Working => ~Head(work).warm /\ Undoable(processor, seen, Warmups, Turn)
    /\ step \in {"scan", "close"} => /\ DOMAIN input = {"events", "broken"}
                                   /\ Amid(processor, seen, input.events, emitted[Turn], Warmups, Turn)
    /\ step = "close" => input.events = <<>>
    /\ Working \/ step = "next" => ImportedRight(imported, emitted, seen, Warmups, Turn)
    /\ AsIfInOneGo

LEMMA TurnFacts ==
    ASSUME Workload, work # <<>>, Books
    PROVE  /\ Turn \in Files /\ This = Turn /\ Turn \in Int /\ Warmups \in Int
           /\ Head(work).committed \in BOOLEAN
           /\ ~Head(work).warm => Turn > Warmups
           /\ Head(work).warm => (Head(work).committed <=> Turn > Warmups)
           /\ disk[This].content \in Contents[Turn]
<1>1. PICK n \in Nat : n = Len(FileHours)
  BY FilesFacts
<1>2. PICK m \in Nat : m = Len(work) /\ m >= 1
  BY ThisFacts
<1>3. PICK w \in Nat : w = writableFrom
  BY DEF Books
<1>4. Head(work) = work[1] /\ This = work[1].file /\ This \in Files
  BY ThisFacts
<1>5. 1 \in 1..Len(work)
  BY <1>2
<1>6. /\ work[1].file = n - m + 1 /\ work[1].committed \in BOOLEAN
      /\ ~work[1].warm => w <= work[1].file
      /\ work[1].warm => (work[1].committed <=> w <= work[1].file)
  BY <1>1, <1>2, <1>3, <1>5 DEF Books, PlannedWork
<1>7. Turn = n - m + 1 /\ Warmups = w - 1
  BY <1>1, <1>2, <1>3 DEF Turn, Warmups
<1>8. This = Turn /\ Turn \in Int /\ Warmups \in Int /\ (w <= work[1].file <=> Turn > Warmups)
  BY <1>4, <1>6, <1>7
<1>9. disk[This].content \in Contents[Turn]
  BY <1>4, <1>8 DEF Books, OnDisk
<1>10. QED
  BY <1>4, <1>6, <1>8, <1>9

LEMMA TurnNext ==
    ASSUME Workload, work # <<>>, Books, work' = Tail(work), UNCHANGED writableFrom
    PROVE  Turn' = Turn + 1 /\ Warmups' = Warmups /\ PlannedWork(work)'
<1>1. PICK n \in Nat : n = Len(FileHours)
  BY FilesFacts
<1>2. PICK m \in Nat : m = Len(work) /\ m >= 1
  BY ThisFacts
<1>3. Listed(work') /\ Len(work') = m - 1 /\ \A k \in 1..(m - 1) : work'[k] = work[k + 1]
  BY <1>2, TailFacts DEF Workload
<1>4. m <= n /\ \A i \in 1..m : /\ work[i].file = n - m + i /\ work[i].committed \in BOOLEAN
                                /\ ~work[i].warm => writableFrom <= work[i].file
                                /\ work[i].warm => (work[i].committed <=> writableFrom <= work[i].file)
  BY <1>1, <1>2 DEF Books, PlannedWork
<1>5. Turn = n - m + 1 /\ Turn' = n - (m - 1) + 1 /\ Warmups' = Warmups
  BY <1>1, <1>2, <1>3 DEF Turn, Warmups
<1>6. \A k \in 1..(m - 1) : k + 1 \in 1..m /\ n - m + (k + 1) = n - (m - 1) + k
  BY <1>1, <1>2
<1>7. \A k \in 1..(m - 1) : /\ work'[k].file = n - (m - 1) + k /\ work'[k].committed \in BOOLEAN
                            /\ ~work'[k].warm => writableFrom <= work'[k].file
                            /\ work'[k].warm => (work'[k].committed <=> writableFrom <= work'[k].file)
  BY <1>3, <1>4, <1>6
<1>8. m - 1 <= n
  BY <1>1, <1>2, <1>4
<1>9. PlannedWork(work)'
  BY <1>1, <1>3, <1>7, <1>8 DEF PlannedWork
<1>10. QED
  BY <1>1, <1>2, <1>5, <1>9

\* The log of a run that opens or skips the file at work.
LEMMA LogSet ==
    ASSUME NEW log, IsLog(log), NEW f \in Files, NEW events,
           events = <<>> \/ \E content \in Contents[f] : events = content.events,
           NothingFrom(log, f + 1)
    PROVE  LET other == [log EXCEPT ![f] = events] IN
           IsLog(other) /\ other[f] = events /\ SameUpTo(log, other, f) /\ NothingFrom(other, f + 1)
<1> DEFINE other == [log EXCEPT ![f] = events]
<1>1. DOMAIN other = Files /\ other[f] = events /\ \A g \in Files \ {f} : other[g] = log[g]
  BY DEF IsLog
<1> HIDE DEF other
<1>2. IsLog(other)
  BY <1>1 DEF IsLog
<1>3. /\ \A g \in Files : g < f => g \in Files \ {f}
      /\ \A g \in Files : g >= f + 1 => g \in Files \ {f}
  BY FilesFacts
<1>4. SameUpTo(log, other, f)
  BY <1>1, <1>3 DEF SameUpTo
<1>5. NothingFrom(other, f + 1)
  BY <1>1, <1>3 DEF NothingFrom
<1>6. QED
  BY <1>1, <1>2, <1>4, <1>5 DEF other

LEMMA NothingFurther ==
    ASSUME NEW log, NEW f \in Int, NothingFrom(log, f)
    PROVE  NothingFrom(log, f + 1)
<1>1. \A g \in Files : g >= f + 1 => g >= f
  BY FilesFacts
<1>2. QED
  BY <1>1 DEF NothingFrom

LEMMA ImportedStay ==
    ASSUME NEW done, NEW rows, NEW log, IsLog(log), NEW other, IsLog(other), NEW warmups, NEW f \in Int,
           ImportedRight(done, rows, log, warmups, f), SameUpTo(log, other, f),
           NEW others, \A g \in Files : g < f => others[g] = rows[g], NEW g \in Int, f <= g
    PROVE  ImportedRight(done, others, other, warmups, g)
<1> SUFFICES ASSUME NEW h \in done PROVE h \in Files /\ h < g /\ others[h] = SetToBag(RowsOf(other, warmups, h))
  BY DEF ImportedRight
<1>1. h \in Files /\ h < f /\ rows[h] = SetToBag(RowsOf(log, warmups, h)) /\ h \in Int
  BY FilesFacts DEF ImportedRight
<1>2. RowsOf(other, warmups, h) = RowsOf(log, warmups, h)
  BY <1>1, SameRowsOf
<1>3. QED
  BY <1>1, <1>2

(***************************************************************************)
(* The actions                                                             *)
(***************************************************************************)

LEMMA BooksStay ==
    ASSUME Books, OnDisk',
           UNCHANGED <<writableFrom, dry, work, processor, seen, emitted, imported>>,
           \/ UNCHANGED <<step, input, lastRun>>
           \/ step \in {"pending", "clear"} /\ step' \in {"clear", "open"} /\ UNCHANGED input
           \/ step' \in {"abort", "drop", "fail"} \/ (step' = "skip" /\ ~dry)
    PROVE  Books'
<1>1. PlannedWork(work)' /\ IsLog(seen)'
  BY DEF Books, PlannedWork
<1>2. Turn' = Turn /\ Warmups' = Warmups
  BY DEF Turn, Warmups
<1>3. CASE UNCHANGED <<step, input, lastRun>>
  BY <1>1, <1>2, <1>3 DEF Books, Working, AsIfInOneGo
<1>4. CASE step \in {"pending", "clear"} /\ step' \in {"clear", "open"} /\ UNCHANGED input
  BY <1>1, <1>2, <1>4 DEF Books, Working, AsIfInOneGo
<1>5. CASE step' \in {"abort", "drop", "fail"} \/ (step' = "skip" /\ ~dry)
  BY <1>1, <1>2, <1>5 DEF Books, Working, AsIfInOneGo
<1>6. QED
  BY <1>3, <1>4, <1>5

LEMMA NothingPlanned == ASSUME work' = <<>> PROVE PlannedWork(work)'
<1>1. Len(work') = 0
  OBVIOUS
<1>2. QED
  BY <1>1, FilesFacts DEF PlannedWork

LEMMA BooksEnd ==
    ASSUME Books, NEW how, RunEnds(how), UNCHANGED <<disk, writableFrom>>,
           how = "done" => ImportedRight(imported, emitted, seen, Warmups, Turn)
    PROVE  Books'
<1>1. /\ step' = "idle" /\ lastRun' = how /\ work' = <<>> /\ processor' = NewProcessor
      /\ IF how = "done" THEN UNCHANGED <<seen, emitted, imported>> ELSE seen' = NoEvents /\ imported' = {}
  BY DEF RunEnds, runHistory
<1>2. PlannedWork(work)'
  BY <1>1, NothingPlanned
<1>3. IsLog(seen)'
  BY <1>1, NewBooks DEF Books
<1>4. AsIfInOneGo'
  <2>1. CASE how = "done"
    BY <1>1, <2>1 DEF AsIfInOneGo, ImportedRight, Warmups
  <2>2. CASE how # "done"
    BY <1>1, <2>2 DEF AsIfInOneGo
  <2>3. QED
    BY <2>1, <2>2
<1>5. QED
  BY <1>1, <1>2, <1>3, <1>4 DEF Books, OnDisk, Working

LEMMA StartBooks ==
    ASSUME Workload, Books, NEW noSend \in BOOLEAN, StartImport(noSend)
    PROVE  Books'
<1>1. /\ step = "idle" /\ step' = "plan" /\ seen' = NoEvents /\ imported' = {} /\ work = <<>>
      /\ UNCHANGED <<disk, writableFrom, work, processor>>
  BY DEF StartImport, archiveConfig, Workload
<1>2. PlannedWork(work)' /\ IsLog(seen)'
  BY <1>1, NothingPlanned, NewBooks
<1>3. QED
  BY <1>1, <1>2 DEF Books, OnDisk, Working, AsIfInOneGo

LEMMA PlanBooks ==
    ASSUME Books, step = "plan", step' = "next", NEW checkpoints, work' = DirtyFiles(checkpoints),
           UNCHANGED <<disk, writableFrom, processor, seen, imported>>
    PROVE  Books'
<1>1. PlannedWork(DirtyFiles(checkpoints))
  BY PlanShape DEF Books
<1>2. PlannedWork(work)'
  BY <1>1 DEF PlannedWork
<1>3. Ahead(processor', seen', Warmups', Turn')
  BY NewBooks DEF Books, Ahead
<1>4. QED
  BY <1>2, <1>3 DEF Books, OnDisk, Working, AsIfInOneGo, ImportedRight

LEMMA WarmFileBooks ==
    ASSUME StreamsInOrder, Workload, Books, WarmFile
    PROVE  Books'
<1>1. /\ step = "next" /\ work # <<>> /\ Head(work).warm
      /\ UNCHANGED <<disk, writableFrom>>
  BY DEF WarmFile, archiveConfig
<1>2. CASE disk[This].content.broken
  <2>1. RunEnds("unreadable")
    BY <1>2 DEF WarmFile
  <2>2. QED
    BY <1>1, <2>1, BooksEnd
<1>3. CASE ~disk[This].content.broken
  <2> DEFINE content == disk[This].content
             p == Advance(processor, FileHours[This])
             committed == Head(work).committed
             q == Warm(p, content.events, committed)
             log == [seen EXCEPT ![Turn] = content.events]
  <2>1. /\ Turn \in Files /\ This = Turn /\ Turn \in Int /\ Warmups \in Int
        /\ committed \in BOOLEAN /\ (committed <=> Turn > Warmups) /\ content \in Contents[Turn]
    BY <1>1, TurnFacts
  <2>2. /\ processor' = q /\ work' = Tail(work) /\ step' = "next" /\ seen' = log
        /\ UNCHANGED <<emitted, imported>>
    BY <1>3, <2>1 DEF WarmFile, NextFile, Advanced
  <2>3. IsProcessor(processor) /\ NothingFrom(seen, Turn) /\ BooksBefore(processor.books, seen, Warmups, Turn, Turn)
        /\ IsLog(seen) /\ ImportedRight(imported, emitted, seen, Warmups, Turn)
    BY <1>1 DEF Books, Ahead
  <2>4. IsProcessor(p) /\ BooksBefore(p.books, seen, Warmups, Turn, Turn)
    BY <2>1, <2>3, AdvanceRight
  <2>5. NothingFrom(seen, Turn + 1)
    BY <2>1, <2>3, NothingFurther
  <2>6. IsLog(log) /\ log[Turn] = content.events /\ SameUpTo(seen, log, Turn) /\ NothingFrom(log, Turn + 1)
    BY <2>1, <2>3, <2>5, LogSet
  <2> HIDE DEF log, content, p, committed
  <2>7. BooksRight(p.books, log, Warmups, <<Turn, 1>>, Turn + 1)
    BY <2>1, <2>3, <2>4, <2>6, BooksOpen
  <2>8. IsProcessor(q) /\ BooksRight(q.books, log, Warmups, <<Turn, Len(log[Turn]) + 1>>, Turn + 1)
    BY <2>1, <2>4, <2>6, <2>7, WarmRight
  <2> HIDE DEF q
  <2>9. BooksBefore(q.books, log, Warmups, Turn + 1, Turn + 1)
    BY <2>1, <2>6, <2>8, BooksClose
  <2>10. Turn + 1 \in Int /\ Turn <= Turn + 1
    BY <2>1
  <2>11. ImportedRight(imported, emitted, log, Warmups, Turn + 1)
    BY <2>1, <2>3, <2>6, <2>10, ImportedStay
  <2>12. Turn' = Turn + 1 /\ Warmups' = Warmups /\ PlannedWork(work)'
    BY <1>1, <2>2, TurnNext
  <2>13. Ahead(processor', seen', Warmups', Turn')
    BY <2>2, <2>6, <2>8, <2>9, <2>12 DEF Ahead
  <2>14. ImportedRight(imported', emitted', seen', Warmups', Turn') /\ IsLog(seen')
    BY <2>2, <2>6, <2>11, <2>12
  <2>15. QED
    BY <1>1, <2>2, <2>12, <2>13, <2>14 DEF Books, OnDisk, Working, AsIfInOneGo
<1>4. QED
  BY <1>2, <1>3

LEMMA BeginImportBooks ==
    ASSUME StreamsInOrder, Workload, Books, BeginImport
    PROVE  Books'
<1> DEFINE p == Advance(processor, FileHours[This])
           q == BeginFile(p)
<1>1. /\ step = "next" /\ work # <<>> /\ ~Head(work).warm /\ step' \in {"open", "pending"}
      /\ processor' = q
      /\ UNCHANGED <<disk, writableFrom, work, seen, emitted, imported>>
  BY DEF BeginImport, Advanced, archiveConfig, planVars, runHistory
<1>2. Turn \in Files /\ This = Turn /\ Turn \in Int
  BY <1>1, TurnFacts
<1>3. /\ IsProcessor(processor) /\ NothingFrom(seen, Turn) /\ BooksBefore(processor.books, seen, Warmups, Turn, Turn)
      /\ ImportedRight(imported, emitted, seen, Warmups, Turn)
  BY <1>1 DEF Books, Ahead
<1>4. IsProcessor(p) /\ BooksBefore(p.books, seen, Warmups, Turn, Turn)
  BY <1>2, <1>3, AdvanceRight
<1> HIDE DEF p
<1>5. /\ IsProcessor(q) /\ q.logging /\ BooksBefore(q.books, seen, Warmups, Turn, Turn)
      /\ BooksBefore(Restored(q), seen, Warmups, Turn, Turn + 1)
  BY <1>2, <1>4, BeginRight
<1>6. NothingFrom(seen, Turn + 1)
  BY <1>2, <1>3, NothingFurther
<1> HIDE DEF q
<1>7. Turn' = Turn /\ Warmups' = Warmups /\ PlannedWork(work)'
  BY <1>1 DEF Turn, Warmups, Books, PlannedWork
<1>8. Ahead(processor', seen', Warmups', Turn') /\ Undoable(processor', seen', Warmups', Turn')
  BY <1>1, <1>3, <1>5, <1>6, <1>7 DEF Ahead, Undoable
<1>9. QED
  BY <1>1, <1>3, <1>7, <1>8 DEF Books, OnDisk, Working, AsIfInOneGo

LEMMA LoopEndBooks ==
    ASSUME Books, Interrupted \/ RunComplete
    PROVE  Books'
<1>1. UNCHANGED <<disk, writableFrom>> /\ (RunEnds("interrupted") \/ (RunEnds("done") /\ step = "next"))
  BY DEF Interrupted, RunComplete, archiveConfig
<1>2. step = "next" => ImportedRight(imported, emitted, seen, Warmups, Turn)
  BY DEF Books
<1>3. QED
  BY <1>1, <1>2, BooksEnd

LEMMA OpenFileBooks ==
    ASSUME Emitted, Workload, Books, OpenFile
    PROVE  Books'
<1> DEFINE content == disk[This].content
           log == [seen EXCEPT ![Turn] = content.events]
<1>1. step = "open" /\ work # <<>> /\ UNCHANGED <<disk, writableFrom, dry, work, processor, imported>>
  BY DEF OpenFile, archiveConfig, planVars, Workload
<1>2. Turn \in Files /\ This = Turn /\ Turn \in Int /\ content \in Contents[Turn]
  BY <1>1, TurnFacts
<1>3. /\ input' = content /\ seen' = log /\ step' = "scan"
      /\ emitted' = [emitted EXCEPT ![Turn] = EmptyBag]
  BY <1>2 DEF OpenFile
<1>4. /\ IsProcessor(processor) /\ BooksBefore(processor.books, seen, Warmups, Turn, Turn)
      /\ ~Head(work).warm /\ Undoable(processor, seen, Warmups, Turn) /\ IsLog(seen)
      /\ ImportedRight(imported, emitted, seen, Warmups, Turn)
  BY <1>1 DEF Books, Ahead, Working
<1>5. IsLog(log) /\ log[Turn] = content.events /\ SameUpTo(seen, log, Turn) /\ NothingFrom(log, Turn + 1)
  BY <1>2, <1>4, LogSet DEF Undoable
<1> HIDE DEF log, content
<1>6. BooksRight(processor.books, log, Warmups, <<Turn, 1>>, Turn + 1)
  BY <1>2, <1>4, <1>5, BooksOpen
<1>7. BooksBefore(Restored(processor), log, Warmups, Turn, Turn + 1)
  BY <1>2, <1>4, <1>5, SameBooks DEF Undoable
<1>8. Undoable(processor, log, Warmups, Turn)
  BY <1>4, <1>5, <1>7 DEF Undoable
<1>9. DOMAIN emitted = Files
  BY DEF Emitted
<1>10. emitted'[Turn] = EmptyBag /\ \A g \in Files : g < Turn => emitted'[g] = emitted[g]
  BY <1>2, <1>3, <1>9, FilesFacts
<1>11. EmptyBag = SetToBag(RowsBefore(log, Warmups, <<Turn, 1>>))
  BY <1>2, <1>5, NoRowsYet
<1>12. PICK n \in Nat : n = Len(log[Turn])
  BY <1>2, <1>5, LogFacts
<1>13. log[Turn] \in Seq(RawEvents)
  BY <1>2, <1>5, LogFacts
<1>14. Unread(log[Turn], log[Turn], 1)
  BY <1>12, <1>13 DEF Unread, Listed
<1>15. Amid(processor, log, content.events, emitted'[Turn], Warmups, Turn)
  <2>1. 1 \in 1..(Len(log[Turn]) + 1)
    BY <1>12
  <2>2. QED
    BY <1>5, <1>6, <1>10, <1>11, <1>14, <2>1 DEF Amid
<1>16. ImportedRight(imported, emitted', log, Warmups, Turn)
  <2>1. Turn <= Turn
    BY <1>2
  <2>2. QED
    BY <1>2, <1>4, <1>5, <1>10, <2>1, ImportedStay
<1>17. Turn' = Turn /\ Warmups' = Warmups /\ PlannedWork(work)'
  BY <1>1 DEF Turn, Warmups, Books, PlannedWork
<1>18. /\ Undoable(processor', seen', Warmups', Turn') /\ IsLog(seen') /\ ~Head(work').warm
       /\ Amid(processor', seen', input'.events, emitted'[Turn'], Warmups', Turn')
       /\ ImportedRight(imported', emitted', seen', Warmups', Turn')
  BY <1>1, <1>3, <1>4, <1>5, <1>8, <1>15, <1>16, <1>17
<1>19. DOMAIN input' = {"events", "broken"}
  <2>1. content \in [events : Seq(RawEvents), broken : BOOLEAN]
    BY <1>2, ArchiveContents DEF content
  <2>2. QED
    BY <1>3, <2>1
<1>20. QED
  BY <1>1, <1>3, <1>17, <1>18, <1>19 DEF Books, OnDisk, Working, AsIfInOneGo

\* An event of a file that is imported goes through the processor.
LEMMA EventRight ==
    ASSUME StreamsInOrder, NEW log, IsLog(log), NEW f \in Files, NEW i \in 1..Len(log[f]),
           NEW warmups \in Int, f > warmups, NEW p, Undoable(p, log, warmups, f),
           BooksRight(p.books, log, warmups, <<f, i>>, f + 1)
    PROVE  LET out == Process(p, log[f][i], TRUE, FALSE) IN
           /\ Undoable(out.processor, log, warmups, f)
           /\ BooksRight(out.processor.books, log, warmups, <<f, i + 1>>, f + 1)
           /\ SetToBag(RowsBefore(log, warmups, <<f, i>>)) (+) BagOf(out.rows)
                  = SetToBag(RowsBefore(log, warmups, <<f, i + 1>>))
<1> DEFINE x == <<f, i>>
           z == <<f, i + 1>>
           out == Process(p, At(log, x), TRUE, FALSE)
           q == out.processor
<1>1. Follows(log, x, z) /\ At(log, x) = log[f][i] /\ x[1] = f /\ z[1] = f
  BY StepInFile DEF At
<1>2. f \in Int /\ f + 1 \in Int /\ f + 1 > f
  BY FilesFacts
<1>3. IsProcessor(p) /\ p.logging /\ NothingFrom(log, f + 1) /\ BooksBefore(Restored(p), log, warmups, f, f + 1)
  BY DEF Undoable
<1>x. x \in Places(log)
  BY <1>1 DEF Follows
<1>b. BooksRight(p.books, log, warmups, x, f + 1)
  OBVIOUS
<1> HIDE DEF x, z
<1>g. PICK g \in Int : g = f + 1
  BY <1>2
<1>h. g > x[1] /\ x[1] > warmups /\ Follows(log, x, z) /\ BooksRight(p.books, log, warmups, x, g)
  BY <1>1, <1>2, <1>b, <1>g
<1>o. ASSUME NEW writable \in BOOLEAN, NEW committed \in BOOLEAN, writable, ~committed
      PROVE  LET o == Process(p, At(log, x), writable, committed) IN
             /\ IsProcessor(o.processor) /\ o.processor.logging = p.logging
             /\ BooksRight(o.processor.books, log, warmups, z, g)
             /\ o.rows = RowsFor(log, warmups, x)
             /\ p.logging => \A t \in Streams :
                    \/ Restored(o.processor)[t] = Restored(p)[t]
                    \/ t = At(log, x).stream /\ Late(At(log, x))
  <2>1. (writable => ~committed /\ x[1] > warmups) /\ (~writable => (committed <=> x[1] > warmups))
    BY <1>h, <1>o
  <2>2. IsProcessor(p)
    BY <1>3
  <2>3. LET o == Process(p, At(log, x), writable, committed)
            r == o.processor
        IN  /\ IsProcessor(r) /\ r.logging = p.logging
            /\ BooksRight(r.books, log, warmups, z, g)
            /\ writable => o.rows = RowsFor(log, warmups, x)
            /\ p.logging => \A t \in Streams :
                   \/ Restored(r)[t] = Restored(p)[t]
                   \/ t = At(log, x).stream /\ Late(At(log, x))
    BY <1>h, <2>1, <2>2, ProcessRight
  <2>4. QED
    BY <1>o, <2>3
<1>4. /\ IsProcessor(q) /\ q.logging = p.logging
      /\ BooksRight(q.books, log, warmups, z, f + 1)
      /\ out.rows = RowsFor(log, warmups, x)
      /\ p.logging => \A t \in Streams :
             \/ Restored(q)[t] = Restored(p)[t]
             \/ t = At(log, x).stream /\ Late(At(log, x))
  BY <1>g, <1>o
<1>5. SetToBag(RowsBefore(log, warmups, x)) (+) BagOf(out.rows) = SetToBag(RowsBefore(log, warmups, z))
  BY <1>1, <1>4, RowsNext
<1> HIDE DEF out
<1>6. ASSUME NEW t \in Streams
      PROVE  LateFrom(t, f + 1) \/ BookRight(Restored(q)[t], log, warmups, t, <<f, 1>>)
  <2>1. CASE Restored(q)[t] = Restored(p)[t]
    BY <1>3, <2>1 DEF BooksBefore
  <2>2. CASE t = At(log, x).stream /\ Late(At(log, x))
    BY <1>1, <1>2, <1>x, <2>2, LateAfter
  <2>3. QED
    BY <1>3, <1>4, <2>1, <2>2
<1>7. Undoable(q, log, warmups, f)
  BY <1>3, <1>4, <1>6 DEF Undoable, BooksBefore
<1>8. QED
  BY <1>1, <1>4, <1>5, <1>7 DEF out, x, z

LEMMA TakeEventBooks ==
    ASSUME StreamsInOrder, Emitted, Workload, Books, TakeEvent
    PROVE  Books'
<1> DEFINE e == Head(input.events)
           out == Process(processor, e, TRUE, FALSE)
<1>1. /\ step = "scan" /\ step' = "scan" /\ work # <<>> /\ input.events # <<>>
      /\ processor' = out.processor
      /\ emitted' = [emitted EXCEPT ![This] = @ (+) BagOf(out.rows)]
      /\ UNCHANGED <<disk, writableFrom, dry, work, seen, imported>>
  BY DEF TakeEvent, archiveConfig, planVars, Workload
<1>2. input' = [input EXCEPT !.events = Tail(@)]
  BY DEF TakeEvent
<1>3. Turn \in Files /\ This = Turn /\ Turn \in Int /\ Warmups \in Int /\ (~Head(work).warm => Turn > Warmups)
  BY <1>1, TurnFacts
<1>4. /\ ~Head(work).warm /\ Undoable(processor, seen, Warmups, Turn) /\ IsLog(seen)
      /\ Amid(processor, seen, input.events, emitted[Turn], Warmups, Turn)
      /\ ImportedRight(imported, emitted, seen, Warmups, Turn)
      /\ DOMAIN input = {"events", "broken"}
  BY <1>1 DEF Books, Working
<1>5. PICK n \in Nat : n = Len(seen[Turn])
  BY <1>3, <1>4, LogFacts
<1>6. PICK i \in 1..(n + 1) :
          /\ Unread(input.events, seen[Turn], i)
          /\ BooksRight(processor.books, seen, Warmups, <<Turn, i>>, Turn + 1)
          /\ emitted[Turn] = SetToBag(RowsBefore(seen, Warmups, <<Turn, i>>))
  BY <1>4, <1>5 DEF Amid
<1> DEFINE rest == input.events
<1>7. /\ Listed(rest) /\ rest # <<>> /\ Len(rest) = n - i + 1
      /\ \A k \in 1..Len(rest) : rest[k] = seen[Turn][i - 1 + k]
  BY <1>1, <1>5, <1>6 DEF Unread
<1> HIDE DEF rest
<1>8. /\ Len(rest) >= 1 /\ Head(rest) = rest[1] /\ Listed(Tail(rest)) /\ Len(Tail(rest)) = Len(rest) - 1
      /\ \A k \in 1..(Len(rest) - 1) : Tail(rest)[k] = rest[k + 1]
  BY <1>7, TailFacts
<1>9. i \in 1..n /\ i + 1 \in 1..(n + 1) /\ i \in Int
  BY <1>7, <1>8
<1>10. Head(rest) = seen[Turn][i]
  <2>1. 1 \in 1..Len(rest) /\ i - 1 + 1 = i
    BY <1>7, <1>8, <1>9
  <2>2. QED
    BY <1>7, <1>8, <2>1
<1>11. Unread(Tail(rest), seen[Turn], i + 1)
  <2>1. Len(Tail(rest)) = Len(seen[Turn]) - (i + 1) + 1
    BY <1>5, <1>7, <1>8, <1>9
  <2>2. ASSUME NEW k \in 1..Len(Tail(rest)) PROVE Tail(rest)[k] = seen[Turn][i + 1 - 1 + k]
    <3>1. k \in 1..(Len(rest) - 1) /\ k + 1 \in 1..Len(rest) /\ i + 1 - 1 + k = i - 1 + (k + 1)
      BY <1>5, <1>7, <1>8, <1>9
    <3>2. QED
      BY <1>7, <1>8, <3>1
  <2>3. QED
    BY <1>8, <2>1, <2>2 DEF Unread
<1>12. Process(processor, seen[Turn][i], TRUE, FALSE) = out
  BY <1>10 DEF rest
<1> HIDE DEF out, e
<1>13. /\ Undoable(out.processor, seen, Warmups, Turn)
       /\ BooksRight(out.processor.books, seen, Warmups, <<Turn, i + 1>>, Turn + 1)
       /\ SetToBag(RowsBefore(seen, Warmups, <<Turn, i>>)) (+) BagOf(out.rows)
              = SetToBag(RowsBefore(seen, Warmups, <<Turn, i + 1>>))
  BY <1>3, <1>4, <1>5, <1>6, <1>9, <1>12, EventRight
<1>14. /\ emitted'[Turn] = SetToBag(RowsBefore(seen, Warmups, <<Turn, i + 1>>))
       /\ \A g \in Files : g < Turn => emitted'[g] = emitted[g]
  <2>1. emitted'[Turn] = emitted[Turn] (+) BagOf(out.rows) /\ \A g \in Files \ {Turn} : emitted'[g] = emitted[g]
    BY <1>1, <1>3 DEF Emitted
  <2>2. QED
    BY <1>3, <1>6, <1>13, <2>1, FilesFacts
<1>15. input'.events = Tail(rest) /\ DOMAIN input' = DOMAIN input
  BY <1>2, <1>4 DEF rest
<1>16. Amid(out.processor, seen, Tail(rest), emitted'[Turn], Warmups, Turn)
  BY <1>5, <1>9, <1>11, <1>13, <1>14 DEF Amid
<1>17. ImportedRight(imported, emitted', seen, Warmups, Turn)
  <2>1. Turn <= Turn /\ SameUpTo(seen, seen, Turn)
    BY <1>3 DEF SameUpTo
  <2>2. QED
    BY <1>3, <1>4, <1>14, <2>1, ImportedStay
<1>18. Turn' = Turn /\ Warmups' = Warmups /\ PlannedWork(work)'
  BY <1>1 DEF Turn, Warmups, Books, PlannedWork
<1>19. /\ Undoable(processor', seen', Warmups', Turn') /\ IsLog(seen') /\ ~Head(work').warm
       /\ Amid(processor', seen', input'.events, emitted'[Turn'], Warmups', Turn')
       /\ ImportedRight(imported', emitted', seen', Warmups', Turn')
  BY <1>1, <1>4, <1>13, <1>15, <1>16, <1>17, <1>18
<1>20. QED
  BY <1>1, <1>4, <1>15, <1>18, <1>19 DEF Books, OnDisk, Working, AsIfInOneGo

LEMMA EndOfFileBooks ==
    ASSUME Books, EndOfFile
    PROVE  Books'
<1>1. /\ step = "scan" /\ input.events = <<>>
      /\ UNCHANGED <<disk, writableFrom, dry, work, processor, input, seen, emitted, imported>>
      /\ IF ~input.broken THEN step' = "close" ELSE step' = IF dry THEN "skip" ELSE "abort"
  BY DEF EndOfFile, archiveConfig, planVars, runHistory
<1>2. CASE step' = "abort"
  BY <1>1, <1>2, BooksStay DEF Books, OnDisk
<1>3. CASE step' = "close" \/ (step' = "skip" /\ dry)
  <2>1. Turn' = Turn /\ Warmups' = Warmups /\ PlannedWork(work)'
    BY <1>1 DEF Turn, Warmups, Books, PlannedWork
  <2>2. /\ ~Head(work).warm /\ Undoable(processor, seen, Warmups, Turn)
        /\ Amid(processor, seen, input.events, emitted[Turn], Warmups, Turn)
        /\ ImportedRight(imported, emitted, seen, Warmups, Turn) /\ DOMAIN input = {"events", "broken"}
    BY <1>1 DEF Books, Working
  <2>3. QED
    BY <1>1, <1>3, <2>1, <2>2 DEF Books, OnDisk, Working, AsIfInOneGo
<1>4. QED
  BY <1>1, <1>2, <1>3

LEMMA SucceedBooks ==
    ASSUME Workload, Books, Succeed
    PROVE  Books'
<1> DEFINE q == CommitFile(processor)
<1>1. /\ step = "close" /\ work # <<>> /\ imported' = imported \cup {This}
      /\ processor' = q /\ work' = Tail(work) /\ step' = "next"
      /\ UNCHANGED <<disk, writableFrom, seen, emitted>>
  BY DEF Succeed, NextFile, archiveConfig, Workload
<1>2. Turn \in Files /\ This = Turn /\ Turn \in Int
  BY <1>1, TurnFacts
<1>3. /\ Undoable(processor, seen, Warmups, Turn) /\ IsLog(seen) /\ input.events = <<>>
      /\ Amid(processor, seen, input.events, emitted[Turn], Warmups, Turn)
      /\ ImportedRight(imported, emitted, seen, Warmups, Turn)
  BY <1>1 DEF Books, Working
<1>4. PICK n \in Nat : n = Len(seen[Turn])
  BY <1>2, <1>3, LogFacts
<1>5. PICK i \in 1..(n + 1) :
          /\ Unread(<<>>, seen[Turn], i)
          /\ BooksRight(processor.books, seen, Warmups, <<Turn, i>>, Turn + 1)
          /\ emitted[Turn] = SetToBag(RowsBefore(seen, Warmups, <<Turn, i>>))
  BY <1>3, <1>4 DEF Amid
<1>6. i = Len(seen[Turn]) + 1
  <2>1. Len(<<>>) = 0 /\ Len(<<>>) = n - i + 1
    BY <1>4, <1>5 DEF Unread
  <2>2. QED
    BY <1>4, <2>1
<1>7. IsProcessor(q) /\ BooksBefore(q.books, seen, Warmups, Turn + 1, Turn + 1)
  BY <1>2, <1>3, <1>5, <1>6, CommitRight, BooksClose DEF Undoable
<1>8. emitted[Turn] = SetToBag(RowsOf(seen, Warmups, Turn))
  BY <1>2, <1>3, <1>5, <1>6, RowsAtEnd
<1> HIDE DEF q
<1>9. Turn' = Turn + 1 /\ Warmups' = Warmups /\ PlannedWork(work)'
  BY <1>1, TurnNext
<1>10. Ahead(processor', seen', Warmups', Turn')
  BY <1>1, <1>3, <1>7, <1>9 DEF Ahead, Undoable
<1>11. ImportedRight(imported', emitted', seen', Warmups', Turn')
  <2>1. ASSUME NEW g \in imported \cup {Turn}
        PROVE  g \in Files /\ g < Turn + 1 /\ emitted[g] = SetToBag(RowsOf(seen, Warmups, g))
    <3>1. CASE g \in imported
      <4>1. g \in Files /\ g < Turn /\ emitted[g] = SetToBag(RowsOf(seen, Warmups, g))
        BY <1>3, <3>1 DEF ImportedRight
      <4>2. QED
        BY <1>2, <4>1, FilesFacts
    <3>2. CASE g = Turn
      BY <1>2, <1>8, <3>2
    <3>3. QED
      BY <3>1, <3>2
  <2>2. QED
    BY <1>1, <1>2, <1>9, <2>1 DEF ImportedRight
<1>12. QED
  BY <1>1, <1>3, <1>9, <1>10, <1>11 DEF Books, OnDisk, Working, AsIfInOneGo

LEMMA SkipFileBooks ==
    ASSUME Emitted, Workload, Books, SkipFile
    PROVE  Books'
<1>1. step = "skip" /\ work # <<>> /\ UNCHANGED <<disk, writableFrom>>
  BY DEF SkipFile, archiveConfig, Workload
<1>2. CASE ~dry
  <2>1. RunEnds("refused")
    BY <1>2 DEF SkipFile
  <2>2. QED
    BY <1>1, <2>1, BooksEnd
<1>3. CASE dry
  <2> DEFINE log == [seen EXCEPT ![Turn] = <<>>]
             q == RollbackFile(processor)
  <2>1. Turn \in Files /\ This = Turn /\ Turn \in Int
    BY <1>1, TurnFacts
  <2>2. /\ processor' = q /\ work' = Tail(work) /\ step' = "next" /\ seen' = log
        /\ emitted' = [emitted EXCEPT ![Turn] = EmptyBag] /\ UNCHANGED imported
    BY <1>3, <2>1 DEF SkipFile, NextFile
  <2>3. /\ Undoable(processor, seen, Warmups, Turn) /\ IsLog(seen)
        /\ ImportedRight(imported, emitted, seen, Warmups, Turn)
    BY <1>1, <1>3 DEF Books, Working
  <2>4. IsLog(log) /\ log[Turn] = <<>> /\ SameUpTo(seen, log, Turn) /\ NothingFrom(log, Turn + 1)
    BY <2>1, <2>3, LogSet DEF Undoable
  <2> HIDE DEF log
  <2>5. IsProcessor(q) /\ BooksBefore(q.books, log, Warmups, Turn + 1, Turn + 1)
    BY <2>1, <2>3, <2>4, RollbackRight, BooksSkip DEF Undoable
  <2> HIDE DEF q
  <2>6. Turn' = Turn + 1 /\ Warmups' = Warmups /\ PlannedWork(work)'
    BY <1>1, <2>2, TurnNext
  <2>7. Ahead(processor', seen', Warmups', Turn')
    BY <2>2, <2>4, <2>5, <2>6 DEF Ahead
  <2>8. \A g \in Files : g < Turn => emitted'[g] = emitted[g]
    BY <2>1, <2>2, FilesFacts DEF Emitted
  <2>9. ImportedRight(imported, emitted', log, Warmups, Turn + 1)
    <3>1. Turn <= Turn + 1 /\ Turn + 1 \in Int
      BY <2>1
    <3>2. QED
      BY <2>1, <2>3, <2>4, <2>8, <3>1, ImportedStay
  <2>10. ImportedRight(imported', emitted', seen', Warmups', Turn') /\ IsLog(seen')
    BY <2>2, <2>4, <2>6, <2>9
  <2>11. QED
    BY <1>1, <2>2, <2>6, <2>7, <2>10 DEF Books, OnDisk, Working, AsIfInOneGo
<1>4. QED
  BY <1>2, <1>3

\* Steps that leave the books and the plan alone.
LEMMA QuietBooks ==
    ASSUME Books,
           \/ RecordPending \/ ClearOld \/ OpenWriterFails
           \/ AppendRow \/ AppendFails \/ Drain \/ DropPartial
           \/ \E c \in Conns : CloseConn(c) \/ BatchLands(c)
           \/ \E applied \in BOOLEAN :
                 \/ SucceedFails(applied) \/ DropPartialFails(applied)
                 \/ \E c \in Conns : BatchFails(c, applied)
    PROVE  Books'
<1>1. UNCHANGED <<disk, writableFrom, dry, work, processor, seen, emitted, imported>>
  BY DEF RecordPending, ClearOld, OpenWriterFails, AppendRow, AppendFails, Drain, DropPartial, CloseConn,
         BatchLands, SucceedFails, DropPartialFails, BatchFails, archiveConfig, importVars, planVars, runHistory
<1>2. OnDisk'
  BY <1>1 DEF Books, OnDisk
<1>3. CASE RecordPending \/ ClearOld
  BY <1>1, <1>2, <1>3, BooksStay DEF RecordPending, ClearOld, importVars, writerVars
<1>4. CASE AppendRow \/ (\E c \in Conns : BatchLands(c))
           \/ (\E applied \in BOOLEAN : \E c \in Conns : BatchFails(c, applied))
  BY <1>1, <1>2, <1>4, BooksStay DEF AppendRow, BatchLands, BatchFails
<1>5. CASE OpenWriterFails \/ AppendFails \/ Drain \/ DropPartial
  BY <1>1, <1>2, <1>5, BooksStay DEF OpenWriterFails, AppendFails, Aborts, Drain, DropPartial
<1>6. CASE \E c \in Conns : CloseConn(c)
  BY <1>1, <1>2, <1>6, BooksStay DEF CloseConn, Aborts
<1>7. CASE \E applied \in BOOLEAN : SucceedFails(applied) \/ DropPartialFails(applied)
  BY <1>1, <1>2, <1>7, BooksStay DEF SucceedFails, DropPartialFails, Aborts
<1>8. QED
  BY <1>3, <1>4, <1>5, <1>6, <1>7

\* The run ends where a call has failed or the process is killed.
LEMMA BreakBooks ==
    ASSUME Books,
           \/ Killed
           \/ \E applied \in BOOLEAN : RecordPendingFails(applied) \/ ClearOldFails(applied)
    PROVE  Books'
<1>1. UNCHANGED <<disk, writableFrom>> /\ (RunEnds("killed") \/ RunEnds("lost"))
  BY DEF Killed, RecordPendingFails, ClearOldFails, archiveConfig
<1>2. QED
  BY <1>1, BooksEnd

LEMMA FailureBooks ==
    ASSUME Recorded, Books, RecordImportFailure \/ \E applied \in BOOLEAN : RecordImportFailureFails(applied)
    PROVE  Books'
<1>1. step = "fail" /\ AfterFailure /\ UNCHANGED <<disk, writableFrom>>
  BY DEF RecordImportFailure, RecordImportFailureFails, archiveConfig
<1>2. ~dry
  BY <1>1 DEF Recorded
<1>3. CASE failure = "unreadable"
  <2>1. step' = "skip" /\ UNCHANGED <<dry, work, processor, seen, emitted, imported>>
    BY <1>1, <1>3 DEF AfterFailure, importVars, planVars, runHistory
  <2>2. OnDisk'
    BY <1>1 DEF Books, OnDisk
  <2>3. QED
    BY <1>1, <1>2, <2>1, <2>2, BooksStay
<1>4. CASE failure # "unreadable"
  <2>1. RunEnds("lost")
    BY <1>1, <1>4 DEF AfterFailure
  <2>2. QED
    BY <1>1, <2>1, BooksEnd
<1>5. QED
  BY <1>3, <1>4

LEMMA LoadBooks ==
    ASSUME Books, LoadCheckpoints \/ LoadCheckpointsFails
    PROVE  Books'
<1>1. step = "plan" /\ UNCHANGED <<disk, writableFrom>>
  BY DEF LoadCheckpoints, LoadCheckpointsFails, archiveConfig
<1>2. CASE LoadCheckpoints
  <2>1. step' = "next" /\ work' = DirtyFiles(catalog) /\ UNCHANGED <<processor, seen, imported>>
    BY <1>2 DEF LoadCheckpoints, runHistory
  <2>2. QED
    BY <1>1, <2>1, PlanBooks
<1>3. CASE LoadCheckpointsFails /\ dry
  <2>1. /\ step' = "next" /\ work' = DirtyFiles([f \in Files |-> NoCheckpoint])
        /\ UNCHANGED <<processor, seen, imported>>
    BY <1>3 DEF LoadCheckpointsFails, runHistory
  <2>2. QED
    BY <1>1, <2>1, PlanBooks
<1>4. CASE LoadCheckpointsFails /\ ~dry
  <2>1. RunEnds("lost")
    BY <1>4 DEF LoadCheckpointsFails
  <2>2. QED
    BY <1>1, <2>1, BooksEnd
<1>5. QED
  BY <1>2, <1>3, <1>4

LEMMA RewriteBooks ==
    ASSUME Books, NEW f \in Files, NEW content \in Contents[f], Rewrite(f, content)
    PROVE  Books'
<1>1. UNCHANGED <<writableFrom, dry, work, processor, seen, emitted, imported, step, input, lastRun>>
  BY DEF Rewrite, archiveConfig, importVars, planVars, writerVars, runHistory
<1>2. disk' = [disk EXCEPT ![f] = [content |-> content, print |-> disk[f].print + 1]]
  BY DEF Rewrite
<1>3. OnDisk'
  BY <1>2 DEF Books, OnDisk
<1>4. QED
  BY <1>1, <1>3, BooksStay

LEMMA BooksInit == ArchiveInit => Books
<1> SUFFICES ASSUME ArchiveInit PROVE Books
  OBVIOUS
<1>1. /\ step = "idle" /\ lastRun = "none" /\ work = <<>> /\ processor = NewProcessor
      /\ seen = NoEvents /\ writableFrom \in 1..2
  BY DEF ArchiveInit
<1>2. OnDisk
  BY DEF ArchiveInit, OnDisk
<1>3. Len(work) = 0 /\ PlannedWork(work)
  BY <1>1, FilesFacts DEF PlannedWork
<1>4. QED
  BY <1>1, <1>2, <1>3, NewBooks DEF Books, Working, AsIfInOneGo

LEMMA BooksStep == StreamsInOrder /\ ArchiveInv /\ Books /\ [ArchiveNext]_archiveVars => Books'
<1> SUFFICES ASSUME StreamsInOrder, ArchiveInv, Books, [ArchiveNext]_archiveVars PROVE Books'
  OBVIOUS
<1>0. Emitted /\ Workload /\ Recorded
  BY DEF ArchiveInv
<1>1. CASE ImportStep
  <2>1. CASE LoadCheckpoints \/ WarmFile \/ BeginImport \/ RunComplete
    BY <1>0, <2>1, LoadBooks, WarmFileBooks, BeginImportBooks, LoopEndBooks
  <2>2. CASE OpenFile \/ TakeEvent \/ EndOfFile \/ Succeed \/ SkipFile
    BY <1>0, <2>2, OpenFileBooks, TakeEventBooks, EndOfFileBooks, SucceedBooks, SkipFileBooks
  <2>3. CASE \/ RecordPending \/ ClearOld \/ AppendRow \/ AppendFails \/ Drain \/ DropPartial
             \/ \E c \in Conns : CloseConn(c) \/ BatchLands(c)
    BY <2>3, QuietBooks
  <2>4. CASE RecordImportFailure
    BY <1>0, <2>4, FailureBooks
  <2>5. QED
    BY <1>1, <2>1, <2>2, <2>3, <2>4 DEF ImportStep
<1>2. CASE ImportFails
  <2>1. CASE LoadCheckpointsFails \/ OpenWriterFails
    BY <2>1, LoadBooks, QuietBooks
  <2>2. ASSUME NEW applied \in BOOLEAN,
               \/ SucceedFails(applied) \/ DropPartialFails(applied)
               \/ \E c \in Conns : BatchFails(c, applied)
        PROVE  Books'
    BY <2>2, QuietBooks
  <2>3. ASSUME NEW applied \in BOOLEAN, RecordPendingFails(applied) \/ ClearOldFails(applied)
        PROVE  Books'
    BY <2>3, BreakBooks
  <2>4. ASSUME NEW applied \in BOOLEAN, RecordImportFailureFails(applied) PROVE Books'
    BY <1>0, <2>4, FailureBooks
  <2>5. QED
    BY <1>2, <2>1, <2>2, <2>3, <2>4 DEF ImportFails
<1>3. CASE (\E noSend \in BOOLEAN : StartImport(noSend)) \/ Interrupted \/ Killed
  BY <1>0, <1>3, StartBooks, LoopEndBooks, BreakBooks
<1>4. CASE \E f \in Files : \E content \in Contents[f] : Rewrite(f, content)
  BY <1>4, RewriteBooks
<1>5. CASE UNCHANGED archiveVars
  <2>1. UNCHANGED <<disk, writableFrom, dry, work, processor, seen, emitted, imported, step, input, lastRun>>
    BY <1>5 DEF archiveVars, archiveConfig, importVars, planVars, writerVars, runHistory
  <2>2. OnDisk'
    BY <2>1 DEF Books, OnDisk
  <2>3. QED
    BY <2>1, <2>2, BooksStay
<1>6. QED
  BY <1>1, <1>2, <1>3, <1>4, <1>5 DEF ArchiveNext

\* If no stream's clocks go back in the files, a run that comes to its end
\* has emitted for the files it imported the rows that all files together
\* call for, however few of them it imported: those that are only read leave
\* the books where importing them had, a watermark drops no book that is
\* still needed, and a file that is skipped leaves nothing behind
\* (ImportArchive, Warm and RollbackFile of the ArchiveProcessor).
THEOREM OneGo == StreamsInOrder => (ArchiveSpec => []AsIfInOneGo)
<1> SUFFICES ASSUME StreamsInOrder PROVE ArchiveSpec => []AsIfInOneGo
  OBVIOUS
<1>1. ArchiveInit => ArchiveInv /\ Books
  BY ArchiveInitInv, BooksInit
<1>2. (ArchiveInv /\ Books) /\ [ArchiveNext]_archiveVars => (ArchiveInv /\ Books)'
  BY ArchiveStepInv, BooksStep
<1>3. ArchiveInv /\ Books => AsIfInOneGo
  BY DEF Books
<1>4. QED
  BY <1>1, <1>2, <1>3, PTL DEF ArchiveSpec

(***************************************************************************)
(* ArchiveStaging: as long as it is not over somebody can go on, and each  *)
(* step leaves fewer.                                                      *)
(***************************************************************************)

FeederControls == {"feeding", "filling", "gone"}
StagerControls == {"waiting", "staging", "gone"}
ImporterControls == {"next", "receiving", "leaving", "gone"}
Results == {"none", "ready", "error"}

StagingType ==
    /\ callerDone \in BOOLEAN /\ stageDone \in BOOLEAN /\ indices \in BOOLEAN
    /\ feeder \in FeederControls /\ offered \in Nat /\ offered >= 1 /\ offered <= NumStaged + 1
    /\ stager \in [Stagers -> StagerControls] /\ staging \in [Stagers -> Nat]
    /\ staged \in [StagedFiles -> Results]
    /\ importer \in ImporterControls
    /\ importing \in Nat /\ importing >= 1 /\ importing <= NumStaged + 1

\* The channel of indices is closed by the feeder on its way out, and a worker
\* leaves only then.
Departures ==
    /\ feeder = "gone" <=> ~indices
    /\ feeder = "gone" => offered = NumStaged + 1
    /\ \A w \in Stagers : stager[w] = "gone" => feeder = "gone"
    /\ importer \in {"leaving", "gone"} => stageDone
    /\ importer = "gone" => \A w \in Stagers : stager[w] = "gone"

\* A file the feeder is past is with one worker, has its result, or has been
\* taken by the importer; one it is not past has none of these.
Whereabouts ==
    /\ importer = "receiving" => importing <= NumStaged
    /\ \A i \in StagedFiles : i >= offered => staged[i] = "none"
    /\ \A w \in Stagers : stager[w] = "staging" =>
         staging[w] >= 1 /\ staging[w] < offered /\ staged[staging[w]] = "none"
    /\ \A v, w \in Stagers : stager[v] = "staging" /\ stager[w] = "staging" /\ v # w => staging[v] # staging[w]
    /\ \A i \in StagedFiles : i >= importing /\ i < offered =>
         staged[i] # "none" \/ \E w \in Stagers : stager[w] = "staging" /\ staging[w] = i

StagingInv == StagingType /\ Departures /\ Whereabouts

\* What lets each of the goroutines take its next step.
StageFeederGoesOn ==
    /\ feeder # "gone"
    /\ \/ offered \notin StagedFiles
       \/ feeder = "feeding" /\ (stageDone \/ \E w \in Stagers : stager[w] = "waiting")
       \/ feeder = "filling" /\ staged[offered] = "none"

StagerGoesOn(w) ==
    \/ stager[w] = "waiting" /\ ~indices
    \/ stager[w] = "staging" /\ staged[staging[w]] = "none"

ImporterGoesOn ==
    \/ importer = "next"
    \/ importer = "receiving" /\ staged[importing] # "none"
    \/ importer = "leaving" /\ \A w \in Stagers : stager[w] = "gone"

StagingGoesOn == StageFeederGoesOn \/ (\E w \in Stagers : StagerGoesOn(w)) \/ ImporterGoesOn

\* The steps that are left, at most, of the feeder, of a worker and of the
\* importer.  An index to hand out is worth one more than the worker that
\* takes it.
FeederSteps ==
    IF feeder = "gone" THEN 0 ELSE 2 * (NumStaged + 1 - offered) + (IF feeder = "feeding" THEN 2 ELSE 1)

StepsOf(control) == IF control = "gone" THEN 0 ELSE IF control = "waiting" THEN 1 ELSE 2

StagerSteps == [w \in Stagers |-> StepsOf(stager[w])]

ImporterSteps ==
    IF importer = "gone" THEN 0
    ELSE IF importer = "leaving" THEN 1
    ELSE 2 * (NumStaged + 1 - importing) + (IF importer = "next" THEN 3 ELSE 2)

StepsLeft == FeederSteps + Sum(StagerSteps, Stagers) + ImporterSteps + (IF callerDone THEN 0 ELSE 1)

LEMMA StagingNumbers ==
    /\ NumStagers \in Nat /\ NumStagers >= 1 /\ NumStaged \in Nat
    /\ StagedFiles = {i \in Nat : i >= 1 /\ i <= NumStaged}
    /\ 1 \in Stagers /\ IsFiniteSet(Stagers)
<1>1. NumStagers \in Nat /\ NumStagers >= 1 /\ NumStaged \in Nat
  BY ArchiveStagingConstants
<1>2. IsFiniteSet(Stagers)
  BY <1>1, FS_Interval DEF Stagers
<1>3. QED
  BY <1>1, <1>2 DEF StagedFiles, Stagers

LEMMA StagingInitially == StagingInit => StagingInv
<1> SUFFICES ASSUME StagingInit PROVE StagingInv
  OBVIOUS
<1>1. StagingType
  <2>1. /\ stager \in [Stagers -> StagerControls] /\ staging \in [Stagers -> Nat]
        /\ staged \in [StagedFiles -> Results]
    BY DEF StagingInit, StagerControls, Results
  <2>2. feeder \in FeederControls /\ importer \in ImporterControls
    BY DEF StagingInit, FeederControls, ImporterControls
  <2>3. offered = 1 /\ importing = 1 /\ 1 <= NumStaged + 1
    BY StagingNumbers DEF StagingInit
  <2>4. callerDone \in BOOLEAN /\ stageDone \in BOOLEAN /\ indices \in BOOLEAN
    BY DEF StagingInit
  <2>5. /\ offered \in Nat /\ offered >= 1 /\ offered <= NumStaged + 1
        /\ importing \in Nat /\ importing >= 1 /\ importing <= NumStaged + 1
    BY <2>3
  <2>6. QED
    BY <2>1, <2>2, <2>4, <2>5 DEF StagingType
<1>2. Departures
  BY DEF StagingInit, Departures
<1>3. Whereabouts
  BY StagingNumbers DEF StagingInit, Whereabouts
<1>4. QED
  BY <1>1, <1>2, <1>3 DEF StagingInv

LEMMA StagingTypeStep == ASSUME StagingInv, [StagingNext]_stagingVars PROVE StagingType'
<1> USE StagingNumbers DEF StagingInv, StagingType, FeederControls, StagerControls, ImporterControls, Results
<1>1. ASSUME NEW w \in Stagers, HandOut(w) PROVE StagingType'
  BY <1>1 DEF HandOut, contexts, importerVars
<1>2. CASE GiveUp
  BY <1>2 DEF GiveUp, contexts, stagerVars, importerVars
<1>3. CASE FillNext
  BY <1>3 DEF FillNext, contexts, stagerVars, importerVars
<1>4. CASE CloseIndices
  BY <1>4 DEF CloseIndices, contexts, stagerVars, importerVars
<1>5. ASSUME NEW w \in Stagers, StagerLeaves(w) PROVE StagingType'
  BY <1>5 DEF StagerLeaves, contexts, feederVars, importerVars
<1>6. ASSUME NEW w \in Stagers, NEW result \in {"ready", "error"}, SendStaged(w, result) PROVE StagingType'
  BY <1>6 DEF SendStaged, feederVars, importerVars
<1>7. CASE ReceiveNext
  BY <1>7 DEF ReceiveNext, contexts, feederVars, stagerVars
<1>8. CASE LeaveBetween
  BY <1>8 DEF LeaveBetween, Leaves, feederVars, stagerVars
<1>9. CASE TakeStaged
  <2>1. importing <= NumStaged
    BY <1>9 DEF TakeStaged, Whereabouts
  <2>2. /\ importing' \in Nat /\ importing' >= 1 /\ importing' <= NumStaged + 1
        /\ UNCHANGED <<callerDone, feederVars, stagerVars>>
    BY <1>9, <2>1 DEF TakeStaged
  <2>3. staged' \in [StagedFiles -> Results]
    BY <1>9 DEF TakeStaged
  <2>4. stageDone' \in BOOLEAN /\ importer' \in ImporterControls
    BY <1>9 DEF TakeStaged, Leaves
  <2>5. QED
    BY <2>2, <2>3, <2>4 DEF feederVars, stagerVars
<1>10. CASE WaitForStagers
  BY <1>10 DEF WaitForStagers, contexts, feederVars, stagerVars
<1>11. CASE StagingCanceled
  BY <1>11 DEF StagingCanceled, feederVars, stagerVars, importerVars
<1>12. CASE UNCHANGED stagingVars
  BY <1>12 DEF stagingVars, contexts, feederVars, stagerVars, importerVars
<1>13. QED
  BY <1>1, <1>2, <1>3, <1>4, <1>5, <1>6, <1>7, <1>8, <1>9, <1>10, <1>11, <1>12
  DEF StagingNext, StageFeederStep, StagerStep, ImporterStep

LEMMA DeparturesStep == ASSUME StagingInv, [StagingNext]_stagingVars PROVE Departures'
<1> USE StagingNumbers DEF StagingInv, StagingType, Departures
<1>1. ASSUME NEW w \in Stagers, HandOut(w) PROVE Departures'
  BY <1>1 DEF HandOut, contexts, importerVars
<1>2. CASE GiveUp
  BY <1>2 DEF GiveUp, contexts, stagerVars, importerVars
<1>3. CASE FillNext
  BY <1>3 DEF FillNext, contexts, stagerVars, importerVars
<1>4. CASE CloseIndices
  <2>1. offered = NumStaged + 1
    BY <1>4 DEF CloseIndices
  <2>2. QED
    BY <1>4, <2>1 DEF CloseIndices, contexts, stagerVars, importerVars
<1>5. ASSUME NEW w \in Stagers, StagerLeaves(w) PROVE Departures'
  BY <1>5 DEF StagerLeaves, contexts, feederVars, importerVars
<1>6. ASSUME NEW w \in Stagers, NEW result \in {"ready", "error"}, SendStaged(w, result) PROVE Departures'
  BY <1>6 DEF SendStaged, feederVars, importerVars
<1>7. CASE ReceiveNext
  BY <1>7 DEF ReceiveNext, contexts, feederVars, stagerVars
<1>8. CASE LeaveBetween
  BY <1>8 DEF LeaveBetween, Leaves, feederVars, stagerVars
<1>9. CASE TakeStaged
  BY <1>9 DEF TakeStaged, Leaves, feederVars, stagerVars
<1>10. CASE WaitForStagers
  BY <1>10 DEF WaitForStagers, contexts, feederVars, stagerVars
<1>11. CASE StagingCanceled
  BY <1>11 DEF StagingCanceled, feederVars, stagerVars, importerVars
<1>12. CASE UNCHANGED stagingVars
  BY <1>12 DEF stagingVars, contexts, feederVars, stagerVars, importerVars
<1>13. QED
  BY <1>1, <1>2, <1>3, <1>4, <1>5, <1>6, <1>7, <1>8, <1>9, <1>10, <1>11, <1>12
  DEF StagingNext, StageFeederStep, StagerStep, ImporterStep

LEMMA WhereaboutsStep == ASSUME StagingInv, [StagingNext]_stagingVars PROVE Whereabouts'
<1> USE StagingNumbers DEF StagingInv, StagingType, Whereabouts
<1>1. ASSUME NEW w \in Stagers, HandOut(w) PROVE Whereabouts'
  BY <1>1 DEF HandOut, contexts, importerVars
<1>2. CASE GiveUp
  BY <1>2 DEF GiveUp, contexts, stagerVars, importerVars
<1>3. CASE FillNext
  BY <1>3 DEF FillNext, contexts, stagerVars, importerVars
<1>4. CASE CloseIndices
  BY <1>4 DEF CloseIndices, contexts, stagerVars, importerVars
<1>5. ASSUME NEW w \in Stagers, StagerLeaves(w) PROVE Whereabouts'
  BY <1>5 DEF StagerLeaves, contexts, feederVars, importerVars
<1>6. ASSUME NEW w \in Stagers, NEW result \in {"ready", "error"}, SendStaged(w, result) PROVE Whereabouts'
  BY <1>6 DEF SendStaged, feederVars, importerVars
<1>7. CASE ReceiveNext
  BY <1>7 DEF ReceiveNext, contexts, feederVars, stagerVars
<1>8. CASE LeaveBetween
  BY <1>8 DEF LeaveBetween, Leaves, feederVars, stagerVars
<1>9. CASE TakeStaged
  BY <1>9 DEF TakeStaged, Leaves, feederVars, stagerVars
<1>10. CASE WaitForStagers
  BY <1>10 DEF WaitForStagers, contexts, feederVars, stagerVars
<1>11. CASE StagingCanceled
  BY <1>11 DEF StagingCanceled, feederVars, stagerVars, importerVars
<1>12. CASE UNCHANGED stagingVars
  BY <1>12 DEF stagingVars, contexts, feederVars, stagerVars, importerVars
<1>13. QED
  BY <1>1, <1>2, <1>3, <1>4, <1>5, <1>6, <1>7, <1>8, <1>9, <1>10, <1>11, <1>12
  DEF StagingNext, StageFeederStep, StagerStep, ImporterStep

LEMMA StagingInvariant == StagingSpec => []StagingInv
<1>1. StagingInv /\ [StagingNext]_stagingVars => StagingInv'
  BY StagingTypeStep, DeparturesStep, WhereaboutsStep DEF StagingInv
<1>2. QED
  BY <1>1, StagingInitially, PTL DEF StagingSpec

LEMMA StagingCanGoOn == StagingInv => StagingOver \/ StagingGoesOn
<1> SUFFICES ASSUME StagingInv, ~StagingOver PROVE StagingGoesOn
  OBVIOUS
<1> USE StagingNumbers DEF StagingInv, StagingType, Departures, Whereabouts
<1>1. CASE feeder # "gone" /\ offered \notin StagedFiles
  BY <1>1 DEF StagingGoesOn, StageFeederGoesOn
<1>2. CASE feeder = "filling" /\ offered \in StagedFiles
  BY <1>2 DEF StagingGoesOn, StageFeederGoesOn
<1>3. CASE feeder = "feeding" /\ offered \in StagedFiles
  <2>1. stager[1] \in {"waiting", "staging"}
    BY <1>3 DEF StagerControls
  <2>2. CASE stager[1] = "waiting"
    BY <1>3, <2>2 DEF StagingGoesOn, StageFeederGoesOn
  <2>3. CASE stager[1] = "staging"
    BY <2>3 DEF StagingGoesOn, StagerGoesOn
  <2>4. QED
    BY <2>1, <2>2, <2>3
<1>4. ASSUME feeder = "gone", NEW w \in Stagers, stager[w] # "gone" PROVE StagingGoesOn
  <2>0. stager[w] \in StagerControls /\ ~indices
    BY <1>4
  <2>1. stager[w] \in {"waiting", "staging"} /\ ~indices
    BY <1>4, <2>0 DEF StagerControls
  <2>2. StagerGoesOn(w)
    BY <2>1 DEF StagerGoesOn
  <2>3. QED
    BY <2>2 DEF StagingGoesOn
<1>5. CASE feeder = "gone" /\ \A w \in Stagers : stager[w] = "gone"
  <2>1. importer \in {"next", "receiving", "leaving"}
    BY <1>5 DEF StagingOver, ImporterControls
  <2>2. ASSUME importer = "receiving" PROVE staged[importing] # "none"
    <3>1. importing \in StagedFiles /\ importing < offered
      BY <1>5, <2>2
    <3>2. QED
      BY <1>5, <3>1
  <2>3. QED
    BY <1>5, <2>1, <2>2 DEF StagingGoesOn, ImporterGoesOn
<1>6. QED
  BY <1>1, <1>2, <1>3, <1>4, <1>5 DEF FeederControls

\* Whichever file cannot be staged or imported and whenever the context ends,
\* nobody waits in startArchiveStaging or ImportArchive for a result, a taker
\* or a worker that will not come: until all of it is over, the feeder, a
\* worker or the importer can go on.
THEOREM StagingNotStuck == StagingSpec => [](StagingOver \/ StagingGoesOn)
  BY StagingInvariant, StagingCanGoOn, PTL

LEMMA StepsFacts ==
    ASSUME StagingType
    PROVE  /\ FeederSteps \in Nat /\ Sum(StagerSteps, Stagers) \in Nat /\ ImporterSteps \in Nat
           /\ \A w \in Stagers : StagerSteps[w] \in Nat
           /\ StepsLeft \in Nat
<1>1. /\ offered \in Nat /\ offered <= NumStaged + 1 /\ NumStaged \in Nat
      /\ importing \in Nat /\ importing <= NumStaged + 1
  BY StagingNumbers DEF StagingType
<1>2. FeederSteps \in Nat
  BY <1>1 DEF FeederSteps
<1>3. ImporterSteps \in Nat
  BY <1>1 DEF ImporterSteps
<1>4. \A w \in Stagers : StagerSteps[w] \in Nat
  BY DEF StagerSteps, StepsOf
<1>5. Sum(StagerSteps, Stagers) \in Nat
  BY <1>4, StagingNumbers, SumNat
<1>6. QED
  BY <1>2, <1>3, <1>4, <1>5 DEF StepsLeft

\* One worker changes, and the sum by what that takes.
LEMMA StagerChanges ==
    ASSUME StagingType, NEW w \in Stagers, NEW control, stager' = [stager EXCEPT ![w] = control],
           NEW sum, sum = Sum(StagerSteps', Stagers)
    PROVE  sum = Sum(StagerSteps, Stagers) - StepsOf(stager[w]) + StepsOf(control)
<1>1. PICK steps : steps = StagerSteps'
  OBVIOUS
<1>2. steps = [v \in Stagers |-> StepsOf(IF v = w THEN control ELSE stager[v])]
  BY <1>1 DEF StagerSteps, StagingType
<1>3. \A v \in Stagers : steps[v] \in Int /\ (v # w => steps[v] = StagerSteps[v])
  BY <1>2 DEF StagerSteps, StepsOf
<1>4. Replaced(StagerSteps, steps, Stagers, w)
  BY <1>3, StepsFacts DEF Replaced
<1>5. Sum(steps, Stagers) = Sum(StagerSteps, Stagers) - StagerSteps[w] + steps[w]
  BY <1>4, StagingNumbers, SumChanged
<1>6. steps[w] = StepsOf(control) /\ StagerSteps[w] = StepsOf(stager[w])
  BY <1>2 DEF StagerSteps
<1>7. QED
  BY <1>1, <1>5, <1>6

LEMMA StagingSteps ==
    ASSUME StagingInv, StagingNext
    PROVE  StepsLeft' < StepsLeft
<1>r. PICK feed, sum, import, call :
          /\ feed = FeederSteps' /\ sum = Sum(StagerSteps', Stagers) /\ import = ImporterSteps'
          /\ call = IF callerDone' THEN 0 ELSE 1
  OBVIOUS
<1>o. PICK all : all = Sum(StagerSteps, Stagers)
  OBVIOUS
<1>p. PICK called \in {0, 1} : called = IF callerDone THEN 0 ELSE 1
  OBVIOUS
<1>t. FeederSteps \in Nat /\ all \in Nat /\ ImporterSteps \in Nat
  BY <1>o, StepsFacts DEF StagingInv
<1>d. StepsLeft' = feed + sum + import + call /\ StepsLeft = FeederSteps + all + ImporterSteps + called
  BY <1>r, <1>o, <1>p DEF StepsLeft
\* What a part is made of stays, and so does the part.
<1>f. ASSUME UNCHANGED <<feeder, offered>> PROVE feed = FeederSteps
  BY <1>f, <1>r DEF FeederSteps
<1>s. ASSUME UNCHANGED stager PROVE sum = all
  <2>1. PICK steps : steps = StagerSteps'
    OBVIOUS
  <2>2. steps = StagerSteps
    BY <2>1, <1>s DEF StagerSteps
  <2>3. QED
    BY <2>1, <2>2, <1>r, <1>o
<1>i. ASSUME UNCHANGED <<importer, importing>> PROVE import = ImporterSteps
  BY <1>i, <1>r DEF ImporterSteps
<1>c. ASSUME UNCHANGED callerDone PROVE call = called
  BY <1>c, <1>r, <1>p
<1>n. /\ offered \in Nat /\ offered >= 1 /\ offered <= NumStaged + 1 /\ NumStaged \in Nat
      /\ importing \in Nat /\ importing >= 1 /\ importing <= NumStaged + 1
  BY StagingNumbers DEF StagingInv, StagingType
<1>1. ASSUME NEW w \in Stagers, HandOut(w) PROVE StepsLeft' < StepsLeft
  <2>1. /\ feeder = "feeding" /\ UNCHANGED <<feeder, callerDone, importer, importing>> /\ offered' = offered + 1
        /\ stager[w] = "waiting" /\ stager' = [stager EXCEPT ![w] = "staging"]
    BY <1>1 DEF HandOut, contexts, importerVars
  <2>2. feed = FeederSteps - 2
    BY <2>1, <1>r, <1>n DEF FeederSteps
  <2>3. sum = all - StepsOf("waiting") + StepsOf("staging")
    BY <2>1, <1>r, <1>o, StagerChanges DEF StagingInv
  <2>4. StepsOf("waiting") = 1 /\ StepsOf("staging") = 2
    BY DEF StepsOf
  <2>5. sum = all + 1
    BY <2>3, <2>4, <1>t
  <2>6. QED
    BY <2>1, <2>2, <2>5, <1>i, <1>c, <1>d, <1>t
<1>2. CASE GiveUp
  <2>1. feeder = "feeding" /\ feeder' = "filling" /\ UNCHANGED <<offered, callerDone, importer, importing, stager>>
    BY <1>2 DEF GiveUp, contexts, stagerVars, importerVars
  <2>2. feed = FeederSteps - 1
    BY <2>1, <1>r, <1>n DEF FeederSteps
  <2>3. QED
    BY <2>1, <2>2, <1>i, <1>c, <1>s, <1>d, <1>t
<1>3. CASE FillNext
  <2>1. /\ feeder = "filling" /\ offered' = offered + 1
        /\ UNCHANGED <<feeder, callerDone, importer, importing, stager>>
    BY <1>3 DEF FillNext, contexts, stagerVars, importerVars
  <2>2. feed = FeederSteps - 2
    BY <2>1, <1>r, <1>n DEF FeederSteps
  <2>3. QED
    BY <2>1, <2>2, <1>i, <1>c, <1>s, <1>d, <1>t
<1>4. CASE CloseIndices
  <2>1. /\ feeder \in {"feeding", "filling"} /\ feeder' = "gone"
        /\ UNCHANGED <<callerDone, importer, importing, stager>>
    BY <1>4 DEF CloseIndices, contexts, stagerVars, importerVars, StagingInv, StagingType, FeederControls
  <2>2. feed = 0 /\ FeederSteps >= 1
    BY <2>1, <1>r, <1>n DEF FeederSteps
  <2>3. QED
    BY <2>1, <2>2, <1>i, <1>c, <1>s, <1>d, <1>t
<1>5. ASSUME NEW w \in Stagers, StagerLeaves(w) PROVE StepsLeft' < StepsLeft
  <2>1. /\ UNCHANGED <<feeder, offered, callerDone, importer, importing>>
        /\ stager[w] = "waiting" /\ stager' = [stager EXCEPT ![w] = "gone"]
    BY <1>5 DEF StagerLeaves, contexts, feederVars, importerVars
  <2>2. sum = all - StepsOf("waiting") + StepsOf("gone")
    BY <2>1, <1>r, <1>o, StagerChanges DEF StagingInv
  <2>3. StepsOf("waiting") = 1 /\ StepsOf("gone") = 0
    BY DEF StepsOf
  <2>4. sum = all - 1
    BY <2>2, <2>3, <1>t
  <2>5. QED
    BY <2>1, <2>4, <1>f, <1>i, <1>c, <1>d, <1>t
<1>6. ASSUME NEW w \in Stagers, NEW result \in {"ready", "error"}, SendStaged(w, result) PROVE StepsLeft' < StepsLeft
  <2>1. /\ UNCHANGED <<feeder, offered, callerDone, importer, importing>>
        /\ stager[w] = "staging" /\ stager' = [stager EXCEPT ![w] = "waiting"]
    BY <1>6 DEF SendStaged, feederVars, importerVars
  <2>2. sum = all - StepsOf("staging") + StepsOf("waiting")
    BY <2>1, <1>r, <1>o, StagerChanges DEF StagingInv
  <2>3. StepsOf("staging") = 2 /\ StepsOf("waiting") = 1
    BY DEF StepsOf
  <2>4. sum = all - 1
    BY <2>2, <2>3, <1>t
  <2>5. QED
    BY <2>1, <2>4, <1>f, <1>i, <1>c, <1>d, <1>t
<1>7. ASSUME ImporterStep PROVE StepsLeft' < StepsLeft
  <2>1. UNCHANGED <<feeder, offered, callerDone, stager>>
    BY <1>7 DEF ImporterStep, ReceiveNext, LeaveBetween, TakeStaged, WaitForStagers, contexts, feederVars, stagerVars
  <2>2. import < ImporterSteps /\ import \in Int
    <3>1. CASE ReceiveNext
      BY <3>1, <1>r, <1>n DEF ReceiveNext, ImporterSteps
    <3>2. CASE LeaveBetween
      BY <3>2, <1>r, <1>n DEF LeaveBetween, Leaves, ImporterSteps
    <3>3. CASE TakeStaged
      <4>1. importer = "receiving" /\ importing' = importing + 1 /\ importing <= NumStaged /\ importer' \in {"next", "leaving"}
        BY <3>3 DEF TakeStaged, Leaves, StagingInv, Whereabouts
      <4>2. QED
        BY <4>1, <1>r, <1>n DEF ImporterSteps
    <3>4. CASE WaitForStagers
      BY <3>4, <1>r, <1>n DEF WaitForStagers, ImporterSteps
    <3>5. QED
      BY <1>7, <3>1, <3>2, <3>3, <3>4 DEF ImporterStep
  <2>3. QED
    BY <2>1, <2>2, <1>f, <1>c, <1>s, <1>d, <1>t
<1>8. CASE StagingCanceled
  <2>1. ~callerDone /\ callerDone' /\ UNCHANGED <<feeder, offered, importer, importing, stager>>
    BY <1>8 DEF StagingCanceled, feederVars, stagerVars, importerVars
  <2>2. call = 0 /\ called = 1
    BY <2>1, <1>r, <1>p
  <2>3. QED
    BY <2>1, <2>2, <1>f, <1>i, <1>s, <1>d, <1>t
<1>9. QED
  BY <1>1, <1>2, <1>3, <1>4, <1>5, <1>6, <1>7, <1>8 DEF StagingNext, StageFeederStep, StagerStep

\* However the staging of the files and their import go, a number of steps is
\* left, at most, and each step takes one off: with StagingNotStuck, all of it
\* is over after finitely many.
THEOREM StagingComesToEnd ==
    StagingSpec => [](StepsLeft \in Nat) /\ [][StepsLeft' < StepsLeft]_stagingVars
<1>1. StagingInv => StepsLeft \in Nat
  BY StepsFacts DEF StagingInv
<1>2. StagingInv /\ [StagingNext]_stagingVars => [StepsLeft' < StepsLeft]_stagingVars
  BY StagingSteps
<1>3. QED
  BY <1>1, <1>2, StagingInvariant, PTL DEF StagingSpec
=============================================================================
