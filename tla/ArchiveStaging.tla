--------------------------- MODULE ArchiveStaging ---------------------------
(***************************************************************************)
(* The staging of the archive's files ahead of their import (startArchive- *)
(* Staging in internal/polymarket/importer.go).  A feeder hands indices    *)
(* to workers over an unbuffered channel; each file has a channel of its   *)
(* own for its result, with room for one; the importer takes the results   *)
(* in the order of the files, and whenever it returns it cancels what is   *)
(* left and waits for the workers.                                         *)
(***************************************************************************)
EXTENDS Naturals

CONSTANTS
    NumStaged,    \* files
    NumStagers    \* workers, no more than files

ASSUME ArchiveStagingConstants == NumStagers \in Nat \ {0} /\ NumStaged \in Nat /\ NumStagers <= NumStaged

StagedFiles == 1..NumStaged
Stagers == 1..NumStagers

VARIABLES
    callerDone,   \* ctx is done
    stageDone,    \* stageCtx is done
    feeder,       \* "feeding", "filling" or "gone"
    offered,      \* index the feeder is at
    indices,      \* the channel of indices is open
    stager,       \* control of each worker: "waiting", "staging" or "gone"
    staging,      \* its index
    staged,       \* result in each file's channel, if there is one
    importer,     \* "next", "receiving", "leaving" or "gone"
    importing     \* index the importer is at

feederVars == <<feeder, offered, indices>>
stagerVars == <<stager, staging>>
importerVars == <<importer, importing>>
contexts == <<callerDone, stageDone>>
stagingVars == <<contexts, feederVars, stagerVars, staged, importerVars>>

StagingInit ==
    /\ callerDone = FALSE /\ stageDone = FALSE
    /\ feeder = "feeding" /\ offered = 1 /\ indices = TRUE
    /\ stager = [w \in Stagers |-> "waiting"]
    /\ staging = [w \in Stagers |-> 0]
    /\ staged = [i \in StagedFiles |-> "none"]
    /\ importer = "next" /\ importing = 1

(***************************************************************************)
(* The feeder                                                              *)
(***************************************************************************)

HandOut(w) ==
    /\ feeder = "feeding" /\ offered \in StagedFiles /\ stager[w] = "waiting"
    /\ stager' = [stager EXCEPT ![w] = "staging"]
    /\ staging' = [staging EXCEPT ![w] = offered]
    /\ offered' = offered + 1
    /\ UNCHANGED <<contexts, feeder, indices, staged, importerVars>>

\* The select may take this branch although a worker waits.
GiveUp ==
    /\ feeder = "feeding" /\ offered \in StagedFiles /\ stageDone
    /\ feeder' = "filling"
    /\ UNCHANGED <<contexts, offered, indices, stagerVars, staged, importerVars>>

\* A send blocks while there is something in the channel.
FillNext ==
    /\ feeder = "filling" /\ offered \in StagedFiles /\ staged[offered] = "none"
    /\ staged' = [staged EXCEPT ![offered] = "error"]
    /\ offered' = offered + 1
    /\ UNCHANGED <<contexts, feeder, indices, stagerVars, importerVars>>

CloseIndices ==
    /\ feeder # "gone" /\ offered \notin StagedFiles
    /\ feeder' = "gone" /\ indices' = FALSE
    /\ UNCHANGED <<contexts, offered, stagerVars, staged, importerVars>>

StageFeederStep == (\E w \in Stagers : HandOut(w)) \/ GiveUp \/ FillNext \/ CloseIndices

(***************************************************************************)
(* A worker                                                                *)
(***************************************************************************)

\* EnsureRawEventStage returns and the result is sent; an error is the end of
\* the staging of the other files too.
SendStaged(w, result) ==
    /\ stager[w] = "staging" /\ staged[staging[w]] = "none"
    /\ staged' = [staged EXCEPT ![staging[w]] = result]
    /\ stageDone' = (stageDone \/ result = "error")
    /\ stager' = [stager EXCEPT ![w] = "waiting"]
    /\ staging' = [staging EXCEPT ![w] = 0]
    /\ UNCHANGED <<callerDone, feederVars, importerVars>>

StagerLeaves(w) ==
    /\ stager[w] = "waiting" /\ ~indices
    /\ stager' = [stager EXCEPT ![w] = "gone"]
    /\ UNCHANGED <<contexts, feederVars, staging, staged, importerVars>>

StagerStep(w) == StagerLeaves(w) \/ \E result \in {"ready", "error"} : SendStaged(w, result)

(***************************************************************************)
(* The importer                                                            *)
(***************************************************************************)

\* Between two files the importer looks at its own context.
ReceiveNext ==
    /\ importer = "next" /\ importing \in StagedFiles /\ ~callerDone
    /\ importer' = "receiving"
    /\ UNCHANGED <<contexts, feederVars, stagerVars, staged, importing>>

Leaves == importer' = "leaving" /\ stageDone' = TRUE

LeaveBetween ==
    /\ importer = "next" /\ (importing \notin StagedFiles \/ callerDone)
    /\ Leaves
    /\ UNCHANGED <<callerDone, feederVars, stagerVars, staged, importing>>

\* It takes a result: an error ends the import, and so may the import of the
\* file that was staged.
TakeStaged ==
    /\ importer = "receiving" /\ staged[importing] # "none"
    /\ staged' = [staged EXCEPT ![importing] = "none"]
    /\ \/ staged[importing] = "ready" /\ importer' = "next" /\ UNCHANGED stageDone
       \/ Leaves
    /\ importing' = importing + 1
    /\ UNCHANGED <<callerDone, feederVars, stagerVars>>

WaitForStagers ==
    /\ importer = "leaving" /\ \A w \in Stagers : stager[w] = "gone"
    /\ importer' = "gone"
    /\ UNCHANGED <<contexts, feederVars, stagerVars, staged, importing>>

ImporterStep == ReceiveNext \/ LeaveBetween \/ TakeStaged \/ WaitForStagers

\* The caller's context ends.
StagingCanceled ==
    /\ importer # "gone" /\ ~callerDone
    /\ callerDone' = TRUE /\ stageDone' = TRUE
    /\ UNCHANGED <<feederVars, stagerVars, staged, importerVars>>

StagingNext ==
    \/ StageFeederStep \/ (\E w \in Stagers : StagerStep(w)) \/ ImporterStep
    \/ StagingCanceled

StagingSpec == StagingInit /\ [][StagingNext]_stagingVars

\* The goroutines run; staging and importing a file take finite time.
FairStagingSpec ==
    /\ StagingSpec
    /\ WF_stagingVars(StageFeederStep) /\ WF_stagingVars(ImporterStep)
    /\ \A w \in Stagers : WF_stagingVars(StagerStep(w))

(***************************************************************************)
(* Properties                                                              *)
(***************************************************************************)

StagingOver == importer = "gone" /\ feeder = "gone" /\ \A w \in Stagers : stager[w] = "gone"

\* Whichever file cannot be staged or imported and whenever the context
\* ends, the importer is not left waiting for a result or for its workers,
\* and no goroutine stays behind (waitStaging, which ImportArchive defers).
StagingEnds == <>StagingOver
=============================================================================
