---------------------------- MODULE SyncPipeline ----------------------------
(***************************************************************************)
(* The levels of the data sync pipeline: a run over the jobs, a job over   *)
(* its sources, a source under its lock, and three of the importers and    *)
(* backfills a source calls.  A level knows of the next one only what it   *)
(* returns (a status, a report, a verdict), which the module of each level *)
(* leaves open; so a behaviour is one of one of them, the others at rest.  *)
(***************************************************************************)
EXTENDS SourceSync, SyncJob, SyncRun, ArchiveImport, ArchiveStaging, FileImport, GreeksBackfill

VARIABLE part  \* the level at work

Parts == {"run", "job", "source", "archive", "staging", "file", "greeks"}

pipelineVars == <<part, vars, jobVars, runVars, archiveVars, stagingVars, fileVars, greeksVars>>

\* The least of what the levels start from, where they are not looked at.
RunAtRest == selected = {} /\ dependsOn = <<>> /\ strict = FALSE /\ RunBegins
ArchiveAtRest ==
    /\ ArchiveInit
    /\ writableFrom = 1 /\ batchSize = Min(BatchSizes)
    /\ \A f \in Files : disk[f].content = CHOOSE content \in Contents[f] : TRUE

PipelineInit ==
    /\ part \in Parts
    /\ Init /\ (part # "source" => ~written)
    /\ StagingInit /\ FileInit
    /\ GreeksInit /\ (part # "greeks" => priced = CHOOSE p \in Prices : TRUE)
    /\ JobInit /\ (part # "job" => sequential)
    /\ IF part = "archive" THEN ArchiveInit ELSE ArchiveAtRest
    /\ IF part = "run" THEN RunInit ELSE RunAtRest

OfRun(action) ==
    part = "run" /\ action /\ UNCHANGED <<part, vars, jobVars, archiveVars, stagingVars, fileVars, greeksVars>>
OfJob(action) ==
    part = "job" /\ action /\ UNCHANGED <<part, vars, runVars, archiveVars, stagingVars, fileVars, greeksVars>>
OfSource(action) ==
    part = "source" /\ action /\ UNCHANGED <<part, jobVars, runVars, archiveVars, stagingVars, fileVars, greeksVars>>
OfArchive(action) ==
    part = "archive" /\ action /\ UNCHANGED <<part, vars, jobVars, runVars, stagingVars, fileVars, greeksVars>>
OfStaging(action) ==
    part = "staging" /\ action /\ UNCHANGED <<part, vars, jobVars, runVars, archiveVars, fileVars, greeksVars>>
OfFile(action) ==
    part = "file" /\ action /\ UNCHANGED <<part, vars, jobVars, runVars, archiveVars, stagingVars, greeksVars>>
OfGreeks(action) ==
    part = "greeks" /\ action /\ UNCHANGED <<part, vars, jobVars, runVars, archiveVars, stagingVars, fileVars>>

PipelineNext ==
    \/ OfRun(RunNext) \/ OfJob(JobNext) \/ OfSource(Next)
    \/ OfArchive(ArchiveNext) \/ OfStaging(StagingNext) \/ OfFile(FileNext) \/ OfGreeks(GreeksNext)

\* The fairness is that of the levels (FairSpec, JobFairSpec, FairStagingSpec);
\* a behaviour is one of one level, so that what is fair of two of them can be
\* said in one.
PipelineSpec ==
    /\ PipelineInit /\ [][PipelineNext]_pipelineVars
    /\ \A r \in Runners : WF_pipelineVars(OfSource(RunnerStep(r)))
    /\ WF_pipelineVars(OfJob(JobStep) \/ OfStaging(ImporterStep))
    /\ WF_pipelineVars(OfJob(FeederStep) \/ OfStaging(StageFeederStep))
    /\ \A w \in Workers \cup Stagers :
          WF_pipelineVars(\/ w \in Workers /\ OfJob(WorkerStep(w))
                          \/ w \in Stagers /\ OfStaging(StagerStep(w)))

(***************************************************************************)
(* Properties                                                              *)
(***************************************************************************)

\* A job returns and leaves no goroutine behind (JobEnds), and so does the
\* staging of an archive (StagingEnds), whenever their contexts end and
\* whatever fails.
GoroutinesEnd == part \in {"job", "staging"} => <>(JobOver \/ StagingOver)
=============================================================================
