------------------------------ MODULE SyncRun ------------------------------
(***************************************************************************)
(* A run of the data sync pipeline over the selected jobs (Run, topoSort   *)
(* and dependencyBlockedReport in internal/syncpipeline).  Job names are   *)
(* numbers, which have the order sort.Strings gives the names.  What a job *)
(* does is the matter of SyncJob; here it is its status.                   *)
(***************************************************************************)
EXTENDS Naturals, SequencesExt, FiniteSets

CONSTANTS
    NumJobs,   \* configured jobs
    MaxDeps    \* bound: entries of a depends_on list

ASSUME SyncRunConstants == NumJobs \in Nat \ {0} /\ MaxDeps \in Nat

Names == 1..NumJobs
Statuses == {"success", "failed", "skipped"}

VARIABLES
    selected,   \* jobs of this run
    dependsOn,  \* depends_on of each of them, in the order written
    strict,     \* DependencyModeStrict
    runPhase,   \* control of Run
    visited,    \* topoSort: the mark of each job, 1 on the way in and 2 on the way out
    stack,      \* the calls of visit under way, the last first
    queue,      \* ordered jobs still to come
    statusOf,   \* status of every job with a report, else "none"
    entered     \* history: jobs runJob was called for

runConfig == <<selected, dependsOn, strict>>
runVars == <<runConfig, runPhase, visited, stack, queue, statusOf, entered>>

Unmarked == [j \in Names |-> 0]

RunBegins ==
    /\ runPhase = "plan"
    /\ visited = Unmarked /\ stack = <<>>
    /\ queue = <<>>
    /\ statusOf = [j \in Names |-> "none"]
    /\ entered = {}

RunInit ==
    /\ selected \in SUBSET Names
    /\ dependsOn \in [selected -> BoundedSeq(Names, MaxDeps)]
    /\ strict \in BOOLEAN
    /\ RunBegins

(***************************************************************************)
(* topoSort: a depth-first search.  A call of visit is the job and what of *)
(* its dependencies has not been looked at.                                *)
(***************************************************************************)

Call(name) == [job |-> name, deps |-> dependsOn[name]]

\* visit(name) of a selected job, when calls are what is under way below it: a
\* job that is on its way is a cycle, and one that is done has nothing to do.
Visit(name, calls) ==
    \/ /\ visited[name] = 0
       /\ visited' = [visited EXCEPT ![name] = 1]
       /\ stack' = <<Call(name)>> \o calls
       /\ UNCHANGED <<runPhase, queue>>
    \/ /\ visited[name] = 1
       /\ runPhase' = "refused"
       /\ visited' = Unmarked /\ stack' = <<>> /\ queue' = <<>>
    \/ /\ visited[name] = 2
       /\ stack' = calls
       /\ UNCHANGED <<runPhase, visited, queue>>

\* The loop over the sorted names; those that are done are passed over.
VisitName(name) ==
    /\ runPhase = "plan" /\ stack = <<>>
    /\ visited[name] = 0 /\ \A other \in selected : other < name => visited[other] # 0
    /\ Visit(name, <<>>)
    /\ UNCHANGED <<runConfig, statusOf, entered>>

\* The loop over the dependencies of the last call; unselected ones are
\* passed over.
VisitDependency ==
    /\ runPhase = "plan" /\ stack # <<>> /\ Head(stack).deps # <<>>
    /\ LET dep == Head(Head(stack).deps)
           calls == <<[Head(stack) EXCEPT !.deps = Tail(@)]>> \o Tail(stack)
       IN  IF dep \in selected THEN Visit(dep, calls)
           ELSE stack' = calls /\ UNCHANGED <<runPhase, visited, queue>>
    /\ UNCHANGED <<runConfig, statusOf, entered>>

Leave ==
    /\ visited' = [visited EXCEPT ![Head(stack).job] = 2]
    /\ queue' = Append(queue, Head(stack).job)
    /\ stack' = Tail(stack)
    /\ UNCHANGED <<runConfig, runPhase, statusOf, entered>>

\* Mutant: a job is put into the order before its dependencies.
VisitReturnsAtOnce == runPhase = "plan" /\ stack # <<>> /\ Leave

VisitReturns == runPhase = "plan" /\ stack # <<>> /\ Head(stack).deps = <<>> /\ Leave

(***************************************************************************)
(* Run                                                                     *)
(***************************************************************************)

Plan ==
    /\ runPhase = "plan" /\ stack = <<>>
    /\ \A name \in selected : visited[name] = 2
    /\ runPhase' = "schema" /\ visited' = Unmarked
    /\ UNCHANGED <<runConfig, stack, queue, statusOf, entered>>

EnsureSchema ==
    /\ runPhase = "schema"
    /\ runPhase' \in {"running", "failed"}
    /\ UNCHANGED <<runConfig, visited, stack, queue, statusOf, entered>>

\* Mutant: only the last dependency is looked at.
BlockedByLast(job) ==
    /\ dependsOn[job] # <<>>
    /\ LET dep == Last(dependsOn[job])
       IN  statusOf[dep] = "failed" \/ (strict /\ statusOf[dep] = "none")

\* dependencyBlockedReport: a dependency failed, or it has no report and the
\* mode is strict.  A dependency that was skipped does not block.
Blocked(job) ==
    \E dep \in ToSet(dependsOn[job]) :
        statusOf[dep] = "failed" \/ (strict /\ statusOf[dep] = "none")

Report(job, status) ==
    /\ statusOf' = [statusOf EXCEPT ![job] = status]
    /\ queue' = Tail(queue)

SkipBlocked ==
    /\ runPhase = "running" /\ queue # <<>> /\ Blocked(Head(queue))
    /\ Report(Head(queue), "skipped")
    /\ UNCHANGED <<runConfig, runPhase, visited, stack, entered>>

\* runJob: without source keys it reports skipped.
RunJob(status) ==
    /\ runPhase = "running" /\ queue # <<>> /\ ~Blocked(Head(queue))
    /\ Report(Head(queue), status)
    /\ entered' = entered \cup {Head(queue)}
    /\ UNCHANGED <<runConfig, runPhase, visited, stack>>

Finish ==
    /\ runPhase = "running" /\ queue = <<>>
    /\ runPhase' = "finished"
    /\ UNCHANGED <<runConfig, visited, stack, queue, statusOf, entered>>

RunNext ==
    \/ \E name \in selected : VisitName(name)
    \/ VisitDependency \/ VisitReturns \/ Plan
    \/ EnsureSchema
    \/ SkipBlocked
    \/ \E status \in Statuses : RunJob(status)
    \/ Finish

RunSpec == RunInit /\ [][RunNext]_runVars

(***************************************************************************)
(* Properties                                                              *)
(***************************************************************************)

\* The selected jobs a job depends on.
Needs == {edge \in selected \X selected : edge[2] \in ToSet(dependsOn[edge[1]])}

\* Jobs that need each other in a circle: each of them needs one of them.
Circular ==
    \E circle \in SUBSET selected :
        circle # {} /\ \A j \in circle : \E d \in circle : <<j, d>> \in Needs

\* A run is refused only for jobs that need each other in a circle.  Otherwise
\* every job gets one report, and not before all it depends on in this run
\* have theirs.
DependenciesFirst ==
    /\ runPhase = "refused" => Circular
    /\ runPhase \in {"running", "finished"} =>
          /\ \A j \in Names : (j \in selected /\ statusOf[j] = "none") <=> j \in ToSet(queue)
          /\ IsInjective(queue)
          /\ \A edge \in Needs : statusOf[edge[1]] # "none" => statusOf[edge[2]] # "none"

\* A job runs only when none of its dependencies failed and, in strict mode,
\* all of them were selected; a job is held back for no other reason.
HeldBackWhenBlocked ==
    \A j \in Names : statusOf[j] # "none" =>
        (j \in entered <=> \A dep \in ToSet(dependsOn[j]) :
                              statusOf[dep] # "failed" /\ (strict => dep \in selected))
=============================================================================
