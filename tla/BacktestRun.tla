---------------------------- MODULE BacktestRun ----------------------------
(***************************************************************************)
(* One asynchronous strategy backtest run of the portfolio backtest        *)
(* service (internal/service/portfolio_backtest.go): the goroutine that    *)
(* executes it, the goroutine that publishes it once a second, the API     *)
(* requests that cancel, poll and stream it, its eviction from the map of  *)
(* runs and the manifest on disk that outlives it.                         *)
(*                                                                         *)
(* Every step is one critical section of run.mu (or one step outside it),  *)
(* so the steps of the goroutines interleave exactly where the code        *)
(* releases the lock.  A snapshot keeps the status and whether progress is *)
(* there and marked completed; requests, results and times are left out.   *)
(***************************************************************************)
EXTENDS Naturals, Sequences

CONSTANTS
    Clients,      \* SSE handlers, one channel each
    Cancellers,   \* DELETE requests
    Executor,     \* the goroutine of executeRun
    BufferCap,    \* capacity of a subscriber channel
    MaxProgress,  \* bound: calls of setProgress
    MayCrash,     \* the process may be killed
    WriteMayFail, \* WriteRunManifest may return an error (logged, not retried)
    SharedLoads   \* a shared chain load may answer with another run's cancellation

ASSUME ConstantsOK ==
    /\ Executor \notin Cancellers
    /\ BufferCap \in Nat \ {0}
    /\ MaxProgress \in Nat
    /\ MayCrash \in BOOLEAN
    /\ WriteMayFail \in BOOLEAN
    /\ SharedLoads \in BOOLEAN

Terminal == {"completed", "failed", "canceled"}
Statuses == {"queued", "running"} \cup Terminal
Progress == {"none", "partial", "complete"}
Snapshots == [status : Statuses, progress : Progress]
NoManifest == [status |-> "absent", progress |-> "none"]
Writers == Cancellers \cup {Executor}
WriterControl == {"start", "engine", "completed", "failed", "canceled",
                  "idle", "lock", "snapshot", "write", "done"}

VARIABLES
    status, finished, dirty, closed, progress,  \* fields of the run under run.mu
    updates,    \* calls of setProgress so far
    ctxDone,    \* the run's context has been cancelled
    subs,       \* run.subscribers: the registered channels
    buf,        \* what each channel holds
    chClosed,   \* which channels have been closed
    pc, held,   \* control and snapshot of the executor and of each canceller
    pub, targets, event,  \* publishLoop: control, copied subscribers, snapshot
    client, heard,        \* each SSE handler: control, last status it wrote
    polled,     \* last status a poll found
    inMap,      \* the run is in the service's map
    aged,       \* runTTL has passed since updatedAt
    manifest,   \* run.json
    writeFailed \* history: a write of run.json has returned an error

runVars == <<status, finished, dirty, closed, progress, updates, ctxDone>>
chanVars == <<subs, buf, chClosed>>
workVars == <<pc, held>>
pubVars == <<pub, targets, event>>
clientVars == <<client, heard, polled>>
storeVars == <<inMap, aged, manifest, writeFailed>>
vars == <<runVars, chanVars, workVars, pubVars, clientVars, storeVars>>

Snapshot == [status |-> status, progress |-> progress]

Init ==
    /\ status = "queued" /\ finished = FALSE /\ dirty = TRUE /\ closed = FALSE
    /\ progress = "none" /\ updates = 0 /\ ctxDone = FALSE
    /\ subs = {}
    /\ buf = [c \in Clients |-> <<>>]
    /\ chClosed = [c \in Clients |-> FALSE]
    /\ pc = [w \in Writers |-> IF w = Executor THEN "start" ELSE "idle"]
    /\ held = [w \in Writers |-> NoManifest]
    /\ pub = "wait" /\ targets = {} /\ event = NoManifest
    /\ client = [c \in Clients |-> "idle"]
    /\ heard = [c \in Clients |-> "nothing"]
    /\ polled = "nothing"
    /\ inMap = TRUE /\ aged = FALSE /\ manifest = NoManifest /\ writeFailed = FALSE

(***************************************************************************)
(* The executor and the cancellers                                         *)
(***************************************************************************)

\* Mutant: without the finished check.
FinishUnchecked(outcome) ==
    /\ status' = outcome
    /\ finished' = TRUE
    /\ dirty' = TRUE
    /\ progress' = IF progress = "none" THEN "none" ELSE "complete"

\* markCompleted, markFailed and the locked part of cancelRun: the first of
\* them to get the lock decides the status, the others change nothing.
Finish(outcome) ==
    IF finished
    THEN UNCHANGED <<status, finished, dirty, progress>>
    ELSE /\ status' = outcome
         /\ finished' = TRUE
         /\ dirty' = TRUE
         /\ progress' = IF progress = "none" THEN "none" ELSE "complete"

\* Mutant: a run cancelled while queued starts all the same.
MarkRunningUnchecked ==
    /\ pc[Executor] = "start"
    /\ pc' = [pc EXCEPT ![Executor] = "engine"]
    /\ status' = "running"
    /\ dirty' = TRUE
    /\ UNCHANGED <<finished, closed, progress, updates, ctxDone, held>>
    /\ UNCHANGED <<chanVars, pubVars, clientVars, storeVars>>

MarkRunning ==
    /\ pc[Executor] = "start"
    /\ IF finished
       THEN /\ pc' = [pc EXCEPT ![Executor] = "done"]
            /\ UNCHANGED <<status, dirty>>
       ELSE /\ pc' = [pc EXCEPT ![Executor] = "engine"]
            /\ status' = "running"
            /\ dirty' = TRUE
    /\ UNCHANGED <<finished, closed, progress, updates, ctxDone, held>>
    /\ UNCHANGED <<chanVars, pubVars, clientVars, storeVars>>

\* setProgress does not look at finished, and it renews updatedAt.
SetProgress ==
    /\ pc[Executor] = "engine"
    /\ updates < MaxProgress
    /\ updates' = updates + 1
    /\ progress' = "partial"
    /\ dirty' = TRUE
    /\ aged' = FALSE
    /\ UNCHANGED <<status, finished, closed, ctxDone, inMap, manifest, writeFailed>>
    /\ UNCHANGED <<chanVars, workVars, pubVars, clientVars>>

\* runBacktest returns, or panics ("failed").  A cancelled context need not
\* be noticed.
EngineReturns(outcome) ==
    /\ pc[Executor] = "engine"
    /\ outcome = "canceled" => ctxDone \/ SharedLoads
    /\ pc' = [pc EXCEPT ![Executor] = outcome]
    /\ UNCHANGED held
    /\ UNCHANGED <<runVars, chanVars, pubVars, clientVars, storeVars>>

\* Mutant: no persistRunManifest after the mark.
ExecutorMarksOnly ==
    /\ pc[Executor] \in Terminal
    /\ Finish(pc[Executor])
    /\ ctxDone' = (ctxDone \/ pc[Executor] = "canceled")
    /\ pc' = [pc EXCEPT ![Executor] = "done"]
    /\ UNCHANGED <<closed, updates, held>>
    /\ UNCHANGED <<chanVars, pubVars, clientVars, storeVars>>

ExecutorMarks ==
    /\ pc[Executor] \in Terminal
    /\ Finish(pc[Executor])
    /\ ctxDone' = (ctxDone \/ pc[Executor] = "canceled")
    /\ pc' = [pc EXCEPT ![Executor] = "snapshot"]
    /\ UNCHANGED <<closed, updates, held>>
    /\ UNCHANGED <<chanVars, pubVars, clientVars, storeVars>>

\* CancelStrategyBacktest: lookupRun, then run.cancel() before the lock.  A run
\* rebuilt from its manifest is finished: only the manifest is written back.
CancelRequest(c) ==
    /\ pc[c] = "idle"
    /\ IF inMap
       THEN /\ ctxDone' = TRUE
            /\ pc' = [pc EXCEPT ![c] = "lock"]
            /\ UNCHANGED held
       ELSE /\ UNCHANGED ctxDone
            /\ pc' = [pc EXCEPT ![c] = IF manifest = NoManifest THEN "done" ELSE "write"]
            /\ held' = [held EXCEPT ![c] = manifest]
    /\ UNCHANGED <<status, finished, dirty, closed, progress, updates>>
    /\ UNCHANGED <<chanVars, pubVars, clientVars, storeVars>>

\* Mutant: cancelRun stops at r.cancel(), the mark is left to the executor.
CancelMarksNothing(c) ==
    /\ pc[c] = "lock"
    /\ pc' = [pc EXCEPT ![c] = "snapshot"]
    /\ UNCHANGED <<runVars, held>>
    /\ UNCHANGED <<chanVars, pubVars, clientVars, storeVars>>

CancelMarks(c) ==
    /\ pc[c] = "lock"
    /\ Finish("canceled")
    /\ pc' = [pc EXCEPT ![c] = "snapshot"]
    /\ UNCHANGED <<closed, updates, ctxDone, held>>
    /\ UNCHANGED <<chanVars, pubVars, clientVars, storeVars>>

\* persistRunManifest: snapshot under the lock, the write outside it.
TakeSnapshot(w) ==
    /\ pc[w] = "snapshot"
    /\ held' = [held EXCEPT ![w] = Snapshot]
    /\ pc' = [pc EXCEPT ![w] = "write"]
    /\ UNCHANGED <<runVars, chanVars, pubVars, clientVars, storeVars>>

\* The rename is atomic: the last one wins, whichever snapshot is newer.
WriteManifest(w) ==
    /\ pc[w] = "write"
    /\ pc' = [pc EXCEPT ![w] = "done"]
    /\ \/ manifest' = held[w] /\ UNCHANGED writeFailed
       \/ WriteMayFail /\ writeFailed' = TRUE /\ UNCHANGED manifest
    /\ held' = [held EXCEPT ![w] = NoManifest]
    /\ UNCHANGED <<inMap, aged>>
    /\ UNCHANGED <<runVars, chanVars, pubVars, clientVars>>

(***************************************************************************)
(* publishLoop                                                             *)
(***************************************************************************)

\* A tick: drainEvent copies the subscribers and leaves the lock.
Drain ==
    /\ pub = "wait"
    /\ dirty
    /\ dirty' = FALSE
    /\ closed' = finished
    /\ event' = Snapshot
    /\ targets' = subs
    /\ pub' = "send"
    /\ UNCHANGED <<status, finished, progress, updates, ctxDone>>
    /\ UNCHANGED <<chanVars, workVars, clientVars, storeVars>>

\* The non-blocking send: a full channel loses the event.
Send(c) ==
    /\ pub = "send"
    /\ c \in targets
    /\ ~chClosed[c]
    /\ targets' = targets \ {c}
    /\ buf' = IF Len(buf[c]) < BufferCap
              THEN [buf EXCEPT ![c] = Append(@, event)]
              ELSE buf
    /\ UNCHANGED <<pub, event, subs, chClosed>>
    /\ UNCHANGED <<runVars, workVars, clientVars, storeVars>>

\* What the death of the process leaves: the disk, and requests not yet made.
ProcessDies ==
    /\ inMap' = FALSE
    /\ subs' = {}
    /\ targets' = {}
    /\ pc' = [w \in Writers |-> IF pc[w] = "idle" THEN "idle" ELSE "done"]
    /\ client' = [c \in Clients |-> IF client[c] \in {"joined", "streaming"}
                                    THEN "cut" ELSE client[c]]
    /\ buf' = [c \in Clients |-> <<>>]
    /\ held' = [w \in Writers |-> NoManifest]
    /\ event' = NoManifest
    /\ UNCHANGED <<runVars, chClosed, heard, polled, aged, manifest, writeFailed>>

\* unsubscribe closed the channel after drainEvent copied it: the send panics
\* in a goroutine nobody recovers, and the process dies.
SendOnClosed(c) ==
    /\ pub = "send"
    /\ c \in targets
    /\ chClosed[c]
    /\ pub' = "panicked"
    /\ ProcessDies

\* Mutant: publishLoop ignores done and waits for the next tick.
RoundNeverLast ==
    /\ pub = "send"
    /\ targets = {}
    /\ pub' = "wait"
    /\ event' = NoManifest
    /\ UNCHANGED targets
    /\ UNCHANGED <<runVars, chanVars, workVars, clientVars, storeVars>>

RoundEnds ==
    /\ pub = "send"
    /\ targets = {}
    /\ pub' = IF closed THEN "close" ELSE "wait"
    /\ event' = NoManifest
    /\ UNCHANGED targets
    /\ UNCHANGED <<runVars, chanVars, workVars, clientVars, storeVars>>

\* Mutant: the subscribers are forgotten without closing their channels.
ForgetSubscribers ==
    /\ pub = "close"
    /\ subs' = {}
    /\ pub' = "exit"
    /\ UNCHANGED <<buf, chClosed, targets, event>>
    /\ UNCHANGED <<runVars, workVars, clientVars, storeVars>>

CloseSubscribers ==
    /\ pub = "close"
    /\ chClosed' = [c \in Clients |-> chClosed[c] \/ c \in subs]
    /\ subs' = {}
    /\ pub' = "exit"
    /\ UNCHANGED <<buf, targets, event>>
    /\ UNCHANGED <<runVars, workVars, clientVars, storeVars>>

(***************************************************************************)
(* The SSE handlers and the pollers                                        *)
(***************************************************************************)

\* lookupRun, as GetStrategyBacktestRun answers it: memory first, then disk.
Found == IF inMap THEN Snapshot ELSE manifest

Subscribe(c) ==
    /\ client[c] = "idle"
    /\ IF Found = NoManifest
       THEN /\ client' = [client EXCEPT ![c] = "gone"]
            /\ UNCHANGED chanVars
       ELSE /\ client' = [client EXCEPT ![c] = "joined"]
            /\ IF inMap /\ ~finished
               THEN /\ subs' = subs \cup {c}
                    /\ UNCHANGED <<buf, chClosed>>
               ELSE /\ buf' = [buf EXCEPT ![c] = <<Found>>]
                    /\ chClosed' = [chClosed EXCEPT ![c] = TRUE]
                    /\ UNCHANGED subs
    /\ UNCHANGED <<heard, polled>>
    /\ UNCHANGED <<runVars, workVars, pubVars, storeVars>>

\* Nobody reads the channel any more: what it holds is dropped with it.
Unsubscribe(c) ==
    /\ subs' = subs \ {c}
    /\ chClosed' = [chClosed EXCEPT ![c] = @ \/ c \in subs]
    /\ buf' = [buf EXCEPT ![c] = <<>>]

\* GetStrategyBacktestRun after the subscription: only a status that is not
\* terminal is written.
FirstStatus(c) ==
    /\ client[c] = "joined"
    /\ IF Found = NoManifest
       THEN /\ client' = [client EXCEPT ![c] = "gone"]
            /\ Unsubscribe(c)
            /\ UNCHANGED heard
       ELSE /\ client' = [client EXCEPT ![c] = "streaming"]
            /\ heard' = IF Found.status \in Terminal
                        THEN heard
                        ELSE [heard EXCEPT ![c] = Found.status]
            /\ UNCHANGED chanVars
    /\ UNCHANGED polled
    /\ UNCHANGED <<runVars, workVars, pubVars, storeVars>>

Receive(c) ==
    /\ client[c] = "streaming"
    /\ buf[c] # <<>>
    /\ heard' = [heard EXCEPT ![c] = Head(buf[c]).status]
    /\ buf' = [buf EXCEPT ![c] = Tail(@)]
    /\ UNCHANGED <<client, polled, subs, chClosed>>
    /\ UNCHANGED <<runVars, workVars, pubVars, storeVars>>

\* The channel is closed and empty: the handler returns.
StreamEnds(c) ==
    /\ client[c] = "streaming"
    /\ buf[c] = <<>>
    /\ chClosed[c]
    /\ client' = [client EXCEPT ![c] = "ended"]
    /\ Unsubscribe(c)
    /\ UNCHANGED <<heard, polled>>
    /\ UNCHANGED <<runVars, workVars, pubVars, storeVars>>

\* The request's context ends or a write fails.
Disconnect(c) ==
    /\ client[c] \in {"joined", "streaming"}
    /\ client' = [client EXCEPT ![c] = "gone"]
    /\ Unsubscribe(c)
    /\ UNCHANGED <<heard, polled>>
    /\ UNCHANGED <<runVars, workVars, pubVars, storeVars>>

Poll ==
    /\ Found # NoManifest
    /\ polled' = Found.status
    /\ UNCHANGED <<client, heard>>
    /\ UNCHANGED <<runVars, chanVars, workVars, pubVars, storeVars>>

(***************************************************************************)
(* Eviction and the death of the process                                   *)
(***************************************************************************)

\* Two hours pass: longer than any manifest write still under way.
Age ==
    /\ inMap /\ finished /\ ~aged
    /\ \A w \in Writers : pc[w] \notin {"snapshot", "write"}
    /\ aged' = TRUE
    /\ UNCHANGED <<inMap, manifest, writeFailed>>
    /\ UNCHANGED <<runVars, chanVars, workVars, pubVars, clientVars>>

EvictOldRuns ==
    /\ inMap /\ finished /\ aged
    /\ inMap' = FALSE
    /\ UNCHANGED <<aged, manifest, writeFailed>>
    /\ UNCHANGED <<runVars, chanVars, workVars, pubVars, clientVars>>

Crash ==
    /\ MayCrash
    /\ pub \notin {"dead", "panicked"}
    /\ pub' = "dead"
    /\ ProcessDies

ExecutorNext ==
    \/ MarkRunning
    \/ SetProgress
    \/ \E outcome \in Terminal : EngineReturns(outcome)
    \/ ExecutorMarks

CancelNext == \E c \in Cancellers : CancelRequest(c) \/ CancelMarks(c)

PersistNext == \E w \in Writers : TakeSnapshot(w) \/ WriteManifest(w)

PublishNext ==
    \/ Drain
    \/ \E c \in Clients : Send(c) \/ SendOnClosed(c)
    \/ RoundEnds
    \/ CloseSubscribers

ClientNext ==
    \/ \E c \in Clients :
          \/ Subscribe(c) \/ FirstStatus(c) \/ Receive(c)
          \/ StreamEnds(c) \/ Disconnect(c)
    \/ Poll

StoreNext == Age \/ EvictOldRuns \/ Crash

Next == ExecutorNext \/ CancelNext \/ PersistNext \/ PublishNext \/ ClientNext \/ StoreNext

Spec == Init /\ [][Next]_vars

(***************************************************************************)
(* Fairness.  The goroutines of the service run until they block, the      *)
(* ticker keeps ticking, the engine returns (its loops are over a finite   *)
(* data set and check the context), and a handler whose client stays       *)
(* connected keeps reading.  Nothing obliges a client, a canceller, the    *)
(* passing of two hours or a crash.                                        *)
(***************************************************************************)
Fairness ==
    /\ WF_vars(MarkRunning)
    /\ WF_vars(\E outcome \in Terminal : EngineReturns(outcome))
    /\ WF_vars(ExecutorMarks)
    /\ \A w \in Writers : WF_vars(TakeSnapshot(w)) /\ WF_vars(WriteManifest(w))
    /\ \A c \in Cancellers : WF_vars(CancelMarks(c))
    /\ WF_vars(PublishNext)
    /\ \A c \in Clients :
          WF_vars(FirstStatus(c)) /\ WF_vars(Receive(c)) /\ WF_vars(StreamEnds(c))

FairSpec == Spec /\ Fairness

(***************************************************************************)
(* Safety                                                                  *)
(***************************************************************************)

ProcessDead == pub \in {"dead", "panicked"}

TypeRun ==
    /\ status \in Statuses
    /\ finished \in BOOLEAN /\ dirty \in BOOLEAN /\ closed \in BOOLEAN
    /\ progress \in Progress
    /\ updates \in 0..MaxProgress
    /\ ctxDone \in BOOLEAN

TypeChan ==
    /\ subs \in SUBSET Clients
    /\ buf \in [Clients -> Seq(Snapshots)]
    /\ \A c \in Clients : Len(buf[c]) \in 0..BufferCap
    /\ chClosed \in [Clients -> BOOLEAN]

TypeWork ==
    /\ pc \in [Writers -> WriterControl]
    /\ held \in [Writers -> Snapshots \cup {NoManifest}]

TypePub ==
    /\ pub \in {"wait", "send", "close", "exit", "dead", "panicked"}
    /\ targets \in SUBSET Clients
    /\ event \in Snapshots \cup {NoManifest}
    /\ pub = "send" => event \in Snapshots

TypeClient ==
    /\ client \in [Clients -> {"idle", "joined", "streaming", "ended", "gone", "cut"}]
    /\ heard \in [Clients -> Statuses \cup {"nothing"}]
    /\ polled \in Statuses \cup {"nothing"}

TypeStore ==
    /\ inMap \in BOOLEAN /\ aged \in BOOLEAN
    /\ manifest \in Snapshots \cup {NoManifest} /\ writeFailed \in BOOLEAN

\* Every variable keeps its type: the fields of portfolioBacktestRun, the
\* channels within their capacity, the control of every goroutine.
TypeOK == TypeRun /\ TypeChan /\ TypeWork /\ TypePub /\ TypeClient /\ TypeStore

\* The first of completion, failure and cancellation decides: from then on no
\* racing markRunning, markCompleted, markFailed or cancelRun changes the
\* status (the finished checks of lines 1199-1279).
OutcomeIsFinal == [][finished => finished' /\ status' = status]_vars

\* run.json, whoever wrote it last and from however old a snapshot, holds the
\* outcome the run has in memory (persistRunManifest outside the lock).
ManifestTellsOutcome ==
    manifest # NoManifest => finished /\ manifest.status = status

\* A stream carries one terminal status at most, and nothing after it, in the
\* channel or at the client (drainEvent, publishLoop, subscribe).
NothingAfterTerminal ==
    \A c \in Clients :
        /\ \A i \in 1..Len(buf[c]) : buf[c][i].status \in Terminal => i = Len(buf[c])
        /\ heard[c] \in Terminal => buf[c] = <<>>

\* When publishLoop has exited nobody is left registered on a channel that no
\* goroutine will ever close (subscribe checks finished under the lock).
NobodyLeftSubscribed == pub = "exit" => subs = {}

\* A poller that saw a terminal status never sees another one, whether memory,
\* the manifest after an eviction or the manifest after a restart answers.
PollsAgree == [][(polled \in Terminal) => (polled' = polled)]_vars

\* As long as the process lives, on a disk that accepts writes a run leaves the
\* map only when its manifest can answer for it (evictOldRuns, lookupRun).
EvictedRunIsOnDisk == ~writeFailed /\ ~inMap /\ ~ProcessDead => manifest # NoManifest

(***************************************************************************)
(* Refinement and liveness                                                 *)
(***************************************************************************)

Abstract == INSTANCE RunOutcome WITH
    Outcomes <- Terminal,
    outcome <- IF finished THEN {status} ELSE {},
    record <- IF manifest = NoManifest THEN {} ELSE {manifest.status}

\* The run is decided once and what is recorded is that decision.
ImplementsRunOutcome == Abstract!Spec

\* On a disk that accepts writes a run that is decided gets its manifest,
\* whoever decided it: the executor
\* that finds a queued run already cancelled leaves that to the canceller.
OutcomeIsRecorded == finished ~> (manifest # NoManifest \/ writeFailed \/ ProcessDead)

\* A client that stays connected sees its stream end, however its subscription
\* raced the end of the run.
StreamsEnd ==
    \A c \in Clients : client[c] = "streaming" ~> client[c] \in {"ended", "gone", "cut"}

(***************************************************************************)
(* What the documentation says                                             *)
(***************************************************************************)

\* internal/api/handler_analytics.go:265: the events include the final status.
\* A client that read its stream to the end has heard it.
FinalStatusDelivered == \A c \in Clients : client[c] = "ended" => heard[c] \in Terminal

\* docs/dsl.md:64: after a disconnection the client asks the status endpoint
\* again.  The run it was following is still there to answer.
StatusAfterDisconnect ==
    \A c \in Clients : client[c] = "gone" => Found # NoManifest
=============================================================================
