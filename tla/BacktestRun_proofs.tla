------------------------- MODULE BacktestRun_proofs -------------------------
(***************************************************************************)
(* Proofs about BacktestRun for any number of clients and cancellers and   *)
(* any buffer capacity.                                                    *)
(***************************************************************************)
EXTENDS BacktestRun, TLAPS

LEMMA Frames ==
    /\ TypeRun /\ UNCHANGED runVars => TypeRun'
    /\ TypeChan /\ UNCHANGED chanVars => TypeChan'
    /\ TypeWork /\ UNCHANGED workVars => TypeWork'
    /\ TypePub /\ UNCHANGED pubVars => TypePub'
    /\ TypeClient /\ UNCHANGED clientVars => TypeClient'
    /\ TypeStore /\ UNCHANGED storeVars => TypeStore'
  BY DEF TypeRun, TypeChan, TypeWork, TypePub, TypeClient, TypeStore,
         runVars, chanVars, workVars, pubVars, clientVars, storeVars

LEMMA SnapshotType == ASSUME TypeRun PROVE Snapshot \in Snapshots
  BY DEF TypeRun, Snapshot, Snapshots

LEMMA FoundType == ASSUME TypeRun, TypeStore PROVE Found \in Snapshots \cup {NoManifest}
  BY SnapshotType DEF TypeStore, Found

\* Finish keeps the types of the fields it may set.
LEMMA FinishType ==
    ASSUME TypeRun, NEW o \in Terminal, Finish(o)
    PROVE  status' \in Statuses /\ finished' \in BOOLEAN /\ dirty' \in BOOLEAN /\ progress' \in Progress
<1>1. CASE finished
  BY <1>1 DEF TypeRun, Finish
<1>2. CASE ~finished
  BY <1>2 DEF TypeRun, Finish, Statuses, Progress
<1>3. QED
  BY <1>1, <1>2

\* Every step keeps the types of the variables.
LEMMA TypeStep == ASSUME TypeOK, [Next]_vars PROVE TypeOK'
<1>t. TypeRun /\ TypeChan /\ TypeWork /\ TypePub /\ TypeClient /\ TypeStore
  BY DEF TypeOK
<1>w. Executor \in Writers /\ Cancellers \subseteq Writers
  BY DEF Writers
<1>1. CASE MarkRunning
  <2>1. TypeRun'
    BY <1>1, <1>t DEF MarkRunning, TypeRun, Statuses
  <2>2. TypeWork'
    BY <1>1, <1>t, <1>w DEF MarkRunning, TypeWork, WriterControl
  <2>3. QED
    BY <1>1, <1>t, <2>1, <2>2, Frames DEF MarkRunning, TypeOK
<1>2. CASE SetProgress
  <2>1. TypeRun'
    BY <1>2, <1>t, ConstantsOK DEF SetProgress, TypeRun, Progress
  <2>2. TypeStore'
    BY <1>2, <1>t DEF SetProgress, TypeStore
  <2>3. QED
    BY <1>2, <1>t, <2>1, <2>2, Frames DEF SetProgress, TypeOK
<1>3. ASSUME NEW o \in Terminal, EngineReturns(o) PROVE TypeOK'
  <2>1. TypeWork'
    BY <1>3, <1>t, <1>w DEF EngineReturns, TypeWork, WriterControl, Terminal
  <2>2. QED
    BY <1>3, <1>t, <2>1, Frames DEF EngineReturns, TypeOK
<1>4. CASE ExecutorMarks
  <2>1. TypeRun'
    BY <1>4, <1>t, FinishType DEF ExecutorMarks, TypeRun
  <2>2. TypeWork'
    BY <1>4, <1>t, <1>w DEF ExecutorMarks, TypeWork, WriterControl
  <2>3. QED
    BY <1>4, <1>t, <2>1, <2>2, Frames DEF ExecutorMarks, TypeOK
<1>5. ASSUME NEW c \in Cancellers, CancelRequest(c) PROVE TypeOK'
  <2>1. TypeRun'
    BY <1>5, <1>t DEF CancelRequest, TypeRun
  <2>2. TypeWork'
    BY <1>5, <1>t, <1>w DEF CancelRequest, TypeWork, TypeStore, WriterControl
  <2>3. QED
    BY <1>5, <1>t, <2>1, <2>2, Frames DEF CancelRequest, TypeOK
<1>6. ASSUME NEW c \in Cancellers, CancelMarks(c) PROVE TypeOK'
  <2>1. TypeRun'
    BY <1>6, <1>t, FinishType DEF CancelMarks, TypeRun, Terminal
  <2>2. TypeWork'
    BY <1>6, <1>t, <1>w DEF CancelMarks, TypeWork, WriterControl
  <2>3. QED
    BY <1>6, <1>t, <2>1, <2>2, Frames DEF CancelMarks, TypeOK
<1>7. ASSUME NEW w \in Writers, TakeSnapshot(w) PROVE TypeOK'
  <2>1. TypeWork'
    BY <1>7, <1>t, SnapshotType DEF TakeSnapshot, TypeWork, WriterControl
  <2>2. QED
    BY <1>7, <1>t, <2>1, Frames DEF TakeSnapshot, TypeOK
<1>8. ASSUME NEW w \in Writers, WriteManifest(w) PROVE TypeOK'
  <2>1. TypeWork' /\ TypeStore'
    BY <1>8, <1>t DEF WriteManifest, TypeWork, TypeStore, WriterControl
  <2>2. QED
    BY <1>8, <1>t, <2>1, Frames DEF WriteManifest, TypeOK
<1>9. CASE Drain
  <2>1. TypeRun' /\ TypePub'
    BY <1>9, <1>t, SnapshotType DEF Drain, TypeRun, TypePub, TypeChan, chanVars
  <2>2. QED
    BY <1>9, <1>t, <2>1, Frames DEF Drain, TypeOK
<1>10. ASSUME NEW c \in Clients, Send(c) PROVE TypeOK'
  <2>e. event \in Snapshots
    BY <1>10, <1>t DEF Send, TypePub
  <2>1. TypeChan'
    BY <1>10, <1>t, <2>e, ConstantsOK DEF Send, TypeChan
  <2>2. TypePub'
    BY <1>10, <1>t DEF Send, TypePub
  <2>3. QED
    BY <1>10, <1>t, <2>1, <2>2, Frames DEF Send, TypeOK
<1>11. ASSUME ProcessDies, pub' \in {"dead", "panicked"} PROVE TypeOK'
  <2>1. TypeRun'
    BY <1>11, <1>t, Frames DEF ProcessDies
  <2>2. TypeChan'
    BY <1>11, <1>t, ConstantsOK DEF ProcessDies, TypeChan
  <2>3. TypeWork'
    BY <1>11, <1>t DEF ProcessDies, TypeWork, WriterControl
  <2>4. TypePub'
    BY <1>11, <1>t DEF ProcessDies, TypePub
  <2>5. TypeClient'
    BY <1>11, <1>t DEF ProcessDies, TypeClient
  <2>6. TypeStore'
    BY <1>11, <1>t DEF ProcessDies, TypeStore
  <2>7. QED
    BY <2>1, <2>2, <2>3, <2>4, <2>5, <2>6 DEF TypeOK
<1>12. CASE RoundEnds
  <2>1. TypePub'
    BY <1>12, <1>t DEF RoundEnds, TypePub
  <2>2. QED
    BY <1>12, <1>t, <2>1, Frames DEF RoundEnds, TypeOK
<1>13. CASE CloseSubscribers
  <2>1. TypeChan' /\ TypePub'
    BY <1>13, <1>t DEF CloseSubscribers, TypeChan, TypePub
  <2>2. QED
    BY <1>13, <1>t, <2>1, Frames DEF CloseSubscribers, TypeOK
<1>14. ASSUME NEW c \in Clients, Subscribe(c) PROVE TypeOK'
  <2>1. TypeChan'
    <3>1. CASE UNCHANGED chanVars
      BY <3>1, <1>t, Frames
    <3>2. CASE UNCHANGED <<buf, chClosed>> /\ subs' = subs \cup {c}
      BY <3>2, <1>t DEF TypeChan
    <3>3. CASE /\ Found # NoManifest
               /\ buf' = [buf EXCEPT ![c] = <<Found>>]
               /\ chClosed' = [chClosed EXCEPT ![c] = TRUE]
               /\ UNCHANGED subs
      <4>1. <<Found>> \in Seq(Snapshots) /\ Len(<<Found>>) = 1
        BY <3>3, <1>t, FoundType
      <4>2. QED
        BY <3>3, <4>1, <1>t, ConstantsOK DEF TypeChan
    <3>4. QED
      BY <1>14, <3>1, <3>2, <3>3 DEF Subscribe
  <2>2. TypeClient'
    BY <1>14, <1>t DEF Subscribe, TypeClient
  <2>3. QED
    BY <1>14, <1>t, <2>1, <2>2, Frames DEF Subscribe, TypeOK
<1>u. ASSUME NEW c \in Clients, Unsubscribe(c) PROVE TypeChan'
  BY <1>u, <1>t, ConstantsOK DEF Unsubscribe, TypeChan
<1>15. ASSUME NEW c \in Clients, FirstStatus(c) PROVE TypeOK'
  <2>1. TypeChan'
    BY <1>15, <1>t, <1>u, Frames DEF FirstStatus
  <2>2. TypeClient'
    BY <1>15, <1>t, FoundType DEF FirstStatus, TypeClient, Snapshots
  <2>3. QED
    BY <1>15, <1>t, <2>1, <2>2, Frames DEF FirstStatus, TypeOK
<1>16. ASSUME NEW c \in Clients, Receive(c) PROVE TypeOK'
  <2>1. buf[c] \in Seq(Snapshots) /\ buf[c] # <<>> /\ Len(buf[c]) \in 0..BufferCap
    BY <1>16, <1>t DEF Receive, TypeChan
  <2>2. /\ Head(buf[c]) \in Snapshots
        /\ Tail(buf[c]) \in Seq(Snapshots)
        /\ Len(Tail(buf[c])) \in 0..BufferCap
    BY <2>1, ConstantsOK
  <2>3. TypeChan'
    BY <1>16, <1>t, <2>2 DEF Receive, TypeChan
  <2>4. TypeClient'
    BY <1>16, <1>t, <2>2 DEF Receive, TypeClient, Snapshots
  <2>5. QED
    BY <1>16, <1>t, <2>3, <2>4, Frames DEF Receive, TypeOK
<1>17. ASSUME NEW c \in Clients, StreamEnds(c) PROVE TypeOK'
  <2>1. TypeClient'
    BY <1>17, <1>t DEF StreamEnds, TypeClient
  <2>2. QED
    BY <1>17, <1>t, <1>u, <2>1, Frames DEF StreamEnds, TypeOK
<1>18. ASSUME NEW c \in Clients, Disconnect(c) PROVE TypeOK'
  <2>1. TypeClient'
    BY <1>18, <1>t DEF Disconnect, TypeClient
  <2>2. QED
    BY <1>18, <1>t, <1>u, <2>1, Frames DEF Disconnect, TypeOK
<1>19. CASE Poll
  <2>1. TypeClient'
    BY <1>19, <1>t, FoundType DEF Poll, TypeClient, Snapshots
  <2>2. QED
    BY <1>19, <1>t, <2>1, Frames DEF Poll, TypeOK
<1>20. CASE Age \/ EvictOldRuns
  <2>1. TypeStore'
    BY <1>20, <1>t DEF Age, EvictOldRuns, TypeStore
  <2>2. QED
    BY <1>20, <1>t, <2>1, Frames DEF Age, EvictOldRuns, TypeOK
<1>21. CASE UNCHANGED vars
  BY <1>21, <1>t, Frames DEF vars, TypeOK
<1>22. CASE Crash \/ \E c \in Clients : SendOnClosed(c)
  BY <1>22, <1>11 DEF Crash, SendOnClosed
<1>23. QED
  BY <1>1, <1>2, <1>3, <1>4, <1>5, <1>6, <1>7, <1>8, <1>9, <1>10, <1>12, <1>13,
     <1>14, <1>15, <1>16, <1>17, <1>18, <1>19, <1>20, <1>21, <1>22
  DEF Next, ExecutorNext, CancelNext, PersistNext, PublishNext, ClientNext, StoreNext

\* Every variable keeps its type, for any number of clients and cancellers.
THEOREM TypeCorrect == Spec => []TypeOK
<1>1. ASSUME Init PROVE TypeOK
  <2>a. TypeRun
    <3>1. finished \in BOOLEAN /\ dirty \in BOOLEAN /\ closed \in BOOLEAN /\ ctxDone \in BOOLEAN
      BY <1>1 DEF Init
    <3>2. status \in Statuses /\ progress \in Progress /\ updates \in 0..MaxProgress
      BY <1>1, ConstantsOK DEF Init, Statuses, Progress
    <3>3. QED
      BY <3>1, <3>2 DEF TypeRun
  <2>b. TypePub /\ TypeClient
    BY <1>1 DEF Init, TypePub, TypeClient
  <2>c. TypeStore
    BY <1>1 DEF Init, TypeStore
  <2>2. TypeWork
    BY <1>1 DEF Init, TypeWork, WriterControl
  <2>3. <<>> \in Seq(Snapshots) /\ Len(<<>>) = 0
    OBVIOUS
  <2>4. TypeChan
    BY <1>1, <2>3, ConstantsOK DEF Init, TypeChan
  <2>5. QED
    BY <2>a, <2>b, <2>c, <2>2, <2>4 DEF TypeOK
<1>2. TypeOK /\ [Next]_vars => TypeOK'
  BY TypeStep
<1>3. QED
  BY <1>1, <1>2, PTL DEF Spec

-----------------------------------------------------------------------------
(***************************************************************************)
(* The outcome.  ManifestTellsOutcome is not inductive: the manifest is    *)
(* written from a snapshot taken earlier, so the snapshots in hand must    *)
(* tell the outcome too, and they are only taken once the run is finished. *)
(***************************************************************************)
OutcomeInv ==
    /\ finished <=> status \in Terminal
    /\ \A w \in Writers : pc[w] = "snapshot" => finished
    /\ \A w \in Writers : pc[w] = "write" => finished /\ held[w].status = status
    /\ manifest # NoManifest => finished /\ manifest.status = status
    /\ polled \in Terminal => finished /\ polled = status

\* What a step does to the decision: nothing, the start of an open run, or
\* the one decision with the outcome it names.
Undecided == ~finished /\ ~finished' /\ status' \notin Terminal
Decides == ~finished /\ finished' /\ status' \in Terminal

LEMMA DecisionStep ==
    ASSUME TypeOK, OutcomeInv, [Next]_vars
    PROVE  \/ UNCHANGED <<status, finished>>
           \/ Undecided /\ UNCHANGED manifest
           \/ Decides /\ UNCHANGED manifest
<1> USE DEF runVars, storeVars
<1>f. ASSUME NEW o \in Terminal, Finish(o)
      PROVE  UNCHANGED <<status, finished>> \/ Decides
  BY <1>f DEF Finish, Decides, TypeOK, TypeRun
<1>1. CASE MarkRunning
  BY <1>1 DEF MarkRunning, Undecided, Terminal
<1>2. CASE SetProgress
  BY <1>2 DEF SetProgress
<1>3. CASE \E o \in Terminal : EngineReturns(o)
  BY <1>3 DEF EngineReturns
<1>4. CASE ExecutorMarks
  BY <1>4, <1>f DEF ExecutorMarks
<1>5. CASE \E c \in Cancellers : CancelRequest(c)
  BY <1>5 DEF CancelRequest
<1>6. CASE \E c \in Cancellers : CancelMarks(c)
  BY <1>6, <1>f DEF CancelMarks, Terminal
<1>7. CASE PersistNext
  BY <1>7 DEF PersistNext, TakeSnapshot, WriteManifest
<1>8. CASE PublishNext
  BY <1>8 DEF PublishNext, Drain, Send, SendOnClosed, RoundEnds, CloseSubscribers, ProcessDies
<1>9. CASE ClientNext
  BY <1>9 DEF ClientNext, Subscribe, FirstStatus, Receive, StreamEnds, Disconnect, Poll
<1>10. CASE StoreNext
  BY <1>10 DEF StoreNext, Age, EvictOldRuns, Crash, ProcessDies
<1>11. CASE UNCHANGED vars
  BY <1>11 DEF vars
<1>12. QED
  BY <1>1, <1>2, <1>3, <1>4, <1>5, <1>6, <1>7, <1>8, <1>9, <1>10, <1>11
  DEF Next, ExecutorNext, CancelNext

LEMMA OutcomeStep == ASSUME TypeOK, OutcomeInv, [Next]_vars PROVE OutcomeInv'
<1> USE DEF runVars, chanVars, workVars, pubVars, clientVars, storeVars
<1>d. finished' <=> status' \in Terminal
  BY DecisionStep DEF OutcomeInv, Undecided, Decides
<1>k. finished => finished' /\ status' = status
  BY DecisionStep DEF Undecided, Decides
<1>t. /\ pc \in [Writers -> WriterControl]
      /\ held \in [Writers -> Snapshots \cup {NoManifest}]
      /\ Executor \in Writers /\ Cancellers \subseteq Writers
  BY DEF TypeOK, TypeWork, Writers
<1>f. ASSUME NEW o \in Terminal, Finish(o) PROVE finished'
  BY <1>f DEF Finish
<1>m. ASSUME UNCHANGED <<manifest, polled>>,
             \A w \in Writers : pc'[w] = "snapshot" => pc[w] = "snapshot" \/ finished',
             \A w \in Writers : pc'[w] = "write" =>
                 \/ pc[w] = "write" /\ held'[w] = held[w]
                 \/ finished' /\ held'[w].status = status'
      PROVE  OutcomeInv'
  BY <1>m, <1>d, <1>k DEF OutcomeInv
<1>1. CASE MarkRunning
  BY <1>1, <1>m, <1>t DEF MarkRunning
<1>2. CASE SetProgress
  BY <1>2, <1>m DEF SetProgress
<1>3. ASSUME NEW o \in Terminal, EngineReturns(o) PROVE OutcomeInv'
  BY <1>3, <1>m, <1>t DEF EngineReturns, Terminal
<1>4. CASE ExecutorMarks
  BY <1>4, <1>f, <1>m, <1>t DEF ExecutorMarks
<1>5. ASSUME NEW c \in Cancellers, CancelRequest(c) PROVE OutcomeInv'
  <2>1. CASE inMap
    BY <1>5, <2>1, <1>m, <1>t DEF CancelRequest
  <2>2. CASE ~inMap
    <3>1. \A w \in Writers : pc'[w] = "write" =>
              \/ pc[w] = "write" /\ held'[w] = held[w]
              \/ finished' /\ held'[w].status = status'
      BY <1>5, <2>2, <1>t, <1>k DEF CancelRequest, OutcomeInv
    <3>2. QED
      BY <1>5, <2>2, <3>1, <1>m, <1>t DEF CancelRequest
  <2>3. QED
    BY <2>1, <2>2
<1>6. ASSUME NEW c \in Cancellers, CancelMarks(c) PROVE OutcomeInv'
  BY <1>6, <1>f, <1>m, <1>t DEF CancelMarks, Terminal
<1>7. ASSUME NEW w \in Writers, TakeSnapshot(w) PROVE OutcomeInv'
  <2>1. finished' /\ held'[w].status = status'
    BY <1>7, <1>t, <1>k DEF TakeSnapshot, OutcomeInv, Snapshot
  <2>2. QED
    BY <1>7, <2>1, <1>m, <1>t DEF TakeSnapshot
<1>8. ASSUME NEW w \in Writers, WriteManifest(w) PROVE OutcomeInv'
  <2>1. UNCHANGED <<status, finished, polled>>
    BY <1>8 DEF WriteManifest
  <2>2. manifest' # NoManifest => finished' /\ manifest'.status = status'
    BY <1>8, <2>1 DEF WriteManifest, OutcomeInv
  <2>3. \A v \in Writers : pc'[v] = "snapshot" => pc[v] = "snapshot"
    BY <1>8, <1>t DEF WriteManifest
  <2>4. \A v \in Writers : pc'[v] = "write" => pc[v] = "write" /\ held'[v] = held[v]
    BY <1>8, <1>t DEF WriteManifest
  <2>5. QED
    BY <2>1, <2>2, <2>3, <2>4, <1>d DEF OutcomeInv
<1>9. CASE Drain \/ RoundEnds \/ CloseSubscribers \/ \E c \in Clients : Send(c)
  BY <1>9, <1>m DEF Drain, RoundEnds, CloseSubscribers, Send
<1>10. ASSUME ProcessDies PROVE OutcomeInv'
  BY <1>10, <1>m, <1>t DEF ProcessDies
<1>11. CASE \E c \in Clients : \/ Subscribe(c) \/ FirstStatus(c) \/ Receive(c)
                              \/ StreamEnds(c) \/ Disconnect(c)
  BY <1>11, <1>m DEF Subscribe, FirstStatus, Receive, StreamEnds, Disconnect
<1>12. CASE Poll
  <2>1. UNCHANGED <<status, finished, pc, held, manifest>>
    BY <1>12 DEF Poll
  <2>2. polled' \in Terminal => finished /\ polled' = status
    BY <1>12 DEF Poll, Found, Snapshot, OutcomeInv
  <2>3. QED
    BY <2>1, <2>2 DEF OutcomeInv
<1>13. CASE Age \/ EvictOldRuns
  BY <1>13, <1>m DEF Age, EvictOldRuns
<1>14. CASE UNCHANGED vars
  BY <1>14, <1>m DEF vars
<1>15. QED
  BY <1>1, <1>2, <1>3, <1>4, <1>5, <1>6, <1>7, <1>8, <1>9, <1>10, <1>11, <1>12, <1>13, <1>14
  DEF Next, ExecutorNext, CancelNext, PersistNext, PublishNext, ClientNext, StoreNext,
      SendOnClosed, Crash

LEMMA OutcomeInvariant == Spec => [](TypeOK /\ OutcomeInv)
<1>1. Init => OutcomeInv
  BY DEF Init, OutcomeInv, Terminal, Writers
<1>2. TypeOK /\ OutcomeInv /\ [Next]_vars => OutcomeInv'
  BY OutcomeStep
<1>3. QED
  BY <1>1, <1>2, TypeCorrect, PTL DEF Spec

\* Whoever wrote run.json last, it holds the outcome the run was decided with.
THEOREM ManifestIsTruthful == Spec => []ManifestTellsOutcome
<1>1. OutcomeInv => ManifestTellsOutcome
  BY DEF OutcomeInv, ManifestTellsOutcome
<1>2. QED
  BY <1>1, OutcomeInvariant, PTL

\* The first decision stands against every later one.
THEOREM DecidedOnce == Spec => OutcomeIsFinal
<1>1. TypeOK /\ OutcomeInv /\ [Next]_vars => [finished => finished' /\ status' = status]_vars
  BY DecisionStep DEF Undecided, Decides
<1>2. QED
  BY <1>1, OutcomeInvariant, PTL DEF Spec, OutcomeIsFinal

\* Polls answered by memory, by the disk after an eviction and by the disk
\* after a restart agree on how the run ended.
THEOREM PollersAgree == Spec => PollsAgree
<1>1. TypeOK /\ OutcomeInv /\ [Next]_vars =>
        [(polled \in Terminal) => (polled' = polled)]_vars
  <2> SUFFICES ASSUME TypeOK, OutcomeInv, [Next]_vars, polled \in Terminal
               PROVE  polled' = polled
    OBVIOUS
  <2>1. finished /\ polled = status /\ status \in Terminal
    BY DEF OutcomeInv
  <2>2. CASE Poll
    BY <2>1, <2>2 DEF Poll, Found, Snapshot, OutcomeInv
  <2>3. CASE ~Poll
    BY <2>3 DEF Next, ExecutorNext, CancelNext, PersistNext, PublishNext, ClientNext, StoreNext,
       MarkRunning, SetProgress, EngineReturns, ExecutorMarks, CancelRequest, CancelMarks,
       TakeSnapshot, WriteManifest, Drain, Send, SendOnClosed, ProcessDies, RoundEnds,
       CloseSubscribers, Subscribe, FirstStatus, Receive, StreamEnds, Disconnect, Age,
       EvictOldRuns, Crash, vars, clientVars
  <2>4. QED
    BY <2>2, <2>3
<1>2. QED
  BY <1>1, OutcomeInvariant, PTL DEF Spec, PollsAgree

\* A run, with everything that races in it, is a decision taken once and
\* recorded at most as taken.
THEOREM RunImplementsOutcome == Spec => ImplementsRunOutcome
<1>1. Init => Abstract!Init
  BY DEF Init, Abstract!Init
<1>2. TypeOK /\ OutcomeInv /\ OutcomeInv' /\ [Next]_vars =>
        [Abstract!Decide \/ Abstract!Record]_(Abstract!vars)
  <2> SUFFICES ASSUME TypeOK, OutcomeInv, OutcomeInv', [Next]_vars
               PROVE  [Abstract!Decide \/ Abstract!Record]_(Abstract!vars)
    OBVIOUS
  <2>1. CASE UNCHANGED <<status, finished, manifest>>
    BY <2>1 DEF Abstract!vars
  <2>2. CASE UNCHANGED <<status, finished>> /\ manifest' # manifest
    <3>1. \E w \in Writers : pc[w] = "write" /\ manifest' = held[w]
      BY <2>2 DEF Next, ExecutorNext, CancelNext, PersistNext, PublishNext, ClientNext, StoreNext,
         MarkRunning, SetProgress, EngineReturns, ExecutorMarks, CancelRequest, CancelMarks,
         TakeSnapshot, WriteManifest, Drain, Send, SendOnClosed, ProcessDies, RoundEnds,
         CloseSubscribers, Subscribe, FirstStatus, Receive, StreamEnds, Disconnect, Poll, Age,
         EvictOldRuns, Crash, vars, storeVars
    <3>2. finished /\ manifest'.status = status /\ status \in Terminal
      BY <3>1 DEF OutcomeInv
    <3>3. manifest' # NoManifest
      BY <3>2 DEF NoManifest, Terminal
    <3>4. QED
      BY <2>2, <3>2, <3>3 DEF Abstract!Record
  <2>3. CASE Undecided /\ UNCHANGED manifest
    BY <2>3 DEF Undecided, Abstract!vars
  <2>4. CASE Decides /\ UNCHANGED manifest
    BY <2>4 DEF Decides, OutcomeInv, Abstract!Decide
  <2>5. QED
    BY <2>1, <2>2, <2>3, <2>4, DecisionStep
<1>3. QED
  BY <1>1, <1>2, OutcomeInvariant, PTL DEF Spec, ImplementsRunOutcome, Abstract!Spec

-----------------------------------------------------------------------------
(***************************************************************************)
(* The streams.  That nothing follows a terminal status is kept by sealing *)
(* a channel the moment one enters it: it is closed, or the last round of  *)
(* publishLoop has already served it.                                      *)
(***************************************************************************)
Sealed(c) == chClosed[c] \/ (closed /\ c \notin targets)
HasTerminal(c) == \E i \in 1..Len(buf[c]) : buf[c][i].status \in Terminal
OnlyLast(c) == \A i \in 1..Len(buf[c]) : buf[c][i].status \in Terminal => i = Len(buf[c])

ChannelInv(c) ==
    /\ OnlyLast(c)
    /\ heard[c] \in Terminal => buf[c] = <<>>
    /\ heard[c] \in Terminal \/ HasTerminal(c) => Sealed(c)
    /\ client[c] = "idle" => heard[c] = "nothing"

PublisherInv ==
    /\ closed => finished
    /\ pub \in {"close", "exit"} => closed
    /\ pub = "wait" => ~closed
    /\ pub = "exit" => subs = {}
    /\ pub = "send" /\ event.status \in Terminal => closed

StreamInv == PublisherInv /\ \A c \in Clients : ChannelInv(c)

LEMMA PublisherStep ==
    ASSUME TypeOK, OutcomeInv, PublisherInv, [Next]_vars PROVE PublisherInv'
<1> USE DEF runVars, chanVars, workVars, pubVars, clientVars, storeVars
<1>k. finished => finished'
  BY DecisionStep DEF Undecided, Decides
<1>m. ASSUME UNCHANGED <<closed, pubVars>>, subs' \subseteq subs PROVE PublisherInv'
  BY <1>m, <1>k DEF PublisherInv
<1>1. CASE ExecutorNext
  BY <1>1, <1>m DEF ExecutorNext, MarkRunning, SetProgress, EngineReturns, ExecutorMarks
<1>2. CASE CancelNext
  BY <1>2, <1>m DEF CancelNext, CancelRequest, CancelMarks
<1>3. CASE PersistNext
  BY <1>3, <1>m DEF PersistNext, TakeSnapshot, WriteManifest
<1>4. CASE Drain
  BY <1>4, <1>k DEF Drain, PublisherInv, OutcomeInv, Snapshot
<1>5. CASE \E c \in Clients : Send(c)
  BY <1>5, <1>k DEF Send, PublisherInv
<1>6. CASE RoundEnds
  BY <1>6, <1>k DEF RoundEnds, PublisherInv
<1>7. CASE CloseSubscribers
  BY <1>7, <1>k DEF CloseSubscribers, PublisherInv
<1>8. CASE Crash \/ \E c \in Clients : SendOnClosed(c)
  BY <1>8, <1>k DEF Crash, SendOnClosed, ProcessDies, PublisherInv
<1>9. ASSUME NEW c \in Clients, Subscribe(c) PROVE PublisherInv'
  <2>1. CASE finished
    BY <1>9, <2>1, <1>m DEF Subscribe
  <2>2. CASE ~finished
    BY <1>9, <2>2, <1>k DEF Subscribe, PublisherInv
  <2>3. QED
    BY <2>1, <2>2
<1>10. CASE \E c \in Clients : FirstStatus(c) \/ Receive(c) \/ StreamEnds(c) \/ Disconnect(c)
  BY <1>10, <1>m DEF FirstStatus, Receive, StreamEnds, Disconnect, Unsubscribe
<1>11. CASE Poll \/ Age \/ EvictOldRuns \/ UNCHANGED vars
  BY <1>11, <1>m DEF Poll, Age, EvictOldRuns, vars
<1>12. QED
  BY <1>1, <1>2, <1>3, <1>4, <1>5, <1>6, <1>7, <1>8, <1>9, <1>10, <1>11
  DEF Next, PublishNext, ClientNext, StoreNext

LEMMA ChannelStep ==
    ASSUME TypeOK, OutcomeInv, StreamInv, [Next]_vars, NEW c \in Clients PROVE ChannelInv(c)'
<1> USE DEF runVars, chanVars, workVars, pubVars, clientVars, storeVars
<1>t. /\ buf \in [Clients -> Seq(Snapshots)]
      /\ heard \in [Clients -> Statuses \cup {"nothing"}]
      /\ client \in [Clients -> {"idle", "joined", "streaming", "ended", "gone", "cut"}]
      /\ chClosed \in [Clients -> BOOLEAN]
  BY DEF TypeOK, TypeChan, TypeClient
<1>i. PublisherInv /\ ChannelInv(c)
  BY DEF StreamInv
\* A step that leaves the channel alone and only seals.
<1>m. ASSUME buf'[c] = buf[c], heard'[c] = heard[c] \/ heard'[c] \notin Terminal,
             Sealed(c) => Sealed(c)', client'[c] = "idle" => heard'[c] = "nothing"
      PROVE  ChannelInv(c)'
  BY <1>m, <1>i DEF ChannelInv, OnlyLast, HasTerminal
\* A step that empties it.
<1>e. ASSUME buf'[c] = <<>>, heard'[c] = heard[c], Sealed(c) => Sealed(c)',
             client'[c] = "idle" => client[c] = "idle"
      PROVE  ChannelInv(c)'
  BY <1>e, <1>i DEF ChannelInv, OnlyLast, HasTerminal
<1>1. CASE ExecutorNext
  BY <1>1, <1>m, <1>i DEF ExecutorNext, MarkRunning, SetProgress, EngineReturns, ExecutorMarks,
     Sealed, ChannelInv
<1>2. CASE CancelNext
  BY <1>2, <1>m, <1>i DEF CancelNext, CancelRequest, CancelMarks, Sealed, ChannelInv
<1>3. CASE PersistNext
  BY <1>3, <1>m, <1>i DEF PersistNext, TakeSnapshot, WriteManifest, Sealed, ChannelInv
<1>4. CASE Drain
  BY <1>4, <1>m, <1>i DEF Drain, Sealed, ChannelInv, PublisherInv
<1>5. ASSUME NEW d \in Clients, Send(d) PROVE ChannelInv(c)'
  <2>1. CASE d # c
    BY <1>5, <2>1, <1>m, <1>i, <1>t DEF Send, Sealed, ChannelInv
  <2>2. CASE d = c
    <3>1. ~Sealed(c)
      BY <1>5, <2>2 DEF Send, Sealed
    <3>2. heard[c] \notin Terminal /\ ~HasTerminal(c)
      BY <3>1, <1>i DEF ChannelInv
    <3>3. event.status \in Terminal => Sealed(c)'
      BY <1>5, <2>2, <1>i DEF Send, Sealed, PublisherInv
    <3>4. CASE buf' = buf
      BY <1>5, <3>2, <3>4, <1>i DEF Send, ChannelInv, HasTerminal, OnlyLast
    <3>5. CASE buf' = [buf EXCEPT ![c] = Append(@, event)]
      <4>1. buf'[c] = Append(buf[c], event) /\ buf[c] \in Seq(Snapshots) /\ event \in Snapshots
        BY <1>5, <3>5, <1>t DEF Send, TypeOK, TypePub
      <4>2. \A i \in 1..Len(buf'[c]) :
               \/ i \in 1..Len(buf[c]) /\ buf'[c][i] = buf[c][i]
               \/ i = Len(buf'[c]) /\ buf'[c][i] = event
        BY <4>1
      <4>3. OnlyLast(c)' /\ (HasTerminal(c)' => Sealed(c)')
        BY <4>2, <3>2, <3>3 DEF OnlyLast, HasTerminal
      <4>4. QED
        BY <4>3, <3>2, <1>5, <1>i DEF ChannelInv, Send
    <3>6. QED
      BY <1>5, <2>2, <3>4, <3>5 DEF Send
  <2>3. QED
    BY <2>1, <2>2
<1>6. CASE RoundEnds
  BY <1>6, <1>m, <1>i DEF RoundEnds, Sealed, ChannelInv
<1>7. CASE CloseSubscribers
  BY <1>7, <1>m, <1>i, <1>t DEF CloseSubscribers, Sealed, ChannelInv
<1>8. CASE Crash \/ \E d \in Clients : SendOnClosed(d)
  BY <1>8, <1>e, <1>t DEF Crash, SendOnClosed, ProcessDies, Sealed
<1>9. ASSUME NEW d \in Clients, Subscribe(d) PROVE ChannelInv(c)'
  <2>1. UNCHANGED <<heard, pubVars, closed>> /\ (chClosed[c] => chClosed'[c])
    BY <1>9, <1>t DEF Subscribe
  <2>2. CASE UNCHANGED buf
    BY <1>9, <2>1, <2>2, <1>m, <1>i, <1>t DEF Sealed, ChannelInv, Subscribe
  <2>3. CASE d # c
    BY <1>9, <2>1, <2>3, <1>m, <1>i, <1>t DEF Sealed, ChannelInv, Subscribe
  <2>4. CASE d = c /\ buf' = [buf EXCEPT ![d] = <<Found>>] /\ chClosed' = [chClosed EXCEPT ![d] = TRUE]
    <3>1. heard'[c] = "nothing" /\ client'[c] # "idle"
      BY <1>9, <2>1, <2>4, <1>i, <1>t DEF Subscribe, ChannelInv
    <3>2. buf'[c] = <<Found>> /\ chClosed'[c]
      BY <2>4, <1>t
    <3>3. OnlyLast(c)'
      BY <3>2 DEF OnlyLast
    <3>4. QED
      BY <3>1, <3>2, <3>3 DEF ChannelInv, Sealed, Terminal
  <2>5. QED
    BY <1>9, <2>2, <2>3, <2>4 DEF Subscribe
<1>10. ASSUME NEW d \in Clients, FirstStatus(d) PROVE ChannelInv(c)'
  <2>1. CASE UNCHANGED chanVars
    BY <1>10, <2>1, <1>m, <1>i, <1>t DEF FirstStatus, Sealed, ChannelInv
  <2>2. CASE UNCHANGED heard /\ Unsubscribe(d) /\ d = c
    BY <1>10, <2>2, <1>e, <1>t DEF FirstStatus, Unsubscribe, Sealed
  <2>3. CASE UNCHANGED heard /\ Unsubscribe(d) /\ d # c
    BY <1>10, <2>3, <1>m, <1>i, <1>t DEF FirstStatus, Unsubscribe, Sealed, ChannelInv
  <2>4. QED
    BY <1>10, <2>1, <2>2, <2>3 DEF FirstStatus
<1>11. ASSUME NEW d \in Clients, Receive(d) PROVE ChannelInv(c)'
  <2>1. CASE d # c
    BY <1>11, <2>1, <1>m, <1>i, <1>t DEF Receive, Sealed, ChannelInv
  <2>2. CASE d = c
    <3>1. /\ buf[c] \in Seq(Snapshots) /\ buf[c] # <<>>
          /\ buf'[c] = Tail(buf[c])
          /\ heard'[c] = Head(buf[c]).status
          /\ client'[c] = "streaming"
      BY <1>11, <2>2, <1>t DEF Receive
    <3>2. Sealed(c) => Sealed(c)'
      BY <1>11 DEF Receive, Sealed
    <3>3. /\ Len(buf[c]) \in Nat \ {0}
          /\ Head(buf[c]) = buf[c][1]
          /\ Len(buf'[c]) = Len(buf[c]) - 1
          /\ \A i \in 1..Len(buf'[c]) : buf'[c][i] = buf[c][i + 1]
      BY <3>1
    <3>4. OnlyLast(c)' /\ (HasTerminal(c)' => HasTerminal(c))
      BY <3>3, <1>i DEF OnlyLast, HasTerminal, ChannelInv
    <3>5. heard'[c] \in Terminal => HasTerminal(c) /\ buf'[c] = <<>>
      <4>e. Len(buf[c]) = 1 => buf'[c] = <<>>
        <5>1. buf'[c] \in Seq(Snapshots)
          BY <3>1
        <5>2. QED
          BY <5>1, <3>3
      <4>1. SUFFICES ASSUME heard'[c] \in Terminal PROVE HasTerminal(c) /\ Len(buf[c]) = 1
        BY <4>e
      <4>2. buf[c][1].status \in Terminal /\ 1 \in 1..Len(buf[c])
        BY <4>1, <3>1, <3>3
      <4>3. QED
        BY <4>2, <1>i DEF HasTerminal, OnlyLast, ChannelInv
    <3>6. QED
      BY <3>1, <3>2, <3>4, <3>5, <1>i DEF ChannelInv
  <2>3. QED
    BY <2>1, <2>2
<1>12. ASSUME NEW d \in Clients, StreamEnds(d) \/ Disconnect(d) PROVE ChannelInv(c)'
  <2>1. CASE d = c
    BY <1>12, <2>1, <1>e, <1>t DEF StreamEnds, Disconnect, Unsubscribe, Sealed
  <2>2. CASE d # c
    BY <1>12, <2>2, <1>m, <1>i, <1>t DEF StreamEnds, Disconnect, Unsubscribe, Sealed, ChannelInv
  <2>3. QED
    BY <2>1, <2>2
<1>13. CASE Poll \/ Age \/ EvictOldRuns \/ UNCHANGED vars
  BY <1>13, <1>m, <1>i DEF Poll, Age, EvictOldRuns, vars, Sealed, ChannelInv
<1>14. QED
  BY <1>1, <1>2, <1>3, <1>4, <1>5, <1>6, <1>7, <1>8, <1>9, <1>10, <1>11, <1>12, <1>13
  DEF Next, PublishNext, ClientNext, StoreNext

LEMMA StreamInvariant == Spec => []StreamInv
<1>1. Init => StreamInv
  BY DEF Init, StreamInv, PublisherInv, ChannelInv, OnlyLast, HasTerminal, Terminal
<1>2. TypeOK /\ OutcomeInv /\ StreamInv /\ [Next]_vars => StreamInv'
  BY PublisherStep, ChannelStep DEF StreamInv
<1>3. QED
  BY <1>1, <1>2, OutcomeInvariant, PTL DEF Spec

\* No stream carries anything after a terminal status.
THEOREM TerminalIsLast == Spec => []NothingAfterTerminal
<1>1. StreamInv => NothingAfterTerminal
  BY DEF StreamInv, ChannelInv, OnlyLast, NothingAfterTerminal
<1>2. QED
  BY <1>1, StreamInvariant, PTL

\* Once publishLoop has exited no channel waits for a close that never comes.
THEOREM NoOrphans == Spec => []NobodyLeftSubscribed
<1>1. StreamInv => NobodyLeftSubscribed
  BY DEF StreamInv, PublisherInv, NobodyLeftSubscribed
<1>2. QED
  BY <1>1, StreamInvariant, PTL

-----------------------------------------------------------------------------
(***************************************************************************)
(* Eviction.  A finished run has its manifest, or a write that failed, or  *)
(* somebody who still has to write it; nobody has when the two hours have  *)
(* passed, and a manifest that is there stays.                             *)
(***************************************************************************)
Writing(w) == pc[w] \in {"snapshot", "write"}
Kept == manifest # NoManifest \/ writeFailed

RecordInv ==
    /\ \A w \in Writers : pc[w] = "write" => held[w] # NoManifest
    /\ finished /\ ~ProcessDead => Kept \/ \E w \in Writers : Writing(w)
    /\ aged /\ ~ProcessDead => Kept
    /\ ~inMap /\ ~ProcessDead => Kept

LEMMA AbsentIsNoSnapshot == NoManifest \notin Snapshots
  BY DEF NoManifest, Snapshots, Statuses, Terminal

\* A record that is kept stays, and so does one that is about to be written.
LEMMA RecordStep == ASSUME TypeOK, RecordInv, [Next]_vars PROVE RecordInv'
<1> USE DEF runVars, chanVars, workVars, pubVars, clientVars, storeVars
<1>t. /\ pc \in [Writers -> WriterControl]
      /\ held \in [Writers -> Snapshots \cup {NoManifest}]
      /\ Executor \in Writers /\ Cancellers \subseteq Writers
      /\ Snapshot # NoManifest
  BY SnapshotType, AbsentIsNoSnapshot DEF TypeOK, TypeWork, Writers
<1>f. ASSUME NEW o \in Terminal, Finish(o) PROVE finished'
  BY <1>f DEF Finish
\* What a step that writes nothing has to leave alone.
<1>m. ASSUME UNCHANGED <<manifest, writeFailed, inMap>>, aged' => aged,
             ProcessDead' <=> ProcessDead,
             \A w \in Writers : pc'[w] = "write" =>
                 (pc[w] = "write" /\ held'[w] = held[w]) \/ held'[w] # NoManifest,
             \A w \in Writers : Writing(w) => Writing(w)',
             finished' => finished \/ \E w \in Writers : Writing(w)'
      PROVE  RecordInv'
  BY <1>m DEF RecordInv, Kept
<1>d. ASSUME ProcessDies, ProcessDead' PROVE RecordInv'
  BY <1>d DEF ProcessDies, RecordInv
<1>1. CASE MarkRunning
  BY <1>1, <1>t, <1>m DEF MarkRunning, Writing, ProcessDead
<1>2. CASE SetProgress
  BY <1>2, <1>m DEF SetProgress, Writing, ProcessDead
<1>3. ASSUME NEW o \in Terminal, EngineReturns(o) PROVE RecordInv'
  BY <1>3, <1>t, <1>m DEF EngineReturns, Writing, ProcessDead, Terminal
<1>4. CASE ExecutorMarks
  BY <1>4, <1>t, <1>m DEF ExecutorMarks, Writing, ProcessDead, Terminal
<1>5. ASSUME NEW c \in Cancellers, CancelRequest(c) PROVE RecordInv'
  BY <1>5, <1>t, <1>m DEF CancelRequest, Writing, ProcessDead
<1>6. ASSUME NEW c \in Cancellers, CancelMarks(c) PROVE RecordInv'
  BY <1>6, <1>t, <1>m DEF CancelMarks, Writing, ProcessDead
<1>7. ASSUME NEW w \in Writers, TakeSnapshot(w) PROVE RecordInv'
  BY <1>7, <1>t, <1>m DEF TakeSnapshot, Writing, ProcessDead
<1>8. ASSUME NEW w \in Writers, WriteManifest(w) PROVE RecordInv'
  <2>1. Kept' /\ (Kept => Kept')
    BY <1>8 DEF WriteManifest, RecordInv, Kept
  <2>2. \A v \in Writers : pc'[v] = "write" => held'[v] # NoManifest
    BY <1>8, <1>t DEF WriteManifest, RecordInv
  <2>3. QED
    BY <2>1, <2>2 DEF RecordInv
<1>9. CASE Drain \/ (\E c \in Clients : Send(c)) \/ RoundEnds \/ CloseSubscribers
  BY <1>9, <1>m DEF Drain, Send, RoundEnds, CloseSubscribers, Writing, ProcessDead
<1>10. CASE \E c \in Clients : SendOnClosed(c)
  BY <1>10, <1>d DEF SendOnClosed, ProcessDead
<1>11. CASE ClientNext
  BY <1>11, <1>m DEF ClientNext, Subscribe, FirstStatus, Receive, StreamEnds, Disconnect, Poll,
     Writing, ProcessDead
<1>12. CASE Age
  BY <1>12 DEF Age, RecordInv, Kept, Writing, ProcessDead
<1>13. CASE EvictOldRuns
  BY <1>13 DEF EvictOldRuns, RecordInv, Kept, Writing, ProcessDead
<1>14. CASE Crash
  BY <1>14, <1>d DEF Crash, ProcessDead
<1>15. CASE UNCHANGED vars
  BY <1>15, <1>m DEF vars, Writing, ProcessDead
<1>16. QED
  BY <1>1, <1>2, <1>3, <1>4, <1>5, <1>6, <1>7, <1>8, <1>9, <1>10, <1>11, <1>12, <1>13, <1>14, <1>15
  DEF Next, ExecutorNext, CancelNext, PersistNext, PublishNext, StoreNext

\* A run that left the map of a living process has its manifest, unless a
\* write of it failed.
THEOREM EvictionKeepsRecord == Spec => []EvictedRunIsOnDisk
<1>1. Init => RecordInv
  BY DEF Init, RecordInv, Writers
<1>2. TypeOK /\ RecordInv /\ [Next]_vars => RecordInv'
  BY RecordStep
<1>3. RecordInv => EvictedRunIsOnDisk
  BY DEF RecordInv, Kept, EvictedRunIsOnDisk
<1>4. QED
  BY <1>1, <1>2, <1>3, TypeCorrect, PTL DEF Spec
=============================================================================
