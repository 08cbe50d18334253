--------------------------- MODULE Backtest_proofs --------------------------
(***************************************************************************)
(* Proofs about Preparation and Broker, the two halves of a backtest: for  *)
(* any parameter sets, series, histories, slots and workers, what the runs *)
(* of a batch share and what a strategy sees; and for any entries, prices, *)
(* requests and commission, what the books of the broker hold.             *)
(***************************************************************************)
EXTENDS Broker, Preparation, Sums, SequenceTheorems, TLAPS

Stages == {"queued", "primary", "securities", "factors", "replay", "done", "failed"}
LoadStates == {"none", "slot", "cache", "feed", "done", "error"}

(***************************************************************************)
(* Maps and objects                                                        *)
(***************************************************************************)

LEMMA ObjectFacts ==
    ASSUME NEW p, NEW q, NEW s, NEW t
    PROVE  /\ Copy(p, s) = Copy(q, t) => p = q /\ s = t
           /\ Fresh(p, s) = Fresh(q, t) => p = q /\ s = t
           /\ Slice(p) = Slice(q) => p = q
           /\ Copy(p, s) # Fresh(q, t) /\ Copy(p, s) # Slice(q) /\ Fresh(p, s) # Slice(q)
<1>1. /\ Copy(p, s)[1] = "copy" /\ Copy(p, s)[2] = p /\ Copy(p, s)[3] = s
      /\ Copy(q, t)[2] = q /\ Copy(q, t)[3] = t
  BY DEF Copy
<1>2. /\ Fresh(p, s)[1] = "loaded" /\ Fresh(p, s)[2] = p /\ Fresh(p, s)[3] = s
      /\ Fresh(q, t)[1] = "loaded" /\ Fresh(q, t)[2] = q /\ Fresh(q, t)[3] = t
  BY DEF Fresh
<1>3. Slice(p)[2] = p /\ Slice(q)[2] = q /\ Slice(q)[1] = "slice"
  BY DEF Slice
<1>4. QED
  BY <1>1, <1>2, <1>3

(***************************************************************************)
(* The loads of a run: a group is started once, when none of it has been,  *)
(* and what is done stays done.                                            *)
(***************************************************************************)

LoadsTyped ==
    /\ stage \in [ParamSets -> Stages]
    /\ loads \in [ParamSets -> [Series -> LoadStates]]

InOrder ==
    \A p \in ParamSets :
        /\ stage[p] = "queued" => \A s \in Series : loads[p][s] = "none"
        /\ stage[p] = "primary" => \A s \in Others \cup Factors : loads[p][s] = "none"
        /\ stage[p] = "securities" => \A s \in Factors : loads[p][s] = "none"
        /\ \A s \in Factors : loads[p][s] # "cache"

LoadsInv == LoadsTyped /\ InOrder

DoneStays == \A p \in ParamSets, s \in Series : loads[p][s] = "done" => loads'[p][s] = "done"

LEMMA SeriesFacts ==
    /\ Primary \in Series /\ Primary \notin Others /\ Primary \notin Factors
    /\ Others \subseteq Series /\ Factors \subseteq Series
    /\ \A s \in Series : s = Primary \/ s \in Others \/ s \in Factors
    /\ \A s \in Others : s \notin Factors
    /\ \A s \in Securities : s \in Series /\ s \notin Factors
  BY PreparationConstants DEF Securities, Series

\* What starting a group of loads none of which has been started does.
Started(p, group, first, next) ==
    /\ LoadsTyped'
    /\ stage'[p] \in {next, "failed"}
    /\ \A s \in Series \ group : loads'[p][s] = loads[p][s]
    /\ \A s \in group : loads'[p][s] \in {first, loads[p][s]}
    /\ \A q \in ParamSets \ {p} : stage'[q] = stage[q] /\ loads'[q] = loads[q]

LEMMA StartFacts ==
    ASSUME LoadsTyped, NEW p \in ParamSets, NEW group \in SUBSET Series,
           NEW first \in {"cache", "slot"}, NEW next \in Stages, Start(p, group, first, next)
    PROVE  Started(p, group, first, next)
<1> DEFINE begun(started) == [s \in Series |-> IF s \in started THEN first ELSE loads[p][s]]
<1>1. PICK started \in SUBSET group, then \in {next, "failed"} :
          /\ stage' = [stage EXCEPT ![p] = then]
          /\ loads' = [loads EXCEPT ![p] = begun(started)]
  <2>1. CASE group \subseteq hasFeed
    BY <2>1 DEF Start, LoadsTyped
  <2>2. CASE ~(group \subseteq hasFeed)
    BY <2>2 DEF Start, LoadsTyped
  <2>3. QED
    BY <2>1, <2>2
<1>2. begun(started) \in [Series -> LoadStates]
  BY DEF LoadsTyped, LoadStates
<1>3. then \in Stages
  BY DEF Stages
<1>4. LoadsTyped'
  BY <1>1, <1>2, <1>3 DEF LoadsTyped
<1>5. loads'[p] = begun(started) /\ stage'[p] = then
  BY <1>1 DEF LoadsTyped
<1>6. \A s \in Series \ group : begun(started)[s] = loads[p][s]
  OBVIOUS
<1>7. \A q \in ParamSets \ {p} : stage'[q] = stage[q] /\ loads'[q] = loads[q]
  BY <1>1 DEF LoadsTyped
<1>8. \A s \in group : begun(started)[s] \in {first, loads[p][s]}
  OBVIOUS
<1>9. QED
  BY <1>4, <1>5, <1>6, <1>7, <1>8 DEF Started

\* An answer changes one load that was under way.
LEMMA AnswerFacts ==
    ASSUME LoadsTyped, NEW p \in ParamSets, NEW s \in Series, NEW answer \in LoadStates,
           Answer(p, s, answer)
    PROVE  /\ loads' \in [ParamSets -> [Series -> LoadStates]]
           /\ loads'[p][s] = answer
           /\ \A q \in ParamSets, t \in Series : <<q, t>> # <<p, s>> => loads'[q][t] = loads[q][t]
  BY DEF LoadsTyped, Answer

LEMMA AnswerKeeps ==
    ASSUME LoadsInv, NEW p \in ParamSets, NEW s \in Series, NEW answer \in LoadStates,
           loads[p][s] \notin {"none", "done"}, answer = "cache" => s \notin Factors,
           Answer(p, s, answer), UNCHANGED stage
    PROVE  LoadsInv' /\ DoneStays
<1>1. LoadsTyped'
  BY AnswerFacts DEF LoadsInv, LoadsTyped
<1>2. \A q \in ParamSets, t \in Series :
          loads[q][t] \in {"none", "done"} => loads'[q][t] = loads[q][t]
  BY AnswerFacts DEF LoadsInv
<1>3. InOrder'
  <2> SUFFICES ASSUME NEW q \in ParamSets
               PROVE  /\ stage[q] = "queued" => \A t \in Series : loads'[q][t] = "none"
                      /\ stage[q] = "primary" => \A t \in Others \cup Factors : loads'[q][t] = "none"
                      /\ stage[q] = "securities" => \A t \in Factors : loads'[q][t] = "none"
                      /\ \A t \in Factors : loads'[q][t] # "cache"
    BY DEF InOrder
  <2>1. \A t \in Factors : loads'[q][t] # "cache"
    BY AnswerFacts, SeriesFacts DEF LoadsInv, InOrder
  <2>2. QED
    BY <1>2, <2>1, SeriesFacts DEF LoadsInv, InOrder
<1>4. QED
  BY <1>1, <1>2, <1>3 DEF LoadsInv, DoneStays

\* A run that leaves Prepare leaves its loads as they are.
LEMMA LeavingKeeps ==
    ASSUME LoadsInv, NEW p \in ParamSets, NEW next \in {"failed", "replay", "done"},
           stage' = [stage EXCEPT ![p] = next], UNCHANGED loads
    PROVE  LoadsInv' /\ DoneStays
<1>1. next \in Stages
  BY DEF Stages
<1>2. LoadsTyped'
  BY <1>1 DEF LoadsInv, LoadsTyped
<1>3. InOrder'
  <2>1. \A q \in ParamSets : stage'[q] = IF q = p THEN next ELSE stage[q]
    BY DEF LoadsInv, LoadsTyped
  <2>2. QED
    BY <2>1 DEF LoadsInv, InOrder
<1>4. QED
  BY <1>2, <1>3 DEF LoadsInv, DoneStays

LEMMA StartingKeeps ==
    ASSUME LoadsInv, NEW p \in ParamSets, NEW group \in SUBSET Series,
           NEW first \in {"cache", "slot"}, NEW next \in Stages, Start(p, group, first, next),
           \A s \in group : loads[p][s] = "none",
           next \in {"primary", "securities", "factors"},
           first = "slot" \/ group = {Primary},
           next = "primary" => stage[p] = "queued" /\ group = {Primary},
           next = "securities" => stage[p] = "primary" /\ group = Others
    PROVE  LoadsInv' /\ DoneStays
<1>s. Started(p, group, first, next)
  BY StartFacts DEF LoadsInv
<1>1. /\ LoadsTyped'
      /\ stage'[p] \in {next, "failed"}
      /\ \A s \in Series \ group : loads'[p][s] = loads[p][s]
      /\ \A q \in ParamSets \ {p} : stage'[q] = stage[q] /\ loads'[q] = loads[q]
  BY <1>s DEF Started
<1>2. DoneStays
  <2> SUFFICES ASSUME NEW q \in ParamSets, NEW s \in Series, loads[q][s] = "done"
               PROVE  loads'[q][s] = "done"
    BY DEF DoneStays
  <2>1. CASE q # p
    BY <2>1, <1>1
  <2>2. CASE q = p
    BY <2>2, <1>1
  <2>3. QED
    BY <2>1, <2>2
<1>3. InOrder'
  <2> SUFFICES ASSUME NEW q \in ParamSets
               PROVE  /\ stage'[q] = "queued" => \A t \in Series : loads'[q][t] = "none"
                      /\ stage'[q] = "primary" => \A t \in Others \cup Factors : loads'[q][t] = "none"
                      /\ stage'[q] = "securities" => \A t \in Factors : loads'[q][t] = "none"
                      /\ \A t \in Factors : loads'[q][t] # "cache"
    BY DEF InOrder
  <2>1. CASE q # p
    BY <2>1, <1>1 DEF LoadsInv, InOrder
  <2>2. CASE q = p
    <3>1. stage'[p] = "primary" => \A t \in Others \cup Factors : loads'[p][t] = "none"
      BY <1>1, SeriesFacts DEF LoadsInv, InOrder
    <3>2. stage'[p] = "securities" => \A t \in Factors : loads'[p][t] = "none"
      BY <1>1, SeriesFacts DEF LoadsInv, InOrder
    <3>3. stage'[p] # "queued"
      BY <1>1
    <3>4. \A t \in Factors : loads'[p][t] # "cache"
      <4>1. CASE group = {Primary}
        BY <4>1, <1>1, SeriesFacts DEF LoadsInv, InOrder
      <4>2. CASE first = "slot"
        <5>1. \A t \in Factors \cap group : loads'[p][t] \in {"none", "slot"}
          BY <4>2, <1>s DEF Started, LoadsInv, InOrder
        <5>2. QED
          BY <5>1, <1>1, SeriesFacts DEF LoadsInv, InOrder
      <4>3. QED
        BY <4>1, <4>2
    <3>5. QED
      BY <2>2, <3>1, <3>2, <3>3, <3>4
  <2>3. QED
    BY <2>1, <2>2
<1>4. QED
  BY <1>1, <1>2, <1>3 DEF LoadsInv

LEMMA LoadsStep == ASSUME LoadsInv, [PrepNext]_prepVars PROVE LoadsInv' /\ DoneStays
<1>s. ASSUME UNCHANGED <<stage, loads>> PROVE LoadsInv' /\ DoneStays
  BY <1>s DEF LoadsInv, LoadsTyped, InOrder, DoneStays
<1>1. ASSUME NEW p \in ParamSets, RunStep(p) PROVE LoadsInv' /\ DoneStays
  <2>1. CASE StartRun(p)
    <3>1. \A s \in {Primary} : loads[p][s] = "none"
      BY <2>1, SeriesFacts DEF StartRun, HasTurn, LoadsInv, InOrder
    <3>2. {Primary} \in SUBSET Series /\ "primary" \in Stages
      BY SeriesFacts DEF Stages
    <3>3. Start(p, {Primary}, "cache", "primary") /\ stage[p] = "queued"
      BY <2>1 DEF StartRun, HasTurn
    <3>4. QED
      BY <3>1, <3>2, <3>3, StartingKeeps
  <2>2. CASE PrimaryLoaded(p)
    <3>1. \A s \in Others : loads[p][s] = "none"
      BY <2>2 DEF PrimaryLoaded, HasPrimary, LoadsInv, InOrder
    <3>2. Others \in SUBSET Series /\ "securities" \in Stages
      BY SeriesFacts DEF Stages
    <3>3. Start(p, Others, "slot", "securities") /\ stage[p] = "primary"
      BY <2>2 DEF PrimaryLoaded, HasPrimary
    <3>4. QED
      BY <3>1, <3>2, <3>3, StartingKeeps
  <2>3. CASE SecuritiesLoaded(p)
    <3>1. \A s \in Factors : loads[p][s] = "none"
      BY <2>3 DEF SecuritiesLoaded, HasSecurities, LoadsInv, InOrder
    <3>2. Factors \in SUBSET Series /\ "factors" \in Stages
      BY SeriesFacts DEF Stages
    <3>3. Start(p, Factors, "slot", "factors")
      BY <2>3 DEF SecuritiesLoaded, HasSecurities
    <3>4. QED
      BY <3>1, <3>2, <3>3, StartingKeeps
  <2>4. CASE LoadFailed(p) \/ NoData(p)
    BY <2>4, LeavingKeeps DEF LoadFailed, HasError, NoData, HasPrimary, Fails, loadVars
  <2>5. CASE Prepared(p)
    BY <2>5, LeavingKeeps DEF Prepared
  <2>6. CASE PreloadFails(p)
    BY <2>6, LeavingKeeps DEF PreloadFails
  <2>7. CASE ReplayEnds(p)
    BY <2>7, LeavingKeeps DEF ReplayEnds, loadVars
  <2>8. CASE \E wanted \in {{}} \cup {{s} : s \in Traded} : ReplayBar(p, wanted)
    BY <2>8, <1>s DEF ReplayBar, loadVars
  <2>9. QED
    BY <1>1, <2>1, <2>2, <2>3, <2>4, <2>5, <2>6, <2>7, <2>8 DEF RunStep
<1>2. ASSUME NEW p \in ParamSets, NEW s \in Series, LoadStep(p, s) PROVE LoadsInv' /\ DoneStays
  <2>1. PICK answer \in LoadStates :
            /\ Answer(p, s, answer) /\ loads[p][s] \notin {"none", "done"} /\ UNCHANGED stage
            /\ answer = "cache" => s \notin Factors
    BY <1>2 DEF LoadStep, TakeSlot, HasSlot, GiveUp, LookUp, FeedFails, FeedAnswers, LoadStates
  <2>2. QED
    BY <2>1, AnswerKeeps
<1>3. CASE BatchStops
  BY <1>3, <1>s DEF BatchStops, loadVars
<1>4. CASE UNCHANGED prepVars
  BY <1>4, <1>s DEF prepVars, loadVars
<1>5. QED
  BY <1>1, <1>2, <1>3, <1>4 DEF PrepNext

-----------------------------------------------------------------------------
(***************************************************************************)
(* The data sets.  A run owns the copies made for it, the factors it       *)
(* loaded and its slice; the cache holds what was loaded for it, which     *)
(* nobody owns, and which is not loaded again.                             *)
(***************************************************************************)

Owns(p, s) ==
    IF s \in Factors THEN {Fresh(p, s)}
    ELSE IF s = Primary THEN {Copy(p, s), Slice(p)} ELSE {Copy(p, s)}

DataSets == \A o \in DOMAIN heap : heap[o] = [bars |-> heap[o].bars, derived |-> heap[o].derived]

Owned ==
    /\ DOMAIN own = ParamSets
    /\ \A p \in ParamSets : \A s \in DOMAIN own[p] :
          /\ s \in Series /\ loads[p][s] = "done"
          /\ own[p][s] \in Owns(p, s) \cap DOMAIN heap

Cached ==
    \A request \in DOMAIN dsCache :
        /\ dsCache[request] \in DOMAIN heap
        /\ \E q \in ParamSets, s \in Securities : dsCache[request] = Fresh(q, s) /\ loads[q][s] = "done"

Private(o, q) == o \in DOMAIN heap => heap[o].derived \subseteq {q}

Derivations ==
    \A q \in ParamSets :
        /\ \A s \in Series : Private(Copy(q, s), q)
        /\ Private(Slice(q), q)
        /\ \A s \in Factors : Private(Fresh(q, s), q)
        /\ \A s \in Securities : Fresh(q, s) \in DOMAIN heap => heap[Fresh(q, s)].derived = {}

Same ==
    \A p \in ParamSets : \A s \in Others \cap DOMAIN own[p] :
        /\ Request(p, s) \in DOMAIN dsCache
        /\ Bars(p, s) = heap[dsCache[Request(p, s)]].bars

StoresInv == DataSets /\ Owned /\ Cached /\ Derivations /\ Same

LEMMA RequestKept == UNCHANGED warmup => \A p \in ParamSets : \A s : Request(p, s)' = Request(p, s)
  BY DEF Request, LoadFrom

\* A step that leaves the data sets alone.
LEMMA FrameKeeps ==
    ASSUME StoresInv, DoneStays, UNCHANGED <<dsCache, heap, own, warmup>>
    PROVE  StoresInv'
<1>1. Owned' /\ Cached'
  BY SeriesFacts DEF StoresInv, Owned, Cached, DoneStays
<1>2. DataSets' /\ Derivations'
  BY DEF StoresInv, DataSets, Derivations, Private
<1>3. Same'
  BY RequestKept DEF StoresInv, Same, Bars
<1>4. QED
  BY <1>1, <1>2, <1>3 DEF StoresInv

\* What the load of a series writes to the heap and to the cache, and that the
\* run's object then has the cached bars.
HeapOfLoad(p, s, object) ==
    /\ DOMAIN heap \subseteq DOMAIN heap'
    /\ \A o \in DOMAIN heap' :
          \/ o \in DOMAIN heap /\ heap'[o] = heap[o] /\ (o = Copy(p, s) => object # Copy(p, s))
          \/ o \in {Copy(p, s), Fresh(p, s)} /\ heap'[o] = [bars |-> heap'[o].bars, derived |-> {}]

CacheOfLoad(p, s) ==
    \/ UNCHANGED dsCache
    \/ /\ s \in Securities /\ Fresh(p, s) \in DOMAIN heap' /\ Request(p, s) \notin DOMAIN dsCache
       /\ dsCache' = With(dsCache, Request(p, s), Fresh(p, s))

SameBars(p, s, object) ==
    s \in Others => /\ Request(p, s) \in DOMAIN dsCache'
                    /\ heap'[object].bars = heap'[dsCache'[Request(p, s)]].bars

\* A load that ends with a data set of its own, and may have put one into
\* the cache.
LEMMA LoadKeeps ==
    ASSUME StoresInv, DoneStays, UNCHANGED warmup,
           NEW p \in ParamSets, NEW s \in Series, loads[p][s] # "done", loads'[p][s] = "done",
           NEW object \in Owns(p, s), object # Slice(p), object \in DOMAIN heap',
           own' = [own EXCEPT ![p] = With(@, s, object)],
           HeapOfLoad(p, s, object), CacheOfLoad(p, s), SameBars(p, s, object)
    PROVE  StoresInv'
<1>a. /\ DOMAIN heap \subseteq DOMAIN heap'
      /\ \A o \in DOMAIN heap' :
            \/ o \in DOMAIN heap /\ heap'[o] = heap[o] /\ (o = Copy(p, s) => object # Copy(p, s))
            \/ o \in {Copy(p, s), Fresh(p, s)} /\ heap'[o] = [bars |-> heap'[o].bars, derived |-> {}]
  BY DEF HeapOfLoad
<1>b. \/ UNCHANGED dsCache
      \/ /\ s \in Securities /\ Fresh(p, s) \in DOMAIN heap' /\ Request(p, s) \notin DOMAIN dsCache
         /\ dsCache' = With(dsCache, Request(p, s), Fresh(p, s))
  BY DEF CacheOfLoad
<1>o. /\ DOMAIN own' = ParamSets
      /\ \A q \in ParamSets \ {p} : own'[q] = own[q]
      /\ own'[p] = With(own[p], s, object)
      /\ DOMAIN own'[p] = DOMAIN own[p] \cup {s} /\ own'[p][s] = object
      /\ \A t \in DOMAIN own[p] : t # s /\ own'[p][t] = own[p][t]
  <2>1. DOMAIN own = ParamSets /\ s \notin DOMAIN own[p]
    BY DEF StoresInv, Owned
  <2>2. own'[p] = With(own[p], s, object) /\ DOMAIN own' = ParamSets
    BY <2>1
  <2>3. DOMAIN own'[p] = DOMAIN own[p] \cup {s} /\ own'[p][s] = object
    BY <2>2 DEF With
  <2>4. \A t \in DOMAIN own[p] : t # s /\ own'[p][t] = own[p][t]
    BY <2>1, <2>2 DEF With
  <2>5. \A q \in ParamSets \ {p} : own'[q] = own[q]
    BY <2>1
  <2>6. QED
    BY <2>1, <2>2, <2>3, <2>4, <2>5
<1>c. \A request \in DOMAIN dsCache :
          request \in DOMAIN dsCache' /\ dsCache'[request] = dsCache[request]
  BY <1>b DEF With
\* What another load made stays, in particular what the cache holds.
<1>h. \A o \in DOMAIN heap : o \notin {Copy(p, s), Fresh(p, s)} => heap'[o] = heap[o]
  BY <1>a
<1>f. \A request \in DOMAIN dsCache : heap'[dsCache[request]] = heap[dsCache[request]]
  <2> SUFFICES ASSUME NEW request \in DOMAIN dsCache
               PROVE  heap'[dsCache[request]] = heap[dsCache[request]]
    OBVIOUS
  <2>1. PICK q \in ParamSets, t \in Securities : dsCache[request] = Fresh(q, t) /\ loads[q][t] = "done"
    BY DEF StoresInv, Cached
  <2>2. Fresh(q, t) # Fresh(p, s) /\ Fresh(q, t) # Copy(p, s)
    BY <2>1, ObjectFacts
  <2>3. QED
    BY <2>1, <2>2, <1>h DEF StoresInv, Cached
<1>w. \A q \in ParamSets : \A t \in DOMAIN own[q] : heap'[own[q][t]] = heap[own[q][t]]
  <2> SUFFICES ASSUME NEW q \in ParamSets, NEW t \in DOMAIN own[q]
               PROVE  heap'[own[q][t]] = heap[own[q][t]]
    OBVIOUS
  <2>1. /\ own[q][t] \in DOMAIN heap /\ own[q][t] \in Owns(q, t) /\ <<q, t>> # <<p, s>>
    BY DEF StoresInv, Owned
  <2>2. own[q][t] \in {Fresh(q, t), Copy(q, t), Slice(q)}
    BY <2>1 DEF Owns
  <2>3. own[q][t] \notin {Copy(p, s), Fresh(p, s)}
    BY <2>1, <2>2, ObjectFacts
  <2>4. QED
    BY <2>1, <2>3, <1>h
<1>1. DataSets'
  BY <1>a DEF StoresInv, DataSets
<1>2. Owned'
  <2> SUFFICES ASSUME NEW q \in ParamSets, NEW t \in DOMAIN own'[q]
               PROVE  /\ t \in Series /\ loads'[q][t] = "done"
                      /\ own'[q][t] \in Owns(q, t) \cap DOMAIN heap'
    <3>1. DOMAIN own' = ParamSets
      BY <1>o
    <3>2. QED
      BY <3>1 DEF Owned
  <2>1. CASE q = p /\ t = s
    BY <2>1, <1>o
  <2>2. CASE ~(q = p /\ t = s)
    <3>1. t \in DOMAIN own[q] /\ own'[q][t] = own[q][t]
      BY <2>2, <1>o
    <3>2. /\ t \in Series /\ loads[q][t] = "done"
          /\ own[q][t] \in Owns(q, t) /\ own[q][t] \in DOMAIN heap
      BY <3>1 DEF StoresInv, Owned
    <3>3. loads'[q][t] = "done" /\ own'[q][t] \in DOMAIN heap'
      BY <1>a, <3>1, <3>2 DEF DoneStays
    <3>4. QED
      BY <3>1, <3>2, <3>3
  <2>3. QED
    BY <2>1, <2>2
<1>3. Cached'
  <2> SUFFICES ASSUME NEW request \in DOMAIN dsCache'
               PROVE  /\ dsCache'[request] \in DOMAIN heap'
                      /\ \E q \in ParamSets, t \in Securities :
                            dsCache'[request] = Fresh(q, t) /\ loads'[q][t] = "done"
    BY DEF Cached, Fresh
  <2>1. CASE request \in DOMAIN dsCache
    BY <2>1, <1>a, <1>c, SeriesFacts DEF StoresInv, Cached, DoneStays
  <2>2. CASE request \notin DOMAIN dsCache
    <3>1. s \in Securities /\ Fresh(p, s) \in DOMAIN heap' /\ dsCache'[request] = Fresh(p, s)
      BY <2>2, <1>b DEF With
    <3>2. QED
      BY <3>1
  <2>3. QED
    BY <2>1, <2>2
<1>4. Derivations'
  <2>1. \A o, q : Private(o, q) /\ (o \in DOMAIN heap' => (o \in DOMAIN heap /\ heap'[o] = heap[o])
                                        \/ heap'[o].derived = {}) => (o \in DOMAIN heap' => heap'[o].derived \subseteq {q})
    BY DEF Private
  <2>2. \A o \in DOMAIN heap' : (o \in DOMAIN heap /\ heap'[o] = heap[o]) \/ heap'[o].derived = {}
    BY <1>a
  <2>3. QED
    BY <2>2 DEF StoresInv, Derivations, Private, Copy, Slice, Fresh
<1>5. Same'
  <2> SUFFICES ASSUME NEW q \in ParamSets, NEW t \in Others, t \in DOMAIN own'[q]
               PROVE  /\ Request(q, t) \in DOMAIN dsCache'
                      /\ heap'[own'[q][t]].bars = heap'[dsCache'[Request(q, t)]].bars
    BY RequestKept DEF Same, Bars
  <2>1. CASE q = p /\ t = s
    BY <2>1, <1>o DEF SameBars
  <2>2. CASE ~(q = p /\ t = s)
    <3>1. t \in DOMAIN own[q] /\ own'[q][t] = own[q][t]
      BY <2>2, <1>o
    <3>2. /\ Request(q, t) \in DOMAIN dsCache
          /\ heap[own[q][t]].bars = heap[dsCache[Request(q, t)]].bars
      BY <3>1 DEF StoresInv, Same, Bars
    <3>3. QED
      BY <3>1, <3>2, <1>c, <1>f, <1>w
  <2>3. QED
    BY <2>1, <2>2
<1>6. QED
  BY <1>1, <1>2, <1>3, <1>4, <1>5 DEF StoresInv

\* A run that derives columns does so on what it owns.
LEMMA DerivedFacts ==
    ASSUME StoresInv, NEW p \in ParamSets
    PROVE  /\ DOMAIN Derived(p) = DOMAIN heap
           /\ \A o \in DOMAIN heap : /\ Derived(p)[o] = [bars |-> heap[o].bars, derived |-> Derived(p)[o].derived]
                                     /\ Derived(p)[o].derived \in {heap[o].derived, heap[o].derived \cup {p}}
           /\ \A q \in ParamSets : \A s \in Securities :
                Fresh(q, s) \in DOMAIN heap => Derived(p)[Fresh(q, s)] = heap[Fresh(q, s)]
           /\ \A q \in ParamSets \ {p} :
                /\ \A s \in Series : Copy(q, s) \in DOMAIN heap => Derived(p)[Copy(q, s)] = heap[Copy(q, s)]
                /\ Slice(q) \in DOMAIN heap => Derived(p)[Slice(q)] = heap[Slice(q)]
                /\ \A s \in Factors : Fresh(q, s) \in DOMAIN heap => Derived(p)[Fresh(q, s)] = heap[Fresh(q, s)]
<1>1. DOMAIN Derived(p) = DOMAIN heap
  BY DEF Derived
<1>2. \A o \in DOMAIN heap : Derived(p)[o] =
          IF \E s \in DOMAIN own[p] : own[p][s] = o
          THEN [bars |-> heap[o].bars, derived |-> heap[o].derived \cup {p}] ELSE heap[o]
  <2> SUFFICES ASSUME NEW o \in DOMAIN heap
               PROVE  Derived(p)[o] = IF \E s \in DOMAIN own[p] : own[p][s] = o
                                      THEN [bars |-> heap[o].bars, derived |-> heap[o].derived \cup {p}]
                                      ELSE heap[o]
    OBVIOUS
  <2>1. heap[o] = [bars |-> heap[o].bars, derived |-> heap[o].derived]
    BY DEF StoresInv, DataSets
  <2>2. [heap[o] EXCEPT !.derived = @ \cup {p}] = [bars |-> heap[o].bars, derived |-> heap[o].derived \cup {p}]
    BY <2>1
  <2>3. QED
    BY <2>2 DEF Derived
<1>3. \A o \in DOMAIN heap : /\ Derived(p)[o] = [bars |-> heap[o].bars, derived |-> Derived(p)[o].derived]
                             /\ Derived(p)[o].derived \in {heap[o].derived, heap[o].derived \cup {p}}
  <2> SUFFICES ASSUME NEW o \in DOMAIN heap
               PROVE  /\ Derived(p)[o] = [bars |-> heap[o].bars, derived |-> Derived(p)[o].derived]
                      /\ Derived(p)[o].derived \in {heap[o].derived, heap[o].derived \cup {p}}
    OBVIOUS
  <2>1. CASE Derived(p)[o] = [bars |-> heap[o].bars, derived |-> heap[o].derived \cup {p}]
    BY <2>1
  <2>2. CASE Derived(p)[o] = heap[o]
    BY <2>2 DEF StoresInv, DataSets
  <2>3. QED
    BY <1>2, <2>1, <2>2
<1>4. \A s \in DOMAIN own[p] :
          own[p][s] = Copy(p, s) \/ own[p][s] = Slice(p) \/ (own[p][s] = Fresh(p, s) /\ s \in Factors)
  <2> SUFFICES ASSUME NEW s \in DOMAIN own[p]
               PROVE  own[p][s] = Copy(p, s) \/ own[p][s] = Slice(p) \/ (own[p][s] = Fresh(p, s) /\ s \in Factors)
    OBVIOUS
  <2>1. own[p][s] \in Owns(p, s)
    BY DEF StoresInv, Owned
  <2>2. CASE s \in Factors
    BY <2>1, <2>2 DEF Owns
  <2>3. CASE s \notin Factors /\ s = Primary
    BY <2>1, <2>3 DEF Owns
  <2>4. CASE s \notin Factors /\ s # Primary
    BY <2>1, <2>4 DEF Owns
  <2>5. QED
    BY <2>2, <2>3, <2>4
<1>5. ASSUME NEW q \in ParamSets, NEW s \in Securities, NEW t \in DOMAIN own[p]
      PROVE  own[p][t] # Fresh(q, s)
  <2>1. Copy(p, t) # Fresh(q, s) /\ Slice(p) # Fresh(q, s) /\ (Fresh(p, t) = Fresh(q, s) => t = s)
    BY ObjectFacts
  <2>2. QED
    BY <1>4, <2>1, SeriesFacts
<1>6. ASSUME NEW q \in ParamSets \ {p}, NEW s \in Series, NEW t \in DOMAIN own[p]
      PROVE  own[p][t] \notin {Copy(q, s), Slice(q), Fresh(q, s)}
  <2>1. /\ Copy(p, t) \notin {Copy(q, s), Slice(q), Fresh(q, s)}
        /\ Slice(p) \notin {Copy(q, s), Slice(q), Fresh(q, s)}
        /\ Fresh(p, t) \notin {Copy(q, s), Slice(q), Fresh(q, s)}
    BY ObjectFacts
  <2>2. QED
    BY <1>4, <2>1
<1>7. QED
  BY <1>1, <1>2, <1>3, <1>5, <1>6, SeriesFacts

\* Columns are derived, with or without a slice of the primary.
LEMMA DeriveKeeps ==
    ASSUME StoresInv, DoneStays, UNCHANGED <<warmup, dsCache>>, NEW p \in ParamSets,
           \/ heap' = Derived(p) /\ UNCHANGED own
           \/ \E bars : /\ heap' = With(Derived(p), Slice(p), [bars |-> bars, derived |-> {p}])
                        /\ own' = [own EXCEPT ![p][Primary] = Slice(p)]
    PROVE  StoresInv'
<1>d. \A o \in DOMAIN heap : o # Slice(p) => o \in DOMAIN heap' /\ heap'[o] = Derived(p)[o]
  BY DerivedFacts DEF With
<1>e. \A o \in DOMAIN heap' : o # Slice(p) => o \in DOMAIN heap
  BY DerivedFacts DEF With
<1>s. Slice(p) \in DOMAIN heap' =>
          /\ heap'[Slice(p)] = [bars |-> heap'[Slice(p)].bars, derived |-> heap'[Slice(p)].derived]
          /\ heap'[Slice(p)].derived \subseteq {p}
  <2>1. CASE heap' = Derived(p)
    <3>1. SUFFICES ASSUME Slice(p) \in DOMAIN heap
                   PROVE  /\ Derived(p)[Slice(p)] = [bars |-> Derived(p)[Slice(p)].bars,
                                                    derived |-> Derived(p)[Slice(p)].derived]
                          /\ Derived(p)[Slice(p)].derived \subseteq {p}
      BY <2>1, DerivedFacts
    <3>2. heap[Slice(p)].derived \subseteq {p}
      BY <3>1 DEF StoresInv, Derivations, Private
    <3>3. /\ Derived(p)[Slice(p)] = [bars |-> heap[Slice(p)].bars, derived |-> Derived(p)[Slice(p)].derived]
          /\ Derived(p)[Slice(p)].derived \in {heap[Slice(p)].derived, heap[Slice(p)].derived \cup {p}}
      BY <3>1, DerivedFacts
    <3>4. Derived(p)[Slice(p)].bars = heap[Slice(p)].bars
      BY <3>3
    <3>5. QED
      BY <3>2, <3>3, <3>4
  <2>2. CASE \E bars : heap' = With(Derived(p), Slice(p), [bars |-> bars, derived |-> {p}])
    BY <2>2 DEF With
  <2>3. QED
    BY <2>1, <2>2
<1>b. \A o \in DOMAIN heap : o # Slice(p) => heap'[o].bars = heap[o].bars
  <2>1. ASSUME NEW o \in DOMAIN heap PROVE Derived(p)[o].bars = heap[o].bars
    <3>1. Derived(p)[o] = [bars |-> heap[o].bars, derived |-> Derived(p)[o].derived]
      BY DerivedFacts
    <3>2. QED
      BY <3>1
  <2>2. QED
    BY <2>1, <1>d
<1>o. /\ DOMAIN own' = ParamSets
      /\ \A q \in ParamSets : DOMAIN own'[q] = DOMAIN own[q]
      /\ \A q \in ParamSets : \A s \in DOMAIN own[q] :
            own'[q][s] = own[q][s] \/ (q = p /\ s = Primary /\ own'[q][s] = Slice(p) /\ Slice(p) \in DOMAIN heap')
  <2>1. DOMAIN own = ParamSets
    BY DEF StoresInv, Owned
  <2>2. CASE own' = own
    <3>1. DOMAIN own' = ParamSets /\ \A q : own'[q] = own[q]
      BY <2>1, <2>2
    <3>2. QED
      BY <3>1
  <2>3. CASE \E bars : /\ heap' = With(Derived(p), Slice(p), [bars |-> bars, derived |-> {p}])
                       /\ own' = [own EXCEPT ![p][Primary] = Slice(p)]
    <3>1. Slice(p) \in DOMAIN heap'
      BY <2>3 DEF With
    <3>2. own' = [own EXCEPT ![p] = [own[p] EXCEPT ![Primary] = Slice(p)]]
      BY <2>3
    <3>3. /\ own'[p] = [own[p] EXCEPT ![Primary] = Slice(p)]
          /\ \A q \in ParamSets \ {p} : own'[q] = own[q]
          /\ DOMAIN own' = ParamSets
      BY <2>1, <3>2
    <3>4. DOMAIN own'[p] = DOMAIN own[p] /\ (Primary \in DOMAIN own[p] => own'[p][Primary] = Slice(p))
      BY <3>2, <3>3
    <3>5. \A s \in DOMAIN own[p] : s # Primary => own'[p][s] = own[p][s]
      BY <3>3
    <3>6. \A q \in ParamSets : DOMAIN own'[q] = DOMAIN own[q]
      BY <3>3, <3>4
    <3>7. ASSUME NEW q \in ParamSets, NEW s \in DOMAIN own[q]
          PROVE  own'[q][s] = own[q][s] \/ (q = p /\ s = Primary /\ own'[q][s] = Slice(p) /\ Slice(p) \in DOMAIN heap')
      <4>1. CASE q # p
        BY <4>1, <3>3
      <4>2. CASE q = p /\ s # Primary
        BY <4>2, <3>5
      <4>3. CASE q = p /\ s = Primary
        BY <4>3, <3>4, <3>1
      <4>4. QED
        BY <4>1, <4>2, <4>3
    <3>8. QED
      BY <3>3, <3>6, <3>7
  <2>4. QED
    BY <2>2, <2>3
<1>1. DataSets'
  <2> SUFFICES ASSUME NEW o \in DOMAIN heap'
               PROVE  heap'[o] = [bars |-> heap'[o].bars, derived |-> heap'[o].derived]
    BY DEF DataSets
  <2>1. CASE o = Slice(p)
    BY <2>1, <1>s
  <2>2. CASE o # Slice(p)
    <3>1. heap'[o] = Derived(p)[o] /\ o \in DOMAIN heap
      BY <2>2, <1>d, <1>e
    <3>2. Derived(p)[o] = [bars |-> heap[o].bars, derived |-> Derived(p)[o].derived]
      BY <3>1, DerivedFacts
    <3>3. Derived(p)[o].bars = heap[o].bars
      BY <3>2
    <3>4. QED
      BY <3>1, <3>2, <3>3
  <2>3. QED
    BY <2>1, <2>2
<1>2. Owned'
  <2> SUFFICES ASSUME NEW q \in ParamSets, NEW s \in DOMAIN own'[q]
               PROVE  /\ s \in Series /\ loads'[q][s] = "done"
                      /\ own'[q][s] \in Owns(q, s) \cap DOMAIN heap'
    BY <1>o DEF Owned
  <2>1. s \in DOMAIN own[q] /\ s \in Series /\ loads'[q][s] = "done" /\ own[q][s] \in Owns(q, s) \cap DOMAIN heap
    BY <1>o DEF StoresInv, Owned, DoneStays
  <2>2. DOMAIN heap \subseteq DOMAIN heap'
    BY DerivedFacts DEF With
  <2>3. CASE own'[q][s] = own[q][s]
    BY <2>1, <2>2, <2>3
  <2>4. CASE q = p /\ s = Primary /\ own'[q][s] = Slice(p) /\ Slice(p) \in DOMAIN heap'
    BY <2>1, <2>4, SeriesFacts DEF Owns
  <2>5. QED
    BY <1>o, <2>1, <2>3, <2>4
<1>3. Cached'
  <2> SUFFICES ASSUME NEW request \in DOMAIN dsCache
               PROVE  /\ dsCache[request] \in DOMAIN heap'
                      /\ \E q \in ParamSets, t \in Securities :
                            dsCache[request] = Fresh(q, t) /\ loads'[q][t] = "done"
    BY DEF Cached, Fresh
  <2>1. DOMAIN heap \subseteq DOMAIN heap'
    BY DerivedFacts DEF With
  <2>2. QED
    BY <2>1, SeriesFacts DEF StoresInv, Cached, DoneStays
<1>4. Derivations'
  <2> SUFFICES ASSUME NEW q \in ParamSets
               PROVE  /\ \A s \in Series : Private(Copy(q, s), q)'
                      /\ Private(Slice(q), q)'
                      /\ \A s \in Factors : Private(Fresh(q, s), q)'
                      /\ \A s \in Securities : Fresh(q, s) \in DOMAIN heap' => heap'[Fresh(q, s)].derived = {}
    BY DEF Derivations, Fresh, Copy, Slice
  <2>k. ASSUME NEW o, o # Slice(p), Private(o, q), q = p \/ (o \in DOMAIN heap => Derived(p)[o] = heap[o]) PROVE Private(o, q)'
    <3> SUFFICES ASSUME o \in DOMAIN heap' PROVE heap'[o].derived \subseteq {q}
      BY DEF Private
    <3>1. o \in DOMAIN heap /\ heap'[o] = Derived(p)[o] /\ heap[o].derived \subseteq {q}
      BY <2>k, <1>d, <1>e DEF Private
    <3>2. CASE q = p
      <4>1. Derived(p)[o].derived \in {heap[o].derived, heap[o].derived \cup {p}}
        BY <3>1, DerivedFacts
      <4>2. QED
        BY <3>1, <3>2, <4>1
    <3>3. CASE Derived(p)[o] = heap[o]
      BY <3>1, <3>3
    <3>4. QED
      BY <2>k, <3>1, <3>2, <3>3
  <2>1. \A s \in Series : Copy(q, s) # Slice(p) /\ Fresh(q, s) # Slice(p)
    BY ObjectFacts
  <2>2. \A s \in Series : Private(Copy(q, s), q)'
    BY <2>1, <2>k, DerivedFacts DEF StoresInv, Derivations
  <2>3. Private(Slice(q), q)'
    <3>1. CASE q = p
      BY <3>1, <1>s DEF Private
    <3>2. CASE q # p
      <4>1. Slice(q) # Slice(p)
        BY <3>2, ObjectFacts
      <4>2. QED
        BY <3>2, <4>1, <2>k, DerivedFacts DEF StoresInv, Derivations
    <3>3. QED
      BY <3>1, <3>2
  <2>4. \A s \in Factors : Private(Fresh(q, s), q)'
    BY <2>1, <2>k, DerivedFacts, SeriesFacts DEF StoresInv, Derivations
  <2>5. \A s \in Securities : Fresh(q, s) \in DOMAIN heap' => heap'[Fresh(q, s)].derived = {}
    <3> SUFFICES ASSUME NEW s \in Securities, Fresh(q, s) \in DOMAIN heap'
                 PROVE  heap'[Fresh(q, s)].derived = {}
      OBVIOUS
    <3>1. Fresh(q, s) \in DOMAIN heap /\ heap'[Fresh(q, s)] = Derived(p)[Fresh(q, s)]
      BY <2>1, <1>d, <1>e, SeriesFacts
    <3>2. QED
      BY <3>1, DerivedFacts DEF StoresInv, Derivations
  <2>6. QED
    BY <2>2, <2>3, <2>4, <2>5
<1>5. Same'
  <2> SUFFICES ASSUME NEW q \in ParamSets, NEW t \in Others, t \in DOMAIN own'[q]
               PROVE  /\ Request(q, t) \in DOMAIN dsCache
                      /\ heap'[own'[q][t]].bars = heap'[dsCache[Request(q, t)]].bars
    BY RequestKept DEF Same, Bars
  <2>1. t \in DOMAIN own[q] /\ own'[q][t] = own[q][t] /\ t # Primary /\ t \notin Factors
    BY <1>o, SeriesFacts
  <2>2. /\ Request(q, t) \in DOMAIN dsCache
        /\ heap[own[q][t]].bars = heap[dsCache[Request(q, t)]].bars
    BY <2>1 DEF StoresInv, Same, Bars
  <2>3. own[q][t] \in DOMAIN heap /\ own[q][t] # Slice(p)
    BY <2>1, ObjectFacts DEF StoresInv, Owned, Owns
  <2>4. dsCache[Request(q, t)] \in DOMAIN heap /\ dsCache[Request(q, t)] # Slice(p)
    BY <2>2, ObjectFacts DEF StoresInv, Cached
  <2>5. QED
    BY <2>1, <2>2, <2>3, <2>4, <1>b
<1>6. QED
  BY <1>1, <1>2, <1>3, <1>4, <1>5 DEF StoresInv

\* A copy of what the cache holds.
LEMMA CloneKeeps ==
    ASSUME StoresInv, DoneStays, UNCHANGED <<warmup, dsCache>>, NEW p \in ParamSets, NEW s \in Series,
           loads[p][s] # "done", loads'[p][s] = "done", s \notin Factors,
           Request(p, s) \in DOMAIN dsCache, Clone(p, s, heap[dsCache[Request(p, s)]])
    PROVE  StoresInv'
<1> DEFINE cached == dsCache[Request(p, s)]
<1>1. PICK q \in ParamSets, t \in Securities : cached = Fresh(q, t)
  BY DEF StoresInv, Cached
<1>2. cached \in DOMAIN heap /\ cached # Copy(p, s)
  BY <1>1, ObjectFacts DEF StoresInv, Cached
<1>3. heap[cached] = [bars |-> heap[cached].bars, derived |-> {}]
  <2>1. heap[cached].derived = {}
    BY <1>1, <1>2 DEF StoresInv, Derivations
  <2>2. QED
    BY <2>1, <1>2 DEF StoresInv, DataSets
<1>4. /\ DOMAIN heap' = DOMAIN heap \cup {Copy(p, s)}
      /\ heap'[Copy(p, s)] = heap[cached]
      /\ \A o \in DOMAIN heap : o # Copy(p, s) => heap'[o] = heap[o]
  BY DEF Clone, Named, With
<1>5. heap'[Copy(p, s)] = [bars |-> heap'[Copy(p, s)].bars, derived |-> {}]
  <2>1. heap'[Copy(p, s)].bars = heap[cached].bars
    BY <1>4
  <2>2. QED
    BY <1>3, <1>4, <2>1
<1>6. \A o \in DOMAIN heap' :
          \/ o \in DOMAIN heap /\ heap'[o] = heap[o] /\ (o = Copy(p, s) => Copy(p, s) # Copy(p, s))
          \/ /\ o \in {Copy(p, s), Fresh(p, s)}
             /\ heap'[o] = [bars |-> heap'[o].bars, derived |-> {}]
  BY <1>4, <1>5
<1>7. Copy(p, s) \in Owns(p, s) /\ Copy(p, s) # Slice(p)
  BY ObjectFacts DEF Owns
<1>8. heap'[Copy(p, s)].bars = heap'[cached].bars
  BY <1>2, <1>4
<1>9. own' = [own EXCEPT ![p] = With(@, s, Copy(p, s))]
  BY DEF Clone
<1>10. HeapOfLoad(p, s, Copy(p, s)) /\ CacheOfLoad(p, s) /\ SameBars(p, s, Copy(p, s))
  BY <1>4, <1>6, <1>8 DEF HeapOfLoad, CacheOfLoad, SameBars
<1>11. QED
  BY <1>4, <1>7, <1>9, <1>10, LoadKeeps

\* What the feed answered, stored in the cache and copied for the run.
LEMMA StoreKeeps ==
    ASSUME StoresInv, DoneStays, UNCHANGED warmup, NEW p \in ParamSets, NEW s \in Series,
           loads[p][s] # "done", loads'[p][s] = "done", s \notin Factors,
           Request(p, s) \notin DOMAIN dsCache, NEW bars,
           dsCache' = With(dsCache, Request(p, s), Fresh(p, s)),
           heap' = With(Named(Fresh(p, s), Loaded(p, s, bars)), Copy(p, s), Loaded(p, s, bars)),
           own' = [own EXCEPT ![p] = With(@, s, Copy(p, s))]
    PROVE  StoresInv'
<1> DEFINE ds == Loaded(p, s, bars)
<1>1. Copy(p, s) # Fresh(p, s) /\ Copy(p, s) # Slice(p) /\ s \in Securities /\ Copy(p, s) \in Owns(p, s)
  BY ObjectFacts, SeriesFacts DEF Owns, Securities
<1>2. /\ DOMAIN heap' = DOMAIN heap \cup {Fresh(p, s), Copy(p, s)}
      /\ heap'[Copy(p, s)] = ds /\ heap'[Fresh(p, s)] = ds
      /\ \A o \in DOMAIN heap : o \notin {Copy(p, s), Fresh(p, s)} => heap'[o] = heap[o]
  <2> HIDE DEF ds
  <2>1. heap' = With(With(heap, Fresh(p, s), ds), Copy(p, s), ds)
    BY DEF Named, ds
  <2>2. QED
    BY <2>1, <1>1 DEF With
<1>3. ds = [bars |-> ds.bars, derived |-> {}]
  BY DEF Loaded
<1>4. \A o \in DOMAIN heap' :
          \/ o \in DOMAIN heap /\ heap'[o] = heap[o] /\ (o = Copy(p, s) => Copy(p, s) # Copy(p, s))
          \/ /\ o \in {Copy(p, s), Fresh(p, s)}
             /\ heap'[o] = [bars |-> heap'[o].bars, derived |-> {}]
  <2> HIDE DEF ds
  <2>1. QED
    BY <1>2, <1>3
<1>5. Request(p, s) \in DOMAIN dsCache' /\ dsCache'[Request(p, s)] = Fresh(p, s)
  BY DEF With
<1>6. heap'[Copy(p, s)].bars = heap'[dsCache'[Request(p, s)]].bars
  BY <1>2, <1>5
<1>7. Copy(p, s) \in DOMAIN heap' /\ Fresh(p, s) \in DOMAIN heap' /\ DOMAIN heap \subseteq DOMAIN heap'
  BY <1>2
<1>8. HeapOfLoad(p, s, Copy(p, s)) /\ CacheOfLoad(p, s) /\ SameBars(p, s, Copy(p, s))
  BY <1>1, <1>4, <1>5, <1>6, <1>7 DEF HeapOfLoad, CacheOfLoad, SameBars
<1>9. QED
  BY <1>1, <1>7, <1>8, LoadKeeps

\* A factor, which is not cached.
LEMMA FactorKeeps ==
    ASSUME StoresInv, DoneStays, UNCHANGED <<warmup, dsCache>>, NEW p \in ParamSets, NEW s \in Factors,
           loads[p][s] # "done", loads'[p][s] = "done", NEW bars,
           heap' = Named(Fresh(p, s), Loaded(p, s, bars)),
           own' = [own EXCEPT ![p] = With(@, s, Fresh(p, s))]
    PROVE  StoresInv'
<1> DEFINE ds == Loaded(p, s, bars)
<1>1. Fresh(p, s) # Copy(p, s) /\ Fresh(p, s) # Slice(p) /\ Fresh(p, s) \in Owns(p, s) /\ s \in Series /\ s \notin Others
  BY ObjectFacts, SeriesFacts DEF Owns
<1>2. /\ DOMAIN heap' = DOMAIN heap \cup {Fresh(p, s)}
      /\ heap'[Fresh(p, s)] = ds
      /\ \A o \in DOMAIN heap : o # Fresh(p, s) => heap'[o] = heap[o]
  <2> HIDE DEF ds
  <2>1. heap' = With(heap, Fresh(p, s), ds)
    BY DEF Named, ds
  <2>2. QED
    BY <2>1 DEF With
<1>3. ds = [bars |-> ds.bars, derived |-> {}]
  BY DEF Loaded
<1>4. \A o \in DOMAIN heap' :
          \/ o \in DOMAIN heap /\ heap'[o] = heap[o] /\ (o = Copy(p, s) => Fresh(p, s) # Copy(p, s))
          \/ /\ o \in {Copy(p, s), Fresh(p, s)}
             /\ heap'[o] = [bars |-> heap'[o].bars, derived |-> {}]
  <2> HIDE DEF ds
  <2>1. QED
    BY <1>1, <1>2, <1>3
<1>5. Fresh(p, s) \in DOMAIN heap' /\ DOMAIN heap \subseteq DOMAIN heap'
  BY <1>2
<1>6. HeapOfLoad(p, s, Fresh(p, s)) /\ CacheOfLoad(p, s) /\ SameBars(p, s, Fresh(p, s))
  BY <1>1, <1>4, <1>5 DEF HeapOfLoad, CacheOfLoad, SameBars
<1>7. QED
  BY <1>1, <1>5, <1>6, LoadKeeps

LEMMA StoresStep ==
    ASSUME LoadsInv, StoresInv, DoneStays, [PrepNext]_prepVars
    PROVE  StoresInv'
<1>f. ASSUME UNCHANGED <<dsCache, heap, own, warmup>> PROVE StoresInv'
  BY <1>f, FrameKeeps
<1>1. ASSUME NEW p \in ParamSets, RunStep(p) PROVE StoresInv'
  <2>1. CASE StartRun(p) \/ PrimaryLoaded(p) \/ SecuritiesLoaded(p)
    BY <2>1, <1>f DEF StartRun, HasTurn, PrimaryLoaded, HasPrimary, SecuritiesLoaded, HasSecurities, environment, batchConfig
  <2>2. CASE LoadFailed(p) \/ NoData(p) \/ ReplayEnds(p)
    BY <2>2, <1>f DEF LoadFailed, HasError, NoData, HasPrimary, ReplayEnds, Fails, loadVars, environment, batchConfig
  <2>3. CASE Prepared(p)
    <3>1. UNCHANGED <<warmup, dsCache>>
      BY <2>3 DEF Prepared, environment, batchConfig
    <3>2. \/ heap' = Derived(p) /\ UNCHANGED own
          \/ \E bars : /\ heap' = With(Derived(p), Slice(p), [bars |-> bars, derived |-> {p}])
                       /\ own' = [own EXCEPT ![p][Primary] = Slice(p)]
      BY <2>3 DEF Prepared
    <3>3. QED
      BY <3>1, <3>2, DeriveKeeps
  <2>4. CASE PreloadFails(p)
    BY <2>4, DeriveKeeps DEF PreloadFails, environment, batchConfig
  <2>5. CASE \E wanted \in {{}} \cup {{s} : s \in Traded} : ReplayBar(p, wanted)
    BY <2>5, <1>f DEF ReplayBar, loadVars, environment, batchConfig
  <2>6. QED
    BY <1>1, <2>1, <2>2, <2>3, <2>4, <2>5 DEF RunStep
<1>2. ASSUME NEW p \in ParamSets, NEW s \in Series, LoadStep(p, s)
      PROVE  StoresInv'
  <2>1. CASE TakeSlot(p, s) \/ GiveUp(p, s) \/ FeedFails(p, s)
    BY <2>1, <1>f DEF TakeSlot, HasSlot, GiveUp, FeedFails, environment, batchConfig
  <2>2. CASE LookUp(p, s)
    <3>1. CASE Request(p, s) \in DOMAIN dsCache
      <4>1. /\ Clone(p, s, heap[dsCache[Request(p, s)]]) /\ Answer(p, s, "done") /\ loads[p][s] = "cache"
            /\ UNCHANGED <<warmup, dsCache>>
        BY <2>2, <3>1 DEF LookUp, environment, batchConfig
      <4>2. loads'[p][s] = "done" /\ loads[p][s] # "done"
        BY <4>1, AnswerFacts DEF LoadsInv, LoadStates
      <4>3. s \notin Factors
        BY <4>1 DEF LoadsInv, InOrder
      <4>4. QED
        BY <3>1, <4>1, <4>2, <4>3, CloneKeeps
    <3>2. CASE Request(p, s) \notin DOMAIN dsCache
      BY <2>2, <3>2, <1>f DEF LookUp, environment, batchConfig
    <3>3. QED
      BY <3>1, <3>2
  <2>3. CASE \E bars \in Histories[s] : FeedAnswers(p, s, bars)
    <3>1. PICK bars \in Histories[s] : FeedAnswers(p, s, bars)
      BY <2>3
    <3>2. Answer(p, s, "done") /\ loads[p][s] = "feed" /\ UNCHANGED warmup
      BY <3>1 DEF FeedAnswers, environment, batchConfig
    <3>3. loads'[p][s] = "done" /\ loads[p][s] # "done"
      BY <3>2, AnswerFacts DEF LoadsInv, LoadStates
    <3>4. CASE s \in Factors
      <4>1. /\ heap' = Named(Fresh(p, s), Loaded(p, s, bars))
            /\ own' = [own EXCEPT ![p] = With(@, s, Fresh(p, s))]
            /\ UNCHANGED dsCache
        BY <3>1, <3>4 DEF FeedAnswers
      <4>2. QED
        BY <3>2, <3>3, <3>4, <4>1, FactorKeeps
    <3>5. CASE s \notin Factors /\ Request(p, s) \in DOMAIN dsCache
      <4>1. Clone(p, s, heap[dsCache[Request(p, s)]]) /\ UNCHANGED dsCache
        BY <3>1, <3>5 DEF FeedAnswers
      <4>2. QED
        BY <3>2, <3>3, <3>5, <4>1, CloneKeeps
    <3>6. CASE s \notin Factors /\ Request(p, s) \notin DOMAIN dsCache
      <4>1. /\ dsCache' = With(dsCache, Request(p, s), Fresh(p, s))
            /\ heap' = With(Named(Fresh(p, s), Loaded(p, s, bars)), Copy(p, s), Loaded(p, s, bars))
            /\ own' = [own EXCEPT ![p] = With(@, s, Copy(p, s))]
        BY <3>1, <3>6 DEF FeedAnswers
      <4>2. QED
        BY <3>2, <3>3, <3>6, <4>1, StoreKeeps
    <3>7. QED
      BY <3>4, <3>5, <3>6
  <2>4. QED
    BY <1>2, <2>1, <2>2, <2>3 DEF LoadStep
<1>3. CASE BatchStops
  BY <1>3, <1>f DEF BatchStops, loadVars, environment, batchConfig
<1>4. CASE UNCHANGED prepVars
  BY <1>4, <1>f DEF prepVars, loadVars, environment, batchConfig
<1>5. QED
  BY <1>1, <1>2, <1>3, <1>4 DEF PrepNext

PrepInv == LoadsInv /\ StoresInv

LEMMA PrepInitially == PrepInit => PrepInv
<1> SUFFICES ASSUME PrepInit PROVE PrepInv
  OBVIOUS
<1>1. DOMAIN heap = {} /\ DOMAIN dsCache = {} /\ DOMAIN own = ParamSets /\ \A p \in ParamSets : DOMAIN own[p] = {}
  BY DEF PrepInit
<1>2. DataSets /\ Cached
  BY <1>1 DEF DataSets, Cached
<1>3. Owned /\ Same
  BY <1>1 DEF Owned, Same
<1>4. Derivations
  BY <1>1 DEF Derivations, Private
<1>5. LoadsInv
  <2>1. LoadsTyped
    BY DEF PrepInit, LoadsTyped, Stages, LoadStates
  <2>2. InOrder
    BY SeriesFacts DEF PrepInit, InOrder
  <2>3. QED
    BY <2>1, <2>2 DEF LoadsInv
<1>6. QED
  BY <1>2, <1>3, <1>4, <1>5 DEF PrepInv, StoresInv

LEMMA PrepAlways == PrepSpec => []PrepInv
<1>1. PrepInv /\ [PrepNext]_prepVars => PrepInv'
  BY LoadsStep, StoresStep DEF PrepInv
<1>2. QED
  BY PrepInitially, <1>1, PTL DEF PrepSpec

\* However the loads of the runs of a batch interleave, fail or answer from
\* the cache, columns that one run derives stay on data only that run has:
\* the copies loadCached hands out, the run's factors and its slice.
THEOREM RunsAreApart == PrepSpec => []RunsDoNotShare
<1>1. PrepInv => RunsDoNotShare
  <2> SUFFICES ASSUME PrepInv PROVE RunsDoNotShare
    OBVIOUS
  <2>1. ASSUME NEW p \in ParamSets, NEW s \in DOMAIN own[p] PROVE heap[own[p][s]].derived \subseteq {p}
    <3>1. s \in Series /\ own[p][s] \in Owns(p, s) /\ own[p][s] \in DOMAIN heap
      BY DEF PrepInv, StoresInv, Owned
    <3>2. CASE s \in Factors
      BY <3>1, <3>2 DEF PrepInv, StoresInv, Derivations, Private, Owns
    <3>3. CASE s \notin Factors
      <4>1. own[p][s] = Copy(p, s) \/ own[p][s] = Slice(p)
        BY <3>1, <3>3 DEF Owns
      <4>2. QED
        BY <3>1, <4>1 DEF PrepInv, StoresInv, Derivations, Private
    <3>4. QED
      BY <3>2, <3>3
  <2>2. \A request \in DOMAIN dsCache : heap[dsCache[request]].derived = {}
    BY DEF PrepInv, StoresInv, Cached, Derivations
  <2>3. QED
    BY <2>1, <2>2 DEF RunsDoNotShare
<1>2. QED
  BY <1>1, PrepAlways, PTL

\* Two runs that asked for the same history of a security replay the same
\* bars of it, whatever the feed answered to each: the first answer that was
\* stored is everyone's.
THEOREM SameDataForAll == PrepSpec => []SameRequestSameData
<1>1. PrepInv => SameRequestSameData
  <2> SUFFICES ASSUME PrepInv, NEW p \in ParamSets, NEW q \in ParamSets, LoadFrom(p) = LoadFrom(q),
                      NEW s \in Others \cap DOMAIN own[p] \cap DOMAIN own[q]
               PROVE  Bars(p, s) = Bars(q, s)
    BY DEF SameRequestSameData
  <2>1. Request(p, s) = Request(q, s)
    BY DEF Request
  <2>2. /\ Bars(p, s) = heap[dsCache[Request(p, s)]].bars
        /\ Bars(q, s) = heap[dsCache[Request(q, s)]].bars
    BY DEF PrepInv, StoresInv, Same
  <2>3. QED
    BY <2>1, <2>2
<1>2. QED
  BY <1>1, PrepAlways, PTL

-----------------------------------------------------------------------------
(***************************************************************************)
(* Time.  Bars are in the order of time, in every data set there is, so    *)
(* that the first bar from a time on divides them.                         *)
(***************************************************************************)

Timelines == {bars \in Seq(Int) : Ascending(bars)}

\* Of the intervals from 1 to an element of S the smallest ends at the least.
LEMMA Least ==
    ASSUME NEW N \in Nat, NEW S, S \subseteq 1..N, S # {}
    PROVE  Min(S) \in S /\ \A n \in S : Min(S) <= n
<1> DEFINE Bad == {1..k : k \in S}
           W == 1..N
<1>1. PICK least \in Bad : \A u \in Bad : u \subseteq least => u = least
  <2>1. IsFiniteSet(W)
    BY FS_Interval
  <2>2. Bad \subseteq SUBSET W
    OBVIOUS
  <2>3. Bad # {}
    OBVIOUS
  <2> HIDE DEF Bad, W
  <2>4. QED
    BY <2>1, <2>2, <2>3, Smallest
<1>2. PICK m \in S : least = 1..m
  OBVIOUS
<1>3. \A n \in S : m <= n
  <2> SUFFICES ASSUME NEW n \in S, n < m PROVE FALSE
    OBVIOUS
  <2>1. 1..n \in Bad /\ 1..n \subseteq 1..m /\ m \in 1..m /\ m \notin 1..n
    OBVIOUS
  <2>2. QED
    BY <1>1, <1>2, <2>1
<1>4. QED
  BY <1>3 DEF Min

LEMMA FirstFacts ==
    ASSUME NEW bars \in Timelines, NEW time \in Int
    PROVE  /\ FirstFrom(bars, time) \in 1..(Len(bars) + 1) /\ Len(bars) \in Nat
           /\ \A k \in DOMAIN bars : k < FirstFrom(bars, time) <=> bars[k] < time
<1> DEFINE S == {k \in 1..(Len(bars) + 1) : k <= Len(bars) => bars[k] >= time}
           m == FirstFrom(bars, time)
<1>1. Len(bars) \in Nat /\ DOMAIN bars = 1..Len(bars) /\ \A k \in 1..Len(bars) : bars[k] \in Int
  BY DEF Timelines
<1>2. S \subseteq 1..(Len(bars) + 1) /\ S # {} /\ Len(bars) + 1 \in Nat
  <2>1. Len(bars) + 1 \in S
    BY <1>1
  <2>2. QED
    BY <2>1, <1>1
<1>3. m \in S /\ \A n \in S : m <= n
  <2> HIDE DEF S
  <2>1. Min(S) \in S /\ \A n \in S : Min(S) <= n
    BY <1>2, Least
  <2>2. QED
    BY <2>1 DEF FirstFrom, S
<1>4. m \in 1..(Len(bars) + 1) /\ (m <= Len(bars) => bars[m] >= time)
  BY <1>3
<1> HIDE DEF m
<1>5. ASSUME NEW k \in DOMAIN bars PROVE k < m <=> bars[k] < time
  <2>1. CASE k < m
    <3>1. k \notin S
      BY <1>1, <1>3, <1>4, <2>1
    <3>2. QED
      BY <1>1, <2>1, <3>1
  <2>2. CASE k >= m
    <3>1. m \in DOMAIN bars /\ bars[m] >= time
      BY <1>1, <1>4, <2>2
    <3>2. bars[m] <= bars[k]
      BY <3>1, <2>2 DEF Timelines, Ascending
    <3>3. QED
      BY <1>1, <2>2, <3>1, <3>2, <1>4
  <2>3. QED
    BY <1>1, <1>4, <2>1, <2>2
<1>6. QED
  BY <1>1, <1>4, <1>5 DEF m

\* A part of a timeline is one.
LEMMA PartFacts ==
    ASSUME NEW bars \in Timelines, NEW m \in 1..(Len(bars) + 1), NEW n \in 0..Len(bars)
    PROVE  /\ SubSeq(bars, m, n) \in Timelines
           /\ SubSeq(bars, m, n) # <<>> => m \in DOMAIN bars /\ SubSeq(bars, m, n)[1] = bars[m]
<1> DEFINE part == SubSeq(bars, m, n)
<1>1. Len(bars) \in Nat /\ DOMAIN bars = 1..Len(bars) /\ \A k \in 1..Len(bars) : bars[k] \in Int
  BY DEF Timelines
<1>2. bars \in Seq(Int) /\ Ascending(bars)
  BY DEF Timelines
<1>3. CASE m > n
  <2>1. part = <<>>
    BY <1>1, <1>2, <1>3
  <2>2. <<>> \in Timelines
    BY DEF Timelines, Ascending
  <2>3. QED
    BY <2>1, <2>2
<1>4. CASE m <= n
  <2>1. /\ part \in Seq(Int) /\ Len(part) = n - m + 1
        /\ \A k \in 1..(n - m + 1) : part[k] = bars[m + k - 1]
    BY <1>1, <1>2, <1>4
  <2>2. DOMAIN part = 1..(n - m + 1)
    BY <2>1
  <2> HIDE DEF part
  <2>3. \A k \in 1..(n - m + 1) : m + k - 1 \in DOMAIN bars
    BY <1>1, <1>4
  <2>4. Ascending(part)
    <3> SUFFICES ASSUME NEW k \in 1..(n - m + 1), NEW l \in 1..(n - m + 1), k <= l
                 PROVE  part[k] <= part[l]
      BY <2>2 DEF Ascending
    <3>1. m + k - 1 <= m + l - 1
      OBVIOUS
    <3>2. QED
      BY <1>2, <2>1, <2>3, <3>1 DEF Ascending
  <2>5. 1 \in 1..(n - m + 1) /\ m + 1 - 1 = m /\ m \in DOMAIN bars
    BY <1>1, <1>4
  <2>6. part \in Timelines /\ part[1] = bars[m]
    BY <2>1, <2>4, <2>5 DEF Timelines
  <2>7. QED
    BY <2>5, <2>6 DEF part
<1>5. QED
  BY <1>1, <1>3, <1>4

-----------------------------------------------------------------------------
(***************************************************************************)
(* What is replayed.  A run that replays has all its data, so that no load *)
(* of its own is left that could change it, and the loads of the other     *)
(* runs write to other data sets.                                          *)
(***************************************************************************)

Framed == warmup \in Warmups /\ DOMAIN maps = ParamSets

Timed == \A o \in DOMAIN heap : heap[o].bars \in Timelines

Fetched == \A p \in ParamSets, s \in Series : loads[p][s] = "done" => s \in DOMAIN own[p]

Reached ==
    \A p \in ParamSets :
        /\ stage[p] \in {"securities", "factors", "replay"} => loads[p][Primary] = "done"
        /\ stage[p] \in {"factors", "replay"} => \A s \in Others : loads[p][s] = "done"
        /\ stage[p] = "replay" => \A s \in Factors : loads[p][s] = "done"

Confirmed(p) ==
    /\ warmup[p] > 0 => From <= Bars(p, Primary)[1]
    /\ \A s \in Others \cup Factors : \A i \in DOMAIN Bars(p, Primary) : \A k \in DOMAIN Bars(p, s) :
          (k <= maps[p][s][i]) <=> (Bars(p, s)[k] + Interval[s] <= Bars(p, Primary)[i] + Interval[Primary])

ReplayInv == Framed /\ Timed /\ Fetched /\ Reached /\ SeesLatestConfirmed

LEMMA ConfirmedFacts == SeesLatestConfirmed <=> \A p \in ParamSets : stage[p] = "replay" => Confirmed(p)
  BY DEF SeesLatestConfirmed, Confirmed

LEMMA AllThere ==
    ASSUME Reached, Fetched, NEW p \in ParamSets, stage[p] = "replay"
    PROVE  \A s \in Series : loads[p][s] = "done" /\ s \in DOMAIN own[p]
  BY SeriesFacts DEF Reached, Fetched

LEMMA ReachedStep ==
    ASSUME LoadsInv, Reached, DoneStays, [PrepNext]_prepVars
    PROVE  Reached'
<1>s. ASSUME UNCHANGED stage PROVE Reached'
  BY <1>s, SeriesFacts DEF Reached, DoneStays
<1>k. ASSUME NEW p \in ParamSets, \A q \in ParamSets \ {p} : stage'[q] = stage[q],
             stage'[p] \in {"securities", "factors", "replay"} => loads[p][Primary] = "done",
             stage'[p] \in {"factors", "replay"} => \A s \in Others : loads[p][s] = "done",
             stage'[p] = "replay" => \A s \in Factors : loads[p][s] = "done"
      PROVE  Reached'
  <2> SUFFICES ASSUME NEW q \in ParamSets
               PROVE  /\ stage'[q] \in {"securities", "factors", "replay"} => loads'[q][Primary] = "done"
                      /\ stage'[q] \in {"factors", "replay"} => \A s \in Others : loads'[q][s] = "done"
                      /\ stage'[q] = "replay" => \A s \in Factors : loads'[q][s] = "done"
    BY DEF Reached
  <2>1. \A s \in Series : loads[q][s] = "done" => loads'[q][s] = "done"
    BY DEF DoneStays
  <2>2. CASE q = p
    BY <1>k, <2>1, <2>2, SeriesFacts
  <2>3. CASE q # p
    <3>1. stage'[q] = stage[q]
      BY <1>k, <2>3
    <3>2. QED
      BY <2>1, <3>1, SeriesFacts DEF Reached
  <2>4. QED
    BY <2>2, <2>3
<1>b. ASSUME NEW p \in ParamSets, NEW group \in SUBSET Series, NEW first \in {"cache", "slot"},
             NEW next \in Stages, Start(p, group, first, next)
      PROVE  stage'[p] \in {next, "failed"} /\ \A q \in ParamSets \ {p} : stage'[q] = stage[q]
  <2>1. LoadsTyped
    BY DEF LoadsInv
  <2>2. Started(p, group, first, next)
    BY <1>b, <2>1, StartFacts
  <2>3. QED
    BY <2>2 DEF Started
<1>e. ASSUME NEW p \in ParamSets, NEW next, stage' = [stage EXCEPT ![p] = next]
      PROVE  stage'[p] = next /\ \A q \in ParamSets \ {p} : stage'[q] = stage[q]
  BY <1>e DEF LoadsInv, LoadsTyped
<1>1. ASSUME NEW p \in ParamSets, RunStep(p) PROVE Reached'
  <2>1. CASE StartRun(p)
    <3>1. {Primary} \in SUBSET Series /\ "primary" \in Stages /\ Start(p, {Primary}, "cache", "primary")
      BY <2>1, SeriesFacts DEF Stages, StartRun, HasTurn
    <3>2. QED
      BY <3>1, <1>b, <1>k
  <2>2. CASE PrimaryLoaded(p)
    <3>1. /\ Others \in SUBSET Series /\ "securities" \in Stages /\ Start(p, Others, "slot", "securities")
          /\ loads[p][Primary] = "done"
      BY <2>2, SeriesFacts DEF Stages, PrimaryLoaded, HasPrimary
    <3>2. QED
      BY <3>1, <1>b, <1>k
  <2>3. CASE SecuritiesLoaded(p)
    <3>1. /\ Factors \in SUBSET Series /\ "factors" \in Stages /\ Start(p, Factors, "slot", "factors")
          /\ loads[p][Primary] = "done" /\ \A s \in Others : loads[p][s] = "done"
      BY <2>3, SeriesFacts DEF Stages, SecuritiesLoaded, HasSecurities, Reached
    <3>2. QED
      BY <3>1, <1>b, <1>k
  <2>4. CASE Prepared(p)
    <3>1. /\ stage' = [stage EXCEPT ![p] = "replay"]
          /\ loads[p][Primary] = "done" /\ \A s \in Others \cup Factors : loads[p][s] = "done"
      BY <2>4 DEF Prepared, AllLoaded, Reached
    <3>2. QED
      BY <3>1, <1>e, <1>k
  <2>5. CASE LoadFailed(p) \/ NoData(p) \/ PreloadFails(p)
    <3>1. stage' = [stage EXCEPT ![p] = "failed"]
      BY <2>5 DEF LoadFailed, HasError, NoData, HasPrimary, PreloadFails, Fails
    <3>2. QED
      BY <3>1, <1>e, <1>k
  <2>6. CASE ReplayEnds(p)
    <3>1. PICK next \in {"done", "failed"} : stage' = [stage EXCEPT ![p] = next]
      BY <2>6 DEF ReplayEnds
    <3>2. QED
      BY <3>1, <1>e, <1>k
  <2>7. CASE \E wanted \in {{}} \cup {{s} : s \in Traded} : ReplayBar(p, wanted)
    BY <2>7, <1>s DEF ReplayBar
  <2>8. QED
    BY <1>1, <2>1, <2>2, <2>3, <2>4, <2>5, <2>6, <2>7 DEF RunStep
<1>2. ASSUME NEW p \in ParamSets, NEW s \in Series, LoadStep(p, s) PROVE Reached'
  BY <1>2, <1>s DEF LoadStep, TakeSlot, HasSlot, GiveUp, LookUp, FeedFails, FeedAnswers
<1>3. CASE BatchStops
  BY <1>3, <1>s DEF BatchStops
<1>4. CASE UNCHANGED prepVars
  BY <1>4, <1>s DEF prepVars
<1>5. QED
  BY <1>1, <1>2, <1>3, <1>4 DEF PrepNext

\* What a step leaves of the data, and what a load that ends adds to it.
NoNewData ==
    /\ UNCHANGED <<heap, own>>
    /\ \A p \in ParamSets, s \in Series : loads'[p][s] = "done" => loads[p][s] = "done"

HeapAdds(p, s) ==
    /\ DOMAIN heap \subseteq DOMAIN heap'
    /\ \A o \in DOMAIN heap' :
          \/ o \in DOMAIN heap /\ heap'[o] = heap[o]
          \/ o \in {Copy(p, s), Fresh(p, s)} /\ heap'[o].bars \in Timelines

NewData(p, s) ==
    /\ loads[p][s] # "done"
    /\ \A q \in ParamSets, t \in Series : <<q, t>> # <<p, s>> => loads'[q][t] = loads[q][t]
    /\ \E object \in {Copy(p, s), Fresh(p, s)} : own' = [own EXCEPT ![p] = With(own[p], s, object)]
    /\ HeapAdds(p, s)

\* What a feed answers is in the order of time, and so is the part of it that
\* was asked for.
LEMMA LoadedFacts ==
    ASSUME Framed, NEW p \in ParamSets, NEW s \in Series, NEW bars \in Histories[s]
    PROVE  Loaded(p, s, bars).bars \in Timelines
<1> DEFINE m == FirstFrom(bars, LoadFrom(p))
           n == FirstFrom(bars, To)
<1>1. bars \in Timelines
  BY PreparationConstants DEF Timelines
<1>2. LoadFrom(p) \in Int /\ To \in Int
  BY PreparationConstants DEF Framed, LoadFrom
<1>3. m \in 1..(Len(bars) + 1) /\ n \in 1..(Len(bars) + 1) /\ Len(bars) \in Nat
  BY <1>1, <1>2, FirstFacts
<1>4. Within(bars, p) = SubSeq(bars, m, n - 1)
  BY DEF Within
<1> HIDE DEF m, n
<1>5. n - 1 \in 0..Len(bars)
  BY <1>3
<1>6. Within(bars, p) \in Timelines
  BY <1>1, <1>3, <1>4, <1>5, PartFacts
<1>7. QED
  BY <1>6 DEF Loaded

LEMMA LoadAdds ==
    ASSUME Framed, Timed, LoadsInv, StoresInv, NEW p \in ParamSets, NEW s \in Series, LoadStep(p, s)
    PROVE  NoNewData \/ NewData(p, s)
<1>a. ASSUME NEW answer \in LoadStates, Answer(p, s, answer)
      PROVE  /\ \A q \in ParamSets, t \in Series : <<q, t>> # <<p, s>> => loads'[q][t] = loads[q][t]
             /\ loads'[p][s] = answer
  BY <1>a, AnswerFacts DEF LoadsInv
<1>k. ASSUME NEW answer \in LoadStates, Answer(p, s, answer), answer # "done", UNCHANGED <<heap, own>>
      PROVE  NoNewData
  BY <1>k, <1>a DEF NoNewData
<1>c. ASSUME NEW ds, ds.bars \in Timelines, Clone(p, s, ds)
      PROVE  HeapAdds(p, s) /\ own' = [own EXCEPT ![p] = With(own[p], s, Copy(p, s))]
  <2>1. heap' = With(heap, Copy(p, s), ds) /\ own' = [own EXCEPT ![p] = With(own[p], s, Copy(p, s))]
    BY <1>c DEF Clone, Named
  <2>2. QED
    BY <1>c, <2>1 DEF HeapAdds, With
<1>h. Request(p, s) \in DOMAIN dsCache => heap[dsCache[Request(p, s)]].bars \in Timelines
  BY DEF StoresInv, Cached, Timed
<1>1. CASE TakeSlot(p, s) \/ GiveUp(p, s) \/ FeedFails(p, s)
  BY <1>1, <1>k DEF TakeSlot, HasSlot, GiveUp, FeedFails, LoadStates
<1>2. CASE LookUp(p, s)
  <2>1. CASE Request(p, s) \in DOMAIN dsCache
    <3>1. Answer(p, s, "done") /\ loads[p][s] # "done" /\ Clone(p, s, heap[dsCache[Request(p, s)]])
      BY <1>2, <2>1 DEF LookUp
    <3>2. QED
      BY <2>1, <3>1, <1>a, <1>c, <1>h DEF NewData, LoadStates
  <2>2. CASE Request(p, s) \notin DOMAIN dsCache
    BY <1>2, <2>2, <1>k DEF LookUp, LoadStates
  <2>3. QED
    BY <2>1, <2>2
<1>3. CASE \E bars \in Histories[s] : FeedAnswers(p, s, bars)
  <2>1. PICK bars \in Histories[s] : FeedAnswers(p, s, bars)
    BY <1>3
  <2>2. Answer(p, s, "done") /\ loads[p][s] # "done"
    BY <2>1 DEF FeedAnswers
  <2> DEFINE ds == Loaded(p, s, bars)
  <2>3. ds.bars \in Timelines
    BY LoadedFacts
  <2>4. \/ Clone(p, s, heap[dsCache[Request(p, s)]]) /\ Request(p, s) \in DOMAIN dsCache
        \/ heap' = With(heap, Fresh(p, s), ds) /\ own' = [own EXCEPT ![p] = With(own[p], s, Fresh(p, s))]
        \/ /\ heap' = With(With(heap, Fresh(p, s), ds), Copy(p, s), ds)
           /\ own' = [own EXCEPT ![p] = With(own[p], s, Copy(p, s))]
    BY <2>1 DEF FeedAnswers, Named
  <2> HIDE DEF ds
  <2>5. /\ HeapAdds(p, s)
        /\ \E object \in {Copy(p, s), Fresh(p, s)} : own' = [own EXCEPT ![p] = With(own[p], s, object)]
    <3>1. CASE Clone(p, s, heap[dsCache[Request(p, s)]]) /\ Request(p, s) \in DOMAIN dsCache
      BY <3>1, <1>c, <1>h
    <3>2. CASE heap' = With(heap, Fresh(p, s), ds) /\ own' = [own EXCEPT ![p] = With(own[p], s, Fresh(p, s))]
      <4>1. HeapAdds(p, s)
        BY <3>2, <2>3 DEF HeapAdds, With
      <4>2. QED
        BY <3>2, <4>1
    <3>3. CASE /\ heap' = With(With(heap, Fresh(p, s), ds), Copy(p, s), ds)
               /\ own' = [own EXCEPT ![p] = With(own[p], s, Copy(p, s))]
      <4>1. HeapAdds(p, s)
        BY <3>3, <2>3 DEF HeapAdds, With
      <4>2. QED
        BY <3>3, <4>1
    <3>4. QED
      BY <2>4, <3>1, <3>2, <3>3
  <2>6. QED
    BY <2>2, <2>5, <1>a DEF NewData, LoadStates
<1>4. QED
  BY <1>1, <1>2, <1>3 DEF LoadStep

\* What a run owns is not what the load of another series writes.
LEMMA OwnedStays ==
    ASSUME StoresInv, NEW p \in ParamSets, NEW s \in Series, loads[p][s] # "done", HeapAdds(p, s),
           NEW q \in ParamSets, NEW t \in DOMAIN own[q]
    PROVE  heap'[own[q][t]] = heap[own[q][t]]
<1>1. own[q][t] \in DOMAIN heap /\ own[q][t] \in Owns(q, t) /\ <<q, t>> # <<p, s>>
  BY DEF StoresInv, Owned
<1>2. own[q][t] \in {Fresh(q, t), Copy(q, t), Slice(q)}
  BY <1>1 DEF Owns
<1>3. own[q][t] \notin {Copy(p, s), Fresh(p, s)}
  BY <1>1, <1>2, ObjectFacts
<1>4. QED
  BY <1>1, <1>3 DEF HeapAdds

\* A run that replays as before sees as before.
LEMMA ConfirmedKept ==
    ASSUME NEW p \in ParamSets, UNCHANGED warmup, maps'[p] = maps[p],
           \A s \in Series : Bars(p, s)' = Bars(p, s), Confirmed(p)
    PROVE  Confirmed(p)'
<1>1. Bars(p, Primary)' = Bars(p, Primary) /\ \A s \in Others \cup Factors : Bars(p, s)' = Bars(p, s)
  BY SeriesFacts
<1> HIDE DEF Bars
<1>2. QED
  BY <1>1 DEF Confirmed

LEMMA LoadConfirms ==
    ASSUME ReplayInv, LoadsInv, StoresInv, NEW p \in ParamSets, NEW s \in Series, LoadStep(p, s)
    PROVE  Timed' /\ Fetched' /\ SeesLatestConfirmed'
<1>1. UNCHANGED <<warmup, maps, stage>>
  BY DEF LoadStep, TakeSlot, HasSlot, GiveUp, LookUp, FeedFails, FeedAnswers, environment, batchConfig
<1>2. CASE NoNewData
  BY <1>1, <1>2 DEF NoNewData, ReplayInv, Timed, Fetched, SeesLatestConfirmed, Bars
<1>3. CASE NewData(p, s)
  <2>1. Timed'
    BY <1>3 DEF NewData, HeapAdds, ReplayInv, Timed
  <2>2. PICK object \in {Copy(p, s), Fresh(p, s)} : own' = [own EXCEPT ![p] = With(own[p], s, object)]
    BY <1>3 DEF NewData
  <2>3. /\ own'[p] = With(own[p], s, object)
        /\ \A q \in ParamSets \ {p} : own'[q] = own[q]
    BY <2>2 DEF StoresInv, Owned
  <2>4. Fetched'
    <3> SUFFICES ASSUME NEW q \in ParamSets, NEW t \in Series, loads'[q][t] = "done"
                 PROVE  t \in DOMAIN own'[q]
      BY DEF Fetched
    <3>1. CASE q = p /\ t = s
      BY <3>1, <2>3 DEF With
    <3>2. CASE ~(q = p /\ t = s)
      <4>1. t \in DOMAIN own[q]
        BY <3>2, <1>3 DEF NewData, ReplayInv, Fetched
      <4>2. QED
        BY <4>1, <2>3 DEF With
    <3>3. QED
      BY <3>1, <3>2
  <2>5. ASSUME NEW q \in ParamSets, stage'[q] = "replay" PROVE Confirmed(q)'
    <3>1. stage[q] = "replay" /\ Confirmed(q)
      BY <2>5, <1>1, ConfirmedFacts DEF ReplayInv
    <3>2. \A t \in Series : loads[q][t] = "done" /\ t \in DOMAIN own[q]
      BY <3>1, AllThere DEF ReplayInv
    <3>3. q # p
      BY <3>2, <1>3 DEF NewData
    <3>4. \A t \in Series : heap'[own[q][t]] = heap[own[q][t]]
      BY <3>2, <1>3, OwnedStays DEF NewData
    <3>5. \A t \in Series : Bars(q, t)' = Bars(q, t)
      BY <3>3, <3>4, <2>3 DEF Bars
    <3>6. QED
      BY <3>1, <3>5, <1>1, ConfirmedKept
  <2>6. SeesLatestConfirmed'
    BY <2>5 DEF SeesLatestConfirmed, Confirmed
  <2>7. QED
    BY <2>1, <2>4, <2>6
<1>4. QED
  BY <1>2, <1>3, LoadAdds DEF ReplayInv

\* A run that derives columns leaves the bars of all data sets as they are,
\* its slice apart.
LEMMA DerivedBars ==
    ASSUME StoresInv, NEW p \in ParamSets
    PROVE  DOMAIN Derived(p) = DOMAIN heap /\ \A o \in DOMAIN heap : Derived(p)[o].bars = heap[o].bars
<1>1. ASSUME NEW o \in DOMAIN heap PROVE Derived(p)[o].bars = heap[o].bars
  <2>1. Derived(p)[o] = [bars |-> heap[o].bars, derived |-> Derived(p)[o].derived]
    BY DerivedFacts
  <2>2. QED
    BY <2>1
<1>2. QED
  BY <1>1, DerivedFacts

LEMMA SliceOwned ==
    ASSUME StoresInv, NEW q \in ParamSets, NEW t \in DOMAIN own[q], NEW p \in ParamSets,
           q # p \/ t # Primary
    PROVE  own[q][t] \in DOMAIN heap /\ own[q][t] # Slice(p)
<1>1. own[q][t] \in Owns(q, t) /\ own[q][t] \in DOMAIN heap
  BY DEF StoresInv, Owned
<1>2. own[q][t] \in {Fresh(q, t), Copy(q, t)} \/ (own[q][t] = Slice(q) /\ t = Primary)
  BY <1>1 DEF Owns
<1>3. QED
  BY <1>1, <1>2, ObjectFacts

LEMMA FailConfirms ==
    ASSUME ReplayInv, LoadsInv, StoresInv, NEW p \in ParamSets, PreloadFails(p)
    PROVE  Timed' /\ Fetched' /\ SeesLatestConfirmed'
<1>1. /\ UNCHANGED <<warmup, maps, own, loads>> /\ stage' = [stage EXCEPT ![p] = "failed"]
      /\ heap' = Derived(p)
  BY DEF PreloadFails, environment, batchConfig
<1>2. Timed' /\ Fetched'
  BY <1>1, DerivedBars DEF ReplayInv, Timed, Fetched
<1>3. ASSUME NEW q \in ParamSets, stage'[q] = "replay" PROVE Confirmed(q)'
  <2>1. stage[q] = "replay" /\ Confirmed(q)
    BY <1>1, <1>3, ConfirmedFacts DEF ReplayInv, LoadsInv, LoadsTyped
  <2>2. \A t \in Series : t \in DOMAIN own[q] /\ own[q][t] \in DOMAIN heap
    BY <2>1, AllThere DEF ReplayInv, StoresInv, Owned
  <2>3. \A t \in Series : Bars(q, t)' = Bars(q, t)
    BY <1>1, <2>2, DerivedBars DEF Bars
  <2>4. QED
    BY <1>1, <2>1, <2>3, ConfirmedKept
<1>4. SeesLatestConfirmed'
  BY <1>3 DEF SeesLatestConfirmed, Confirmed
<1>5. QED
  BY <1>2, <1>4

\* The bars a run replays, and that they begin in the window it was asked for.
Replayed(p) == IF warmup[p] > 0 THEN Visible(p) ELSE Bars(p, Primary)

LEMMA ReplayedFacts ==
    ASSUME Framed, NEW p \in ParamSets, Bars(p, Primary) \in Timelines, warmup[p] > 0 => Visible(p) # <<>>
    PROVE  /\ Replayed(p) \in Timelines
           /\ warmup[p] > 0 => From <= Replayed(p)[1]
<1>1. CASE warmup[p] > 0
  <2> DEFINE bars == Bars(p, Primary)
             m == FirstFrom(bars, From)
             n == Len(bars)
  <2>1. From \in Int
    BY PreparationConstants
  <2>2. /\ m \in 1..(n + 1) /\ n \in Nat
        /\ \A k \in DOMAIN bars : k < m <=> bars[k] < From
    BY <2>1, FirstFacts
  <2>3. Visible(p) = SubSeq(bars, m, n)
    BY DEF Visible
  <2>4. Replayed(p) = Visible(p) /\ Visible(p) # <<>>
    BY <1>1 DEF Replayed
  <2> HIDE DEF bars, m, n
  <2>5. n \in 0..n
    BY <2>2
  <2>6. bars \in Timelines /\ n = Len(bars)
    BY DEF bars, n
  <2>7. Visible(p) \in Timelines /\ m \in DOMAIN bars /\ Visible(p)[1] = bars[m]
    BY <2>2, <2>3, <2>4, <2>5, <2>6, PartFacts
  <2>8. ~(bars[m] < From) /\ bars[m] \in Int
    <3>1. ~(m < m)
      BY <2>2
    <3>2. bars[m] \in Int
      BY <2>6, <2>7 DEF Timelines
    <3>3. QED
      BY <2>2, <2>7, <3>1, <3>2
  <2>9. From <= Visible(p)[1]
    BY <2>1, <2>7, <2>8
  <2>10. QED
    BY <2>4, <2>7, <2>9
<1>2. CASE ~(warmup[p] > 0)
  BY <1>2 DEF Replayed
<1>3. QED
  BY <1>1, <1>2

\* The bars of a series up to the one it is aligned with are those that close
\* no later than the bar of the primary does.
LEMMA AlignFacts ==
    ASSUME NEW primary \in Timelines, NEW bars \in Timelines, NEW s \in Series,
           NEW i \in DOMAIN primary, NEW k \in DOMAIN bars
    PROVE  (k <= AlignSeries(primary, bars, s)[i]) <=> (bars[k] + Interval[s] <= primary[i] + Interval[Primary])
<1> DEFINE time == primary[i] + Interval[Primary] - Interval[s] + 1
           m == FirstFrom(bars, time)
<1>1. Interval[s] \in Int /\ Interval[Primary] \in Int
  BY PreparationConstants, SeriesFacts
<1>2. primary[i] \in Int /\ bars[k] \in Int /\ k \in Int
  BY DEF Timelines
<1>3. time \in Int
  BY <1>1, <1>2
<1>4. AlignSeries(primary, bars, s)[i] = m - 1
  BY DEF AlignSeries
<1>5. m \in 1..(Len(bars) + 1) /\ Len(bars) \in Nat /\ (k < m <=> bars[k] < time)
  <2> HIDE DEF time
  <2>1. QED
    BY <1>3, FirstFacts
<1> HIDE DEF m
<1>6. m \in Int
  BY <1>5
<1>7. k <= m - 1 <=> k < m
  BY <1>2, <1>6
<1>8. bars[k] < time <=> bars[k] + Interval[s] <= primary[i] + Interval[Primary]
  BY <1>1, <1>2
<1>9. QED
  BY <1>4, <1>5, <1>7, <1>8

LEMMA PreparedConfirms ==
    ASSUME ReplayInv, LoadsInv, StoresInv, NEW p \in ParamSets, Prepared(p)
    PROVE  Framed' /\ Timed' /\ Fetched' /\ SeesLatestConfirmed'
<1> DEFINE primary == Replayed(p)
<1>1. /\ UNCHANGED <<warmup, loads>> /\ stage' = [stage EXCEPT ![p] = "replay"]
      /\ maps' = [maps EXCEPT ![p] = AlignMaps(p, primary, Others \cup Factors)]
      /\ warmup[p] > 0 => Visible(p) # <<>>
      /\ stage[p] = "factors" /\ \A s \in Factors : loads[p][s] = "done"
  BY DEF Prepared, AllLoaded, Replayed, environment, batchConfig
<1>2. \/ heap' = Derived(p) /\ UNCHANGED own /\ primary = Bars(p, Primary)
      \/ /\ heap' = With(Derived(p), Slice(p), [bars |-> primary, derived |-> {p}])
         /\ own' = [own EXCEPT ![p][Primary] = Slice(p)]
  BY DEF Prepared, Replayed
<1>3. \A t \in Series : t \in DOMAIN own[p] /\ own[p][t] \in DOMAIN heap
  <2>1. \A t \in Series : loads[p][t] = "done"
    BY <1>1, SeriesFacts DEF ReplayInv, Reached
  <2>2. QED
    BY <2>1 DEF ReplayInv, Fetched, StoresInv, Owned
<1>4. \A t \in Series : Bars(p, t) \in Timelines
  BY <1>3 DEF ReplayInv, Timed, Bars
<1>5. primary \in Timelines /\ (warmup[p] > 0 => From <= primary[1])
  BY <1>1, <1>4, SeriesFacts, ReplayedFacts DEF ReplayInv
<1> HIDE DEF primary
<1>6. /\ \A o \in DOMAIN heap : o # Slice(p) => o \in DOMAIN heap' /\ heap'[o].bars = heap[o].bars
      /\ \A o \in DOMAIN heap' : heap'[o].bars \in {primary} \cup {heap[b].bars : b \in DOMAIN heap}
  <2>1. CASE heap' = Derived(p)
    BY <2>1, DerivedBars
  <2>2. CASE heap' = With(Derived(p), Slice(p), [bars |-> primary, derived |-> {p}])
    <3>1. /\ DOMAIN heap' = DOMAIN heap \cup {Slice(p)}
          /\ heap'[Slice(p)] = [bars |-> primary, derived |-> {p}]
          /\ \A o \in DOMAIN heap : o # Slice(p) => heap'[o] = Derived(p)[o]
      BY <2>2, DerivedBars DEF With
    <3>2. heap'[Slice(p)].bars = primary
      BY <3>1
    <3>3. QED
      BY <3>1, <3>2, DerivedBars
  <2>3. QED
    BY <1>2, <2>1, <2>2
<1>7. Timed'
  BY <1>5, <1>6 DEF ReplayInv, Timed
<1>8. /\ \A q \in ParamSets : DOMAIN own'[q] = DOMAIN own[q]
      /\ \A q \in ParamSets : \A t \in DOMAIN own[q] : q # p \/ t # Primary => own'[q][t] = own[q][t]
  <2>1. CASE own' = own
    BY <2>1
  <2>2. CASE own' = [own EXCEPT ![p][Primary] = Slice(p)]
    <3>1. DOMAIN own = ParamSets
      BY DEF StoresInv, Owned
    <3>2. /\ own'[p] = [own[p] EXCEPT ![Primary] = Slice(p)]
          /\ \A q \in ParamSets \ {p} : own'[q] = own[q]
      BY <2>2, <3>1
    <3>3. QED
      BY <3>2
  <2>3. QED
    BY <1>2, <2>1, <2>2
<1>9. Fetched'
  BY <1>1, <1>8 DEF ReplayInv, Fetched
<1>10. ASSUME NEW q \in ParamSets, NEW t \in DOMAIN own[q], q # p \/ t # Primary
       PROVE  Bars(q, t)' = Bars(q, t)
  BY <1>6, <1>8, <1>10, SliceOwned DEF Bars
<1>11. Bars(p, Primary)' = primary
  <2>1. CASE own' = own /\ heap' = Derived(p) /\ primary = Bars(p, Primary)
    BY <2>1, <1>3, SeriesFacts, DerivedBars DEF Bars
  <2>2. CASE /\ heap' = With(Derived(p), Slice(p), [bars |-> primary, derived |-> {p}])
             /\ own' = [own EXCEPT ![p][Primary] = Slice(p)]
    <3>1. DOMAIN own = ParamSets /\ Primary \in DOMAIN own[p]
      BY <1>3, SeriesFacts DEF StoresInv, Owned
    <3>2. own'[p][Primary] = Slice(p)
      BY <2>2, <3>1
    <3>3. heap'[Slice(p)] = [bars |-> primary, derived |-> {p}]
      BY <2>2 DEF With
    <3>4. QED
      BY <3>2, <3>3 DEF Bars
  <2>3. QED
    BY <1>2, <2>1, <2>2
<1>12. Framed'
  BY <1>1 DEF ReplayInv, Framed
<1>13. ASSUME NEW q \in ParamSets \ {p}, stage'[q] = "replay" PROVE Confirmed(q)'
  <2>1. stage[q] = "replay" /\ Confirmed(q)
    BY <1>1, <1>13, ConfirmedFacts DEF ReplayInv, LoadsInv, LoadsTyped
  <2>2. \A t \in Series : t \in DOMAIN own[q]
    BY <2>1, AllThere DEF ReplayInv
  <2>3. \A t \in Series : Bars(q, t)' = Bars(q, t)
    BY <2>2, <1>10
  <2>4. maps'[q] = maps[q]
    BY <1>1
  <2>5. QED
    BY <1>1, <2>1, <2>3, <2>4, ConfirmedKept
<1>14. Confirmed(p)'
  <2>1. \A s \in Others \cup Factors : s \in Series /\ Bars(p, s)' = Bars(p, s)
    BY <1>3, <1>10, SeriesFacts
  <2>2. ASSUME NEW s \in Others \cup Factors, NEW i \in DOMAIN primary, NEW k \in DOMAIN Bars(p, s)
        PROVE  (k <= maps'[p][s][i]) <=> (Bars(p, s)[k] + Interval[s] <= primary[i] + Interval[Primary])
    <3>1. maps'[p] = AlignMaps(p, primary, Others \cup Factors)
      BY <1>1 DEF ReplayInv, Framed
    <3>2. maps'[p][s] = AlignSeries(primary, Bars(p, s), s)
      BY <3>1 DEF AlignMaps
    <3>3. s \in Series /\ Bars(p, s) \in Timelines
      BY <2>1, <1>4
    <3>4. QED
      BY <3>2, <3>3, <1>5, AlignFacts
  <2>3. warmup'[p] > 0 => From <= primary[1]
    BY <1>1, <1>5
  <2> HIDE DEF Bars
  <2>4. QED
    BY <2>1, <2>2, <2>3, <1>11 DEF Confirmed
<1>15. SeesLatestConfirmed'
  BY <1>13, <1>14 DEF SeesLatestConfirmed, Confirmed
<1>16. QED
  BY <1>7, <1>9, <1>12, <1>15

\* The other steps of a run leave the data as it is and begin no replay.
LEMMA RunConfirms ==
    ASSUME ReplayInv, LoadsInv, StoresInv, NEW p \in ParamSets, RunStep(p)
    PROVE  Framed' /\ Timed' /\ Fetched' /\ SeesLatestConfirmed'
<1>1. ASSUME UNCHANGED <<warmup, heap, own>>, DOMAIN maps' = ParamSets,
             \A q \in ParamSets, t \in Series : loads'[q][t] = "done" => loads[q][t] = "done",
             \A q \in ParamSets : stage'[q] = "replay" => stage[q] = "replay" /\ maps'[q] = maps[q]
      PROVE  Framed' /\ Timed' /\ Fetched' /\ SeesLatestConfirmed'
  <2>1. Framed' /\ Timed' /\ Fetched'
    BY <1>1 DEF ReplayInv, Framed, Timed, Fetched
  <2>2. ASSUME NEW q \in ParamSets, stage'[q] = "replay" PROVE Confirmed(q)'
    <3>1. stage[q] = "replay" /\ Confirmed(q) /\ maps'[q] = maps[q]
      BY <1>1, <2>2, ConfirmedFacts DEF ReplayInv
    <3>2. \A t \in Series : Bars(q, t)' = Bars(q, t)
      BY <1>1 DEF Bars
    <3>3. QED
      BY <1>1, <3>1, <3>2, ConfirmedKept
  <2>3. SeesLatestConfirmed'
    BY <2>2 DEF SeesLatestConfirmed, Confirmed
  <2>4. QED
    BY <2>1, <2>3
<1>b. ASSUME NEW group \in SUBSET Series, NEW first \in {"cache", "slot"},
             NEW next \in Stages, next # "replay", Start(p, group, first, next)
      PROVE  /\ \A q \in ParamSets, t \in Series : loads'[q][t] = "done" => loads[q][t] = "done"
             /\ stage'[p] # "replay" /\ \A q \in ParamSets \ {p} : stage'[q] = stage[q]
  <2>1. LoadsTyped
    BY DEF LoadsInv
  <2>2. Started(p, group, first, next)
    BY <1>b, <2>1, StartFacts
  <2>3. "failed" # "replay" /\ first # "done"
    OBVIOUS
  <2>4. QED
    BY <1>b, <2>2, <2>3 DEF Started
<1>e. ASSUME NEW next \in {"failed", "done"}, stage' = [stage EXCEPT ![p] = next]
      PROVE  \A q \in ParamSets : stage'[q] = "replay" => stage[q] = "replay"
  BY <1>e DEF LoadsInv, LoadsTyped
<1>2. CASE StartRun(p)
  <2>1. /\ {Primary} \in SUBSET Series /\ "primary" \in Stages /\ Start(p, {Primary}, "cache", "primary")
        /\ UNCHANGED <<warmup, heap, own, maps>>
    BY <1>2, SeriesFacts DEF Stages, StartRun, HasTurn, environment, batchConfig
  <2>2. QED
    BY <2>1, <1>1, <1>b DEF ReplayInv, Framed
<1>3. CASE PrimaryLoaded(p)
  <2>1. /\ Others \in SUBSET Series /\ "securities" \in Stages /\ Start(p, Others, "slot", "securities")
        /\ UNCHANGED <<warmup, heap, own, maps>>
    BY <1>3, SeriesFacts DEF Stages, PrimaryLoaded, HasPrimary, environment, batchConfig
  <2>2. QED
    BY <2>1, <1>1, <1>b DEF ReplayInv, Framed
<1>4. CASE SecuritiesLoaded(p)
  <2>1. /\ Factors \in SUBSET Series /\ "factors" \in Stages /\ Start(p, Factors, "slot", "factors")
        /\ UNCHANGED <<warmup, heap, own>> /\ maps' = [maps EXCEPT ![p] = AlignMaps(p, Bars(p, Primary), Others)]
    BY <1>4, SeriesFacts DEF Stages, SecuritiesLoaded, HasSecurities, environment, batchConfig
  <2>2. DOMAIN maps' = ParamSets /\ \A q \in ParamSets \ {p} : maps'[q] = maps[q]
    BY <2>1 DEF ReplayInv, Framed
  <2>3. QED
    BY <2>1, <2>2, <1>1, <1>b
<1>5. CASE Prepared(p)
  BY <1>5, PreparedConfirms
<1>6. CASE PreloadFails(p)
  <2>1. Framed'
    BY <1>6 DEF PreloadFails, environment, batchConfig, ReplayInv, Framed
  <2>2. QED
    BY <1>6, <2>1, FailConfirms
<1>7. CASE LoadFailed(p) \/ NoData(p) \/ ReplayEnds(p)
  <2>1. PICK next \in {"failed", "done"} : stage' = [stage EXCEPT ![p] = next]
    BY <1>7 DEF LoadFailed, HasError, NoData, HasPrimary, ReplayEnds, Fails
  <2>2. UNCHANGED <<warmup, heap, own, maps, loads>>
    BY <1>7 DEF LoadFailed, HasError, NoData, HasPrimary, ReplayEnds, Fails, loadVars, environment, batchConfig
  <2>3. QED
    BY <2>1, <2>2, <1>1, <1>e DEF ReplayInv, Framed
<1>8. CASE \E wanted \in {{}} \cup {{s} : s \in Traded} : ReplayBar(p, wanted)
  <2>1. UNCHANGED <<warmup, heap, own, maps, loads, stage>>
    BY <1>8 DEF ReplayBar, loadVars, environment, batchConfig
  <2>2. QED
    BY <2>1, <1>1 DEF ReplayInv, Framed
<1>9. QED
  BY <1>2, <1>3, <1>4, <1>5, <1>6, <1>7, <1>8 DEF RunStep

LEMMA ReplayStep ==
    ASSUME LoadsInv, StoresInv, ReplayInv, [PrepNext]_prepVars
    PROVE  ReplayInv'
<1>1. Reached'
  BY LoadsStep, ReachedStep DEF ReplayInv
<1>2. Framed' /\ Timed' /\ Fetched' /\ SeesLatestConfirmed'
  <2>1. ASSUME NEW p \in ParamSets, RunStep(p) PROVE Framed' /\ Timed' /\ Fetched' /\ SeesLatestConfirmed'
    BY <2>1, RunConfirms
  <2>2. ASSUME NEW p \in ParamSets, NEW s \in Series, LoadStep(p, s)
        PROVE  Framed' /\ Timed' /\ Fetched' /\ SeesLatestConfirmed'
    <3>1. UNCHANGED <<warmup, maps>>
      BY <2>2 DEF LoadStep, TakeSlot, HasSlot, GiveUp, LookUp, FeedFails, FeedAnswers, environment, batchConfig
    <3>2. QED
      BY <2>2, <3>1, LoadConfirms DEF ReplayInv, Framed
  <2>3. ASSUME UNCHANGED <<warmup, maps, heap, own, loads, stage>>
        PROVE  Framed' /\ Timed' /\ Fetched' /\ SeesLatestConfirmed'
    BY <2>3 DEF ReplayInv, Framed, Timed, Fetched, SeesLatestConfirmed, Bars
  <2>4. CASE BatchStops
    BY <2>4, <2>3 DEF BatchStops, loadVars, batchConfig
  <2>5. CASE UNCHANGED prepVars
    BY <2>5, <2>3 DEF prepVars, loadVars, environment, batchConfig
  <2>6. QED
    BY <2>1, <2>2, <2>4, <2>5 DEF PrepNext
<1>3. QED
  BY <1>1, <1>2 DEF ReplayInv

\* What a strategy sees of another series is the latest bar closed by then,
\* for any histories of the feeds, intervals, windows and warmups: the bars
\* asked for are found by time in what is in the order of time, also after the
\* warmup was cut off, and neither the loads of other runs nor what they derive
\* change what a run that replays was aligned with.
THEOREM LatestConfirmed == PrepSpec => []SeesLatestConfirmed
<1>1. PrepInit => ReplayInv
  <2> SUFFICES ASSUME PrepInit PROVE ReplayInv
    OBVIOUS
  <2>1. /\ DOMAIN heap = {} /\ DOMAIN maps = ParamSets /\ warmup \in Warmups
        /\ \A p \in ParamSets : stage[p] = "queued" /\ \A s \in Series : loads[p][s] = "none"
    BY DEF PrepInit
  <2>2. QED
    BY <2>1 DEF ReplayInv, Framed, Timed, Fetched, Reached, SeesLatestConfirmed
<1>2. PrepInv /\ ReplayInv /\ [PrepNext]_prepVars => ReplayInv'
  BY ReplayStep DEF PrepInv
<1>3. ReplayInv => SeesLatestConfirmed
  BY DEF ReplayInv
<1>4. QED
  BY PrepAlways, <1>1, <1>2, <1>3, PTL DEF PrepSpec

-----------------------------------------------------------------------------
(***************************************************************************)
(* Nobody waits for ever.  A run that waits has started what it waits for, *)
(* and the index of a run that replays is in the bars it replays, which    *)
(* stay as they are.                                                       *)
(***************************************************************************)

Begun ==
    \A p \in ParamSets :
        /\ stage[p] = "primary" => loads[p][Primary] # "none"
        /\ stage[p] = "securities" => \A s \in Others : loads[p][s] # "none"
        /\ stage[p] = "factors" => \A s \in Factors : loads[p][s] # "none"

InBars ==
    /\ barIndex \in [ParamSets -> Nat]
    /\ \A p \in ParamSets : stage[p] \in {"queued", "primary", "securities", "factors"} => barIndex[p] = 0
    /\ \A p \in ParamSets : stage[p] = "replay" => barIndex[p] <= Len(Bars(p, Primary))

WaitInv == nWorkers \in Workers /\ Begun /\ InBars

\* A load under way comes to an answer or goes on; none is taken back.
LEMMA AnswersOnly ==
    ASSUME LoadsTyped, NEW p \in ParamSets, NEW s \in Series, LoadStep(p, s)
    PROVE  /\ UNCHANGED <<stage, barIndex>>
           /\ loads[p][s] # "none" /\ loads'[p][s] # "none"
           /\ \A q \in ParamSets, t \in Series : <<q, t>> # <<p, s>> => loads'[q][t] = loads[q][t]
<1>1. PICK answer \in LoadStates : Answer(p, s, answer) /\ loads[p][s] # "none" /\ answer # "none"
  BY DEF LoadStep, TakeSlot, HasSlot, GiveUp, LookUp, FeedFails, FeedAnswers, LoadStates
<1>2. UNCHANGED <<stage, barIndex>>
  BY DEF LoadStep, TakeSlot, GiveUp, LookUp, FeedFails, FeedAnswers, replayVars
<1>3. QED
  BY <1>1, <1>2, AnswerFacts

\* What starting a group of loads does to those of the group: all of them are
\* under way, or Prepare is over.
LEMMA StartBegins ==
    ASSUME LoadsTyped, NEW p \in ParamSets, NEW group \in SUBSET Series,
           NEW first \in {"cache", "slot"}, NEW next \in Stages, Start(p, group, first, next)
    PROVE  stage'[p] = "failed" \/ \A s \in group : loads'[p][s] # "none"
<1> DEFINE begun == [s \in Series |-> IF s \in group THEN first ELSE loads[p][s]]
<1>1. CASE group \subseteq hasFeed
  <2>1. loads' = [loads EXCEPT ![p] = begun]
    BY <1>1 DEF Start
  <2>2. loads'[p] = begun
    BY <2>1 DEF LoadsTyped
  <2>3. \A s \in group : begun[s] = first
    OBVIOUS
  <2>4. QED
    BY <2>2, <2>3
<1>2. CASE ~(group \subseteq hasFeed)
  BY <1>2 DEF Start, LoadsTyped
<1>3. QED
  BY <1>1, <1>2

LEMMA BegunStep ==
    ASSUME LoadsInv, Begun, [PrepNext]_prepVars
    PROVE  Begun'
<1>t. LoadsTyped
  BY DEF LoadsInv
<1>s. ASSUME UNCHANGED <<stage, loads>> PROVE Begun'
  BY <1>s DEF Begun
<1>e. ASSUME NEW p \in ParamSets, NEW next \in {"failed", "done", "replay"}, stage' = [stage EXCEPT ![p] = next],
             UNCHANGED loads
      PROVE  Begun'
  BY <1>e, <1>t DEF Begun, LoadsTyped
<1>b. ASSUME NEW p \in ParamSets, NEW group \in SUBSET Series, NEW first \in {"cache", "slot"},
             NEW next \in Stages, Start(p, group, first, next),
             next = "primary" => group = {Primary}, next = "securities" => group = Others,
             next = "factors" => group = Factors, next \in {"primary", "securities", "factors"}
      PROVE  Begun'
  <2>1. Started(p, group, first, next)
    BY <1>b, <1>t, StartFacts
  <2>2. stage'[p] = "failed" \/ \A s \in group : loads'[p][s] # "none"
    BY <1>b, <1>t, StartBegins
  <2>3. /\ stage'[p] \in {next, "failed"}
        /\ \A q \in ParamSets \ {p} : stage'[q] = stage[q] /\ loads'[q] = loads[q]
    BY <2>1 DEF Started
  <2> SUFFICES ASSUME NEW q \in ParamSets
               PROVE  /\ stage'[q] = "primary" => loads'[q][Primary] # "none"
                      /\ stage'[q] = "securities" => \A s \in Others : loads'[q][s] # "none"
                      /\ stage'[q] = "factors" => \A s \in Factors : loads'[q][s] # "none"
    BY DEF Begun
  <2>4. CASE q = p
    BY <1>b, <2>2, <2>3, <2>4
  <2>5. CASE q # p
    BY <2>3, <2>5 DEF Begun
  <2>6. QED
    BY <2>4, <2>5
<1>1. ASSUME NEW p \in ParamSets, RunStep(p) PROVE Begun'
  <2>1. CASE StartRun(p)
    <3>1. {Primary} \in SUBSET Series /\ "primary" \in Stages /\ Start(p, {Primary}, "cache", "primary")
      BY <2>1, SeriesFacts DEF Stages, StartRun
    <3>2. QED
      BY <3>1, <1>b
  <2>2. CASE PrimaryLoaded(p)
    <3>1. Others \in SUBSET Series /\ "securities" \in Stages /\ Start(p, Others, "slot", "securities")
      BY <2>2, SeriesFacts DEF Stages, PrimaryLoaded
    <3>2. QED
      BY <3>1, <1>b
  <2>3. CASE SecuritiesLoaded(p)
    <3>1. Factors \in SUBSET Series /\ "factors" \in Stages /\ Start(p, Factors, "slot", "factors")
      BY <2>3, SeriesFacts DEF Stages, SecuritiesLoaded
    <3>2. QED
      BY <3>1, <1>b
  <2>4. CASE Prepared(p) \/ LoadFailed(p) \/ NoData(p) \/ PreloadFails(p) \/ ReplayEnds(p)
    <3>1. PICK next \in {"failed", "done", "replay"} : stage' = [stage EXCEPT ![p] = next]
      BY <2>4 DEF Prepared, LoadFailed, NoData, PreloadFails, ReplayEnds, Fails
    <3>2. UNCHANGED loads
      BY <2>4 DEF Prepared, LoadFailed, NoData, PreloadFails, ReplayEnds, Fails, loadVars
    <3>3. QED
      BY <3>1, <3>2, <1>e
  <2>5. CASE \E wanted \in {{}} \cup {{s} : s \in Traded} : ReplayBar(p, wanted)
    BY <2>5, <1>s DEF ReplayBar, loadVars
  <2>6. QED
    BY <1>1, <2>1, <2>2, <2>3, <2>4, <2>5 DEF RunStep
<1>2. ASSUME NEW p \in ParamSets, NEW s \in Series, LoadStep(p, s) PROVE Begun'
  <2>1. /\ UNCHANGED stage
        /\ \A q \in ParamSets, t \in Series : loads[q][t] # "none" => loads'[q][t] # "none"
    BY <1>2, <1>t, AnswersOnly
  <2>2. QED
    BY <2>1, SeriesFacts DEF Begun
<1>3. CASE BatchStops
  BY <1>3, <1>s DEF BatchStops, loadVars
<1>4. CASE UNCHANGED prepVars
  BY <1>4, <1>s DEF prepVars, loadVars
<1>5. QED
  BY <1>1, <1>2, <1>3, <1>4 DEF PrepNext

\* The cut of the warmup is of the run's own slice: the data of the others
\* stays.
LEMMA PreparedLeaves ==
    ASSUME StoresInv, NEW p \in ParamSets, Prepared(p),
           NEW q \in ParamSets \ {p}, NEW t \in DOMAIN own[q]
    PROVE  Bars(q, t)' = Bars(q, t)
<1>1. own[q][t] \in DOMAIN heap /\ own[q][t] # Slice(p)
  BY SliceOwned
<1>2. own'[q] = own[q]
  BY DEF Prepared, StoresInv, Owned
<1> DEFINE sliced == [bars |-> Visible(p), derived |-> {p}]
<1>3. heap' = Derived(p) \/ \E ds : heap' = With(Derived(p), Slice(p), ds)
  BY DEF Prepared
<1>4. heap'[own[q][t]] = Derived(p)[own[q][t]]
  <2>1. CASE heap' = Derived(p)
    BY <2>1
  <2>2. CASE \E ds : heap' = With(Derived(p), Slice(p), ds)
    BY <2>2, <1>1, DerivedBars DEF With
  <2>3. QED
    BY <1>3, <2>1, <2>2
<1>5. QED
  BY <1>1, <1>2, <1>4, DerivedBars DEF Bars

\* What a run replays stays as it is, whatever it and the others do.
LEMMA ReplayedStays ==
    ASSUME LoadsInv, StoresInv, ReplayInv, [PrepNext]_prepVars, NEW q \in ParamSets, stage[q] = "replay"
    PROVE  Bars(q, Primary)' = Bars(q, Primary)
<1>1. /\ \A t \in Series : loads[q][t] = "done" /\ t \in DOMAIN own[q]
      /\ Primary \in Series
  BY AllThere, SeriesFacts DEF ReplayInv
<1>s. ASSUME UNCHANGED <<heap, own>> PROVE Bars(q, Primary)' = Bars(q, Primary)
  BY <1>s DEF Bars
<1>2. ASSUME NEW p \in ParamSets, RunStep(p) PROVE Bars(q, Primary)' = Bars(q, Primary)
  <2>1. CASE Prepared(p)
    <3>1. q # p
      BY <2>1 DEF Prepared, AllLoaded
    <3>2. QED
      BY <1>1, <2>1, <3>1, PreparedLeaves
  <2>2. CASE PreloadFails(p)
    <3>1. heap' = Derived(p) /\ own' = own
      BY <2>2 DEF PreloadFails
    <3>2. own[q][Primary] \in DOMAIN heap
      BY <1>1 DEF StoresInv, Owned
    <3>3. QED
      BY <3>1, <3>2, DerivedBars DEF Bars
  <2>3. CASE ~(Prepared(p) \/ PreloadFails(p))
    <3>1. UNCHANGED <<heap, own>>
      BY <1>2, <2>3 DEF RunStep, StartRun, LoadFailed, NoData, PrimaryLoaded, SecuritiesLoaded, ReplayBar,
                        ReplayEnds, Fails, loadVars
    <3>2. QED
      BY <3>1, <1>s
  <2>4. QED
    BY <2>1, <2>2, <2>3
<1>3. ASSUME NEW p \in ParamSets, NEW s \in Series, LoadStep(p, s) PROVE Bars(q, Primary)' = Bars(q, Primary)
  <2>1. CASE NoNewData
    BY <2>1, <1>s DEF NoNewData
  <2>2. CASE NewData(p, s)
    <3>1. loads[p][s] # "done" /\ HeapAdds(p, s)
      BY <2>2 DEF NewData
    <3>2. q # p
      BY <1>1, <3>1
    <3>3. own'[q] = own[q]
      BY <2>2, <3>2 DEF NewData, StoresInv, Owned
    <3>4. heap'[own[q][Primary]] = heap[own[q][Primary]]
      BY <1>1, <3>1, OwnedStays
    <3>5. QED
      BY <3>3, <3>4 DEF Bars
  <2>3. QED
    BY <1>3, <2>1, <2>2, LoadAdds DEF ReplayInv
<1>4. CASE BatchStops
  BY <1>4, <1>s DEF BatchStops, loadVars
<1>5. CASE UNCHANGED prepVars
  BY <1>5, <1>s DEF prepVars, loadVars
<1>6. QED
  BY <1>2, <1>3, <1>4, <1>5 DEF PrepNext

\* The bars of a run that has loaded its primary can be counted.
LEMMA CountedBars ==
    ASSUME ReplayInv, StoresInv, NEW p \in ParamSets, stage[p] = "replay"
    PROVE  Len(Bars(p, Primary)) \in Nat
<1>1. Primary \in DOMAIN own[p]
  BY AllThere, SeriesFacts DEF ReplayInv
<1>2. own[p][Primary] \in DOMAIN heap
  BY <1>1 DEF StoresInv, Owned
<1>3. Bars(p, Primary) \in Seq(Int)
  BY <1>2 DEF ReplayInv, Timed, Timelines, Bars
<1>4. QED
  BY <1>3

LEMMA InBarsStep ==
    ASSUME LoadsInv, StoresInv, ReplayInv, InBars, [PrepNext]_prepVars, ReplayInv', StoresInv'
    PROVE  InBars'
<1> DEFINE early == {"queued", "primary", "securities", "factors"}
<1>c. ASSUME NEW q \in ParamSets, stage'[q] = "replay" PROVE Len(Bars(q, Primary)') \in Nat
  <2>1. Primary \in DOMAIN own'[q]
    BY <1>c, SeriesFacts DEF ReplayInv, Reached, Fetched
  <2>2. own'[q][Primary] \in DOMAIN heap'
    BY <2>1 DEF StoresInv, Owned
  <2>3. heap'[own'[q][Primary]].bars \in Seq(Int)
    BY <2>2 DEF ReplayInv, Timed, Timelines
  <2>4. QED
    BY <2>3 DEF Bars
\* The index stays, and no run goes back.
<1>k. ASSUME UNCHANGED barIndex,
             \A q \in ParamSets : stage'[q] = "replay" => stage[q] = "replay" \/ stage[q] \in early,
             \A q \in ParamSets : stage'[q] \in early => stage[q] \in early
      PROVE  InBars'
  <2>1. ASSUME NEW q \in ParamSets, stage'[q] = "replay" PROVE barIndex[q] <= Len(Bars(q, Primary)')
    <3>1. CASE stage[q] = "replay"
      <4>1. Bars(q, Primary)' = Bars(q, Primary)
        BY <3>1, ReplayedStays
      <4>2. QED
        BY <3>1, <4>1 DEF InBars
    <3>2. CASE stage[q] \in early
      <4>1. barIndex[q] = 0
        BY <3>2 DEF InBars
      <4>2. QED
        BY <2>1, <4>1, <1>c
    <3>3. QED
      BY <2>1, <3>1, <3>2, <1>k
  <2>2. \A q \in ParamSets : stage'[q] \in early => barIndex[q] = 0
    BY <1>k DEF InBars
  <2>3. QED
    BY <1>k, <2>1, <2>2 DEF InBars
<1>t. stage \in [ParamSets -> Stages]
  BY DEF LoadsInv, LoadsTyped
<1>e. ASSUME NEW p \in ParamSets, NEW next, stage' = [stage EXCEPT ![p] = next]
      PROVE  stage'[p] = next /\ \A q \in ParamSets \ {p} : stage'[q] = stage[q]
  BY <1>e, <1>t
<1>b. ASSUME NEW p \in ParamSets, NEW group \in SUBSET Series, NEW first \in {"cache", "slot"},
             NEW next \in Stages, Start(p, group, first, next)
      PROVE  stage'[p] \in {next, "failed"} /\ \A q \in ParamSets \ {p} : stage'[q] = stage[q]
  <2>1. Started(p, group, first, next)
    BY <1>b, StartFacts DEF LoadsInv
  <2>2. QED
    BY <2>1 DEF Started
<1>1. ASSUME NEW p \in ParamSets, RunStep(p) PROVE InBars'
  <2>1. CASE StartRun(p) \/ PrimaryLoaded(p) \/ SecuritiesLoaded(p)
    <3>1. PICK group \in SUBSET Series, first \in {"cache", "slot"}, next \in {"primary", "securities", "factors"} :
              Start(p, group, first, next) /\ next \in Stages
      BY <2>1, SeriesFacts DEF StartRun, PrimaryLoaded, SecuritiesLoaded, Stages
    <3>2. stage'[p] \in {next, "failed"} /\ \A q \in ParamSets \ {p} : stage'[q] = stage[q]
      BY <3>1, <1>b
    <3>3. stage[p] \in early /\ UNCHANGED barIndex
      BY <2>1 DEF StartRun, HasTurn, PrimaryLoaded, HasPrimary, SecuritiesLoaded, HasSecurities, replayVars
    <3>4. QED
      BY <3>2, <3>3, <1>k
  <2>2. CASE Prepared(p)
    <3>1. stage' = [stage EXCEPT ![p] = "replay"] /\ stage[p] = "factors" /\ UNCHANGED barIndex
      BY <2>2 DEF Prepared, AllLoaded, replayVars
    <3>2. QED
      BY <3>1, <1>e, <1>k
  <2>3. CASE LoadFailed(p) \/ NoData(p) \/ PreloadFails(p) \/ ReplayEnds(p)
    <3>1. PICK next \in {"failed", "done"} : stage' = [stage EXCEPT ![p] = next]
      BY <2>3 DEF LoadFailed, NoData, PreloadFails, ReplayEnds, Fails
    <3>2. UNCHANGED barIndex
      BY <2>3 DEF LoadFailed, NoData, PreloadFails, ReplayEnds, Fails, replayVars
    <3>3. QED
      BY <3>1, <3>2, <1>e, <1>k
  <2>4. CASE \E wanted \in {{}} \cup {{s} : s \in Traded} : ReplayBar(p, wanted)
    <3>1. /\ stage[p] = "replay" /\ barIndex[p] < Len(Bars(p, Primary)) /\ UNCHANGED <<stage, heap, own>>
          /\ barIndex' = [barIndex EXCEPT ![p] = barIndex[p] + 1]
      BY <2>4 DEF ReplayBar, loadVars
    <3>2. barIndex' \in [ParamSets -> Nat] /\ barIndex'[p] = barIndex[p] + 1
          /\ \A q \in ParamSets \ {p} : barIndex'[q] = barIndex[q]
      BY <3>1 DEF InBars
    <3>3. \A q \in ParamSets : Bars(q, Primary)' = Bars(q, Primary)
      BY <3>1 DEF Bars
    <3>4. Len(Bars(p, Primary)) \in Nat /\ barIndex[p] \in Nat
      BY <3>1, CountedBars DEF InBars
    <3>5. barIndex'[p] <= Len(Bars(p, Primary))
      BY <3>1, <3>2, <3>4
    <3>6. ASSUME NEW q \in ParamSets, stage[q] = "replay" PROVE barIndex'[q] <= Len(Bars(q, Primary))
      BY <3>2, <3>5, <3>6 DEF InBars
    <3>7. ASSUME NEW q \in ParamSets, stage[q] \in early PROVE barIndex'[q] = 0
      BY <3>1, <3>2, <3>7 DEF InBars
    <3>8. QED
      BY <3>1, <3>2, <3>3, <3>6, <3>7 DEF InBars
  <2>5. QED
    BY <1>1, <2>1, <2>2, <2>3, <2>4 DEF RunStep
<1>2. ASSUME NEW p \in ParamSets, NEW s \in Series, LoadStep(p, s) PROVE InBars'
  <2>1. UNCHANGED <<stage, barIndex>>
    BY <1>2, AnswersOnly DEF LoadsInv
  <2>2. QED
    BY <2>1, <1>k
<1>3. CASE BatchStops
  BY <1>3, <1>k DEF BatchStops, replayVars
<1>4. CASE UNCHANGED prepVars
  BY <1>4, <1>k DEF prepVars, replayVars
<1>5. QED
  BY <1>1, <1>2, <1>3, <1>4 DEF PrepNext

LEMMA WaitStep ==
    ASSUME PrepInv, ReplayInv, WaitInv, [PrepNext]_prepVars, PrepInv', ReplayInv'
    PROVE  WaitInv'
<1>1. nWorkers' \in Workers
  <2>1. ASSUME UNCHANGED batchConfig PROVE nWorkers' \in Workers
    BY <2>1 DEF WaitInv, batchConfig
  <2>2. ASSUME NEW p \in ParamSets, RunStep(p) PROVE UNCHANGED batchConfig
    BY <2>2 DEF RunStep, StartRun, LoadFailed, NoData, PrimaryLoaded, SecuritiesLoaded, Prepared, PreloadFails,
                ReplayBar, ReplayEnds, Fails, environment
  <2>3. ASSUME NEW p \in ParamSets, NEW s \in Series, LoadStep(p, s) PROVE UNCHANGED batchConfig
    BY <2>3 DEF LoadStep, TakeSlot, GiveUp, LookUp, FeedFails, FeedAnswers, environment
  <2>4. CASE BatchStops
    BY <2>1, <2>4 DEF BatchStops
  <2>5. CASE UNCHANGED prepVars
    BY <2>1, <2>5 DEF prepVars, environment
  <2>6. QED
    BY <2>1, <2>2, <2>3, <2>4, <2>5 DEF PrepNext
<1>2. QED
  BY <1>1, BegunStep, InBarsStep DEF WaitInv, PrepInv

\* Of the loads of a group that wait for a slot one gets one, or those that
\* hold the slots go on.
LEMMA LoadsGoOn ==
    ASSUME NEW p \in ParamSets, NEW s \in Series, loads[p][s] \in {"slot", "cache", "feed"}
    PROVE  \E t \in Series : LoadGoesOn(p, t)
<1>1. CASE loads[p][s] \in {"cache", "feed"}
  BY <1>1 DEF LoadGoesOn
<1>2. CASE loads[p][s] = "slot"
  <2>1. CASE Loading(p, s) = {}
    <3>1. Cardinality(Loading(p, s)) = 0
      BY <2>1, FS_EmptySet
    <3>2. HasSlot(p, s)
      BY <1>2, <3>1, PreparationConstants DEF HasSlot
    <3>3. QED
      BY <3>2 DEF LoadGoesOn
  <2>2. CASE Loading(p, s) # {}
    <3>1. PICK t \in Group(s) : loads[p][t] \in {"cache", "feed"}
      BY <2>2 DEF Loading
    <3>2. t \in Series
      BY SeriesFacts DEF Group
    <3>3. QED
      BY <3>1, <3>2 DEF LoadGoesOn
  <2>3. QED
    BY <2>1, <2>2
<1>3. QED
  BY <1>1, <1>2

LEMMA NobodyWaits == ASSUME LoadsInv, WaitInv PROVE NobodyWaitsForEver
<1>1. ASSUME NEW p \in Running PROVE RunGoesOn(p) \/ \E s \in Series : LoadGoesOn(p, s)
  <2>1. p \in ParamSets /\ stage[p] \in {"primary", "securities", "factors", "replay"}
    BY <1>1 DEF Running
  <2>2. \A s \in Series : loads[p][s] \in LoadStates
    BY <2>1 DEF LoadsInv, LoadsTyped
  <2>3. SUFFICES ASSUME \A s \in Series : loads[p][s] \in {"none", "done", "error"} PROVE RunGoesOn(p)
    BY <2>1, <2>2, LoadsGoOn DEF LoadStates
  <2>4. CASE stage[p] = "primary"
    <3>1. loads[p][Primary] \in {"done", "error"}
      BY <2>1, <2>3, <2>4, SeriesFacts DEF WaitInv, Begun
    <3>2. QED
      BY <2>4, <3>1 DEF RunGoesOn, HasPrimary, HasError
  <2>5. CASE stage[p] = "securities"
    <3>1. \A s \in Others : loads[p][s] \in {"done", "error"}
      BY <2>1, <2>3, <2>5, SeriesFacts DEF WaitInv, Begun
    <3>2. QED
      BY <2>5, <3>1 DEF RunGoesOn, HasSecurities, HasError
  <2>6. CASE stage[p] = "factors"
    <3>1. \A s \in Factors : loads[p][s] \in {"done", "error"}
      BY <2>1, <2>3, <2>6, SeriesFacts DEF WaitInv, Begun
    <3>2. QED
      BY <2>6, <3>1 DEF RunGoesOn, AllLoaded, HasError
  <2>7. CASE stage[p] = "replay"
    BY <2>1, <2>7 DEF RunGoesOn, WaitInv, InBars
  <2>8. QED
    BY <2>1, <2>4, <2>5, <2>6, <2>7
<1>2. ASSUME NEW p \in ParamSets, stage[p] = "queued" PROVE HasTurn(p) \/ Running # {}
  <2>1. nWorkers \in Nat /\ 0 < nWorkers
    BY PreparationConstants DEF WaitInv
  <2>2. QED
    BY <1>2, <2>1, FS_EmptySet DEF HasTurn
<1>3. QED
  BY <1>1, <1>2, LoadsGoOn DEF NobodyWaitsForEver

LEMMA PreparationInvariant == PrepSpec => [](PrepInv /\ ReplayInv /\ WaitInv)
<1>1. PrepInit => ReplayInv /\ WaitInv
  <2> SUFFICES ASSUME PrepInit PROVE ReplayInv /\ WaitInv
    OBVIOUS
  <2>1. /\ DOMAIN heap = {} /\ DOMAIN maps = ParamSets /\ warmup \in Warmups /\ nWorkers \in Workers
        /\ barIndex = [p \in ParamSets |-> 0]
        /\ \A p \in ParamSets : stage[p] = "queued" /\ \A s \in Series : loads[p][s] = "none"
    BY DEF PrepInit
  <2>2. ReplayInv
    BY <2>1 DEF ReplayInv, Framed, Timed, Fetched, Reached, SeesLatestConfirmed
  <2>3. WaitInv
    BY <2>1 DEF WaitInv, Begun, InBars
  <2>4. QED
    BY <2>2, <2>3
<1>2. PrepInv /\ ReplayInv /\ WaitInv /\ [PrepNext]_prepVars /\ PrepInv' => (ReplayInv /\ WaitInv)'
  <2> SUFFICES ASSUME PrepInv, ReplayInv, WaitInv, [PrepNext]_prepVars, PrepInv' PROVE ReplayInv' /\ WaitInv'
    OBVIOUS
  <2>1. ReplayInv'
    BY ReplayStep DEF PrepInv
  <2>2. QED
    BY <2>1, WaitStep
<1>3. QED
  BY PrepAlways, <1>1, <1>2, PTL DEF PrepSpec

\* No run waits for ever, for any batch, any number of workers and slots and
\* however often calls fail: a run at work, or a goroutine that loads for it,
\* can go on without another run, and of the runs in the queue one has its turn
\* unless some run is at work.
THEOREM NobodyIsStuck == PrepSpec => []NobodyWaitsForEver
<1>1. PrepInv /\ WaitInv => NobodyWaitsForEver
  BY NobodyWaits DEF PrepInv
<1>2. QED
  BY PreparationInvariant, <1>1, PTL

\* How far a run and a load have come.
StageRank == [queued |-> 0, primary |-> 1, securities |-> 2, factors |-> 3, replay |-> 4, done |-> 5, failed |-> 5]
LoadRank == [none |-> 0, slot |-> 1, cache |-> 2, feed |-> 3, done |-> 4, error |-> 4]

RunForward(p) ==
    \/ StageRank[stage[p]] < StageRank[stage'[p]]
    \/ stage'[p] = "replay" /\ stage[p] = "replay" /\ barIndex'[p] = barIndex[p] + 1

LoadForward(p, s) == LoadRank[loads[p][s]] < LoadRank[loads'[p][s]]

\* Nobody takes a run or a load back.
NoneBack ==
    \A p \in ParamSets :
        /\ stage'[p] = stage[p] \/ StageRank[stage[p]] < StageRank[stage'[p]]
        /\ \A s \in Series : loads'[p][s] = loads[p][s] \/ LoadForward(p, s)
        /\ stage[p] = "replay" /\ stage'[p] = "replay" =>
              /\ barIndex'[p] \in {barIndex[p], barIndex[p] + 1}
              /\ barIndex'[p] <= Len(Bars(p, Primary)) /\ Bars(p, Primary)' = Bars(p, Primary)

BatchForward ==
    /\ NoneBack
    /\ \A p \in ParamSets : RunStep(p) => RunForward(p)
    /\ \A p \in ParamSets, s \in Series : LoadStep(p, s) => LoadForward(p, s)

LEMMA RankFacts ==
    /\ \A st \in {"queued", "primary", "securities", "factors"} : StageRank[st] < StageRank["replay"]
    /\ \A st \in Stages \ {"done", "failed"} : StageRank[st] < StageRank["failed"] /\ StageRank[st] < StageRank["done"]
    /\ StageRank["queued"] < StageRank["primary"] /\ StageRank["primary"] < StageRank["securities"]
    /\ StageRank["securities"] < StageRank["factors"]
    /\ \A answer \in LoadStates \ {"none"} : LoadRank["none"] < LoadRank[answer]
    /\ \A answer \in {"cache", "feed", "done", "error"} : LoadRank["slot"] < LoadRank[answer]
    /\ \A answer \in {"feed", "done", "error"} : LoadRank["cache"] < LoadRank[answer]
    /\ \A answer \in {"done", "error"} : LoadRank["feed"] < LoadRank[answer]
  BY DEF StageRank, LoadRank, Stages, LoadStates

LEMMA StartForward ==
    ASSUME LoadsInv, NEW p \in ParamSets, NEW group \in SUBSET Series, NEW first \in {"cache", "slot"},
           NEW next \in Stages, Start(p, group, first, next), \A s \in group : loads[p][s] = "none"
    PROVE  /\ \A q \in ParamSets, s \in Series : loads'[q][s] = loads[q][s] \/ LoadForward(q, s)
           /\ stage'[p] \in {next, "failed"} /\ \A q \in ParamSets \ {p} : stage'[q] = stage[q]
<1>1. Started(p, group, first, next)
  BY StartFacts DEF LoadsInv
<1>2. /\ stage'[p] \in {next, "failed"}
      /\ \A s \in Series \ group : loads'[p][s] = loads[p][s]
      /\ \A s \in group : loads'[p][s] \in {first, loads[p][s]}
      /\ \A q \in ParamSets \ {p} : stage'[q] = stage[q] /\ loads'[q] = loads[q]
  BY <1>1 DEF Started
<1>3. first \in LoadStates \ {"none"}
  BY DEF LoadStates
<1>4. ASSUME NEW s \in group, loads'[p][s] = first PROVE LoadForward(p, s)
  BY <1>3, <1>4, RankFacts DEF LoadForward
<1>5. ASSUME NEW q \in ParamSets, NEW s \in Series PROVE loads'[q][s] = loads[q][s] \/ LoadForward(q, s)
  BY <1>2, <1>4
<1>6. QED
  BY <1>2, <1>5

LEMMA LoadIsForward ==
    ASSUME LoadsInv, NEW p \in ParamSets, NEW s \in Series, LoadStep(p, s)
    PROVE  LoadForward(p, s)
<1>a. ASSUME NEW answer \in LoadStates, Answer(p, s, answer) PROVE loads'[p][s] = answer
  BY <1>a, AnswerFacts DEF LoadsInv
<1>1. CASE TakeSlot(p, s)
  <2>1. loads[p][s] = "slot" /\ loads'[p][s] \in {"feed", "cache"}
    BY <1>1, <1>a DEF TakeSlot, HasSlot, LoadStates
  <2>2. QED
    BY <2>1, RankFacts DEF LoadForward
<1>2. CASE GiveUp(p, s)
  <2>1. loads[p][s] = "slot" /\ loads'[p][s] = "error"
    BY <1>2, <1>a DEF GiveUp, LoadStates
  <2>2. QED
    BY <2>1, RankFacts DEF LoadForward
<1>3. CASE LookUp(p, s)
  <2>1. loads[p][s] = "cache" /\ loads'[p][s] \in {"done", "feed"}
    BY <1>3, <1>a DEF LookUp, LoadStates
  <2>2. QED
    BY <2>1, RankFacts DEF LoadForward
<1>4. CASE FeedFails(p, s) \/ \E bars \in Histories[s] : FeedAnswers(p, s, bars)
  <2>1. loads[p][s] = "feed" /\ loads'[p][s] \in {"done", "error"}
    BY <1>4, <1>a DEF FeedFails, FeedAnswers, LoadStates
  <2>2. QED
    BY <2>1, RankFacts DEF LoadForward
<1>5. QED
  BY <1>1, <1>2, <1>3, <1>4 DEF LoadStep

LEMMA ForwardStep ==
    ASSUME PrepInv, ReplayInv, WaitInv, [PrepNext]_prepVars, PrepInv', ReplayInv', WaitInv'
    PROVE  BatchForward
<1> USE DEF PrepInv
<1>t. stage \in [ParamSets -> Stages] /\ barIndex \in [ParamSets -> Nat]
  BY DEF LoadsInv, LoadsTyped, WaitInv, InBars
<1>e. ASSUME NEW p \in ParamSets, NEW next, stage' = [stage EXCEPT ![p] = next]
      PROVE  stage'[p] = next /\ \A q \in ParamSets \ {p} : stage'[q] = stage[q]
  BY <1>e, <1>t
\* What each step of a run does to its stage, and to loads and indices.
<1>1. ASSUME NEW p \in ParamSets, RunStep(p)
      PROVE  /\ RunForward(p) /\ (stage'[p] = stage[p] \/ StageRank[stage[p]] < StageRank[stage'[p]])
             /\ \A q \in ParamSets \ {p} : stage'[q] = stage[q]
             /\ \A q \in ParamSets, s \in Series : loads'[q][s] = loads[q][s] \/ LoadForward(q, s)
             /\ \A q \in ParamSets : barIndex'[q] \in {barIndex[q], barIndex[q] + 1}
  <2>1. CASE StartRun(p)
    <3>1. {Primary} \in SUBSET Series /\ "primary" \in Stages /\ Start(p, {Primary}, "cache", "primary")
      BY <2>1, SeriesFacts DEF Stages, StartRun
    <3>2. stage[p] = "queued" /\ UNCHANGED barIndex /\ \A s \in {Primary} : loads[p][s] = "none"
      BY <2>1, SeriesFacts DEF StartRun, HasTurn, replayVars, LoadsInv, InOrder
    <3>3. /\ \A q \in ParamSets, s \in Series : loads'[q][s] = loads[q][s] \/ LoadForward(q, s)
          /\ stage'[p] \in {"primary", "failed"} /\ \A q \in ParamSets \ {p} : stage'[q] = stage[q]
      BY <3>1, <3>2, StartForward
    <3>4. "queued" \in Stages \ {"done", "failed"}
      BY DEF Stages
    <3>5. QED
      BY <3>2, <3>3, <3>4, RankFacts DEF RunForward
  <2>2. CASE PrimaryLoaded(p)
    <3>1. Others \in SUBSET Series /\ "securities" \in Stages /\ Start(p, Others, "slot", "securities")
      BY <2>2, SeriesFacts DEF Stages, PrimaryLoaded
    <3>2. stage[p] = "primary" /\ UNCHANGED barIndex /\ \A s \in Others : loads[p][s] = "none"
      BY <2>2, SeriesFacts DEF PrimaryLoaded, HasPrimary, replayVars, LoadsInv, InOrder
    <3>3. /\ \A q \in ParamSets, s \in Series : loads'[q][s] = loads[q][s] \/ LoadForward(q, s)
          /\ stage'[p] \in {"securities", "failed"} /\ \A q \in ParamSets \ {p} : stage'[q] = stage[q]
      BY <3>1, <3>2, StartForward
    <3>4. "primary" \in Stages \ {"done", "failed"}
      BY DEF Stages
    <3>5. QED
      BY <3>2, <3>3, <3>4, RankFacts DEF RunForward
  <2>3. CASE SecuritiesLoaded(p)
    <3>1. Factors \in SUBSET Series /\ "factors" \in Stages /\ Start(p, Factors, "slot", "factors")
      BY <2>3, SeriesFacts DEF Stages, SecuritiesLoaded
    <3>2. stage[p] = "securities" /\ UNCHANGED barIndex /\ \A s \in Factors : loads[p][s] = "none"
      BY <2>3, SeriesFacts DEF SecuritiesLoaded, HasSecurities, replayVars, LoadsInv, InOrder
    <3>3. /\ \A q \in ParamSets, s \in Series : loads'[q][s] = loads[q][s] \/ LoadForward(q, s)
          /\ stage'[p] \in {"factors", "failed"} /\ \A q \in ParamSets \ {p} : stage'[q] = stage[q]
      BY <3>1, <3>2, StartForward
    <3>4. "securities" \in Stages \ {"done", "failed"}
      BY DEF Stages
    <3>5. QED
      BY <3>2, <3>3, <3>4, RankFacts DEF RunForward
  <2>4. CASE Prepared(p)
    <3>1. stage[p] = "factors" /\ stage' = [stage EXCEPT ![p] = "replay"] /\ UNCHANGED <<loads, barIndex>>
      BY <2>4 DEF Prepared, AllLoaded, replayVars
    <3>2. QED
      BY <3>1, <1>e, RankFacts DEF RunForward
  <2>5. CASE LoadFailed(p) \/ NoData(p) \/ PreloadFails(p) \/ ReplayEnds(p)
    <3>1. PICK next \in {"failed", "done"} : stage' = [stage EXCEPT ![p] = next]
      BY <2>5 DEF LoadFailed, NoData, PreloadFails, ReplayEnds, Fails
    <3>2. stage[p] \in Stages \ {"done", "failed"} /\ UNCHANGED <<loads, barIndex>>
      BY <2>5 DEF LoadFailed, HasError, NoData, HasPrimary, PreloadFails, AllLoaded, ReplayEnds, Fails, Stages,
                  loadVars, replayVars
    <3>3. QED
      BY <3>1, <3>2, <1>e, RankFacts DEF RunForward
  <2>6. CASE \E wanted \in {{}} \cup {{s} : s \in Traded} : ReplayBar(p, wanted)
    <3>1. /\ stage[p] = "replay" /\ UNCHANGED <<stage, loads>>
          /\ barIndex' = [barIndex EXCEPT ![p] = barIndex[p] + 1]
      BY <2>6 DEF ReplayBar, loadVars
    <3>2. \A q \in ParamSets : barIndex'[q] = IF q = p THEN barIndex[p] + 1 ELSE barIndex[q]
      BY <3>1, <1>t
    <3>3. QED
      BY <3>1, <3>2 DEF RunForward
  <2>7. QED
    BY <1>1, <2>1, <2>2, <2>3, <2>4, <2>5, <2>6 DEF RunStep
<1>2. ASSUME NEW p \in ParamSets, NEW s \in Series, LoadStep(p, s)
      PROVE  /\ LoadForward(p, s) /\ UNCHANGED <<stage, barIndex>>
             /\ \A q \in ParamSets, t \in Series : loads'[q][t] = loads[q][t] \/ LoadForward(q, t)
  BY <1>2, LoadIsForward, AnswersOnly DEF LoadsInv
<1>3. /\ \A q \in ParamSets : stage'[q] = stage[q] \/ StageRank[stage[q]] < StageRank[stage'[q]]
      /\ \A q \in ParamSets, t \in Series : loads'[q][t] = loads[q][t] \/ LoadForward(q, t)
      /\ \A q \in ParamSets : barIndex'[q] \in {barIndex[q], barIndex[q] + 1}
  <2>1. ASSUME UNCHANGED <<stage, loads, barIndex>>
        PROVE  /\ \A q \in ParamSets : stage'[q] = stage[q]
               /\ \A q \in ParamSets, t \in Series : loads'[q][t] = loads[q][t]
               /\ \A q \in ParamSets : barIndex'[q] = barIndex[q]
    BY <2>1
  <2>2. CASE BatchStops
    BY <2>1, <2>2 DEF BatchStops, loadVars, replayVars
  <2>3. CASE UNCHANGED prepVars
    BY <2>1, <2>3 DEF prepVars, loadVars, replayVars
  <2>4. ASSUME NEW p \in ParamSets, RunStep(p)
        PROVE  \A q \in ParamSets : stage'[q] = stage[q] \/ StageRank[stage[q]] < StageRank[stage'[q]]
    BY <1>1, <2>4
  <2>5. QED
    BY <1>1, <1>2, <2>2, <2>3, <2>4 DEF PrepNext
<1>4. ASSUME NEW q \in ParamSets, stage[q] = "replay", stage'[q] = "replay"
      PROVE  barIndex'[q] <= Len(Bars(q, Primary)) /\ Bars(q, Primary)' = Bars(q, Primary)
  <2>1. Bars(q, Primary)' = Bars(q, Primary)
    BY <1>4, ReplayedStays
  <2>2. barIndex'[q] <= Len(Bars(q, Primary)')
    BY <1>4 DEF WaitInv, InBars
  <2>3. QED
    BY <2>1, <2>2
<1>5. NoneBack
  BY <1>3, <1>4 DEF NoneBack
<1>6. QED
  BY <1>1, <1>2, <1>5 DEF BatchForward

\* Each step of a run or of a load brings it forward, to a later stage or a
\* later bar, of which there are finitely many, and no step of anybody takes a
\* run or a load back.
THEOREM OnlyForward == PrepSpec => [][BatchForward]_prepVars
<1>1. PrepInv /\ ReplayInv /\ WaitInv
      /\ PrepInv' /\ ReplayInv' /\ WaitInv' /\ [PrepNext]_prepVars => BatchForward
  BY ForwardStep
<1>2. QED
  BY PreparationInvariant, <1>1, PTL DEF PrepSpec

-----------------------------------------------------------------------------
(***************************************************************************)
(* The books of the broker: types and shapes, and with them what the net   *)
(* position, the logical entries and the equity have to do with another.   *)
(***************************************************************************)

Positions == {p \in [qty : Int, cost : Nat, realized : Int] : p.qty = 0 => p.cost = 0}

\* A TWAP order has a slice left, a reduce-only order an entry.
HasSlice(asked) == asked.kind = "twap" => asked.bars >= 1

ShapedOrders == {asked \in Orders : HasSlice(asked) /\ (asked.reduceOnly => asked.entry \in Entries)}

(***************************************************************************)
(* Numbers                                                                 *)
(***************************************************************************)

LEMMA ConstantFacts ==
    /\ Prices \subseteq Nat \ {0} /\ NoPrice \notin Prices
    /\ Requests \subseteq [entry : Entries \cup {NoEntry}, side : Sides, kind : Kinds, qty : Nat,
                           reduceOnly : BOOLEAN]
    /\ Notional \in Nat \ {0} /\ Slices \in Nat \ {0} /\ Commission \in Nat
    /\ MaxPending \in Nat /\ MaxTrades \in Nat /\ NoEntry \notin Entries
  BY BrokerConstants

LEMMA SignFacts ==
    ASSUME NEW n \in Int
    PROVE  /\ Abs(n) \in Nat /\ Sign(n) \in Sides /\ -Sign(n) \in Sides
           /\ (Abs(n) = 0 <=> n = 0)
<1>1. Abs(n) \in Nat /\ (Abs(n) = 0 <=> n = 0)
  BY DEF Abs
<1>2. Sign(n) = -1 \/ Sign(n) = 1
  BY DEF Sign
<1>3. Sign(n) \in Sides /\ -Sign(n) \in Sides
  BY <1>2 DEF Sides
<1>4. QED
  BY <1>1, <1>3

LEMMA Division ==
    ASSUME NEW m \in Nat, NEW d \in Nat \ {0}
    PROVE  m \div d \in Nat /\ m \div d <= m
<1>1. m \div d \in Int /\ d * (m \div d) <= m /\ m < d * (m \div d) + d
  BY Z3
<1>2. m \div d >= 0
  BY <1>1
<1>3. m \div d <= d * (m \div d)
  BY <1>1, <1>2
<1>4. QED
  BY <1>1, <1>2, <1>3

LEMMA Products ==
    /\ \A m, n \in Nat : m * n \in Nat
    /\ \A m, n \in Int : m * n \in Int
  OBVIOUS

(***************************************************************************)
(* Positions                                                               *)
(***************************************************************************)

LEMMA UpdatedType ==
    ASSUME NEW p \in Positions, NEW lots \in Int, NEW price \in Nat
    PROVE  Updated(p, lots, price) \in Positions
<1> USE DEF Positions
<1>p. p.qty \in Int /\ p.cost \in Nat /\ p.realized \in Int /\ (p.qty = 0 => p.cost = 0)
  OBVIOUS
<1>a. Abs(lots) \in Nat /\ Abs(p.qty) \in Nat /\ Sign(lots) \in {1, -1} /\ Sign(p.qty) \in {1, -1}
  BY <1>p, SignFacts DEF Sides
<1>1. CASE p.qty = 0 \/ SameSign(p.qty, lots)
  <2>1. Updated(p, lots, price) = [p EXCEPT !.qty = @ + lots, !.cost = @ + price * Abs(lots)]
    BY <1>1 DEF Updated
  <2>2. p.cost + price * Abs(lots) \in Nat /\ p.qty + lots \in Int
    BY <1>p, <1>a, Products
  <2>3. p.qty + lots = 0 => p.cost = 0 /\ Abs(lots) = 0
    BY <1>1, <1>p DEF SameSign, Abs
  <2>4. p.qty + lots = 0 => p.cost + price * Abs(lots) = 0
    BY <2>3
  <2>5. QED
    BY <2>1, <2>2, <2>4
<1>2. CASE ~(p.qty = 0 \/ SameSign(p.qty, lots))
  <2> DEFINE closed == IF Abs(lots) > Abs(p.qty) THEN Abs(p.qty) ELSE Abs(lots)
             average == p.cost \div Abs(p.qty)
             left == Abs(p.qty) - closed
             excess == Abs(lots) - closed
  <2>1. Updated(p, lots, price) = [qty |-> Sign(p.qty) * left + Sign(lots) * excess,
              cost |-> average * left + price * excess,
              realized |-> p.realized + Sign(p.qty) * closed * (price - average)]
    BY <1>2 DEF Updated
  <2>2. Abs(p.qty) \in Nat \ {0}
    BY <1>2, <1>p DEF Abs
  <2>3. average \in Nat
    BY <1>p, <2>2, Division
  <2>4. closed \in Nat /\ left \in Nat /\ excess \in Nat /\ (left = 0 \/ excess = 0)
    BY <1>a
  <2> HIDE DEF closed, average, left, excess
  <2>5. Sign(p.qty) * left + Sign(lots) * excess \in Int
    BY <1>a, <2>4
  <2>6. average * left + price * excess \in Nat
    BY <2>3, <2>4, Products
  <2>7. p.realized + Sign(p.qty) * closed * (price - average) \in Int
    BY <1>p, <1>a, <2>3, <2>4
  <2>8. Sign(p.qty) * left + Sign(lots) * excess = 0 => left = 0 /\ excess = 0
    BY <1>a, <2>4
  <2>9. left = 0 /\ excess = 0 => average * left + price * excess = 0
    BY <2>3
  <2>10. QED
    BY <2>1, <2>5, <2>6, <2>7, <2>8, <2>9
<1>3. QED
  BY <1>1, <1>2

LEMMA UpdatedEntryType ==
    ASSUME NEW qty \in Int, NEW lots \in Int, NEW price \in Nat
    PROVE  UpdatedEntry(qty, lots, price) \in Int
<1>1. [qty |-> qty, cost |-> Abs(qty), realized |-> 0] \in Positions
  BY SignFacts DEF Positions
<1>2. QED
  BY <1>1, UpdatedType DEF UpdatedEntry, Positions

\* A fill moves the quantity of a position by what is filled, also where it
\* crosses zero.
LEMMA UpdatedQty ==
    ASSUME NEW p, p.qty \in Int, p = [qty |-> p.qty, cost |-> p.cost, realized |-> p.realized],
           NEW lots \in Int, NEW price
    PROVE  Updated(p, lots, price).qty = p.qty + lots
<1>1. CASE p.qty = 0 \/ SameSign(p.qty, lots)
  <2>1. Updated(p, lots, price) = [p EXCEPT !.qty = @ + lots, !.cost = @ + price * Abs(lots)]
    BY <1>1 DEF Updated
  <2>2. QED
    BY <2>1
<1>2. CASE ~(p.qty = 0 \/ SameSign(p.qty, lots))
  <2> DEFINE closed == IF Abs(lots) > Abs(p.qty) THEN Abs(p.qty) ELSE Abs(lots)
             average == p.cost \div Abs(p.qty)
             left == Abs(p.qty) - closed
             excess == Abs(lots) - closed
  <2>1. Updated(p, lots, price) = [qty |-> Sign(p.qty) * left + Sign(lots) * excess,
              cost |-> average * left + price * excess,
              realized |-> p.realized + Sign(p.qty) * closed * (price - average)]
    BY <1>2 DEF Updated
  <2>2. Updated(p, lots, price).qty = Sign(p.qty) * left + Sign(lots) * excess
    BY <2>1
  <2>3. Sign(p.qty) * left + Sign(lots) * excess = p.qty + lots
    <3>1. CASE p.qty > 0 /\ lots <= 0
      BY <3>1 DEF Abs, Sign
    <3>2. CASE p.qty < 0 /\ lots >= 0
      BY <3>2 DEF Abs, Sign
    <3>3. QED
      BY <1>2, <3>1, <3>2 DEF SameSign
  <2>4. QED
    BY <2>2, <2>3
<1>3. QED
  BY <1>1, <1>2

LEMMA UpdatedEntryQty ==
    ASSUME NEW qty \in Int, NEW lots \in Int, NEW price
    PROVE  UpdatedEntry(qty, lots, price) = qty + lots
  BY UpdatedQty DEF UpdatedEntry

(***************************************************************************)
(* Orders and the queue                                                    *)
(***************************************************************************)

LEMMA ShapedAreOrders == Seq(ShapedOrders) \subseteq Seq(Orders)
<1> SUFFICES ASSUME NEW queue \in Seq(ShapedOrders) PROVE queue \in Seq(Orders)
  OBVIOUS
<1>1. \A i \in 1..Len(queue) : queue[i] \in Orders
  BY ElementOfSeq DEF ShapedOrders
<1>2. QED
  BY <1>1, IsASeq, LenProperties

LEMMA OrderType ==
    ASSUME NEW request \in Requests
    PROVE  Order(request) \in Orders /\ HasSlice(Order(request))
<1>1. request \in [entry : Entries \cup {NoEntry}, side : Sides, kind : Kinds, qty : Nat, reduceOnly : BOOLEAN]
  BY ConstantFacts
<1>2. QED
  BY <1>1, ConstantFacts DEF Order, Orders, HasSlice

LEMMA CloseType ==
    ASSUME NEW entry \in Entries, NEW side \in Sides, NEW qty \in Nat
    PROVE  Close(entry, side, qty) \in Orders /\ HasSlice(Close(entry, side, qty))
  BY DEF Close, MarketOrder, Orders, Kinds, HasSlice

LEMMA UntaggedType ==
    ASSUME NEW side \in Sides, NEW qty \in Nat
    PROVE  MarketOrder(NoEntry, side, qty) \in Orders /\ HasSlice(MarketOrder(NoEntry, side, qty))
  BY DEF MarketOrder, Orders, Kinds, HasSlice

LEMMA SizedType ==
    ASSUME NEW asked \in Orders, NEW price \in Prices
    PROVE  Sized(asked, price) \in Nat
  BY ConstantFacts, Division DEF Sized, Orders

\* A bar fills no more of an order than there is, and all of it but slices.
LEMMA FillQtyType ==
    ASSUME NEW asked \in Orders, HasSlice(asked), NEW price \in Prices
    PROVE  /\ FillQty(asked, price) \in Nat /\ FillQty(asked, price) <= Sized(asked, price)
           /\ asked.kind # "twap" \/ asked.bars = 1 => FillQty(asked, price) = Sized(asked, price)
<1> DEFINE n == IF asked.kind = "twap" THEN asked.bars ELSE 1
<1>1. n \in Nat \ {0} /\ (asked.kind # "twap" \/ asked.bars = 1 => n = 1)
  BY DEF HasSlice, Orders
<1>2. FillQty(asked, price) = Sized(asked, price) \div n
  BY DEF FillQty
<1>3. Sized(asked, price) \in Nat
  BY SizedType
<1> HIDE DEF n
<1>4. n = 1 => Sized(asked, price) \div n = Sized(asked, price)
  BY <1>3
<1>5. QED
  BY <1>1, <1>2, <1>3, <1>4, Division

\* What holds of an order that reduces, if it does, an entry that it may.
LEMMA HeldFacts ==
    ASSUME TypeAccount, NEW asked \in Orders, MayReduce(asked)
    PROVE  /\ AsHeld(asked) \in Orders
           /\ AsHeld(asked).kind = asked.kind /\ AsHeld(asked).bars = asked.bars
           /\ AsHeld(asked).entry = asked.entry /\ AsHeld(asked).reduceOnly = asked.reduceOnly
           /\ asked.reduceOnly =>
                /\ asked.entry \in Entries /\ entries[asked.entry] \in Int
                /\ AsHeld(asked).qty = Abs(entries[asked.entry])
<1>1. CASE ~asked.reduceOnly
  BY <1>1 DEF AsHeld
<1>2. CASE asked.reduceOnly
  <2>1. asked.entry \in Entries
    BY <1>2 DEF MayReduce, Reducible, Orders
  <2>2. entries[asked.entry] \in Int
    BY <2>1 DEF TypeAccount
  <2>3. Abs(entries[asked.entry]) \in Nat
    BY <2>2, SignFacts
  <2>4. AsHeld(asked) = [asked EXCEPT !.qty = Abs(entries[asked.entry])]
    BY <1>2 DEF AsHeld
  <2>5. QED
    BY <2>1, <2>2, <2>3, <2>4 DEF Orders
<1>3. QED
  BY <1>1, <1>2

IsClose(asked, entry) == asked.reduceOnly /\ asked.entry = entry

Single(queue, entry) == \A i, j \in Closing(queue, entry) : i = j

LEMMA Appended ==
    ASSUME NEW queue \in Seq(ShapedOrders), NEW asked \in ShapedOrders, NEW entry
    PROVE  /\ Append(queue, asked) \in Seq(ShapedOrders)
           /\ ~IsClose(asked, entry) => Closing(Append(queue, asked), entry) = Closing(queue, entry)
           /\ Closing(queue, entry) = {} => Single(Append(queue, asked), entry)
<1>1. /\ Append(queue, asked) \in Seq(ShapedOrders)
      /\ Len(Append(queue, asked)) = Len(queue) + 1 /\ Len(queue) \in Nat
      /\ \A i \in 1..Len(queue) : Append(queue, asked)[i] = queue[i]
      /\ Append(queue, asked)[Len(queue) + 1] = asked
  BY AppendProperties, LenProperties
<1>2. QED
  BY <1>1 DEF Closing, Single, IsClose

LEMMA Taken ==
    ASSUME NEW queue \in Seq(ShapedOrders), queue # <<>>, NEW entry
    PROVE  /\ Head(queue) \in ShapedOrders /\ Tail(queue) \in Seq(ShapedOrders)
           /\ Closing(queue, entry) = {} => Closing(Tail(queue), entry) = {}
           /\ Single(queue, entry) => Single(Tail(queue), entry)
           /\ IsClose(Head(queue), entry) =>
                /\ Closing(queue, entry) # {}
                /\ Single(queue, entry) => Closing(Tail(queue), entry) = {}
<1>1. /\ Head(queue) = queue[1] /\ Head(queue) \in ShapedOrders
      /\ Tail(queue) \in Seq(ShapedOrders)
      /\ Len(queue) \in Nat \ {0}
      /\ Len(Tail(queue)) = Len(queue) - 1
      /\ \A i \in 1..Len(Tail(queue)) : Tail(queue)[i] = queue[i + 1]
  BY HeadTailProperties, EmptySeq
<1>2. \A i \in Closing(Tail(queue), entry) : i \in Nat /\ i >= 1 /\ i + 1 \in Closing(queue, entry)
  BY <1>1 DEF Closing
<1>3. IsClose(Head(queue), entry) => 1 \in Closing(queue, entry)
  BY <1>1 DEF Closing, IsClose
<1>4. Single(queue, entry) => Single(Tail(queue), entry)
  BY <1>2 DEF Single, Closing
<1>5. IsClose(Head(queue), entry) /\ Single(queue, entry) => Closing(Tail(queue), entry) = {}
  BY <1>2, <1>3 DEF Single
<1>6. QED
  BY <1>1, <1>2, <1>3, <1>4, <1>5

(***************************************************************************)
(* Types, with the shape of the orders and what the phase says of the      *)
(* queue                                                                   *)
(***************************************************************************)

QueuesShaped == pending \in Seq(ShapedOrders) /\ todo \in Seq(ShapedOrders)

TypeInv ==
    /\ phase \in {"fills", "open", "bar"}
    /\ open \in Prices \cup {NoPrice}
    /\ QueuesShaped /\ TypeAccount
    /\ phase # "fills" => todo = <<>>

LEMMA BookType ==
    ASSUME TypeAccount, NEW asked \in Orders, NEW qty \in Nat, NEW price \in Prices,
           Book(asked, qty, price)
    PROVE  TypeAccount'
<1> DEFINE lots == asked.side * qty
<1>1. lots \in Int /\ price \in Nat /\ asked.entry \in Entries \cup {NoEntry}
  BY ConstantFacts DEF Orders, Sides
<1>2. position' \in Positions
  <2>1. position \in Positions
    BY DEF TypeAccount, Positions
  <2>2. position' = Updated(position, lots, price)
    BY DEF Book
  <2>3. QED
    BY <1>1, <2>1, <2>2, UpdatedType
<1>3. entries' \in [Entries -> Int] /\ untagged' \in Int
  <2>1. CASE asked.entry = NoEntry
    BY <1>1, <2>1 DEF Book, TypeAccount
  <2>2. CASE asked.entry # NoEntry
    <3>1. UpdatedEntry(entries[asked.entry], lots, price) \in Int
      BY <1>1, <2>2, UpdatedEntryType DEF TypeAccount
    <3>2. QED
      BY <1>1, <2>2, <3>1 DEF Book, TypeAccount
  <2>3. QED
    BY <2>1, <2>2
<1>4. cash' \in Int
  BY <1>1, ConstantFacts DEF Book, TypeAccount
<1>5. trades' \in 0..MaxTrades
  BY ConstantFacts DEF Book, TypeAccount
<1>6. QED
  BY <1>2, <1>3, <1>4, <1>5 DEF TypeAccount, Positions

\* The order that is looked at, and what is left to look at.
LEMMA LookingFacts ==
    ASSUME TypeInv, Looking
    PROVE  /\ Current \in ShapedOrders /\ Current \in Orders /\ HasSlice(Current)
           /\ todo' \in Seq(ShapedOrders) /\ phase = "fills"
  BY Taken DEF TypeInv, QueuesShaped, Looking, Current, ShapedOrders

(***************************************************************************)
(* A step fills an order of a price and a quantity, or leaves the account  *)
(***************************************************************************)

BooksFill ==
    \E asked \in Orders, qty \in Nat, price \in Prices : Book(asked, qty, price)

LEMMA BarFills ==
    ASSUME TypeInv, NEW asked \in Orders, HasSlice(asked), NEW price \in Prices,
           ExecuteOrderOnBar(asked, price)
    PROVE  FillQty(AsHeld(asked), price) \in Nat /\ open \in Prices /\ BooksFill
<1>1. MayReduce(asked) /\ Book(asked, FillQty(AsHeld(asked), price), price) /\ open \in Prices /\ TypeAccount
  BY DEF ExecuteOrderOnBar, TypeInv
<1>2. AsHeld(asked) \in Orders /\ HasSlice(AsHeld(asked))
  BY <1>1, HeldFacts DEF HasSlice
<1>3. FillQty(AsHeld(asked), price) \in Nat
  BY <1>2, FillQtyType
<1>4. QED
  BY <1>1, <1>3 DEF BooksFill

LEMMA StepBooks == ASSUME TypeInv, [Next]_vars PROVE BooksFill \/ UNCHANGED account
<1>1. CASE NextBar \/ Wait \/ AllLookedAt \/ OnBar \/ CancelOrders \/ UNCHANGED vars
  BY <1>1 DEF NextBar, Wait, AllLookedAt, OnBar, CancelOrders, vars
<1>2. ASSUME NEW price \in Prices, Fill(price) PROVE BooksFill
  BY <1>2, LookingFacts, BarFills DEF Fill
<1>3. ASSUME NEW price \in Prices, NEW request \in Requests, ExecuteScheduled(request, price) PROVE BooksFill
  BY <1>3, OrderType, BarFills DEF ExecuteScheduled
<1>4. ASSUME NEW request \in Requests, NEW price \in Prices, ExecuteAtClose(request, price) PROVE BooksFill
  <2>1. /\ Order(request) \in Orders /\ MayReduce(Order(request)) /\ TypeAccount
        /\ Book(Order(request), Sized(AsHeld(Order(request)), price), price)
    BY <1>4, OrderType DEF ExecuteAtClose, TypeInv
  <2>2. Sized(AsHeld(Order(request)), price) \in Nat
    BY <2>1, HeldFacts, SizedType
  <2>3. QED
    BY <2>1, <2>2 DEF BooksFill
<1>5. ASSUME NEW price \in Prices, StopNow(price) PROVE BooksFill
  <2>1. position.qty \in Int
    BY DEF TypeInv, TypeAccount
  <2>2. Abs(position.qty) \in Nat /\ MarketOrder(NoEntry, -Sign(position.qty), 0) \in Orders
    BY <2>1, SignFacts, UntaggedType
  <2>3. QED
    BY <1>5, <2>2 DEF StopNow, BooksFill
<1>6. ASSUME NEW asked, SubmitOrder(asked) PROVE UNCHANGED account
  BY <1>6 DEF SubmitOrder
<1>7. QED
  BY <1>1, <1>2, <1>3, <1>4, <1>5, <1>6 DEF Next, Strategy, Submit, ClosePosition, CloseEntry

(***************************************************************************)
(* Orders that join the queue                                              *)
(***************************************************************************)

\* What a slice leaves of its order.
LEMMA RestFacts ==
    ASSUME TypeInv, Looking, NEW price \in Prices, ExecuteOrderOnBar(Current, price),
           Current.kind = "twap", Rest(Current).qty > 0, Rest(Current).bars > 0
    PROVE  /\ Rest(Current) \in ShapedOrders
           /\ Rest(Current).entry = Current.entry /\ Rest(Current).reduceOnly = Current.reduceOnly
<1>1. /\ Current \in Orders /\ HasSlice(Current) /\ Current \in ShapedOrders /\ open \in Prices
      /\ FillQty(AsHeld(Current), open) \in Nat
  BY LookingFacts, BarFills DEF ExecuteOrderOnBar
<1>2. Sized(Current, open) \in Nat
  BY <1>1, SizedType
<1> DEFINE left == Sized(Current, open) - FillQty(AsHeld(Current), open)
<1>3. left \in Int
  BY <1>1, <1>2
<1>4. Rest(Current) = [Current EXCEPT !.qty = left, !.bars = @ - 1]
  BY DEF Rest
<1> HIDE DEF left
<1>5. /\ Rest(Current).qty = left /\ Rest(Current).bars = Current.bars - 1
      /\ Rest(Current).entry = Current.entry /\ Rest(Current).reduceOnly = Current.reduceOnly
      /\ Rest(Current).kind = Current.kind /\ Rest(Current).side = Current.side
  BY <1>1, <1>4 DEF Orders
<1>6. left \in Nat /\ Current.bars - 1 \in Nat /\ Current.bars - 1 >= 1
  BY <1>1, <1>3, <1>5 DEF Orders
<1>7. Rest(Current) \in Orders
  BY <1>1, <1>4, <1>6 DEF Orders
<1>8. QED
  BY <1>1, <1>5, <1>6, <1>7 DEF ShapedOrders, HasSlice

\* An order that is accepted has its shape, and no other close of its entry is
\* in the queue if it is one.
LEMMA SubmitFacts ==
    ASSUME TypeInv, NEW asked \in Orders, HasSlice(asked), SubmitOrder(asked)
    PROVE  /\ AsHeld(asked) \in ShapedOrders /\ pending' = Append(pending, AsHeld(asked))
           /\ AsHeld(asked).entry = asked.entry /\ AsHeld(asked).reduceOnly = asked.reduceOnly
           /\ asked.reduceOnly => Closing(pending, asked.entry) = {}
           /\ todo = <<>> /\ UNCHANGED <<phase, open, todo, account>>
<1>1. MayReduce(asked) /\ TypeAccount
  BY DEF SubmitOrder, MayReduce, TypeInv
<1>2. QED
  BY <1>1, HeldFacts DEF SubmitOrder, ShapedOrders, HasSlice, TypeInv

\* What a strategy queues.
Queues(asked) == asked \in Orders /\ HasSlice(asked) /\ SubmitOrder(asked)

LEMMA SubmitSteps ==
    ASSUME TypeInv,
           \/ \E request \in Requests : Submit(request)
           \/ \E entry \in Entries : CloseEntry(entry)
           \/ ClosePosition
    PROVE  \E asked \in Orders : Queues(asked)
<1>e. position.qty \in Int /\ \A e \in Entries : entries[e] \in Int
  BY DEF TypeInv, TypeAccount
<1>1. ASSUME NEW request \in Requests, Submit(request) PROVE Queues(Order(request))
  BY <1>1, OrderType DEF Submit, Queues
<1>2. ASSUME NEW entry \in Entries, CloseEntry(entry)
      PROVE  Queues(Close(entry, -Sign(entries[entry]), Abs(entries[entry])))
  BY <1>2, <1>e, SignFacts, CloseType DEF CloseEntry, Queues
<1>3. ASSUME ClosePosition PROVE Queues(MarketOrder(NoEntry, -Sign(position.qty), Abs(position.qty)))
  BY <1>3, <1>e, SignFacts, UntaggedType DEF ClosePosition, Queues
<1>4. QED
  BY <1>1, <1>2, <1>3 DEF Queues

LEMMA TypeStep == ASSUME TypeInv, [Next]_vars PROVE TypeInv'
<1>t. /\ phase \in {"fills", "open", "bar"} /\ open \in Prices \cup {NoPrice}
      /\ pending \in Seq(ShapedOrders) /\ todo \in Seq(ShapedOrders)
      /\ TypeAccount /\ (phase # "fills" => todo = <<>>)
  BY DEF TypeInv, QueuesShaped
<1>a. TypeAccount'
  <2>1. CASE UNCHANGED account
    BY <1>t, <2>1 DEF TypeAccount, account
  <2>2. CASE BooksFill
    BY <1>t, <2>2, BookType DEF BooksFill
  <2>3. QED
    BY <2>1, <2>2, StepBooks
<1>1. CASE NextBar
  BY <1>1, <1>t, <1>a, EmptySeq DEF NextBar, TypeInv, QueuesShaped
<1>2. CASE Wait
  <2>1. pending' \in Seq(ShapedOrders) /\ todo' \in Seq(ShapedOrders)
    BY <1>2, <1>t, LookingFacts, AppendProperties DEF Wait
  <2>2. QED
    BY <1>2, <1>t, <1>a, <2>1, LookingFacts DEF Wait, TypeInv, QueuesShaped
<1>3. ASSUME NEW price \in Prices, Fill(price) PROVE TypeInv'
  <2>1. todo' \in Seq(ShapedOrders) /\ phase = "fills"
    BY <1>3, LookingFacts DEF Fill
  <2>2. pending' \in Seq(ShapedOrders)
    BY <1>3, <1>t, RestFacts, AppendProperties DEF Fill
  <2>3. QED
    BY <1>3, <1>t, <1>a, <2>1, <2>2 DEF Fill, TypeInv, QueuesShaped
<1>4. CASE AllLookedAt \/ OnBar \/ CancelOrders
  BY <1>4, <1>t, <1>a, EmptySeq DEF AllLookedAt, OnBar, CancelOrders, TypeInv, QueuesShaped
<1>5. ASSUME NEW price \in Prices,
             \/ \E request \in Requests : ExecuteScheduled(request, price) \/ ExecuteAtClose(request, price)
             \/ StopNow(price)
      PROVE  TypeInv'
  BY <1>5, <1>t, <1>a DEF ExecuteScheduled, ExecuteAtClose, StopNow, TypeInv, QueuesShaped
<1>6. ASSUME NEW asked \in Orders, Queues(asked) PROVE TypeInv'
  <2>1. /\ AsHeld(asked) \in ShapedOrders /\ pending' = Append(pending, AsHeld(asked))
        /\ UNCHANGED <<phase, open, todo>>
    BY <1>6, SubmitFacts DEF Queues
  <2>2. pending' \in Seq(ShapedOrders)
    BY <1>t, <2>1, AppendProperties
  <2>3. QED
    BY <1>t, <1>a, <2>1, <2>2 DEF TypeInv, QueuesShaped
<1>7. CASE UNCHANGED vars
  BY <1>7, <1>t, <1>a DEF vars, TypeInv, QueuesShaped
<1>8. QED
  BY <1>1, <1>2, <1>3, <1>4, <1>5, <1>6, <1>7, SubmitSteps DEF Next, Strategy

LEMMA TypeInit == Init => TypeInv
  BY EmptySeq, ConstantFacts DEF Init, TypeInv, QueuesShaped, TypeAccount

\* The queue holds well-formed orders and the account well-formed numbers at
\* any prices and for any commission; a flat position has no cost left.
THEOREM TypeCorrect == Spec => []TypeOK
<1>1. TypeInv => TypeOK
  BY ShapedAreOrders DEF TypeInv, TypeOK, QueuesShaped, TypeQueues
<1>2. QED
  BY TypeInit, TypeStep, <1>1, PTL DEF Spec

(***************************************************************************)
(* One close per entry                                                     *)
(***************************************************************************)

\* Closes of an entry in the queue: none, or one, in one of its two parts.
OneClose(queue, rest, entry) ==
    /\ Single(queue, entry) /\ Single(rest, entry)
    /\ Closing(queue, entry) = {} \/ Closing(rest, entry) = {}

LEMMA OneCloseIs == OneClosePerEntry <=> \A e \in Entries : OneClose(pending, todo, e)
  BY DEF OneClosePerEntry, OneClose, Single

LEMMA NoneWaiting == \A e : Closing(<<>>, e) = {} /\ Single(<<>>, e)
  BY EmptySeq DEF Closing, Single

LEMMA OneCloseStep ==
    ASSUME TypeInv, TypeInv', OneClosePerEntry, [Next]_vars
    PROVE  OneClosePerEntry'
<1> SUFFICES ASSUME NEW e \in Entries PROVE OneClose(pending', todo', e)
  BY DEF OneClosePerEntry, OneClose, Single
<1>t. pending \in Seq(ShapedOrders) /\ todo \in Seq(ShapedOrders) /\ (phase # "fills" => todo = <<>>)
  BY DEF TypeInv, QueuesShaped
<1>o. OneClose(pending, todo, e)
  BY OneCloseIs
\* Looking at an order takes it out of the queue; it, or what is left of it,
\* may be put back.
<1>l. ASSUME Looking, NEW back \in ShapedOrders,
             back.entry = Current.entry, back.reduceOnly = Current.reduceOnly,
             pending' = pending \/ pending' = Append(pending, back)
      PROVE  OneClose(pending', todo', e)
  <2>1. todo # <<>> /\ todo' = Tail(todo) /\ Current = Head(todo)
    BY <1>l DEF Looking, Current
  <2>2. /\ Single(todo', e) /\ (Closing(todo, e) = {} => Closing(todo', e) = {})
        /\ IsClose(Current, e) => Closing(todo, e) # {} /\ Closing(todo', e) = {}
    BY <1>t, <1>o, <2>1, Taken DEF OneClose
  <2>3. IsClose(back, e) <=> IsClose(Current, e)
    BY <1>l DEF IsClose
  <2>4. CASE pending' = pending
    BY <1>o, <2>2, <2>4 DEF OneClose
  <2>5. CASE pending' = Append(pending, back) /\ IsClose(back, e)
    BY <1>t, <1>l, <1>o, <2>2, <2>3, <2>5, Appended DEF OneClose
  <2>6. CASE pending' = Append(pending, back) /\ ~IsClose(back, e)
    <3>1. Closing(pending', e) = Closing(pending, e)
      BY <1>t, <1>l, <2>6, Appended
    <3>2. QED
      BY <1>o, <2>2, <3>1 DEF OneClose, Single
  <2>7. QED
    BY <1>l, <2>4, <2>5, <2>6
<1>1. CASE NextBar
  BY <1>1, <1>o, <1>t, NoneWaiting DEF NextBar, OneClose
<1>2. CASE Wait
  BY <1>2, <1>l, LookingFacts DEF Wait
<1>3. ASSUME NEW price \in Prices, Fill(price) PROVE OneClose(pending', todo', e)
  <2>1. Looking /\ ExecuteOrderOnBar(Current, price) /\ Current \in ShapedOrders
    BY <1>3, LookingFacts DEF Fill
  <2>2. CASE pending' = pending
    BY <2>1, <2>2, <1>l
  <2>3. CASE pending' # pending
    <3>1. /\ pending' = Append(pending, Rest(Current))
          /\ Current.kind = "twap" /\ Rest(Current).qty > 0 /\ Rest(Current).bars > 0
      BY <1>3, <2>3 DEF Fill
    <3>2. QED
      BY <2>1, <3>1, <1>l, RestFacts
  <2>4. QED
    BY <2>2, <2>3
<1>4. CASE CancelOrders
  BY <1>4, <1>o, NoneWaiting DEF CancelOrders, OneClose
<1>5. ASSUME NEW asked \in Orders, Queues(asked) PROVE OneClose(pending', todo', e)
  <2> DEFINE new == AsHeld(asked)
  <2>1. /\ new \in ShapedOrders /\ pending' = Append(pending, new) /\ todo' = todo /\ todo = <<>>
        /\ IsClose(new, e) => Closing(pending, e) = {}
    BY <1>5, SubmitFacts DEF Queues, IsClose
  <2> HIDE DEF new
  <2>2. CASE IsClose(new, e)
    BY <1>t, <2>1, <2>2, Appended, NoneWaiting DEF OneClose
  <2>3. CASE ~IsClose(new, e)
    <3>1. Closing(pending', e) = Closing(pending, e)
      BY <1>t, <2>1, <2>3, Appended
    <3>2. QED
      BY <1>o, <2>1, <3>1 DEF OneClose, Single
  <2>4. QED
    BY <2>2, <2>3
<1>6. CASE UNCHANGED <<pending, todo>>
  BY <1>6, <1>o
<1>7. QED
  BY <1>1, <1>2, <1>3, <1>4, <1>5, <1>6, SubmitSteps
     DEF Next, Strategy, AllLookedAt, OnBar, ExecuteScheduled, ExecuteAtClose, StopNow, vars

\* However often a strategy asks, and whatever the queue is in the middle of,
\* an entry never has two pending closes.
THEOREM CloseOnce == Spec => []OneClosePerEntry
<1>1. Init => OneClosePerEntry
  BY NoneWaiting DEF Init, OneClosePerEntry, Single
<1>2. QED
  BY TypeInit, TypeStep, OneCloseStep, <1>1, PTL DEF Spec

(***************************************************************************)
(* A close closes                                                          *)
(***************************************************************************)

\* What is left of an entry when a part of it, or all, is filled away.
LEMMA Reduced ==
    ASSUME NEW held \in Int, held # 0, NEW side \in Sides, SameSign(held, -side),
           NEW qty \in Nat, qty <= Abs(held), NEW left, left = held + side * qty
    PROVE  /\ left = 0 \/ SameSign(held, left)
           /\ Abs(left) <= Abs(held)
           /\ qty = Abs(held) => left = 0
<1>1. CASE held > 0 /\ side = -1
  BY <1>1 DEF Abs, SameSign
<1>2. CASE held < 0 /\ side = 1
  BY <1>2 DEF Abs, SameSign
<1>3. QED
  BY <1>1, <1>2 DEF SameSign, Sides

\* A reduce-only order that waited, of whatever kind, neither reverses its
\* entry nor makes it grow, and closes it unless slices of it are still to
\* come, whatever other orders did to the entry since it was submitted.
THEOREM ClosesClose == Spec => ReduceOnlyCloses
<1> DEFINE held == entries[Current.entry]
           left == entries'[Current.entry]
           Closed == (phase = "fills" /\ trades' # trades /\ Current.reduceOnly) =>
                         /\ held # 0 /\ (left = 0 \/ SameSign(held, left)) /\ Abs(left) <= Abs(held)
                         /\ Current.kind # "twap" \/ Current.bars = 1 => left = 0
<1>1. ASSUME TypeInv, [Next]_vars PROVE [Closed]_vars
  <2> SUFFICES ASSUME phase = "fills", trades' # trades, Current.reduceOnly
               PROVE  /\ held # 0 /\ (left = 0 \/ SameSign(held, left)) /\ Abs(left) <= Abs(held)
                      /\ Current.kind # "twap" \/ Current.bars = 1 => left = 0
    OBVIOUS
  <2>1. PICK price \in Prices : Fill(price)
    BY <1>1 DEF Next, Strategy, NextBar, Wait, AllLookedAt, OnBar, Submit, SubmitOrder, ClosePosition,
                CloseEntry, ExecuteAtClose, ExecuteScheduled, StopNow, CancelOrders, vars, account
  <2> DEFINE qty == FillQty(AsHeld(Current), price)
  <2>2. /\ Looking /\ ExecuteOrderOnBar(Current, price) /\ MayReduce(Current) /\ Book(Current, qty, price)
        /\ Current \in Orders /\ HasSlice(Current) /\ Current.side \in Sides
        /\ TypeAccount /\ price \in Nat
    BY <1>1, <2>1, LookingFacts, ConstantFacts DEF Fill, ExecuteOrderOnBar, TypeInv, Orders
  <2>3. /\ AsHeld(Current) \in Orders /\ HasSlice(AsHeld(Current))
        /\ AsHeld(Current).kind = Current.kind /\ AsHeld(Current).bars = Current.bars
        /\ Current.entry \in Entries /\ held \in Int /\ AsHeld(Current).qty = Abs(held)
    BY <2>2, HeldFacts DEF HasSlice
  <2>4. SameSign(held, -Current.side) /\ held # 0
    BY <2>2 DEF MayReduce, Reducible, SameSign
  <2>5. Abs(held) > 0 /\ Sized(AsHeld(Current), price) = Abs(held)
    BY <2>3, <2>4 DEF Abs, Sized
  <2>6. /\ qty \in Nat /\ qty <= Abs(held)
        /\ Current.kind # "twap" \/ Current.bars = 1 => qty = Abs(held)
    BY <2>3, <2>5, FillQtyType
  <2> HIDE DEF qty
  <2>7. Current.side * qty \in Int
    BY <2>2, <2>6 DEF Sides
  <2>8. left = UpdatedEntry(held, Current.side * qty, price)
    BY <2>2, <2>3, ConstantFacts DEF Book, TypeAccount
  <2>9. left = held + Current.side * qty
    BY <2>3, <2>7, <2>8, UpdatedEntryQty
  <2> HIDE DEF held, left
  <2>10. QED
    BY <2>2, <2>3, <2>4, <2>6, <2>9, Reduced
<1>2. QED
  BY TypeInit, TypeStep, <1>1, PTL DEF Spec, ReduceOnlyCloses

(***************************************************************************)
(* The books: quantities                                                   *)
(***************************************************************************)

LEMMA NetSum ==
    /\ DOMAIN entries = Entries =>
           (NetIsEntries <=> position.qty = untagged + Sum(entries, Entries))
    /\ DOMAIN entries' = Entries =>
           (NetIsEntries' <=> position'.qty = untagged' + Sum(entries', Entries))
  BY DEF NetIsEntries, Sum, SumFunction

LEMMA BookNet ==
    ASSUME TypeAccount, NetIsEntries, NEW asked \in Orders, NEW qty \in Nat, NEW price \in Prices,
           Book(asked, qty, price)
    PROVE  NetIsEntries'
<1> DEFINE lots == asked.side * qty
<1>1. lots \in Int /\ asked.entry \in Entries \cup {NoEntry}
  BY DEF Orders, Sides
<1>2. /\ position \in [qty : Int, cost : Nat, realized : Int]
      /\ entries \in [Entries -> Int] /\ untagged \in Int /\ IsFiniteSet(Entries)
      /\ Sum(entries, Entries) \in Int
  <2>1. entries \in [Entries -> Int] /\ IsFiniteSet(Entries)
    BY BrokerConstants DEF TypeAccount
  <2>2. QED
    BY <2>1, SumType DEF TypeAccount
<1>3. position.qty = untagged + Sum(entries, Entries)
  BY <1>2, NetSum
<1>4. position'.qty = position.qty + lots
  <2>1. position' = Updated(position, lots, price)
    BY DEF Book
  <2> HIDE DEF lots
  <2>2. QED
    BY <1>1, <1>2, <2>1, UpdatedQty
<1>5. untagged' + Sum(entries', Entries) = untagged + Sum(entries, Entries) + lots
  <2>1. CASE asked.entry = NoEntry
    <3>1. untagged' = untagged + lots /\ entries' = entries
      BY <2>1 DEF Book
    <3> HIDE DEF lots
    <3>2. QED
      BY <1>1, <1>2, <3>1
  <2>2. CASE asked.entry # NoEntry
    <3> DEFINE e == asked.entry
    <3>1. /\ e \in Entries /\ untagged' = untagged
          /\ entries' = [entries EXCEPT ![e] = UpdatedEntry(@, lots, price)]
      BY <1>1, <2>2 DEF Book
    <3> HIDE DEF lots, e
    <3>2. UpdatedEntry(entries[e], lots, price) = entries[e] + lots /\ entries[e] \in Int
      BY <1>1, <1>2, <3>1, UpdatedEntryQty
    <3>3. entries'[e] = entries[e] + lots /\ \A d \in Entries \ {e} : entries'[d] = entries[d]
      BY <1>2, <3>1, <3>2
    <3>4. Sum(entries', Entries) = Sum(entries, Entries) - entries[e] + entries'[e]
      <4>1. Replaced(entries, entries', Entries, e)
        BY <1>1, <1>2, <3>2, <3>3 DEF Replaced
      <4>2. IsFiniteSet(Entries) /\ e \in Entries
        BY <1>2, <3>1
      <4>3. QED
        BY <4>1, <4>2, SumChanged
    <3>5. QED
      BY <1>1, <1>2, <3>1, <3>2, <3>3, <3>4
  <2>3. QED
    BY <2>1, <2>2
<1>6. position'.qty = untagged' + Sum(entries', Entries)
  BY <1>1, <1>2, <1>3, <1>4, <1>5
<1>7. DOMAIN entries' = Entries
  BY <1>2 DEF Book
<1>8. QED
  BY <1>6, <1>7, NetSum

LEMMA NetStep == ASSUME TypeInv, NetIsEntries, [Next]_vars PROVE NetIsEntries'
<1>t. /\ TypeAccount /\ open \in Prices \cup {NoPrice}
  BY DEF TypeInv
<1>a. ASSUME UNCHANGED account PROVE NetIsEntries'
  BY <1>a DEF account, NetIsEntries
<1>b. ASSUME BooksFill PROVE NetIsEntries'
  BY <1>b, <1>t, BookNet DEF BooksFill
<1>1. QED
  BY <1>a, <1>b, StepBooks

\* The net position of the broker is what its entries hold together and what
\* was filled without an entry, through every fill, reversal and flattening.
THEOREM NetPosition == Spec => []NetIsEntries
<1>1. Init => NetIsEntries
  <2> SUFFICES ASSUME Init PROVE position.qty = untagged + Sum(entries, Entries)
    BY NetSum DEF Init
  <2>1. \A e \in Entries : entries[e] = 0
    BY DEF Init
  <2>2. Sum(entries, Entries) = 0
    BY <2>1, BrokerConstants, SumZero
  <2>3. QED
    BY <2>2 DEF Init
<1>2. QED
  BY TypeInit, TypeStep, NetStep, <1>1, PTL DEF Spec

(***************************************************************************)
(* The books: value                                                        *)
(***************************************************************************)

\* What a fill adds to the value of a position at cost, less what it has
\* realized, is what it pays.
LEMMA UpdatedValue ==
    ASSUME NEW p \in Positions, NEW lots \in Int, NEW price \in Nat,
           p.qty # 0 => Abs(p.qty) * (p.cost \div Abs(p.qty)) = p.cost
    PROVE  LET q == Updated(p, lots, price)
           IN  Sign(q.qty) * q.cost - q.realized = Sign(p.qty) * p.cost - p.realized + lots * price
<1> DEFINE q == Updated(p, lots, price)
           n == p.qty
           r == p.realized
<1>p. n \in Int /\ p.cost \in Nat /\ r \in Int /\ (n = 0 => p.cost = 0)
  BY DEF Positions
<1>q. p = [qty |-> n, cost |-> p.cost, realized |-> r]
  BY DEF Positions
<1>1. CASE n = 0 \/ SameSign(n, lots)
  <2>1. q = [p EXCEPT !.qty = @ + lots, !.cost = @ + price * Abs(lots)]
    BY <1>1 DEF Updated
  <2>2. q.qty = n + lots /\ q.cost = p.cost + price * Abs(lots) /\ q.realized = r
    BY <1>q, <2>1
  <2> HIDE DEF q, n, r
  <2>3. CASE lots >= 0
    <3>1. Abs(lots) = lots /\ Sign(n + lots) = 1 /\ (n # 0 => Sign(n) = 1)
      BY <1>1, <1>p, <2>3 DEF Abs, Sign, SameSign
    <3>2. q.cost = p.cost + price * lots /\ Sign(n) * p.cost = p.cost
      BY <1>p, <2>2, <3>1 DEF Sign
    <3>3. QED
      BY <1>p, <2>2, <3>1, <3>2 DEF q, n, r
  <2>4. CASE lots < 0
    <3>1. Abs(lots) = -lots /\ Sign(n + lots) = -1 /\ (n # 0 => Sign(n) = -1)
      BY <1>1, <1>p, <2>4 DEF Abs, Sign, SameSign
    <3>2. q.cost = p.cost - price * lots /\ Sign(n) * p.cost = -p.cost
      BY <1>p, <2>2, <3>1 DEF Sign
    <3>3. QED
      BY <1>p, <2>2, <3>1, <3>2 DEF q, n, r
  <2>5. QED
    BY <2>3, <2>4
<1>2. CASE ~(n = 0 \/ SameSign(n, lots))
  <2> DEFINE closed == IF Abs(lots) > Abs(n) THEN Abs(n) ELSE Abs(lots)
             average == p.cost \div Abs(n)
             left == Abs(n) - closed
             excess == Abs(lots) - closed
  <2>1. q = [qty |-> Sign(n) * left + Sign(lots) * excess, cost |-> average * left + price * excess,
             realized |-> r + Sign(n) * closed * (price - average)]
    BY <1>2 DEF Updated
  <2>2. /\ q.qty = Sign(n) * left + Sign(lots) * excess /\ q.cost = average * left + price * excess
        /\ q.realized = r + Sign(n) * closed * (price - average)
    BY <2>1
  <2>3. Abs(n) \in Nat \ {0} /\ n # 0
    BY <1>2, <1>p DEF Abs
  <2>4. average \in Nat /\ average * Abs(n) = p.cost
    BY <1>p, <2>3, Division
  <2>5. closed \in Nat /\ left \in Nat /\ excess \in Nat
    BY <1>p, SignFacts
  <2> HIDE DEF average, q, r
  <2>6. CASE n > 0
    <3>1. Sign(n) = 1 /\ lots <= 0 /\ Abs(n) = n /\ Abs(lots) = -lots
      BY <1>2, <2>6, <1>p DEF SameSign, Sign, Abs
    <3>2. CASE -lots <= n
      <4>1. closed = -lots /\ left = n + lots /\ excess = 0
        BY <3>1, <3>2, <1>p
      <4>2. q.qty = n + lots /\ Sign(n + lots) = 1
        BY <2>2, <3>1, <3>2, <4>1, <1>p, SignFacts DEF Sign
      <4>3. q.cost = average * (n + lots)
        <5>1. n + lots \in Int /\ price * 0 = 0
          BY <1>p
        <5> HIDE DEF left, excess, closed, n
        <5>2. QED
          BY <2>2, <2>4, <4>1, <5>1
      <4>4. q.realized = r - lots * (price - average)
        BY <2>2, <2>4, <3>1, <4>1, <1>p
      <4> HIDE DEF n
      <4>5. average * n = p.cost /\ Sign(n) * p.cost = p.cost
        BY <1>p, <2>4, <3>1
      <4>6. QED
        BY <1>p, <2>4, <4>2, <4>3, <4>4, <4>5 DEF q, r, n
    <3>3. CASE -lots > n
      <4>1. closed = n /\ left = 0 /\ excess = -lots - n
        BY <3>1, <3>3, <1>p
      <4>2. q.qty = n + lots /\ Sign(n + lots) = -1
        BY <2>2, <3>1, <3>3, <4>1, <1>p DEF Sign
      <4>3. q.cost = price * (-lots - n)
        BY <2>2, <2>4, <4>1, <1>p
      <4>4. q.realized = r + n * (price - average)
        BY <2>2, <2>4, <3>1, <4>1, <1>p
      <4> HIDE DEF n
      <4>5. average * n = p.cost /\ Sign(n) * p.cost = p.cost
        BY <1>p, <2>4, <3>1
      <4>6. QED
        BY <1>p, <2>4, <4>2, <4>3, <4>4, <4>5 DEF q, r, n
    <3>4. QED
      BY <3>1, <3>2, <3>3, <1>p
  <2>7. CASE n < 0
    <3>1. Sign(n) = -1 /\ lots >= 0 /\ Abs(n) = -n /\ Abs(lots) = lots
      BY <1>2, <2>7, <1>p DEF SameSign, Sign, Abs
    <3>2. CASE lots < -n
      <4>1. closed = lots /\ left = -n - lots /\ excess = 0
        BY <3>1, <3>2, <1>p
      <4>2. q.qty = n + lots /\ Sign(n + lots) = -1
        BY <2>2, <3>1, <3>2, <4>1, <1>p, SignFacts DEF Sign
      <4>3. q.cost = average * (-n - lots)
        <5>1. n + lots \in Int /\ price * 0 = 0
          BY <1>p
        <5> HIDE DEF left, excess, closed, n
        <5>2. QED
          BY <2>2, <2>4, <4>1, <5>1
      <4>4. q.realized = r - lots * (price - average)
        BY <2>2, <2>4, <3>1, <4>1, <1>p
      <4> HIDE DEF n
      <4>5. average * n = -p.cost /\ Sign(n) * p.cost = -p.cost
        BY <1>p, <2>4, <3>1
      <4>6. QED
        BY <1>p, <2>4, <4>2, <4>3, <4>4, <4>5 DEF q, r, n
    <3>3. CASE lots >= -n
      <4>1. closed = -n /\ left = 0 /\ excess = lots + n
        BY <3>1, <3>3, <1>p
      <4>2. q.qty = n + lots /\ Sign(n + lots) = 1
        BY <2>2, <3>1, <3>3, <4>1, <1>p, SignFacts DEF Sign
      <4>3. q.cost = price * (lots + n)
        BY <2>2, <2>4, <4>1, <1>p
      <4>4. q.realized = r + n * (price - average)
        BY <2>2, <2>4, <3>1, <4>1, <1>p
      <4> HIDE DEF n
      <4>5. average * n = -p.cost /\ Sign(n) * p.cost = -p.cost
        BY <1>p, <2>4, <3>1
      <4>6. QED
        BY <1>p, <2>4, <4>2, <4>3, <4>4, <4>5 DEF q, r, n
    <3>4. QED
      BY <3>1, <3>2, <3>3, <1>p
  <2>8. QED
    BY <1>2, <2>6, <2>7, <1>p
<1>3. QED
  BY <1>1, <1>2

LEMMA BookValue ==
    ASSUME TypeAccount, WholeAverage, EquityAddsUp,
           NEW asked \in Orders, NEW qty \in Nat, NEW price \in Prices, Book(asked, qty, price)
    PROVE  EquityAddsUp'
<1> DEFINE lots == asked.side * qty
           value(q) == Sign(q.qty) * q.cost - q.realized
<1>1. lots \in Int /\ price \in Nat
  BY ConstantFacts DEF Orders, Sides
<1>2. position \in Positions /\ position' \in Positions
  BY BookType DEF TypeAccount, Positions
<1>3. \A q \in Positions : Sign(q.qty) * q.cost \in Int /\ q.realized \in Int
  BY SignFacts DEF Positions, Sides
<1>4. /\ cash' = cash - lots * price - Commission /\ trades' = trades + 1
      /\ position' = Updated(position, lots, price)
  BY DEF Book
<1> HIDE DEF lots
<1>5. value(position') = value(position) + lots * price
  BY <1>1, <1>2, <1>4, UpdatedValue DEF WholeAverage
<1>6. cash + Sign(position.qty) * position.cost = position.realized - Commission * trades
  BY DEF EquityAddsUp
<1>7. /\ cash \in Int /\ trades \in Int /\ Commission \in Int /\ lots * price \in Int
      /\ Commission * trades \in Int /\ Commission * (trades + 1) = Commission * trades + Commission
  BY <1>1, ConstantFacts DEF TypeAccount
<1>8. cash' + Sign(position'.qty) * position'.cost = position'.realized - Commission * trades'
  <2> DEFINE held == Sign(position.qty) * position.cost
             heldNow == Sign(position'.qty) * position'.cost
  <2>1. held \in Int /\ heldNow \in Int /\ position.realized \in Int /\ position'.realized \in Int
    BY <1>2, <1>3
  <2>2. heldNow - position'.realized = held - position.realized + lots * price
    BY <1>5
  <2>3. cash + held = position.realized - Commission * trades
    BY <1>6
  <2>4. Commission * trades' = Commission * trades + Commission
    BY <1>4, <1>7
  <2> HIDE DEF held, heldNow
  <2>5. cash' + heldNow = position'.realized - (Commission * trades + Commission)
    <3> DEFINE f == lots * price
               c == Commission * trades
    <3>1. f \in Int /\ c \in Int
      BY <1>7
    <3>2. cash' = cash - f - Commission
      BY <1>4
    <3>3. heldNow - position'.realized = held - position.realized + f /\ cash + held = position.realized - c
      BY <2>2, <2>3
    <3> HIDE DEF f, c
    <3>4. cash' + heldNow = position'.realized - (c + Commission)
      BY <1>7, <2>1, <3>1, <3>2, <3>3
    <3>5. QED
      BY <3>4 DEF c
  <2>6. QED
    BY <2>4, <2>5 DEF heldNow
<1>9. QED
  BY <1>8 DEF EquityAddsUp

LEMMA EquityStep == ASSUME TypeInv, WholeAverage, EquityAddsUp, [Next]_vars PROVE EquityAddsUp'
<1>t. TypeAccount
  BY DEF TypeInv
<1>a. ASSUME UNCHANGED account PROVE EquityAddsUp'
  BY <1>a DEF account, EquityAddsUp
<1>b. ASSUME BooksFill PROVE EquityAddsUp'
  BY <1>b, <1>t, BookValue DEF BooksFill
<1>1. QED
  BY <1>a, <1>b, StepBooks

\* Equity is the initial capital plus realized and unrealized PnL less fees
\* after any fills, as long as the average price is a number of the model, as
\* that of the code is: what a division loses is all that could be missing.
THEOREM EquityHolds == Spec /\ []WholeAverage => []EquityAddsUp
<1>1. Init => EquityAddsUp
  BY ConstantFacts DEF Init, EquityAddsUp, Sign
<1>2. QED
  BY TypeInit, TypeStep, EquityStep, <1>1, PTL DEF Spec
=============================================================================
