----------------------------- MODULE Preparation ----------------------------
(***************************************************************************)
(* A batch of backtests from its data to its fills (internal/backtest:     *)
(* engine.go, preparer.go, series.go, preload.go, replayer.go).  RunBatch  *)
(* prepares and replays one run per parameter set, a few at a time; the    *)
(* runs share the preparer and its cache of data sets.  A run loads its    *)
(* primary security, then the other securities and then the factors with   *)
(* one goroutine each, aligns them to the bars of the primary, derives     *)
(* columns on its data, cuts the warmup off, and replays.                  *)
(*                                                                         *)
(* Time is a whole number.  A bar is the time it opens at; it closes one   *)
(* interval of its series later, and its columns are known by then.  Data  *)
(* sets are objects, so that two references to one of them can be told     *)
(* from two copies.                                                        *)
(***************************************************************************)
EXTENDS Integers, Sequences, FiniteSetsExt

CONSTANTS
    ParamSets,   \* the parameter sets of the batch
    Workers,     \* how many runs at a time there may be
    Primary,     \* the primary security
    Others,      \* the other securities of the strategy
    Factors,     \* its external factors
    Traded,      \* securities it trades
    Interval,    \* duration of a bar of each series
    Histories,   \* what the feed of each series may answer with: bars, ascending
    Registered,  \* which series a feed may be registered for
    From, To,    \* the window asked for
    Warmups,     \* what history the parameter sets may ask for before it
    LoadSlots,   \* maxPrepareLoadConcurrency
    CallsMayFail,  \* a load or the strategy's preload may return an error
    BatchMayStop   \* the context may end

Securities == {Primary} \cup Others
Series == Securities \cup Factors

Ascending(bars) == \A k, l \in DOMAIN bars : k <= l => bars[k] <= bars[l]

ASSUME PreparationConstants ==
    /\ Primary \notin Others /\ Factors \cap Securities = {}
    /\ Traded \subseteq Securities /\ Registered \subseteq SUBSET Series
    /\ Interval \in [Series -> Nat \ {0}] /\ Warmups \subseteq [ParamSets -> Nat]
    /\ From \in Int /\ To \in Int
    /\ \A s \in Series : Histories[s] # {} /\ Histories[s] \subseteq Seq(Int)
    /\ \A s \in Series : \A bars \in Histories[s] : Ascending(bars)
    /\ Workers \subseteq Nat \ {0} /\ LoadSlots \in Nat \ {0}

NoOrder == [security |-> Primary, decided |-> -1]
NoFill == [security |-> Primary, decided |-> -1, priced |-> -1]

VARIABLES
    nWorkers, \* runs at a time
    warmup,   \* of each parameter set, as the strategy sets it in Init
    hasFeed,  \* series a feed is registered for
    ctxEnded,
    stage,    \* of each run
    loads,    \* control of its loads, one for each series
    dsCache,  \* the preparer's data sets, by request
    heap,     \* the data sets there are: their bars, and the runs that derived columns on them
    own,      \* the run's data set of each series it has loaded
    maps,     \* its align maps
    barIndex, \* the bar it replays, 0 before the first
    order,    \* the order it has pending
    fill      \* its last fill: when it was decided, and from when its price is

replayVars == <<barIndex, order, fill>>
loadVars == <<loads, dsCache, heap, own>>
batchConfig == <<nWorkers, warmup, hasFeed>>
environment == <<batchConfig, ctxEnded>>
prepVars == <<environment, stage, loadVars, maps, replayVars>>

PrepInit ==
    /\ nWorkers \in Workers /\ warmup \in Warmups /\ hasFeed \in Registered
    /\ ctxEnded = FALSE
    /\ stage = [p \in ParamSets |-> "queued"]
    /\ loads = [p \in ParamSets |-> [s \in Series |-> "none"]]
    /\ dsCache = <<>> /\ heap = <<>>
    /\ own = [p \in ParamSets |-> <<>>] /\ maps = [p \in ParamSets |-> <<>>]
    /\ barIndex = [p \in ParamSets |-> 0]
    /\ order = [p \in ParamSets |-> NoOrder] /\ fill = [p \in ParamSets |-> NoFill]

Running == {p \in ParamSets : stage[p] \in {"primary", "securities", "factors", "replay"}}

LoadFrom(p) == From - warmup[p]
Request(p, s) == <<s, LoadFrom(p)>>
Bars(p, s) == heap[own[p][s]].bars

\* A map after f[x] = value.
With(f, x, value) == [y \in DOMAIN f \cup {x} |-> IF y = x THEN value ELSE f[y]]

(***************************************************************************)
(* Loading                                                                 *)
(***************************************************************************)

\* The goroutines of one group are started in order; a series without a feed
\* ends Prepare there, and the goroutines before it go on.
Start(p, group, first, next) ==
    IF group \subseteq hasFeed
    THEN /\ stage' = [stage EXCEPT ![p] = next]
         /\ loads' = [loads EXCEPT ![p] = [s \in Series |-> IF s \in group THEN first ELSE @[s]]]
    ELSE \E started \in SUBSET (group \cap hasFeed) :
            /\ stage' = [stage EXCEPT ![p] = "failed"]
            /\ loads' = [loads EXCEPT ![p] = [s \in Series |-> IF s \in started THEN first ELSE @[s]]]

HasTurn(p) == stage[p] = "queued" /\ Cardinality(Running) < nWorkers

\* RunBatch: a worker's turn.
StartRun(p) ==
    /\ HasTurn(p)
    /\ Start(p, {Primary}, "cache", "primary")
    /\ UNCHANGED <<environment, dsCache, heap, own, maps, replayVars>>

Group(s) == IF s \in Factors THEN Factors ELSE Others
\* Mutant: a slot is kept after the load.
LoadingOrLoaded(p, s) == {t \in Group(s) : loads[p][t] \in {"cache", "feed", "done"}}

Loading(p, s) == {t \in Group(s) : loads[p][t] \in {"cache", "feed"}}

Answer(p, s, answer) == loads' = [loads EXCEPT ![p][s] = answer]

HasSlot(p, s) == loads[p][s] = "slot" /\ Cardinality(Loading(p, s)) < LoadSlots

\* A goroutine takes one of the slots of its group, or sees the context's end.
TakeSlot(p, s) ==
    /\ HasSlot(p, s)
    /\ Answer(p, s, IF s \in Factors THEN "feed" ELSE "cache")
    /\ UNCHANGED <<environment, stage, dsCache, heap, own, maps, replayVars>>

GiveUp(p, s) ==
    /\ loads[p][s] = "slot" /\ ctxEnded
    /\ Answer(p, s, "error")
    /\ UNCHANGED <<environment, stage, dsCache, heap, own, maps, replayVars>>

Named(object, ds) == With(heap, object, ds)
Copy(p, s) == <<"copy", p, s>>
Clone(p, s, ds) ==
    /\ heap' = Named(Copy(p, s), ds)
    /\ own' = [own EXCEPT ![p] = With(@, s, Copy(p, s))]

\* Mutant: the cached data set itself is returned.
LookUpShared(p, s) ==
    /\ loads[p][s] = "cache"
    /\ IF Request(p, s) \in DOMAIN dsCache
       THEN /\ own' = [own EXCEPT ![p] = With(@, s, dsCache[Request(p, s)])]
            /\ Answer(p, s, "done")
            /\ UNCHANGED heap
       ELSE Answer(p, s, "feed") /\ UNCHANGED <<heap, own>>
    /\ UNCHANGED <<environment, stage, dsCache, maps, replayVars>>

\* loadCached: the request is looked up under the lock, which is given back
\* while the feed is asked.
LookUp(p, s) ==
    /\ loads[p][s] = "cache"
    /\ IF Request(p, s) \in DOMAIN dsCache
       THEN Clone(p, s, heap[dsCache[Request(p, s)]]) /\ Answer(p, s, "done")
       ELSE Answer(p, s, "feed") /\ UNCHANGED <<heap, own>>
    /\ UNCHANGED <<environment, stage, dsCache, maps, replayVars>>

\* The first bar that opens at a time or later, or one past the last.
FirstFrom(bars, time) == Min({k \in 1..(Len(bars) + 1) : k <= Len(bars) => bars[k] >= time})

Within(bars, p) == SubSeq(bars, FirstFrom(bars, LoadFrom(p)), FirstFrom(bars, To) - 1)
Loaded(p, s, bars) == [bars |-> Within(bars, p), derived |-> {}]
Fresh(p, s) == <<"loaded", p, s>>

\* Mutant: what was loaded is stored and returned, whatever was stored meanwhile.
FeedOverwrites(p, s, bars) ==
    /\ loads[p][s] = "feed"
    /\ LET ds == Loaded(p, s, bars)
       IN  /\ dsCache' = With(dsCache, Request(p, s), Fresh(p, s))
           /\ heap' = With(Named(Fresh(p, s), ds), Copy(p, s), ds)
           /\ own' = [own EXCEPT ![p] = With(@, s, Copy(p, s))]
    /\ Answer(p, s, "done")
    /\ UNCHANGED <<environment, stage, maps, replayVars>>

\* The feed answers.  Of loads of one request the first to have the lock
\* again stores what it has, and the others return a copy of that.  Factors
\* are not cached.
FeedAnswers(p, s, bars) ==
    /\ loads[p][s] = "feed"
    /\ LET ds == Loaded(p, s, bars)
       IN  IF s \in Factors
           THEN /\ heap' = Named(Fresh(p, s), ds)
                /\ own' = [own EXCEPT ![p] = With(@, s, Fresh(p, s))]
                /\ UNCHANGED dsCache
           ELSE IF Request(p, s) \in DOMAIN dsCache
           THEN Clone(p, s, heap[dsCache[Request(p, s)]]) /\ UNCHANGED dsCache
           ELSE /\ dsCache' = With(dsCache, Request(p, s), Fresh(p, s))
                /\ heap' = With(Named(Fresh(p, s), ds), Copy(p, s), ds)
                /\ own' = [own EXCEPT ![p] = With(@, s, Copy(p, s))]
    /\ Answer(p, s, "done")
    /\ UNCHANGED <<environment, stage, maps, replayVars>>

FeedFails(p, s) ==
    /\ loads[p][s] = "feed" /\ (CallsMayFail \/ ctxEnded)
    /\ Answer(p, s, "error")
    /\ UNCHANGED <<environment, stage, dsCache, heap, own, maps, replayVars>>

(***************************************************************************)
(* Alignment and the end of Prepare                                        *)
(***************************************************************************)

\* alignSeries: for each bar of the primary the bar of the series before the
\* first that closes later than that bar does, 0 for none.
AlignSeries(primary, bars, s) ==
    [i \in DOMAIN primary |->
        FirstFrom(bars, primary[i] + Interval[Primary] - Interval[s] + 1) - 1]

AlignMaps(p, primary, group) == [s \in group |-> AlignSeries(primary, Bars(p, s), s)]

Fails(p) ==
    /\ stage' = [stage EXCEPT ![p] = "failed"]
    /\ UNCHANGED <<environment, loadVars, maps, replayVars>>

\* An error of one of the loads a run waits for, and all of them done.
HasError(p) ==
    \/ stage[p] = "primary" /\ loads[p][Primary] = "error"
    \/ stage[p] = "securities" /\ \E s \in Others : loads[p][s] = "error"
    \/ stage[p] = "factors" /\ \E s \in Factors : loads[p][s] = "error"

HasPrimary(p) == stage[p] = "primary" /\ loads[p][Primary] = "done"
HasSecurities(p) == stage[p] = "securities" /\ \A s \in Others : loads[p][s] = "done"

\* The first error of a load is the end of Prepare; the loads still under way
\* go on.
LoadFailed(p) == HasError(p) /\ Fails(p)

NoData(p) == HasPrimary(p) /\ Bars(p, Primary) = <<>> /\ Fails(p)

PrimaryLoaded(p) ==
    /\ HasPrimary(p) /\ Bars(p, Primary) # <<>>
    /\ Start(p, Others, "slot", "securities")
    /\ UNCHANGED <<environment, dsCache, heap, own, maps, replayVars>>

SecuritiesLoaded(p) ==
    /\ HasSecurities(p)
    /\ maps' = [maps EXCEPT ![p] = AlignMaps(p, Bars(p, Primary), Others)]
    /\ Start(p, Factors, "slot", "factors")
    /\ UNCHANGED <<environment, dsCache, heap, own, replayVars>>

AllLoaded(p) == stage[p] = "factors" /\ \A s \in Factors : loads[p][s] = "done"

Derived(p) ==
    [object \in DOMAIN heap |->
        IF \E s \in DOMAIN own[p] : own[p][s] = object
        THEN [heap[object] EXCEPT !.derived = @ \cup {p}] ELSE heap[object]]

Visible(p) ==
    LET bars == Bars(p, Primary) IN SubSeq(bars, FirstFrom(bars, From), Len(bars))
Slice(p) == <<"slice", p>>

\* Mutant: the maps of the untrimmed bars stay.
TrimKeepsMaps(p) ==
    /\ AllLoaded(p) /\ (warmup[p] > 0 => Visible(p) # <<>>)
    /\ maps' = [maps EXCEPT ![p] = AlignMaps(p, Bars(p, Primary), Others \cup Factors)]
    /\ IF warmup[p] > 0 /\ Visible(p) # Bars(p, Primary)
       THEN /\ heap' = With(Derived(p), Slice(p), [bars |-> Visible(p), derived |-> {p}])
            /\ own' = [own EXCEPT ![p][Primary] = Slice(p)]
       ELSE heap' = Derived(p) /\ UNCHANGED own
    /\ stage' = [stage EXCEPT ![p] = "replay"]
    /\ UNCHANGED <<environment, loads, dsCache, replayVars>>

\* With the factors there, indicators and the strategy's preload derive
\* columns on all data sets, and with a warmup the primary is cut to the
\* window and everything is aligned anew.
Prepared(p) ==
    /\ AllLoaded(p) /\ (warmup[p] > 0 => Visible(p) # <<>>)
    /\ LET primary == IF warmup[p] > 0 THEN Visible(p) ELSE Bars(p, Primary)
       IN  /\ maps' = [maps EXCEPT ![p] = AlignMaps(p, primary, Others \cup Factors)]
           /\ IF primary # Bars(p, Primary)
              THEN /\ heap' = With(Derived(p), Slice(p), [bars |-> primary, derived |-> {p}])
                   /\ own' = [own EXCEPT ![p][Primary] = Slice(p)]
              ELSE heap' = Derived(p) /\ UNCHANGED own
    /\ stage' = [stage EXCEPT ![p] = "replay"]
    /\ UNCHANGED <<environment, loads, dsCache, replayVars>>

\* An indicator or the preload fails, or nothing is left of the primary.
PreloadFails(p) ==
    /\ AllLoaded(p)
    /\ CallsMayFail \/ (warmup[p] > 0 /\ Visible(p) = <<>>)
    /\ stage' = [stage EXCEPT ![p] = "failed"]
    /\ heap' = Derived(p)
    /\ UNCHANGED <<environment, loads, dsCache, own, maps, replayVars>>

(***************************************************************************)
(* Replay                                                                  *)
(***************************************************************************)

\* The bar of a series an accessor and the broker's prices are taken from.
BarOf(p, s, i) == IF s = Primary THEN i ELSE maps[p][s][i]

\* A bar: the pending order is filled at the open of the bar its security is
\* at, if there is one, and the strategy, which sees all bars closed, may
\* place another.
ReplayBar(p, wanted) ==
    /\ stage[p] = "replay" /\ ~ctxEnded /\ barIndex[p] < Len(Bars(p, Primary))
    /\ LET i == barIndex[p] + 1
           placed == order[p]
           at == BarOf(p, placed.security, i)
           fills == placed # NoOrder /\ at > 0
           left == IF fills THEN NoOrder ELSE placed
       IN  /\ barIndex' = [barIndex EXCEPT ![p] = i]
           /\ fill' = IF fills
                      THEN [fill EXCEPT ![p] = [security |-> placed.security, decided |-> placed.decided,
                                                priced |-> Bars(p, placed.security)[at]]]
                      ELSE fill
           /\ order' = [order EXCEPT ![p] =
                            IF left # NoOrder \/ wanted = {} THEN left
                            ELSE [security |-> CHOOSE s \in wanted : TRUE,
                                  decided |-> Bars(p, Primary)[i] + Interval[Primary]]]
    /\ UNCHANGED <<environment, stage, loadVars, maps>>

ReplayEnds(p) ==
    /\ stage[p] = "replay" /\ (ctxEnded \/ barIndex[p] = Len(Bars(p, Primary)))
    /\ stage' = [stage EXCEPT ![p] = IF barIndex[p] = Len(Bars(p, Primary)) THEN "done" ELSE "failed"]
    /\ UNCHANGED <<environment, loadVars, maps, replayVars>>

(***************************************************************************)

BatchStops ==
    /\ BatchMayStop /\ ~ctxEnded
    /\ ctxEnded' = TRUE
    /\ UNCHANGED <<batchConfig, stage, loadVars, maps, replayVars>>

LoadStep(p, s) ==
    \/ TakeSlot(p, s) \/ GiveUp(p, s) \/ LookUp(p, s) \/ FeedFails(p, s)
    \/ \E bars \in Histories[s] : FeedAnswers(p, s, bars)

RunStep(p) ==
    \/ StartRun(p) \/ LoadFailed(p) \/ NoData(p) \/ PrimaryLoaded(p) \/ SecuritiesLoaded(p)
    \/ Prepared(p) \/ PreloadFails(p)
    \/ \E wanted \in {{}} \cup {{s} : s \in Traded} : ReplayBar(p, wanted)
    \/ ReplayEnds(p)

PrepNext ==
    \/ \E p \in ParamSets : RunStep(p) \/ \E s \in Series : LoadStep(p, s)
    \/ BatchStops

PrepSpec == PrepInit /\ [][PrepNext]_prepVars

(***************************************************************************)
(* Properties                                                              *)
(***************************************************************************)

TypePrep ==
    /\ stage \in [ParamSets -> {"queued", "primary", "securities", "factors", "replay", "done", "failed"}]
    /\ loads \in [ParamSets -> [Series -> {"none", "slot", "cache", "feed", "done", "error"}]]
    /\ Cardinality(Running) <= nWorkers

\* What a strategy sees of a series while a bar of the primary is replayed is
\* the latest bar that has closed by then, no later one and no earlier one,
\* also after the warmup was cut off: the replay begins with the first bar at
\* or after the start that was asked for.
SeesLatestConfirmed ==
    \A p \in ParamSets : stage[p] = "replay" =>
        /\ warmup[p] > 0 => From <= Bars(p, Primary)[1]
        /\ \A s \in Others \cup Factors : \A i \in DOMAIN Bars(p, Primary) : \A k \in DOMAIN Bars(p, s) :
              (k <= maps[p][s][i]) <=> (Bars(p, s)[k] + Interval[s] <= Bars(p, Primary)[i] + Interval[Primary])

\* Columns that one run derives from its parameters never show up in the data
\* of another run, nor in the cache.
RunsDoNotShare ==
    /\ \A p \in ParamSets : \A s \in DOMAIN own[p] : heap[own[p][s]].derived \subseteq {p}
    /\ \A request \in DOMAIN dsCache : heap[dsCache[request]].derived = {}

\* Runs that make the same request of a security are compared on the same data
\* of it, also when the feed answered their loads differently.  (Factors are
\* not cached, and the primary is cut when a run is prepared: neither is
\* spoken of here.)
SameRequestSameData ==
    \A p, q \in ParamSets : LoadFrom(p) = LoadFrom(q) =>
        \A s \in Others \cap DOMAIN own[p] \cap DOMAIN own[q] : Bars(p, s) = Bars(q, s)

\* What lets a load, and a run, take its next step.
LoadGoesOn(p, s) ==
    \/ HasSlot(p, s) \/ (loads[p][s] = "slot" /\ ctxEnded)
    \/ loads[p][s] \in {"cache", "feed"}

RunGoesOn(p) ==
    \/ HasTurn(p) \/ HasError(p)
    \/ HasPrimary(p) \/ HasSecurities(p) \/ AllLoaded(p)
    \/ stage[p] = "replay" /\ (ctxEnded \/ barIndex[p] <= Len(Bars(p, Primary)))

\* No run of a batch and no goroutine that loads waits for ever, for a worker's
\* turn, a slot or a result: as long as a run is not over it can go on, or one
\* of its loads can, or another run is at work; a run at work needs no other
\* one, and neither do the loads that outlive a failed run.
NobodyWaitsForEver ==
    /\ \A p \in Running : RunGoesOn(p) \/ \E s \in Series : LoadGoesOn(p, s)
    /\ \A p \in ParamSets : \A s \in Series :
          loads[p][s] \in {"slot", "cache", "feed"} => \E t \in Series : LoadGoesOn(p, t)
    /\ \A p \in ParamSets : stage[p] = "queued" => HasTurn(p) \/ Running # {}

\* README.md: orders execute at the next bar's open to prevent lookahead bias.
\* No price is from before the decision.
NoLookahead == \A p \in ParamSets : fill[p].decided <= fill[p].priced
=============================================================================
