--------------------------- MODULE UniverseRebuild ---------------------------
(***************************************************************************)
(* Rebuilding a named universe (UniverseService.StartRebuild, Rebuild and  *)
(* ReplaceMembers of internal/service/universe.go, with the source pool of *)
(* turnover_intersection_pool.go).  A universe is a set of intervals of    *)
(* membership; a rebuild derives its window of days, fills the pool of     *)
(* daily tops, compresses the pool's days into intervals and replaces the  *)
(* window's.  Requests run in the background, several at once; only the    *)
(* replacement is under the universe's lock.  Days are trading days, and   *)
(* one universe stands for all: they share nothing but the pool.           *)
(***************************************************************************)
EXTENDS Integers, FiniteSets
LOCAL INSTANCE FiniteSetsExt

CONSTANTS
    Rebuilds,    \* rebuilds that can be at work at once
    NoRebuild,
    Symbols,
    Lookbacks,   \* normalizeUniverseLookbacks of the requests
    LastDay,     \* bound: the last day with bars
    BarsMaySay,  \* what the bars may say: [Lookbacks -> [Days -> [Symbols -> score]]]
    MaxIntervals,\* maxUniverseIntervalMembers: rows a query of the universe returns
    MaxRebuilds, \* bound: requests
    MayBreak     \* calls may fail and the server may be killed

Days == 1 .. LastDay
RebuildStart == 1
OutOfTop == 0  \* the score of a symbol that is not among a day's top

ASSUME UniverseConstants ==
    /\ LastDay \in Nat \ {0} /\ MaxRebuilds \in Nat /\ MaxIntervals \in Nat \ {0} /\ MayBreak \in BOOLEAN
    /\ NoRebuild \notin Rebuilds
    /\ IsFiniteSet(Lookbacks) /\ Lookbacks \subseteq Nat
    /\ BarsMaySay \subseteq [Lookbacks -> [Days -> [Symbols -> Nat]]]

\* What a request asks: a full rebuild, a rebuild of the source, no writing,
\* members of its own (preset_symbols, provider_holdings).
RebuildRequests == [force : BOOLEAN, source : BOOLEAN, dry : BOOLEAN, static : BOOLEAN]

Row == [symbol : Symbols, from : Days, to : 2 .. LastDay + 1, score : Nat]

VARIABLES
    bars,       \* what the bars say now
    reference,  \* the latest day of SPY's stock and option bars; 0: none
    pool,       \* rows of turnover_intersection_pool_daily
    universe,   \* rows of universe_membership
    rebuilder,  \* holder of the universe's lock
    stage,      \* where each rebuild is
    request,    \* what it was asked
    window,     \* [from, to) of each
    todo,       \* lookbacks whose pool it has not ensured
    fetched,    \* pool rows it has queried and not inserted
    members,    \* rows it has computed
    remainders, \* rows clipped from those it replaces
    rebuilds,   \* requests accepted
    \* History
    told,       \* members of each day, as the last rebuild of that day said
    covered,    \* days that a rebuild has written
    lost        \* days a replacement that broke off, or did not see all, has left short of rows

universeVars == <<bars, reference, pool, universe, rebuilder, stage, request, window, todo,
                  fetched, members, remainders, rebuilds, told, covered, lost>>
sources == <<bars, reference>>
history == <<told, covered, lost>>
work == <<request, window, todo, fetched, members, remainders>>

NoWindow == [from |-> 1, to |-> 1]
NoRequest == [force |-> FALSE, source |-> FALSE, dry |-> FALSE, static |-> FALSE]

DaysOf(w) == w.from .. w.to - 1
DaysIn(rows) == UNION {DaysOf(row) : row \in rows}
MembersOn(rows, d) == {row.symbol : row \in {x \in rows : d \in DaysOf(x)}}

UniverseInit ==
    /\ bars \in BarsMaySay
    /\ reference = 0
    /\ pool = {} /\ universe = {}
    /\ rebuilder = NoRebuild
    /\ stage = [r \in Rebuilds |-> "idle"]
    /\ request = [r \in Rebuilds |-> NoRequest]
    /\ window = [r \in Rebuilds |-> NoWindow]
    /\ todo = [r \in Rebuilds |-> {}]
    /\ fetched = [r \in Rebuilds |-> {}]
    /\ members = [r \in Rebuilds |-> {}]
    /\ remainders = [r \in Rebuilds |-> {}]
    /\ rebuilds = 0
    /\ told = [d \in Days |-> {}] /\ covered = {} /\ lost = {}

\* New bars arrive, SPY's with them or not.
BarsArrive ==
    /\ bars' \in BarsMaySay
    /\ reference' \in reference .. LastDay
    /\ UNCHANGED <<pool, universe, rebuilder, stage, work, rebuilds, history>>

\* Rebuild r goes on to stage s, or is over and gone from rebuildJobs.
GoesOn(r, s) == stage' = [stage EXCEPT ![r] = s]

IsOver(r) ==
    /\ GoesOn(r, "idle")
    /\ request' = [request EXCEPT ![r] = NoRequest]
    /\ window' = [window EXCEPT ![r] = NoWindow]
    /\ todo' = [todo EXCEPT ![r] = {}]
    /\ fetched' = [fetched EXCEPT ![r] = {}]
    /\ members' = [members EXCEPT ![r] = {}]
    /\ remainders' = [remainders EXCEPT ![r] = {}]

\* StartRebuild: a request like one at work is ignored.
StartRebuild(r, asked) ==
    /\ stage[r] = "idle" /\ rebuilds < MaxRebuilds
    /\ \A other \in Rebuilds : stage[other] # "idle" => request[other] # asked
    /\ GoesOn(r, "range")
    /\ request' = [request EXCEPT ![r] = asked]
    /\ rebuilds' = rebuilds + 1
    /\ UNCHANGED <<sources, pool, universe, rebuilder, window, todo, fetched, members, remainders, history>>

\* universeReferenceDataWindow
ReadReference(r) ==
    /\ stage[r] = "range" /\ reference # 0
    /\ window' = [window EXCEPT ![r] = [from |-> RebuildStart, to |-> reference + 1]]
    /\ GoesOn(r, "resume")
    /\ UNCHANGED <<sources, pool, universe, rebuilder, request, todo, fetched, members, remainders, rebuilds, history>>

NoReference(r) ==
    /\ stage[r] = "range" /\ reference = 0
    /\ IsOver(r)
    /\ UNCHANGED <<sources, pool, universe, rebuilder, rebuilds, history>>

\* latestUniverseValidTo; the start when there is no row.
LatestValidTo == Max({row.to : row \in universe} \cup {RebuildStart})

\* Mutant: valid_to is taken for the last day covered.
ResumeAfter(r) == IF request[r].force THEN RebuildStart ELSE LatestValidTo + 1

\* selectUniverseRebuildWindow
ResumeFrom(r) == IF request[r].force THEN RebuildStart ELSE LatestValidTo

Resume(r) ==
    /\ stage[r] = "resume" /\ ResumeFrom(r) < window[r].to
    /\ window' = [window EXCEPT ![r].from = ResumeFrom(r)]
    /\ IF request[r].static
       THEN todo' = todo /\ GoesOn(r, "preset")
       ELSE todo' = [todo EXCEPT ![r] = Lookbacks] /\ GoesOn(r, "ensure")
    /\ UNCHANGED <<sources, pool, universe, rebuilder, request, fetched, members, remainders, rebuilds, history>>

NoWork(r) ==
    /\ stage[r] = "resume" /\ ResumeFrom(r) >= window[r].to
    /\ IsOver(r)
    /\ UNCHANGED <<sources, pool, universe, rebuilder, rebuilds, history>>

(***************************************************************************)
(* ensureTurnoverIntersectionPool: one lookback after the other.           *)
(***************************************************************************)

\* The lookback r is at.
Lookback(r) == Min(todo[r])

Ensured(r) ==
    /\ todo' = [todo EXCEPT ![r] = @ \ {Lookback(r)}]
    /\ GoesOn(r, IF Cardinality(todo[r]) = 1 THEN "query" ELSE "ensure")

PoolDays(l) == {row.day : row \in {x \in pool : x.lookback = l}}

\* latestTurnoverIntersectionPoolDate: what is missing begins after it.
FillFrom(r) ==
    IF request[r].source \/ PoolDays(Lookback(r)) = {} THEN window[r].from
    ELSE Max({Max(PoolDays(Lookback(r))) + 1, window[r].from})

DeletePoolRange(r) ==
    /\ stage[r] = "ensure" /\ request[r].source
    /\ pool' = {row \in pool : row.lookback # Lookback(r) \/ row.day \notin DaysOf(window[r])}
    /\ GoesOn(r, "materialize")
    /\ UNCHANGED <<sources, universe, rebuilder, work, rebuilds, history>>

AtSource(r) == stage[r] = "materialize" \/ (stage[r] = "ensure" /\ ~request[r].source)

AlreadyCovered(r) ==
    /\ AtSource(r) /\ FillFrom(r) >= window[r].to
    /\ Ensured(r)
    /\ UNCHANGED <<sources, pool, universe, rebuilder, request, window, fetched, members, remainders, rebuilds, history>>

\* What the bars now say of some days: a row for each symbol of the top.
Tops(l, days) ==
    {[lookback |-> l, day |-> x[1], symbol |-> x[2], score |-> bars[l][x[1]][x[2]]] :
        x \in {y \in days \X Symbols : bars[l][y[1]][y[2]] # OutOfTop}}

\* materializeTurnoverIntersectionPoolRange: the tops are queried, then inserted.
Materialize(r) ==
    /\ AtSource(r) /\ FillFrom(r) < window[r].to
    /\ fetched' = [fetched EXCEPT ![r] = Tops(Lookback(r), FillFrom(r) .. window[r].to - 1)]
    /\ GoesOn(r, "fill")
    /\ UNCHANGED <<sources, pool, universe, rebuilder, request, window, todo, members, remainders, rebuilds, history>>

InsertPoolRows(r) ==
    /\ stage[r] = "fill"
    /\ pool' = pool \cup fetched[r]
    /\ fetched' = [fetched EXCEPT ![r] = {}]
    /\ Ensured(r)
    /\ UNCHANGED <<sources, universe, rebuilder, request, window, members, remainders, rebuilds, history>>

(***************************************************************************)
(* queryCompressedTurnoverIntersectionMembers: a symbol's score of a day   *)
(* is the best of the lookbacks'; its days of one score make one interval, *)
(* ended by a day of another score or without it (universeMembership-      *)
(* Compressor).  Days of the window without any row are skipped, so that   *)
(* Finish and the day after them extend what was open before.              *)
(***************************************************************************)

PoolRows(r) == {row \in pool : row.lookback \in Lookbacks /\ row.day \in DaysOf(window[r])}

Compressed(r) ==
    LET listed == {row.day : row \in PoolRows(r)}
        ranked == {<<row.symbol, row.day>> : row \in PoolRows(r)}
        score(s, d) == Max({OutOfTop} \cup {row.score : row \in {x \in PoolRows(r) : x.symbol = s /\ x.day = d}})
        same(s, d, f) == score(s, d) = score(s, f)
        begins(s, d) == \A e \in {x \in listed : x < d} : ~same(s, e, d) \/ \E f \in listed : e < f /\ f < d /\ ~same(s, f, d)
        ends(s, d) == Min({e \in listed : e > d /\ ~same(s, d, e)} \cup {window[r].to})
    IN  {[symbol |-> x[1], from |-> x[2], to |-> ends(x[1], x[2]), score |-> score(x[1], x[2])] :
            x \in {y \in ranked : begins(y[1], y[2])}}

\* What a rebuild has computed is written, unless it is a dry run.
Computed(r, rows) ==
    IF request[r].dry THEN IsOver(r)
    ELSE /\ members' = [members EXCEPT ![r] = rows]
         /\ GoesOn(r, "replace")
         /\ UNCHANGED <<request, window, todo, fetched, remainders>>

QueryMembers(r) ==
    /\ stage[r] = "query"
    /\ Computed(r, Compressed(r))
    /\ UNCHANGED <<sources, pool, universe, rebuilder, rebuilds, history>>

\* rebuildStaticMembers: one interval for each symbol, inside the window.
PresetMembers(r, symbols, from, to) ==
    /\ stage[r] = "preset" /\ symbols # {}
    /\ from \in DaysOf(window[r]) /\ to \in from + 1 .. window[r].to
    /\ Computed(r, {[symbol |-> s, from |-> from, to |-> to, score |-> OutOfTop] : s \in symbols})
    /\ UNCHANGED <<sources, pool, universe, rebuilder, rebuilds, history>>

(***************************************************************************)
(* ReplaceMembers, under the universe's lock                               *)
(***************************************************************************)

Overlapping(w) == {row \in universe : row.from < w.to /\ row.to > w.from}

\* Mutant: what reaches past the window is not kept.
HeadsOf(rows, w) == {[row EXCEPT !.to = w.from] : row \in {x \in rows : x.from < w.from}}

\* clipUniverseMemberRemainders
RemaindersOf(rows, w) ==
    {[row EXCEPT !.to = w.from] : row \in {x \in rows : x.from < w.from}}
    \cup {[row EXCEPT !.from = w.to] : row \in {x \in rows : x.to > w.to}}

\* What MemberIntervals may return of the rows asked for: the first by
\* valid_from, those of one day in the order of their ranks.
FirstRows(rows) ==
    {first \in SUBSET rows :
        /\ Cardinality(first) = Min({MaxIntervals, Cardinality(rows)})
        /\ \A x \in first, y \in rows \ first : x.from <= y.from}

\* Mutant: replacements do not wait for each other.
FetchUnlocked(r) ==
    /\ stage[r] = "replace"
    /\ rebuilder' = r
    /\ \E first \in FirstRows(Overlapping(window[r])) :
           remainders' = [remainders EXCEPT ![r] = RemaindersOf(first, window[r])]
    /\ GoesOn(r, "delete")
    /\ UNCHANGED <<sources, pool, universe, request, window, todo, fetched, members, rebuilds, history>>

FetchOverlapping(r) ==
    /\ stage[r] = "replace" /\ rebuilder = NoRebuild
    /\ rebuilder' = r
    /\ \E first \in FirstRows(Overlapping(window[r])) :
           remainders' = [remainders EXCEPT ![r] = RemaindersOf(first, window[r])]
    /\ GoesOn(r, "delete")
    /\ UNCHANGED <<sources, pool, universe, request, window, todo, fetched, members, rebuilds, history>>

\* The days outside the window of rows that go with the delete unseen.
Unseen(r) == DaysIn(RemaindersOf(Overlapping(window[r]), window[r]) \ remainders[r])

DeleteExisting(r) ==
    /\ stage[r] = "delete"
    /\ universe' = universe \ Overlapping(window[r])
    /\ lost' = lost \cup Unseen(r)
    /\ GoesOn(r, "insert")
    /\ UNCHANGED <<sources, pool, rebuilder, work, rebuilds, told, covered>>

InsertMembers(r) ==
    /\ stage[r] = "insert"
    /\ universe' = universe \cup members[r] \cup remainders[r]
    /\ rebuilder' = NoRebuild
    /\ told' = [d \in Days |-> IF d \in DaysOf(window[r]) THEN MembersOn(members[r], d) ELSE told[d]]
    /\ covered' = covered \cup DaysOf(window[r])
    /\ lost' = lost \ DaysOf(window[r])
    /\ IsOver(r)
    /\ UNCHANGED <<sources, pool, rebuilds>>

\* The days that have no rows when r breaks off after its delete.
Dropped(r) == DaysOf(window[r]) \cup DaysIn(remainders[r])

\* A call of r fails, applied or not; a failed update of the run's row after
\* the insert finds the members written.
CallFails(r) ==
    /\ MayBreak /\ stage[r] \notin {"idle", "delete", "insert"}
    /\ IsOver(r)
    /\ pool' \in {pool, pool \cup fetched[r]}
    /\ UNCHANGED <<sources, universe, rebuilder, rebuilds, history>>

DeleteFails(r, applied) ==
    /\ MayBreak /\ stage[r] = "delete"
    /\ universe' = IF applied THEN universe \ Overlapping(window[r]) ELSE universe
    /\ lost' = IF applied THEN lost \cup Dropped(r) \cup Unseen(r) ELSE lost
    /\ rebuilder' = NoRebuild
    /\ IsOver(r)
    /\ UNCHANGED <<sources, pool, rebuilds, told, covered>>

InsertFails(r) ==
    /\ MayBreak /\ stage[r] = "insert"
    /\ lost' = lost \cup Dropped(r)
    /\ rebuilder' = NoRebuild
    /\ IsOver(r)
    /\ UNCHANGED <<sources, pool, universe, rebuilds, told, covered>>

\* The server is killed: the rebuilds are gone, what they wrote stays.
KillServer ==
    /\ MayBreak /\ \E r \in Rebuilds : stage[r] # "idle"
    /\ stage' = [r \in Rebuilds |-> "idle"]
    /\ request' = [r \in Rebuilds |-> NoRequest]
    /\ window' = [r \in Rebuilds |-> NoWindow]
    /\ todo' = [r \in Rebuilds |-> {}]
    /\ fetched' = [r \in Rebuilds |-> {}]
    /\ members' = [r \in Rebuilds |-> {}]
    /\ remainders' = [r \in Rebuilds |-> {}]
    /\ rebuilder' = NoRebuild
    /\ lost' = lost \cup UNION {Dropped(r) : r \in {x \in Rebuilds : stage[x] = "insert"}}
    /\ UNCHANGED <<sources, pool, universe, rebuilds, told, covered>>

UniverseNext ==
    \/ BarsArrive \/ KillServer
    \/ \E r \in Rebuilds :
        \/ \E asked \in RebuildRequests : StartRebuild(r, asked)
        \/ ReadReference(r) \/ NoReference(r) \/ Resume(r) \/ NoWork(r)
        \/ DeletePoolRange(r) \/ AlreadyCovered(r) \/ Materialize(r) \/ InsertPoolRows(r)
        \/ QueryMembers(r)
        \/ \E symbols \in SUBSET Symbols, from \in Days, to \in 2 .. LastDay + 1 : PresetMembers(r, symbols, from, to)
        \/ FetchOverlapping(r) \/ DeleteExisting(r) \/ InsertMembers(r)
        \/ CallFails(r) \/ InsertFails(r) \/ \E applied \in BOOLEAN : DeleteFails(r, applied)

UniverseSpec == UniverseInit /\ [][UniverseNext]_universeVars

(***************************************************************************)
(* Properties                                                              *)
(***************************************************************************)

\* Between replacements, every day's members are those the last rebuild of
\* that day computed, each of them in one interval: a replacement neither
\* takes nor adds anything outside its window, whichever rebuilds overlap,
\* and only one that broke off, or found more rows than the query returns,
\* leaves days without their rows: those of the rows it did not put back.
WindowsOnly ==
    \A d \in Days \ lost : (\A r \in Rebuilds : stage[r] # "insert") =>
        /\ MembersOn(universe, d) = told[d]
        /\ \A x, y \in universe : d \in DaysOf(x) \cap DaysOf(y) /\ x.symbol = y.symbol => x = y

\* A rebuild that resumes after the latest valid_to leaves no earlier day
\* unwritten.
ResumeSkipsNothing ==
    \A d \in RebuildStart .. LatestValidTo - 1 : d \in covered
=============================================================================
