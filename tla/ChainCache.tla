----------------------------- MODULE ChainCache -----------------------------
(***************************************************************************)
(* The cache of option chain providers shared by every backtest run        *)
(* (optionsChainProviderCache in internal/service/portfolio_backtest.go):  *)
(* at most MaxSize providers, each served for TTL, one load at a time per  *)
(* key that concurrent callers join.                                       *)
(*                                                                         *)
(* A caller reads the clock, takes the lock, and either hits, joins a load *)
(* or leads one; a leader runs the loader outside the lock, with its own   *)
(* context, and takes the lock again to publish what came of it.  A        *)
(* provider is identified by the load that made it, loads are numbered.    *)
(***************************************************************************)
EXTENDS Naturals, FiniteSets

CONSTANTS
    Callers,   \* goroutines: one backtest run or validation request each
    Keys,      \* market, asset, interval and window of a chain
    NoKey,     \* no key
    MaxSize,   \* maxSize of the cache, maxChainProviderEntries in the service
    TTL,       \* ttl of an entry
    MaxTime,   \* bound: the last instant of the clock
    MaxCalls,  \* bound: calls of GetOrLoad
    MayPanic   \* the loader may panic (the caller's goroutine recovers)

ASSUME CacheConstants ==
    /\ IsFiniteSet(Keys) /\ NoKey \notin Keys
    /\ MaxSize \in Nat \ {0}
    /\ TTL \in Nat \ {0}
    /\ MaxTime \in Nat
    /\ MaxCalls \in Nat
    /\ MayPanic \in BOOLEAN

Times == 0..MaxTime
LoadIds == 1..MaxCalls
NoLoad == 0
NoEntry == [provider |-> 0, expiresAt |-> 0, lastUsed |-> 0]
Entries == [provider : LoadIds, expiresAt : 0..(MaxTime + TTL), lastUsed : Times]
Outcomes == {"ok", "error", "canceled"}

VARIABLES
    clock,
    calls,    \* calls made so far; the loads they lead are numbered after them
    entries,  \* entries[k]: the cached provider of k, or NoEntry
    loads,    \* loads[k]: the load in progress for k, or NoLoad
    outcome,  \* what came of each load: "none", "pending" or one of Outcomes
    keyOf, began, ended,  \* of each load: its key, its leader's now, its end
    pc, key, now, load,   \* locals of each caller's GetOrLoad
    ctxDone,  \* the caller's context has been cancelled
    result, got  \* what the caller's last call returned

cacheVars == <<entries, loads>>
loadVars == <<outcome, keyOf, began, ended>>
callVars == <<pc, key, now, load, ctxDone, result, got>>
vars == <<clock, calls, cacheVars, loadVars, callVars>>

Cached == {k \in Keys : entries[k] # NoEntry}

Init ==
    /\ clock = 0 /\ calls = 0
    /\ entries = [k \in Keys |-> NoEntry]
    /\ loads = [k \in Keys |-> NoLoad]
    /\ outcome = [i \in LoadIds |-> "none"]
    /\ keyOf = [i \in LoadIds |-> NoKey]
    /\ began = [i \in LoadIds |-> 0]
    /\ ended = [i \in LoadIds |-> 0]
    /\ pc = [c \in Callers |-> "idle"]
    /\ key = [c \in Callers |-> NoKey]
    /\ now = [c \in Callers |-> 0]
    /\ load = [c \in Callers |-> NoLoad]
    /\ ctxDone = [c \in Callers |-> FALSE]
    /\ result = [c \in Callers |-> "none"]
    /\ got = [c \in Callers |-> NoLoad]

(***************************************************************************)
(* A call up to its first critical section                                 *)
(***************************************************************************)

\* now := c.now(), before the lock: the clock may move on before the caller
\* gets it.  A run whose chains could not be loaded makes no further call.
Call(c, k) ==
    /\ pc[c] = "idle" /\ result[c] \in {"none", "ok"}
    /\ calls < MaxCalls
    /\ calls' = calls + 1
    /\ pc' = [pc EXCEPT ![c] = "lookup"]
    /\ key' = [key EXCEPT ![c] = k]
    /\ now' = [now EXCEPT ![c] = clock]
    /\ load' = [load EXCEPT ![c] = calls + 1]
    /\ result' = [result EXCEPT ![c] = "none"]
    /\ got' = [got EXCEPT ![c] = NoLoad]
    /\ UNCHANGED <<clock, cacheVars, loadVars, ctxDone>>

Return(c, r, p) ==
    /\ pc' = [pc EXCEPT ![c] = "idle"]
    /\ result' = [result EXCEPT ![c] = r]
    /\ got' = [got EXCEPT ![c] = p]
    /\ key' = [key EXCEPT ![c] = IF r = "ok" THEN @ ELSE NoKey]
    /\ now' = [now EXCEPT ![c] = IF r = "ok" THEN @ ELSE 0]
    /\ load' = [load EXCEPT ![c] = NoLoad]

\* Mutant: an entry is still served at the instant it expires.
FreshAtExpiry(k, t) == entries[k] # NoEntry /\ t <= entries[k].expiresAt

Fresh(k, t) == entries[k] # NoEntry /\ t < entries[k].expiresAt

Hit(c, k) ==
    /\ pc[c] = "lookup" /\ key[c] = k /\ Fresh(k, now[c])
    /\ entries' = [entries EXCEPT ![k].lastUsed = now[c]]
    /\ Return(c, "ok", entries[k].provider)
    /\ UNCHANGED <<clock, calls, loads, loadVars, ctxDone>>

(***************************************************************************)
(* Joining a load                                                          *)
(***************************************************************************)

\* The lookup drops an expired entry before it joins or leads a load.
DropEntry(k) == entries' = [entries EXCEPT ![k] = NoEntry]

Join(c, k) ==
    /\ pc[c] = "lookup" /\ key[c] = k /\ ~Fresh(k, now[c])
    /\ loads[k] # NoLoad
    /\ DropEntry(k)
    /\ pc' = [pc EXCEPT ![c] = "waiting"]
    /\ load' = [load EXCEPT ![c] = loads[k]]
    /\ UNCHANGED <<clock, calls, loads, loadVars, key, now, ctxDone, result, got>>

\* The select of a waiter: when its context is done and the load too, Go
\* chooses either.
WaiterAnswered(c) ==
    /\ pc[c] = "waiting" /\ outcome[load[c]] \in Outcomes
    /\ IF outcome[load[c]] = "ok" THEN Return(c, "ok", load[c])
                                  ELSE Return(c, outcome[load[c]], NoLoad)
    /\ UNCHANGED <<clock, calls, cacheVars, loadVars, ctxDone>>

WaiterCanceled(c) ==
    /\ pc[c] = "waiting" /\ ctxDone[c]
    /\ Return(c, "canceled", NoLoad)
    /\ UNCHANGED <<clock, calls, cacheVars, loadVars, ctxDone>>

(***************************************************************************)
(* Leading a load                                                          *)
(***************************************************************************)

\* Mutant: the load is not registered, the next caller leads another one.
LeadUnregistered(c, k) ==
    /\ pc[c] = "lookup" /\ key[c] = k /\ ~Fresh(k, now[c])
    /\ loads[k] = NoLoad
    /\ DropEntry(k)
    /\ pc' = [pc EXCEPT ![c] = "loading"]
    /\ outcome' = [outcome EXCEPT ![load[c]] = "pending"]
    /\ keyOf' = [keyOf EXCEPT ![load[c]] = k]
    /\ began' = [began EXCEPT ![load[c]] = now[c]]
    /\ UNCHANGED <<clock, calls, loads, ended, key, now, load, ctxDone, result, got>>

Lead(c, k) ==
    /\ pc[c] = "lookup" /\ key[c] = k /\ ~Fresh(k, now[c])
    /\ loads[k] = NoLoad
    /\ DropEntry(k)
    /\ loads' = [loads EXCEPT ![k] = load[c]]
    /\ pc' = [pc EXCEPT ![c] = "loading"]
    /\ outcome' = [outcome EXCEPT ![load[c]] = "pending"]
    /\ keyOf' = [keyOf EXCEPT ![load[c]] = k]
    /\ began' = [began EXCEPT ![load[c]] = now[c]]
    /\ UNCHANGED <<clock, calls, ended, key, now, load, ctxDone, result, got>>

\* What pruneExpiredLocked leaves, by the leader's old now.
Pruned(t) == [k \in Keys |-> IF Fresh(k, t) THEN entries[k] ELSE NoEntry]

Size(es) == Cardinality({k \in Keys : es[k] # NoEntry})

\* evictOldestLocked takes one of the least recently used; the map's random
\* order decides between equals.
Oldest(es) == {k \in Keys : /\ es[k] # NoEntry
                            /\ \A j \in Keys : es[j] # NoEntry => es[k].lastUsed <= es[j].lastUsed}

Store(k, entry, t) ==
    IF Size(Pruned(t)) >= MaxSize
    THEN \E old \in Oldest(Pruned(t)) :
            entries' = [Pruned(t) EXCEPT ![old] = NoEntry, ![k] = entry]
    ELSE entries' = [Pruned(t) EXCEPT ![k] = entry]

\* Mutant: an error returns early, the load is never marked done.
LoadReturnsOnError(c, o) ==
    /\ pc[c] = "loading"
    /\ o = "canceled" => ctxDone[c]
    /\ loads' = [loads EXCEPT ![key[c]] = NoLoad]
    /\ IF o = "ok"
       THEN Store(key[c], [provider |-> load[c], expiresAt |-> now[c] + TTL, lastUsed |-> now[c]], now[c])
       ELSE UNCHANGED entries
    /\ outcome' = IF o = "ok" THEN [outcome EXCEPT ![load[c]] = o] ELSE outcome
    /\ ended' = [ended EXCEPT ![load[c]] = clock]
    /\ Return(c, o, IF o = "ok" THEN load[c] ELSE NoLoad)
    /\ UNCHANGED <<clock, calls, keyOf, began, ctxDone>>

\* The loader returns and the leader publishes what it returned: only an
\* entry that may be served is stored, every waiter gets the outcome, the
\* cancellation of the leader's own context included.  (No loader answers no
\* provider and no error, which would store nothing.)
LoadReturns(c, o) ==
    /\ pc[c] = "loading"
    /\ o = "canceled" => ctxDone[c]
    /\ loads' = [loads EXCEPT ![key[c]] = NoLoad]
    /\ IF o = "ok"
       THEN Store(key[c], [provider |-> load[c], expiresAt |-> now[c] + TTL, lastUsed |-> now[c]], now[c])
       ELSE UNCHANGED entries
    /\ outcome' = [outcome EXCEPT ![load[c]] = o]
    /\ ended' = [ended EXCEPT ![load[c]] = clock]
    /\ Return(c, o, IF o = "ok" THEN load[c] ELSE NoLoad)
    /\ UNCHANGED <<clock, calls, keyOf, began, ctxDone>>

\* A panic of the loader unwinds GetOrLoad and is recovered by executeRun:
\* the load stays registered and nobody will ever mark it done.
LoaderPanics(c) ==
    /\ MayPanic /\ pc[c] = "loading"
    /\ Return(c, "panic", NoLoad)
    /\ UNCHANGED <<clock, calls, cacheVars, loadVars, ctxDone>>

(***************************************************************************)
(* Environment                                                             *)
(***************************************************************************)

\* A run whose chains could not be loaded is over, its context matters no more.
CancelContext(c) ==
    /\ ~ctxDone[c] /\ result[c] \in {"none", "ok"}
    /\ ctxDone' = [ctxDone EXCEPT ![c] = TRUE]
    /\ UNCHANGED <<clock, calls, cacheVars, loadVars, pc, key, now, load, result, got>>

Tick ==
    /\ clock < MaxTime
    /\ clock' = clock + 1
    /\ UNCHANGED <<calls, cacheVars, loadVars, callVars>>

GetOrLoad(c) ==
    \/ \E k \in Keys : Hit(c, k) \/ Join(c, k) \/ Lead(c, k)
    \/ WaiterAnswered(c) \/ WaiterCanceled(c)
    \/ \E o \in Outcomes : LoadReturns(c, o)

Next ==
    \/ \E c \in Callers :
          \/ \E k \in Keys : Call(c, k)
          \/ GetOrLoad(c)
          \/ LoaderPanics(c)
          \/ CancelContext(c)
    \/ Tick

Spec == Init /\ [][Next]_vars

\* A goroutine inside GetOrLoad gets the lock, its query returns (ClickHouse
\* bounds it) and its select fires.  Nobody is obliged to call or to cancel.
FairSpec == Spec /\ \A c \in Callers : WF_vars(GetOrLoad(c))

(***************************************************************************)
(* Properties                                                              *)
(***************************************************************************)

TypeCache ==
    /\ clock \in Times /\ calls \in 0..MaxCalls
    /\ entries \in [Keys -> Entries \cup {NoEntry}]
    /\ loads \in [Keys -> LoadIds \cup {NoLoad}]

TypeLoads ==
    /\ outcome \in [LoadIds -> Outcomes \cup {"none", "pending"}]
    /\ keyOf \in [LoadIds -> Keys \cup {NoKey}]
    /\ began \in [LoadIds -> Times]
    /\ ended \in [LoadIds -> Times]

TypeCalls ==
    /\ pc \in [Callers -> {"idle", "lookup", "waiting", "loading"}]
    /\ key \in [Callers -> Keys \cup {NoKey}]
    /\ now \in [Callers -> Times]
    /\ load \in [Callers -> LoadIds \cup {NoLoad}]
    /\ ctxDone \in [Callers -> BOOLEAN]
    /\ result \in [Callers -> Outcomes \cup {"none", "panic"}]
    /\ got \in [Callers -> LoadIds \cup {NoLoad}]

\* Every variable keeps its type: the cache's maps, the loads and the locals
\* of the goroutines inside GetOrLoad.
TypeOK == TypeCache /\ TypeLoads /\ TypeCalls

\* However the leaders of different keys interleave, the cache never holds
\* more than maxSize providers (GetOrLoad, evictOldestLocked).
WithinCapacity == Size(entries) <= MaxSize

\* Two callers never load the same key at the same time (the loads map).
OneLoadPerKey ==
    \A c, d \in Callers :
        pc[c] = "loading" /\ pc[d] = "loading" /\ key[c] = key[d] => c = d

\* A provider a caller got is one that was successfully loaded for its key,
\* and either was still being loaded when the call began or had been loaded
\* by a query that began less than TTL before it.
ServedIsGood ==
    \A c \in Callers : result[c] = "ok" =>
        /\ outcome[got[c]] = "ok" /\ keyOf[got[c]] = key[c]
        /\ now[c] < began[got[c]] + TTL \/ now[c] <= ended[got[c]]

LoadedBy(i) == \E c \in Callers : pc[c] = "loading" /\ load[c] = i

\* The loads nobody works on any more: their loader panicked.
Orphaned(i) == outcome[i] = "pending" /\ ~LoadedBy(i)

\* A waiter's load has an outcome or somebody who works on it; only the panic
\* of a loader (recovered by executeRun, not by GetOrLoad) strands waiters.
OnlyPanicsStrand ==
    (\E i \in LoadIds : Orphaned(i)) => \E c \in Callers : result[c] = "panic"

\* Every waiter leaves: the leader publishes errors and cancellations as well
\* as providers (close(load.done)), and only when a loader panicked does a
\* waiter stay, until its own run is cancelled.
WaitersLeave ==
    \A c \in Callers :
        pc[c] = "waiting" ~> \/ pc[c] # "waiting"
                             \/ ~ctxDone[c] /\ \E d \in Callers : result[d] = "panic"
=============================================================================
