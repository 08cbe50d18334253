-------------------------- MODULE ChainCache_proofs --------------------------
(***************************************************************************)
(* Proofs about ChainCache for any callers, any finite set of keys and any *)
(* capacity and time to live.                                              *)
(***************************************************************************)
EXTENDS ChainCache, FiniteSetTheorems, TLAPS

(***************************************************************************)
(* Types.  A caller that is inside GetOrLoad has a key and a number.       *)
(***************************************************************************)

InCall == \A c \in Callers : pc[c] # "idle" => key[c] \in Keys /\ load[c] \in LoadIds

TypeInv == TypeOK /\ InCall

LEMMA ReturnType ==
    ASSUME TypeCalls, InCall, NEW c \in Callers, NEW p \in LoadIds \cup {NoLoad},
           NEW r \in Outcomes \cup {"panic"}, Return(c, r, p), UNCHANGED ctxDone
    PROVE  TypeCalls' /\ InCall'
<1>1. TypeCalls'
  BY CacheConstants DEF TypeCalls, Return, Times, NoLoad
<1>2. InCall'
  BY DEF TypeCalls, InCall, Return
<1>3. QED
  BY <1>1, <1>2

\* Whatever GetOrLoad stores, the cache keeps its type.
LEMMA StoreType ==
    ASSUME TypeCache, NEW k \in Keys, NEW entry \in Entries, NEW t \in Times, Store(k, entry, t)
    PROVE  entries' \in [Keys -> Entries \cup {NoEntry}]
  BY DEF TypeCache, Store, Pruned

LEMMA TypeStep == ASSUME TypeInv, [Next]_vars PROVE TypeInv'
<1>t. TypeCache /\ TypeLoads /\ TypeCalls /\ InCall
  BY DEF TypeInv, TypeOK
<1>n. /\ MaxCalls \in Nat /\ MaxTime \in Nat /\ TTL \in Nat /\ LoadIds = 1..MaxCalls
      /\ Times = 0..MaxTime /\ NoLoad = 0
  BY CacheConstants DEF LoadIds, Times, NoLoad
<1>1. ASSUME NEW c \in Callers, NEW k \in Keys, Call(c, k) PROVE TypeInv'
  <2>1. TypeCache' /\ TypeLoads'
    BY <1>1, <1>t, <1>n DEF Call, TypeCache, TypeLoads, cacheVars, loadVars
  <2>2. TypeCalls'
    BY <1>1, <1>t, <1>n DEF Call, TypeCache, TypeCalls
  <2>3. InCall'
    BY <1>1, <1>t, <1>n DEF Call, TypeCache, TypeCalls, InCall
  <2>4. QED
    BY <2>1, <2>2, <2>3 DEF TypeInv, TypeOK
<1>2. ASSUME NEW c \in Callers, NEW k \in Keys, Hit(c, k) PROVE TypeInv'
  <2>e. entries[k] \in Entries /\ now[c] \in Times
    BY <1>2, <1>t DEF Hit, Fresh, TypeCache, TypeCalls
  <2>p. entries[k].provider \in LoadIds /\ [entries[k] EXCEPT !.lastUsed = now[c]] \in Entries
    BY <2>e DEF Entries
  <2>1. TypeCache'
    BY <1>2, <1>t, <2>p DEF Hit, TypeCache
  <2>2. TypeLoads'
    BY <1>2, <1>t DEF Hit, TypeLoads, loadVars
  <2>3. TypeCalls' /\ InCall'
    BY <1>2, <1>t, <2>p, ReturnType DEF Hit, Outcomes
  <2>4. QED
    BY <2>1, <2>2, <2>3 DEF TypeInv, TypeOK
<1>3. ASSUME NEW c \in Callers, NEW k \in Keys, Join(c, k) PROVE TypeInv'
  <2>1. TypeCache' /\ TypeLoads'
    BY <1>3, <1>t DEF Join, DropEntry, TypeCache, TypeLoads, loadVars
  <2>2. TypeCalls' /\ InCall'
    BY <1>3, <1>t DEF Join, TypeCache, TypeCalls, InCall
  <2>3. QED
    BY <2>1, <2>2 DEF TypeInv, TypeOK
<1>4. ASSUME NEW c \in Callers, NEW k \in Keys, Lead(c, k) PROVE TypeInv'
  <2>1. TypeCache'
    BY <1>4, <1>t DEF Lead, DropEntry, TypeCache, TypeCalls, InCall
  <2>2. TypeLoads'
    BY <1>4, <1>t DEF Lead, TypeLoads, TypeCalls, InCall
  <2>3. TypeCalls' /\ InCall'
    BY <1>4, <1>t DEF Lead, TypeCalls, InCall
  <2>4. QED
    BY <2>1, <2>2, <2>3 DEF TypeInv, TypeOK
<1>5. ASSUME NEW c \in Callers, WaiterAnswered(c) PROVE TypeInv'
  <2>1. TypeCache' /\ TypeLoads'
    BY <1>5, <1>t DEF WaiterAnswered, TypeCache, TypeLoads, cacheVars, loadVars
  <2>2. load[c] \in LoadIds /\ outcome[load[c]] \in Outcomes
    BY <1>5, <1>t DEF WaiterAnswered, InCall
  <2>3. TypeCalls' /\ InCall'
    BY <1>5, <1>t, <2>2, ReturnType DEF WaiterAnswered, Outcomes
  <2>4. QED
    BY <2>1, <2>3 DEF TypeInv, TypeOK
<1>6. ASSUME NEW c \in Callers, WaiterCanceled(c) PROVE TypeInv'
  <2>1. TypeCache' /\ TypeLoads'
    BY <1>6, <1>t DEF WaiterCanceled, TypeCache, TypeLoads, cacheVars, loadVars
  <2>2. TypeCalls' /\ InCall'
    BY <1>6, <1>t, ReturnType DEF WaiterCanceled, Outcomes
  <2>3. QED
    BY <2>1, <2>2 DEF TypeInv, TypeOK
<1>7. ASSUME NEW c \in Callers, NEW o \in Outcomes, LoadReturns(c, o) PROVE TypeInv'
  <2>1. key[c] \in Keys /\ load[c] \in LoadIds /\ now[c] \in Times
    BY <1>7, <1>t DEF LoadReturns, InCall, TypeCalls
  <2>2. [provider |-> load[c], expiresAt |-> now[c] + TTL, lastUsed |-> now[c]] \in Entries
    BY <2>1, <1>n DEF Entries
  <2>3. entries' \in [Keys -> Entries \cup {NoEntry}]
    BY <1>7, <1>t, <2>1, <2>2, StoreType DEF LoadReturns, TypeCache
  <2>4. TypeCache'
    BY <1>7, <1>t, <2>1, <2>3 DEF LoadReturns, TypeCache
  <2>5. TypeLoads'
    BY <1>7, <1>t, <2>1 DEF LoadReturns, TypeLoads, TypeCache
  <2>6. TypeCalls' /\ InCall'
    BY <1>7, <1>t, <2>1, ReturnType DEF LoadReturns, Outcomes
  <2>7. QED
    BY <2>4, <2>5, <2>6 DEF TypeInv, TypeOK
<1>8. ASSUME NEW c \in Callers, LoaderPanics(c) PROVE TypeInv'
  <2>1. TypeCache' /\ TypeLoads'
    BY <1>8, <1>t DEF LoaderPanics, TypeCache, TypeLoads, cacheVars, loadVars
  <2>2. TypeCalls' /\ InCall'
    BY <1>8, <1>t, ReturnType DEF LoaderPanics
  <2>3. QED
    BY <2>1, <2>2 DEF TypeInv, TypeOK
<1>9. ASSUME NEW c \in Callers, CancelContext(c) PROVE TypeInv'
  BY <1>9, <1>t DEF CancelContext, TypeInv, TypeOK, TypeCache, TypeLoads, TypeCalls, InCall,
                    cacheVars, loadVars
<1>10. CASE Tick
  BY <1>10, <1>t, <1>n DEF Tick, TypeInv, TypeOK, TypeCache, TypeLoads, TypeCalls, InCall,
                    cacheVars, loadVars, callVars
<1>11. CASE UNCHANGED vars
  BY <1>11, <1>t DEF vars, TypeInv, TypeOK, TypeCache, TypeLoads, TypeCalls, InCall,
                    cacheVars, loadVars, callVars
<1>12. QED
  BY <1>1, <1>2, <1>3, <1>4, <1>5, <1>6, <1>7, <1>8, <1>9, <1>10, <1>11 DEF Next, GetOrLoad

LEMMA TypeInit == ASSUME Init PROVE TypeInv
<1>1. 0 \in Times /\ 0 \in 0..MaxCalls
  BY CacheConstants DEF Times
<1>2. QED
  BY <1>1 DEF Init, TypeInv, TypeOK, TypeCache, TypeLoads, TypeCalls, InCall, NoLoad

\* Type correctness of the cache, its loads and its callers, for every
\* instance of the constants (the whole of GetOrLoad).
THEOREM TypeCorrect == Spec => []TypeOK
<1>1. TypeInv /\ [Next]_vars => TypeInv'
  BY TypeStep
<1>2. TypeInv => TypeOK
  BY DEF TypeInv
<1>3. QED
  BY <1>1, <1>2, TypeInit, PTL DEF Spec

(***************************************************************************)
(* One load per key.  Loads are numbered apart, a leader's load is the one *)
(* registered for its key, and a key with a load has no entry.             *)
(***************************************************************************)

Inside(c) == pc[c] \in {"lookup", "loading"}

Numbered ==
    /\ \A i \in LoadIds : i > calls => outcome[i] = "none"
    /\ \A c \in Callers : Inside(c) => load[c] <= calls
    /\ \A c, d \in Callers : Inside(c) /\ Inside(d) /\ load[c] = load[d] => c = d
    /\ \A c \in Callers : pc[c] = "lookup" => outcome[load[c]] = "none"

Registered ==
    /\ \A c \in Callers : pc[c] = "loading" =>
          /\ loads[key[c]] = load[c]
          /\ began[load[c]] = now[c]
    /\ \A k \in Keys : loads[k] # NoLoad =>
          /\ outcome[loads[k]] = "pending"
          /\ keyOf[loads[k]] = k
          /\ entries[k] = NoEntry

FlightInv == Numbered /\ Registered

LEMMA FlightInit == ASSUME Init PROVE FlightInv
  BY DEF Init, FlightInv, Numbered, Registered, Inside, NoLoad

LEMMA FlightStep == ASSUME TypeInv, FlightInv, [Next]_vars PROVE FlightInv'
<1>t. TypeCache /\ TypeLoads /\ TypeCalls /\ InCall /\ Numbered /\ Registered
  BY DEF TypeInv, TypeOK, FlightInv
<1>n. MaxCalls \in Nat /\ calls \in 0..MaxCalls /\ LoadIds = 1..MaxCalls /\ NoLoad = 0
  BY <1>t, CacheConstants DEF LoadIds, NoLoad, TypeCache
<1>1. ASSUME NEW c \in Callers, NEW k \in Keys, Call(c, k) PROVE FlightInv'
  <2>1. Numbered'
    BY <1>1, <1>t, <1>n DEF Call, Numbered, Inside, TypeCalls, loadVars
  <2>2. Registered'
    BY <1>1, <1>t DEF Call, Registered, TypeCalls, cacheVars, loadVars
  <2>3. QED
    BY <2>1, <2>2 DEF FlightInv
<1>2. ASSUME NEW c \in Callers, NEW k \in Keys, Hit(c, k) PROVE FlightInv'
  <2>1. Numbered'
    BY <1>2, <1>t DEF Hit, Return, Numbered, Inside, TypeCalls, loadVars
  <2>2. loads[k] = NoLoad
    BY <1>2, <1>t DEF Hit, Fresh, Registered
  <2>3. Registered'
    BY <1>2, <1>t, <2>2 DEF Hit, Return, Registered, TypeCalls, TypeCache, loadVars
  <2>4. QED
    BY <2>1, <2>3 DEF FlightInv
<1>3. ASSUME NEW c \in Callers, NEW k \in Keys, Join(c, k) PROVE FlightInv'
  <2>1. Numbered'
    BY <1>3, <1>t DEF Join, Numbered, Inside, TypeCalls, loadVars
  <2>2. Registered'
    BY <1>3, <1>t DEF Join, DropEntry, Registered, TypeCalls, TypeCache, loadVars
  <2>3. QED
    BY <2>1, <2>2 DEF FlightInv
<1>4. ASSUME NEW c \in Callers, NEW k \in Keys, Lead(c, k) PROVE FlightInv'
  <2>0. load[c] \in LoadIds /\ load[c] <= calls /\ outcome[load[c]] = "none"
    BY <1>4, <1>t DEF Lead, Numbered, Inside, InCall
  <2>1. Numbered'
    BY <1>4, <1>t, <1>n, <2>0 DEF Lead, Numbered, Inside, TypeCalls, TypeLoads, InCall
  <2>2. ASSUME NEW d \in Callers, pc'[d] = "loading"
        PROVE  loads'[key'[d]] = load'[d] /\ began'[load'[d]] = now'[d]
    <3>1. CASE d = c
      BY <1>4, <1>t, <2>0, <3>1 DEF Lead, TypeCache, TypeLoads
    <3>2. CASE d # c
      <4>1. pc[d] = "loading" /\ load[d] \in LoadIds /\ key[d] \in Keys
        BY <1>4, <1>t, <2>2, <3>2 DEF Lead, TypeCalls, InCall
      <4>2. load[d] # load[c]
        BY <1>4, <1>t, <3>2, <4>1 DEF Lead, Numbered, Inside
      <4>3. key[d] # k
        BY <1>4, <1>t, <1>n, <4>1 DEF Lead, Registered
      <4>4. QED
        BY <1>4, <1>t, <4>1, <4>2, <4>3 DEF Lead, Registered, TypeCache, TypeLoads
    <3>3. QED
      BY <3>1, <3>2
  <2>3. ASSUME NEW j \in Keys, loads'[j] # NoLoad
        PROVE  outcome'[loads'[j]] = "pending" /\ keyOf'[loads'[j]] = j /\ entries'[j] = NoEntry
    <3>1. CASE j = k
      BY <1>4, <1>t, <2>0, <3>1 DEF Lead, DropEntry, TypeCache, TypeLoads
    <3>2. CASE j # k
      <4>1. loads[j] # NoLoad /\ loads[j] \in LoadIds /\ loads'[j] = loads[j]
        BY <1>4, <1>t, <2>3, <3>2 DEF Lead, TypeCache
      <4>2. loads[j] # load[c]
        BY <1>t, <2>0, <4>1 DEF Registered
      <4>3. QED
        BY <1>4, <1>t, <3>2, <4>1, <4>2 DEF Lead, DropEntry, Registered, TypeCache, TypeLoads
    <3>3. QED
      BY <3>1, <3>2
  <2>4. Registered'
    BY <2>2, <2>3 DEF Registered
  <2>5. QED
    BY <2>1, <2>4 DEF FlightInv
<1>5. ASSUME NEW c \in Callers, NEW r, NEW p, pc[c] # "loading", Return(c, r, p),
             UNCHANGED <<calls, cacheVars, loadVars>>
      PROVE  FlightInv'
  BY <1>5, <1>t DEF Return, FlightInv, Numbered, Registered, Inside, TypeCalls, cacheVars, loadVars
<1>6. ASSUME NEW c \in Callers, NEW o \in Outcomes, LoadReturns(c, o) PROVE FlightInv'
  <2>0. /\ load[c] \in LoadIds /\ load[c] <= calls /\ key[c] \in Keys
        /\ loads[key[c]] = load[c]
    BY <1>6, <1>t DEF LoadReturns, Numbered, Registered, Inside, InCall
  <2>1. Numbered'
    BY <1>6, <1>t, <1>n, <2>0 DEF LoadReturns, Return, Numbered, Inside, TypeCalls, TypeLoads, InCall
  <2>2. ASSUME NEW d \in Callers, pc'[d] = "loading"
        PROVE  loads'[key'[d]] = load'[d] /\ began'[load'[d]] = now'[d]
    <3>1. d # c /\ pc[d] = "loading" /\ load[d] \in LoadIds /\ key[d] \in Keys
      BY <1>6, <1>t, <2>2 DEF LoadReturns, Return, TypeCalls, InCall
    <3>2. load[d] # load[c]
      BY <1>6, <1>t, <3>1 DEF LoadReturns, Numbered, Inside
    <3>3. key[d] # key[c]
      BY <1>t, <2>0, <3>1, <3>2 DEF Registered
    <3>4. QED
      BY <1>6, <1>t, <3>1, <3>3 DEF LoadReturns, Return, Registered, TypeCache, TypeCalls
  <2>3. ASSUME NEW j \in Keys, loads'[j] # NoLoad
        PROVE  outcome'[loads'[j]] = "pending" /\ keyOf'[loads'[j]] = j /\ entries'[j] = NoEntry
    <3>1. j # key[c] /\ loads'[j] = loads[j] /\ loads[j] # NoLoad /\ loads[j] \in LoadIds
      BY <1>6, <1>t, <2>0, <2>3 DEF LoadReturns, TypeCache
    <3>2. loads[j] # load[c]
      BY <1>t, <1>n, <2>0, <3>1 DEF Registered
    <3>3. entries[j] = NoEntry
      BY <1>t, <3>1 DEF Registered
    <3>4. entries'[j] = NoEntry
      BY <1>6, <1>t, <2>0, <3>1, <3>3 DEF LoadReturns, Store, Pruned, TypeCache
    <3>5. QED
      BY <1>6, <1>t, <3>1, <3>2, <3>4 DEF LoadReturns, Registered, TypeLoads
  <2>4. Registered'
    BY <2>2, <2>3 DEF Registered
  <2>5. QED
    BY <2>1, <2>4 DEF FlightInv
<1>7. ASSUME NEW c \in Callers, LoaderPanics(c) PROVE FlightInv'
  BY <1>7, <1>t DEF LoaderPanics, Return, FlightInv, Numbered, Registered, Inside, TypeCalls,
                    cacheVars, loadVars
<1>8. ASSUME UNCHANGED <<calls, cacheVars, loadVars, pc, key, now, load>> PROVE FlightInv'
  BY <1>8, <1>t DEF FlightInv, Numbered, Registered, Inside, cacheVars, loadVars
<1>9. ASSUME NEW c \in Callers, WaiterAnswered(c) \/ WaiterCanceled(c) PROVE FlightInv'
  BY <1>9, <1>5 DEF WaiterAnswered, WaiterCanceled
<1>10. ASSUME NEW c \in Callers, CancelContext(c) PROVE FlightInv'
  BY <1>10, <1>8 DEF CancelContext
<1>11. CASE Tick \/ UNCHANGED vars
  BY <1>11, <1>8 DEF Tick, vars, callVars
<1>12. QED
  BY <1>1, <1>2, <1>3, <1>4, <1>6, <1>7, <1>9, <1>10, <1>11 DEF Next, GetOrLoad

\* Two callers never load one key at the same time: whoever finds no entry
\* either joins the registered load or registers its own.
THEOREM SingleFlight == Spec => []OneLoadPerKey
<1>1. TypeInv /\ FlightInv /\ [Next]_vars => TypeInv' /\ FlightInv'
  BY TypeStep, FlightStep
<1>2. TypeInv /\ FlightInv => OneLoadPerKey
  BY DEF FlightInv, Numbered, Registered, Inside, OneLoadPerKey
<1>3. QED
  BY <1>1, <1>2, TypeInit, FlightInit, PTL DEF Spec

(***************************************************************************)
(* What callers are served.  An entry tells the key and the age of the     *)
(* load that made it; a load a waiter joined ends after the waiter called. *)
(***************************************************************************)

EntriesGood ==
    \A k \in Keys : entries[k] # NoEntry =>
        /\ outcome[entries[k].provider] = "ok"
        /\ keyOf[entries[k].provider] = k
        /\ entries[k].expiresAt = began[entries[k].provider] + TTL

LeadersGood == \A c \in Callers : pc[c] = "loading" =>
    outcome[load[c]] = "pending" /\ keyOf[load[c]] = key[c]

WaitersGood == \A c \in Callers : pc[c] = "waiting" =>
    /\ outcome[load[c]] # "none" /\ keyOf[load[c]] = key[c]
    /\ outcome[load[c]] \in Outcomes => now[c] <= ended[load[c]]

CallsArePast == \A c \in Callers : now[c] <= clock

ServeInv == EntriesGood /\ LeadersGood /\ WaitersGood /\ CallsArePast /\ ServedIsGood

LEMMA ServeInit == ASSUME Init PROVE ServeInv
  BY DEF Init, ServeInv, EntriesGood, LeadersGood, WaitersGood, CallsArePast, ServedIsGood

\* A return of something that is not a provider leaves everybody else as is.
LEMMA EmptyReturn ==
    ASSUME TypeInv, ServeInv, NEW c \in Callers, NEW r, r # "ok",
           Return(c, r, NoLoad), UNCHANGED <<clock, cacheVars, loadVars>>
    PROVE  ServeInv'
<1>0. 0 <= clock
  BY CacheConstants DEF TypeInv, TypeOK, TypeCache, Times
<1>1. EntriesGood'
  BY DEF ServeInv, EntriesGood, cacheVars, loadVars
<1>2. LeadersGood' /\ WaitersGood'
  BY DEF ServeInv, LeadersGood, WaitersGood, Return, loadVars, TypeInv, TypeOK, TypeCalls
<1>3. CallsArePast'
  BY <1>0 DEF ServeInv, CallsArePast, Return, TypeInv, TypeOK, TypeCalls
<1>4. ServedIsGood'
  BY DEF ServeInv, ServedIsGood, Return, loadVars, TypeInv, TypeOK, TypeCalls
<1>5. QED
  BY <1>1, <1>2, <1>3, <1>4 DEF ServeInv

\* The return of a provider that was loaded for the caller's key in time.
LEMMA GoodReturn ==
    ASSUME TypeInv, ServeInv, NEW c \in Callers, NEW p,
           outcome'[p] = "ok", keyOf'[p] = key[c],
           now[c] < began'[p] + TTL \/ now[c] <= ended'[p],
           \A d \in Callers : result[d] = "ok" =>
               /\ outcome'[got[d]] = "ok" /\ keyOf'[got[d]] = key[d]
               /\ now[d] < began'[got[d]] + TTL \/ now[d] <= ended'[got[d]],
           Return(c, "ok", p)
    PROVE  ServedIsGood'
<1>1. ASSUME NEW d \in Callers, result'[d] = "ok"
      PROVE  /\ outcome'[got'[d]] = "ok" /\ keyOf'[got'[d]] = key'[d]
             /\ now'[d] < began'[got'[d]] + TTL \/ now'[d] <= ended'[got'[d]]
  <2>1. CASE d = c
    BY <2>1 DEF Return, TypeInv, TypeOK, TypeCalls
  <2>2. CASE d # c
    BY <1>1, <2>2 DEF Return, TypeInv, TypeOK, TypeCalls
  <2>3. QED
    BY <2>1, <2>2
<1>2. QED
  BY <1>1 DEF ServedIsGood

LEMMA ServeStep == ASSUME TypeInv, FlightInv, ServeInv, [Next]_vars PROVE ServeInv'
<1>t. /\ TypeCache /\ TypeLoads /\ TypeCalls /\ InCall /\ Numbered /\ Registered
      /\ EntriesGood /\ LeadersGood /\ WaitersGood /\ CallsArePast /\ ServedIsGood
  BY DEF TypeInv, TypeOK, FlightInv, ServeInv
<1>n. TTL \in Nat \ {0} /\ MaxTime \in Nat /\ Times = 0..MaxTime /\ clock \in Times
  BY <1>t, CacheConstants DEF Times, TypeCache
<1>1. ASSUME NEW c \in Callers, NEW k \in Keys, Call(c, k) PROVE ServeInv'
  <2>1. EntriesGood' /\ LeadersGood' /\ WaitersGood'
    BY <1>1, <1>t DEF Call, EntriesGood, LeadersGood, WaitersGood, TypeCalls, cacheVars, loadVars
  <2>2. CallsArePast'
    BY <1>1, <1>t, <1>n DEF Call, CallsArePast, TypeCalls
  <2>3. ServedIsGood'
    BY <1>1, <1>t DEF Call, ServedIsGood, TypeCalls, loadVars
  <2>4. QED
    BY <2>1, <2>2, <2>3 DEF ServeInv
<1>2. ASSUME NEW c \in Callers, NEW k \in Keys, Hit(c, k) PROVE ServeInv'
  <2>0. /\ entries[k] # NoEntry /\ entries[k] \in Entries /\ key[c] = k
        /\ now[c] < entries[k].expiresAt
    BY <1>2, <1>t DEF Hit, Fresh, TypeCache
  <2>1. EntriesGood'
    <3>1. ASSUME NEW j \in Keys, entries'[j] # NoEntry
          PROVE  /\ entries[j] # NoEntry
                 /\ entries'[j].provider = entries[j].provider
                 /\ entries'[j].expiresAt = entries[j].expiresAt
      BY <1>2, <1>t, <2>0, <3>1 DEF Hit, TypeCache, Entries
    <3>2. QED
      BY <1>2, <1>t, <3>1 DEF Hit, EntriesGood, loadVars
  <2>2. LeadersGood' /\ WaitersGood' /\ CallsArePast'
    BY <1>2, <1>t DEF Hit, Return, LeadersGood, WaitersGood, CallsArePast, TypeCalls, loadVars
  <2>3. ServedIsGood'
    <3>1. /\ outcome[entries[k].provider] = "ok" /\ keyOf[entries[k].provider] = key[c]
          /\ now[c] < began[entries[k].provider] + TTL
      BY <1>t, <2>0 DEF EntriesGood
    <3>2. QED
      BY <1>2, <1>t, <3>1, GoodReturn DEF Hit, loadVars, ServedIsGood
  <2>4. QED
    BY <2>1, <2>2, <2>3 DEF ServeInv
<1>3. ASSUME NEW c \in Callers, NEW k \in Keys, Join(c, k) PROVE ServeInv'
  <2>1. EntriesGood'
    BY <1>3, <1>t DEF Join, DropEntry, EntriesGood, TypeCache, loadVars
  <2>2. outcome[loads[k]] = "pending" /\ keyOf[loads[k]] = k
    BY <1>3, <1>t DEF Join, Registered
  <2>3. LeadersGood' /\ WaitersGood'
    BY <1>3, <1>t, <2>2 DEF Join, LeadersGood, WaitersGood, TypeCalls, loadVars, Outcomes
  <2>4. CallsArePast' /\ ServedIsGood'
    BY <1>3, <1>t DEF Join, CallsArePast, ServedIsGood, loadVars
  <2>5. QED
    BY <2>1, <2>3, <2>4 DEF ServeInv
<1>4. ASSUME NEW c \in Callers, NEW k \in Keys, Lead(c, k) PROVE ServeInv'
  <2>0. load[c] \in LoadIds /\ outcome[load[c]] = "none"
    BY <1>4, <1>t DEF Lead, Numbered, InCall
  <2>1. EntriesGood'
    <3>1. ASSUME NEW j \in Keys, entries'[j] # NoEntry
          PROVE  /\ entries'[j] = entries[j] /\ entries[j] # NoEntry
                 /\ entries[j].provider # load[c]
      <4>1. entries'[j] = entries[j] /\ entries[j] # NoEntry
        BY <1>4, <1>t, <3>1 DEF Lead, DropEntry, TypeCache
      <4>2. QED
        BY <1>t, <2>0, <4>1 DEF EntriesGood
    <3>2. QED
      BY <1>4, <1>t, <3>1 DEF Lead, EntriesGood, TypeLoads
  <2>2. ASSUME NEW d \in Callers, pc'[d] = "loading"
        PROVE  outcome'[load'[d]] = "pending" /\ keyOf'[load'[d]] = key'[d]
    <3>1. CASE d = c
      BY <1>4, <1>t, <2>0, <3>1 DEF Lead, TypeLoads
    <3>2. CASE d # c
      <4>1. pc[d] = "loading" /\ load[d] # load[c]
        BY <1>4, <1>t, <2>0, <2>2, <3>2 DEF Lead, LeadersGood, TypeCalls
      <4>2. QED
        BY <1>4, <1>t, <4>1 DEF Lead, LeadersGood, TypeLoads
    <3>3. QED
      BY <3>1, <3>2
  <2>3. WaitersGood'
    <3>1. ASSUME NEW d \in Callers, pc'[d] = "waiting"
          PROVE  d # c /\ pc[d] = "waiting" /\ load[d] # load[c]
      BY <1>4, <1>t, <2>0, <3>1 DEF Lead, WaitersGood, TypeCalls
    <3>2. QED
      BY <1>4, <1>t, <3>1 DEF Lead, WaitersGood, TypeLoads
  <2>4. CallsArePast'
    BY <1>4, <1>t DEF Lead, CallsArePast
  <2>5. ServedIsGood'
    <3>1. ASSUME NEW d \in Callers, result[d] = "ok" PROVE got[d] # load[c]
      BY <1>t, <2>0, <3>1 DEF ServedIsGood
    <3>2. QED
      BY <1>4, <1>t, <3>1 DEF Lead, ServedIsGood, TypeLoads
  <2>6. QED
    BY <2>1, <2>2, <2>3, <2>4, <2>5 DEF ServeInv, LeadersGood
<1>5. ASSUME NEW c \in Callers, WaiterAnswered(c) PROVE ServeInv'
  <2>1. CASE outcome[load[c]] # "ok"
    BY <1>5, <2>1, EmptyReturn DEF WaiterAnswered
  <2>2. CASE outcome[load[c]] = "ok"
    <3>1. EntriesGood' /\ LeadersGood' /\ WaitersGood' /\ CallsArePast'
      BY <1>5, <1>t, <2>2 DEF WaiterAnswered, Return, EntriesGood, LeadersGood, WaitersGood,
                              CallsArePast, TypeCalls, cacheVars, loadVars
    <3>2. keyOf[load[c]] = key[c] /\ now[c] <= ended[load[c]]
      BY <1>5, <1>t DEF WaiterAnswered, WaitersGood
    <3>3. ServedIsGood'
      BY <1>5, <1>t, <2>2, <3>2, GoodReturn DEF WaiterAnswered, loadVars, ServedIsGood
    <3>4. QED
      BY <3>1, <3>3 DEF ServeInv
  <2>3. QED
    BY <2>1, <2>2
<1>6. ASSUME NEW c \in Callers, WaiterCanceled(c) PROVE ServeInv'
  BY <1>6, EmptyReturn DEF WaiterCanceled
<1>7. ASSUME NEW c \in Callers, NEW o \in Outcomes, LoadReturns(c, o) PROVE ServeInv'
  <2>0. /\ load[c] \in LoadIds /\ key[c] \in Keys /\ outcome[load[c]] = "pending"
        /\ keyOf[load[c]] = key[c] /\ began[load[c]] = now[c] /\ now[c] \in Times
    BY <1>7, <1>t DEF LoadReturns, InCall, LeadersGood, Registered, TypeCalls
  <2>1. EntriesGood'
    <3> DEFINE stored == [provider |-> load[c], expiresAt |-> now[c] + TTL, lastUsed |-> now[c]]
    <3>1. ASSUME NEW j \in Keys, entries'[j] # NoEntry
          PROVE  \/ entries'[j] = entries[j] /\ entries[j] # NoEntry
                 \/ o = "ok" /\ j = key[c] /\ entries'[j] = stored
      BY <1>7, <1>t, <2>0, <3>1 DEF LoadReturns, Store, Pruned, TypeCache
    <3>2. ASSUME NEW j \in Keys, entries[j] # NoEntry PROVE entries[j].provider # load[c]
      BY <1>t, <2>0, <3>2 DEF EntriesGood
    <3>3. QED
      BY <1>7, <1>t, <2>0, <3>1, <3>2 DEF LoadReturns, EntriesGood, TypeLoads
  <2>2. LeadersGood'
    <3>1. ASSUME NEW d \in Callers, pc'[d] = "loading"
          PROVE  d # c /\ pc[d] = "loading" /\ load[d] # load[c] /\ load'[d] = load[d] /\ key'[d] = key[d]
      BY <1>7, <1>t, <3>1 DEF LoadReturns, Return, Numbered, Inside, TypeCalls
    <3>2. QED
      BY <1>7, <1>t, <3>1 DEF LoadReturns, LeadersGood, TypeLoads
  <2>3. WaitersGood'
    <3>1. ASSUME NEW d \in Callers, pc'[d] = "waiting"
          PROVE  /\ pc[d] = "waiting" /\ load[d] \in LoadIds
                 /\ load'[d] = load[d] /\ key'[d] = key[d] /\ now'[d] = now[d]
      BY <1>7, <1>t, <3>1 DEF LoadReturns, Return, TypeCalls, InCall
    <3>2. QED
      BY <1>7, <1>t, <1>n, <3>1 DEF LoadReturns, WaitersGood, CallsArePast, TypeLoads, Outcomes
  <2>4. CallsArePast'
    BY <1>7, <1>t, <1>n DEF LoadReturns, Return, CallsArePast, TypeCalls
  <2>5. ASSUME NEW d \in Callers, result[d] = "ok"
        PROVE  /\ outcome'[got[d]] = "ok" /\ keyOf'[got[d]] = key[d]
               /\ now[d] < began'[got[d]] + TTL \/ now[d] <= ended'[got[d]]
    <3>1. got[d] # load[c]
      BY <1>t, <2>0, <2>5 DEF ServedIsGood
    <3>2. QED
      BY <1>7, <1>t, <2>5, <3>1 DEF LoadReturns, ServedIsGood, TypeLoads
  <2>6. ServedIsGood'
    <3>1. CASE o = "ok"
      <4>1. outcome'[load[c]] = "ok" /\ keyOf'[load[c]] = key[c] /\ now[c] < began'[load[c]] + TTL
        BY <1>7, <1>t, <1>n, <2>0, <3>1 DEF LoadReturns, TypeLoads
      <4>2. Return(c, "ok", load[c])
        BY <1>7, <3>1 DEF LoadReturns
      <4>3. QED
        BY <2>5, <4>1, <4>2, GoodReturn
    <3>2. CASE o # "ok"
      <4>1. ASSUME NEW d \in Callers, result'[d] = "ok"
            PROVE  result[d] = "ok" /\ got'[d] = got[d] /\ key'[d] = key[d] /\ now'[d] = now[d]
        BY <1>7, <1>t, <3>2, <4>1 DEF LoadReturns, Return, TypeCalls
      <4>2. QED
        BY <2>5, <4>1 DEF ServedIsGood
    <3>3. QED
      BY <3>1, <3>2
  <2>7. QED
    BY <2>1, <2>2, <2>3, <2>4, <2>6 DEF ServeInv
<1>8. ASSUME NEW c \in Callers, LoaderPanics(c) PROVE ServeInv'
  BY <1>8, EmptyReturn DEF LoaderPanics
<1>9. ASSUME NEW c \in Callers, CancelContext(c) PROVE ServeInv'
  BY <1>9, <1>t DEF CancelContext, ServeInv, EntriesGood, LeadersGood, WaitersGood, CallsArePast,
                    ServedIsGood, cacheVars, loadVars
<1>10. CASE Tick
  <2>1. CallsArePast'
    BY <1>10, <1>t, <1>n DEF Tick, CallsArePast, TypeCalls, callVars
  <2>2. QED
    BY <1>10, <1>t, <2>1 DEF Tick, ServeInv, EntriesGood, LeadersGood, WaitersGood,
                    ServedIsGood, cacheVars, loadVars, callVars
<1>11. CASE UNCHANGED vars
  BY <1>11, <1>t DEF vars, ServeInv, EntriesGood, LeadersGood, WaitersGood, CallsArePast,
                    ServedIsGood, cacheVars, loadVars, callVars
<1>12. QED
  BY <1>1, <1>2, <1>3, <1>4, <1>5, <1>6, <1>7, <1>8, <1>9, <1>10, <1>11 DEF Next, GetOrLoad

\* Whoever gets a provider gets one that was loaded for its own key and was
\* younger than TTL, or still being loaded, when it called.
THEOREM ServedWell == Spec => []ServedIsGood
<1>1. TypeInv /\ FlightInv /\ ServeInv /\ [Next]_vars => TypeInv' /\ FlightInv' /\ ServeInv'
  BY TypeStep, FlightStep, ServeStep
<1>2. ServeInv => ServedIsGood
  BY DEF ServeInv
<1>3. QED
  BY <1>1, <1>2, TypeInit, FlightInit, ServeInit, PTL DEF Spec

(***************************************************************************)
(* Capacity.                                                               *)
(***************************************************************************)

Held(es) == {k \in Keys : es[k] # NoEntry}

LEMMA HeldFinite == ASSUME NEW es PROVE IsFiniteSet(Held(es)) /\ Size(es) \in Nat
<1>1. Held(es) \in SUBSET Keys
  BY DEF Held
<1>2. IsFiniteSet(Held(es))
  BY <1>1, CacheConstants, FS_Subset
<1>3. QED
  BY <1>2, FS_CardinalityType DEF Held, Size

\* A cache that holds no key the other does not hold is no larger.
LEMMA SmallerCache ==
    ASSUME NEW es, NEW T, IsFiniteSet(T), Held(es) \subseteq T
    PROVE  Size(es) <= Cardinality(T)
  BY FS_Subset DEF Held, Size

LEMMA OneMore ==
    ASSUME NEW S, IsFiniteSet(S), NEW x
    PROVE  IsFiniteSet(S \cup {x}) /\ Cardinality(S \cup {x}) <= Cardinality(S) + 1
<1>1. IsFiniteSet(S \cup {x})
  BY FS_AddElement
<1>2. Cardinality(S \cup {x}) = IF x \in S THEN Cardinality(S) ELSE Cardinality(S) + 1
  BY FS_AddElement
<1>3. Cardinality(S) \in Nat
  BY FS_CardinalityType
<1>4. QED
  BY <1>1, <1>2, <1>3

\* Pruning and one eviction make room for one more entry.
LEMMA StoreFits ==
    ASSUME TypeCache, WithinCapacity, NEW k \in Keys, NEW entry \in Entries, NEW t \in Times,
           Store(k, entry, t)
    PROVE  Size(entries') <= MaxSize
<1> DEFINE P == Pruned(t)
<1>1. IsFiniteSet(Held(P)) /\ Size(P) \in Nat /\ Size(P) = Cardinality(Held(P))
      /\ Size(entries) \in Nat /\ Size(entries) = Cardinality(Held(entries))
      /\ MaxSize \in Nat \ {0}
  BY HeldFinite, CacheConstants DEF Size, Held
<1>2. Size(P) <= MaxSize
  <2>1. Held(P) \subseteq Held(entries)
    BY DEF Held, Pruned
  <2>2. Size(P) <= Cardinality(Held(entries))
    BY <2>1, HeldFinite, SmallerCache
  <2>3. QED
    BY <1>1, <2>2 DEF WithinCapacity
<1>3. Size(entries') \in Nat
  BY HeldFinite
<1>4. CASE Size(P) >= MaxSize
  <2>1. PICK old \in Oldest(P) : entries' = [P EXCEPT ![old] = NoEntry, ![k] = entry]
    BY <1>4 DEF Store
  <2>2. old \in Held(P)
    BY <2>1 DEF Oldest, Held
  <2> DEFINE T == Held(P) \ {old}
  <2>3. IsFiniteSet(T) /\ Cardinality(T) = Cardinality(Held(P)) - 1
    BY <1>1, <2>2, FS_RemoveElement
  <2>4. IsFiniteSet(T \cup {k}) /\ Cardinality(T \cup {k}) <= Cardinality(T) + 1
    BY <2>3, OneMore
  <2>5. Held(entries') \subseteq T \cup {k}
    BY <2>1 DEF Held, Pruned
  <2>6. Size(entries') <= Cardinality(T \cup {k})
    BY <2>4, <2>5, SmallerCache
  <2>7. Cardinality(T \cup {k}) \in Nat
    BY <2>4, FS_CardinalityType
  <2>8. QED
    BY <1>1, <1>2, <1>3, <2>3, <2>4, <2>6, <2>7
<1>5. CASE ~(Size(P) >= MaxSize)
  <2>1. entries' = [P EXCEPT ![k] = entry]
    BY <1>5 DEF Store
  <2>2. IsFiniteSet(Held(P) \cup {k}) /\ Cardinality(Held(P) \cup {k}) <= Cardinality(Held(P)) + 1
    BY <1>1, OneMore
  <2>3. Held(entries') \subseteq Held(P) \cup {k}
    BY <2>1 DEF Held, Pruned
  <2>4. Size(entries') <= Cardinality(Held(P) \cup {k})
    BY <2>2, <2>3, SmallerCache
  <2>5. Cardinality(Held(P) \cup {k}) \in Nat
    BY <2>2, FS_CardinalityType
  <2>6. QED
    BY <1>1, <1>3, <1>5, <2>2, <2>4, <2>5
<1>6. QED
  BY <1>4, <1>5

\* A step that only drops entries, or touches one that is there, adds none.
LEMMA NoneAdded ==
    ASSUME TypeCache, WithinCapacity, Held(entries') \subseteq Held(entries)
    PROVE  WithinCapacity'
<1>1. Size(entries') <= Cardinality(Held(entries))
  BY HeldFinite, SmallerCache
<1>2. Size(entries') \in Nat /\ Size(entries) \in Nat /\ MaxSize \in Nat
  BY HeldFinite, CacheConstants
<1>3. QED
  BY <1>1, <1>2 DEF WithinCapacity, Size, Held

LEMMA CapacityStep == ASSUME TypeInv, WithinCapacity, [Next]_vars PROVE WithinCapacity'
<1>t. TypeCache /\ TypeCalls /\ InCall
  BY DEF TypeInv, TypeOK
<1>1. ASSUME NEW c \in Callers, NEW k \in Keys, Hit(c, k) PROVE WithinCapacity'
  <2>1. Held(entries') \subseteq Held(entries)
    BY <1>1, <1>t DEF Hit, Fresh, Held, TypeCache
  <2>2. QED
    BY <1>t, <2>1, NoneAdded
<1>2. ASSUME NEW c \in Callers, NEW k \in Keys, Join(c, k) \/ Lead(c, k) PROVE WithinCapacity'
  <2>1. Held(entries') \subseteq Held(entries)
    BY <1>2, <1>t DEF Join, Lead, DropEntry, Held, TypeCache
  <2>2. QED
    BY <1>t, <2>1, NoneAdded
<1>3. ASSUME NEW c \in Callers, NEW o \in Outcomes, LoadReturns(c, o) PROVE WithinCapacity'
  <2>1. key[c] \in Keys /\ load[c] \in LoadIds /\ now[c] \in Times
    BY <1>3, <1>t DEF LoadReturns, InCall, TypeCalls
  <2>2. [provider |-> load[c], expiresAt |-> now[c] + TTL, lastUsed |-> now[c]] \in Entries
    BY <2>1, CacheConstants DEF Entries, Times
  <2>3. QED
    BY <1>3, <1>t, <2>1, <2>2, StoreFits DEF LoadReturns, WithinCapacity
<1>4. ASSUME UNCHANGED entries PROVE WithinCapacity'
  BY <1>4 DEF WithinCapacity
<1>5. ASSUME NEW c \in Callers,
             \/ \E k \in Keys : Call(c, k)
             \/ WaiterAnswered(c) \/ WaiterCanceled(c) \/ LoaderPanics(c) \/ CancelContext(c)
      PROVE  WithinCapacity'
  BY <1>5, <1>4 DEF Call, WaiterAnswered, WaiterCanceled, LoaderPanics, CancelContext, cacheVars
<1>6. CASE Tick \/ UNCHANGED vars
  BY <1>6, <1>4 DEF Tick, vars, cacheVars
<1>7. QED
  BY <1>1, <1>2, <1>3, <1>5, <1>6 DEF Next, GetOrLoad

\* The cache never holds more than maxSize providers: a store prunes, evicts
\* one entry when it must, and adds one.
THEOREM CapacityKept == Spec => []WithinCapacity
<1>1. Init => WithinCapacity
  <2> SUFFICES ASSUME Init PROVE WithinCapacity
    OBVIOUS
  <2>1. Held(entries) = {}
    BY DEF Init, Held
  <2>2. QED
    BY <2>1, FS_EmptySet, CacheConstants DEF WithinCapacity, Size, Held
<1>2. TypeInv /\ WithinCapacity /\ [Next]_vars => TypeInv' /\ WithinCapacity'
  BY TypeStep, CapacityStep
<1>3. QED
  BY <1>1, <1>2, TypeInit, PTL DEF Spec

(***************************************************************************)
(* Stranded waiters.                                                       *)
(***************************************************************************)

PanicInv ==
    /\ OnlyPanicsStrand
    /\ \A c \in Callers : result[c] = "panic" => pc[c] = "idle"

LEMMA PanicStep == ASSUME TypeInv, FlightInv, ServeInv, PanicInv, [Next]_vars PROVE PanicInv'
<1>t. /\ TypeCache /\ TypeLoads /\ TypeCalls /\ InCall /\ Numbered /\ LeadersGood
      /\ PanicInv
  BY DEF TypeInv, TypeOK, FlightInv, ServeInv
<1>1. ASSUME NEW c \in Callers, NEW k \in Keys, Call(c, k) PROVE PanicInv'
  <2>1. \A i : LoadedBy(i) => LoadedBy(i)'
    BY <1>1, <1>t DEF Call, LoadedBy, TypeCalls
  <2>2. \A d \in Callers : result[d] = "panic" => result'[d] = "panic"
    BY <1>1, <1>t DEF Call, TypeCalls
  <2>3. QED
    BY <1>1, <1>t, <2>1, <2>2 DEF Call, PanicInv, OnlyPanicsStrand, Orphaned, TypeCalls, loadVars
<1>2. ASSUME NEW c \in Callers, NEW k \in Keys, Hit(c, k) PROVE PanicInv'
  <2>1. \A i : LoadedBy(i) => LoadedBy(i)'
    BY <1>2, <1>t DEF Hit, Return, LoadedBy, TypeCalls
  <2>2. \A d \in Callers : result[d] = "panic" => result'[d] = "panic"
    BY <1>2, <1>t DEF Hit, Return, PanicInv, TypeCalls
  <2>3. QED
    BY <1>2, <1>t, <2>1, <2>2 DEF Hit, Return, PanicInv, OnlyPanicsStrand, Orphaned, TypeCalls, loadVars
<1>3. ASSUME NEW c \in Callers, NEW k \in Keys, Join(c, k) PROVE PanicInv'
  <2>1. \A i : LoadedBy(i) => LoadedBy(i)'
    BY <1>3, <1>t DEF Join, LoadedBy, TypeCalls
  <2>2. QED
    BY <1>3, <1>t, <2>1 DEF Join, PanicInv, OnlyPanicsStrand, Orphaned, TypeCalls, loadVars
<1>4. ASSUME NEW c \in Callers, NEW k \in Keys, Lead(c, k) PROVE PanicInv'
  <2>1. \A i : LoadedBy(i) => LoadedBy(i)'
    BY <1>4, <1>t DEF Lead, LoadedBy, TypeCalls
  <2>2. LoadedBy(load[c])'
    BY <1>4, <1>t DEF Lead, LoadedBy, TypeCalls
  <2>3. \A i \in LoadIds : i # load[c] => outcome'[i] = outcome[i]
    BY <1>4, <1>t DEF Lead, TypeLoads
  <2>4. QED
    BY <1>4, <1>t, <2>1, <2>2, <2>3 DEF Lead, PanicInv, OnlyPanicsStrand, Orphaned, TypeCalls
<1>5. ASSUME NEW c \in Callers, WaiterAnswered(c) \/ WaiterCanceled(c) PROVE PanicInv'
  <2>0. pc[c] = "waiting" /\ \E r \in Outcomes : \E p : Return(c, r, p)
    BY <1>5 DEF WaiterAnswered, WaiterCanceled, Outcomes
  <2>1. \A i : LoadedBy(i) => LoadedBy(i)'
    BY <2>0, <1>t DEF Return, LoadedBy, TypeCalls
  <2>2. \A d \in Callers : result[d] = "panic" => result'[d] = "panic"
    BY <2>0, <1>t DEF Return, PanicInv, TypeCalls
  <2>3. UNCHANGED loadVars
    BY <1>5 DEF WaiterAnswered, WaiterCanceled
  <2>4. QED
    BY <2>0, <2>1, <2>2, <2>3, <1>t DEF Return, PanicInv, OnlyPanicsStrand, Orphaned, TypeCalls, loadVars
<1>6. ASSUME NEW c \in Callers, NEW o \in Outcomes, LoadReturns(c, o) PROVE PanicInv'
  <2>1. \A i : i # load[c] /\ LoadedBy(i) => LoadedBy(i)'
    BY <1>6, <1>t DEF LoadReturns, Return, LoadedBy, TypeCalls
  <2>2. \A d \in Callers : result[d] = "panic" => result'[d] = "panic"
    BY <1>6, <1>t DEF LoadReturns, Return, PanicInv, TypeCalls
  <2>3. load[c] \in LoadIds /\ outcome' = [outcome EXCEPT ![load[c]] = o] /\ o # "pending"
    BY <1>6, <1>t DEF LoadReturns, InCall, Outcomes
  <2>4. OnlyPanicsStrand'
    BY <1>t, <2>1, <2>2, <2>3 DEF PanicInv, OnlyPanicsStrand, Orphaned, TypeLoads
  <2>5. QED
    BY <1>6, <1>t, <2>4 DEF LoadReturns, Return, PanicInv, TypeCalls
<1>7. ASSUME NEW c \in Callers, LoaderPanics(c) PROVE PanicInv'
  <2>1. result'[c] = "panic"
    BY <1>7, <1>t DEF LoaderPanics, Return, TypeCalls
  <2>2. QED
    BY <1>7, <1>t, <2>1 DEF LoaderPanics, Return, PanicInv, OnlyPanicsStrand, TypeCalls
<1>8. ASSUME UNCHANGED <<outcome, pc, load, result>> PROVE PanicInv'
  BY <1>8, <1>t DEF PanicInv, OnlyPanicsStrand, Orphaned, LoadedBy
<1>9. ASSUME NEW c \in Callers, CancelContext(c) PROVE PanicInv'
  BY <1>9, <1>8 DEF CancelContext, loadVars
<1>10. CASE Tick \/ UNCHANGED vars
  BY <1>10, <1>8 DEF Tick, vars, loadVars, callVars
<1>11. QED
  BY <1>1, <1>2, <1>3, <1>4, <1>5, <1>6, <1>7, <1>9, <1>10 DEF Next, GetOrLoad

\* As long as no loader has panicked every load in progress has somebody who
\* works on it, so nobody waits for an outcome that will never come.
THEOREM NobodyStranded == Spec => []OnlyPanicsStrand
<1>1. Init => PanicInv
  BY DEF Init, PanicInv, OnlyPanicsStrand, Orphaned
<1>2. TypeInv /\ FlightInv /\ ServeInv /\ PanicInv /\ [Next]_vars
      => TypeInv' /\ FlightInv' /\ ServeInv' /\ PanicInv'
  BY TypeStep, FlightStep, ServeStep, PanicStep
<1>3. PanicInv => OnlyPanicsStrand
  BY DEF PanicInv
<1>4. QED
  BY <1>1, <1>2, <1>3, TypeInit, FlightInit, ServeInit, PTL DEF Spec
=============================================================================
