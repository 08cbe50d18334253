-------------------------- MODULE ApiServer_proofs --------------------------
(***************************************************************************)
(* Proofs about the API server for any requests, tokens, clients, rates    *)
(* and times: what the key cache answers, what the rate limiter grants,    *)
(* what the traffic meter keeps and what rebuilds of a universe leave.     *)
(* (ChainCache_proofs is about the chains.)                                *)
(***************************************************************************)
EXTENDS ApiServer, FiniteSetTheorems, TLAPS
LOCAL INSTANCE FiniteSetsExt

(***************************************************************************)
(* A step of the server is a step of the part it is a step of.             *)
(***************************************************************************)

LEMMA PartInits == ServerInit => KeyInit /\ LimiterInit /\ TrafficInit /\ UniverseInit
  BY DEF ServerInit

LEMMA PartSteps ==
    [ServerNext]_serverVars =>
        /\ [KeyNext]_keyVars /\ [LimiterNext]_limiterVars /\ [TrafficNext]_trafficVars
        /\ [UniverseNext]_universeVars
<1> SUFFICES ASSUME [ServerNext]_serverVars
             PROVE  /\ [KeyNext]_keyVars /\ [LimiterNext]_limiterVars /\ [TrafficNext]_trafficVars
                    /\ [UniverseNext]_universeVars
  OBVIOUS
<1>1. CASE UNCHANGED serverVars
  BY <1>1 DEF serverVars
<1>2. CASE Chains(Next)
  BY <1>2 DEF Chains
<1>3. CASE part = "traffic" /\ TrafficNext /\ UNCHANGED <<part, vars, keyVars, limiterVars, universeVars>>
  BY <1>3
<1>4. CASE part = "keys" /\ KeyNext /\ UNCHANGED <<part, vars, trafficVars, limiterVars, universeVars>>
  BY <1>4
<1>5. CASE part = "limiter" /\ LimiterNext /\ UNCHANGED <<part, vars, trafficVars, keyVars, universeVars>>
  BY <1>5
<1>6. CASE part = "universe" /\ UniverseNext /\ UNCHANGED <<part, vars, trafficVars, keyVars, limiterVars>>
  BY <1>6
<1>7. QED
  BY <1>1, <1>2, <1>3, <1>4, <1>5, <1>6 DEF ServerNext

(***************************************************************************)
(* The key cache                                                           *)
(***************************************************************************)

KeyType ==
    /\ instant \in Nat /\ active \in BOOLEAN
    /\ expiry \in Int
    /\ entry \in [Tokens -> [cached : BOOLEAN, found : BOOLEAN, expiresAt : Int]]
    /\ asking \in [Askers -> {"idle", "lookup", "query", "store", "answered"}]
    /\ token \in [Askers -> Tokens \cup {NoToken}]
    /\ since \in [Askers -> Nat]
    /\ answer \in [Askers -> BOOLEAN]
    /\ usable \in [Tokens -> SUBSET Nat] /\ unusable \in [Tokens -> SUBSET Nat]

\* What the repository would say at this instant is on record.
PresentWitnessed ==
    \A k \in Tokens : instant \in (IF digest = k /\ active THEN usable[k] ELSE unusable[k])

\* An answer about k is right as of instant s or some later one.
RightSince(k, grant, s) ==
    IF grant THEN expiry > s /\ \E t \in usable[k] : t >= s
    ELSE expiry <= instant \/ \E t \in unusable[k] : t >= s

EntriesRight ==
    \A k \in Tokens : entry[k].cached => RightSince(k, entry[k].found, entry[k].expiresAt - AuthTTL)

CallsRight ==
    \A a \in Askers :
        /\ since[a] <= instant
        /\ asking[a] # "idle" => token[a] \in Tokens
        /\ asking[a] = "store" => RightSince(token[a], answer[a], since[a])

KeyInv == KeyType /\ PresentWitnessed /\ EntriesRight /\ CallsRight /\ AnswersAreRecent

LEMMA KeyInitially == KeyInit => KeyInv
<1> SUFFICES ASSUME KeyInit PROVE KeyInv
  OBVIOUS
<1>1. KeyType
  <2>1. NoAnswer \in [cached : BOOLEAN, found : BOOLEAN, expiresAt : Int]
    BY DEF NoAnswer
  <2>2. instant = 0 /\ active = FALSE /\ expiry \in Int
    BY KeyAuthConstants DEF KeyInit
  <2>3. entry \in [Tokens -> [cached : BOOLEAN, found : BOOLEAN, expiresAt : Int]]
    BY <2>1 DEF KeyInit
  <2>4. usable \in [Tokens -> SUBSET Nat] /\ unusable \in [Tokens -> SUBSET Nat]
    BY DEF KeyInit, None
  <2>5. /\ asking \in [Askers -> {"idle", "lookup", "query", "store", "answered"}]
        /\ token \in [Askers -> Tokens \cup {NoToken}]
        /\ since \in [Askers -> Nat] /\ answer \in [Askers -> BOOLEAN]
    BY DEF KeyInit
  <2>6. QED
    BY <2>2, <2>3, <2>4, <2>5 DEF KeyType
<1>2. PresentWitnessed
  BY DEF KeyInit, PresentWitnessed
<1>3. EntriesRight
  BY DEF KeyInit, EntriesRight, NoAnswer
<1>4. CallsRight /\ AnswersAreRecent
  BY DEF KeyInit, CallsRight, AnswersAreRecent
<1>5. QED
  BY <1>1, <1>2, <1>3, <1>4 DEF KeyInv

\* What was right stays right while the history grows and the clock goes on.
LEMMA RightStays ==
    ASSUME KeyType, KeyType', expiry' = expiry, instant' >= instant,
           \A k \in Tokens : usable[k] \subseteq usable'[k] /\ unusable[k] \subseteq unusable'[k],
           NEW k \in Tokens, NEW g \in BOOLEAN, NEW s \in Int, RightSince(k, g, s)
    PROVE  RightSince(k, g, s)'
  BY DEF RightSince, KeyType

\* Of answers that are kept.
LEMMA RecentStays ==
    ASSUME KeyType, KeyType', expiry' = expiry, instant' >= instant,
           \A k \in Tokens : usable[k] \subseteq usable'[k] /\ unusable[k] \subseteq unusable'[k],
           CallsRight, AnswersAreRecent, NEW a \in Askers,
           asking'[a] = "answered", asking[a] = "answered",
           token'[a] = token[a], since'[a] = since[a], answer'[a] = answer[a]
    PROVE  IF answer'[a]
           THEN /\ expiry' > since'[a] - AuthTTL
                /\ \E t \in usable'[token'[a]] : t > since'[a] - AuthTTL
           ELSE expiry' <= instant' \/ \E t \in unusable'[token'[a]] : t > since'[a] - AuthTTL
<1>1. token[a] \in Tokens
  BY DEF CallsRight
<1>2. QED
  BY <1>1 DEF AnswersAreRecent, KeyType

LEMMA AskStep == ASSUME KeyInv, NEW a \in Askers, NEW k \in Tokens, Ask(a, k) PROVE KeyInv'
<1> USE DEF KeyInv
<1>1. KeyType'
  BY DEF KeyType, Ask, recordVars, keyHistory
<1>2. PresentWitnessed' /\ EntriesRight'
  BY DEF PresentWitnessed, EntriesRight, RightSince, Ask, recordVars, keyHistory
<1>3. CallsRight'
  BY DEF CallsRight, RightSince, Ask, recordVars, keyHistory, KeyType
<1>4. AnswersAreRecent'
  BY DEF AnswersAreRecent, Ask, recordVars, keyHistory, KeyType
<1>5. QED
  BY <1>1, <1>2, <1>3, <1>4

LEMMA GetCachedStep == ASSUME KeyInv, NEW a \in Askers, GetCached(a) PROVE KeyInv'
<1> USE DEF KeyInv
<1>1. KeyType'
  BY DEF KeyType, GetCached, Serves, recordVars, keyHistory, CallsRight
<1>2. PresentWitnessed' /\ EntriesRight'
  BY DEF PresentWitnessed, EntriesRight, RightSince, GetCached, recordVars, keyHistory
<1>3. CallsRight'
  BY DEF CallsRight, RightSince, GetCached, recordVars, keyHistory, KeyType
<1>4. AnswersAreRecent'
  <2> SUFFICES ASSUME NEW b \in Askers, asking'[b] = "answered"
               PROVE  IF answer'[b]
                      THEN /\ expiry' > since'[b] - AuthTTL
                           /\ \E t \in usable'[token'[b]] : t > since'[b] - AuthTTL
                      ELSE expiry' <= instant' \/ \E t \in unusable'[token'[b]] : t > since'[b] - AuthTTL
    BY DEF AnswersAreRecent
  <2>1. CASE b # a
    BY <2>1, <1>1, RecentStays DEF GetCached, recordVars, keyHistory, KeyType
  <2>2. CASE b = a
    <3>1. token[a] \in Tokens /\ since[a] \in Nat /\ AuthTTL \in Nat
      BY KeyAuthConstants DEF CallsRight, GetCached, KeyType
    <3>2. RightSince(token[a], entry[token[a]].found, entry[token[a]].expiresAt - AuthTTL)
      BY <3>1 DEF EntriesRight, GetCached, Serves
    <3>3. entry[token[a]].expiresAt \in Int /\ since[a] < entry[token[a]].expiresAt
      BY <3>1 DEF GetCached, Serves, KeyType
    <3>4. answer'[a] = entry[token[a]].found /\ UNCHANGED <<expiry, instant, usable, unusable, token, since>>
      BY DEF GetCached, recordVars, keyHistory, KeyType
    <3>5. usable[token[a]] \subseteq Nat /\ unusable[token[a]] \subseteq Nat /\ expiry \in Int
      BY <3>1 DEF KeyType
    <3>6. QED
      BY <2>2, <3>1, <3>2, <3>3, <3>4, <3>5 DEF RightSince
  <2>3. QED
    BY <2>1, <2>2
<1>5. QED
  BY <1>1, <1>2, <1>3, <1>4

LEMMA MissCachedStep == ASSUME KeyInv, NEW a \in Askers, MissCached(a) PROVE KeyInv'
<1> USE DEF KeyInv
<1>1. KeyType'
  <2>1. NoAnswer \in [cached : BOOLEAN, found : BOOLEAN, expiresAt : Int]
    BY DEF NoAnswer
  <2>2. entry' \in [Tokens -> [cached : BOOLEAN, found : BOOLEAN, expiresAt : Int]]
    BY <2>1 DEF KeyType, MissCached
  <2>3. QED
    BY <2>2 DEF KeyType, MissCached, recordVars, keyHistory
<1>2. PresentWitnessed'
  BY DEF PresentWitnessed, MissCached, recordVars, keyHistory
<1>3. EntriesRight'
  BY DEF EntriesRight, RightSince, MissCached, recordVars, keyHistory, NoAnswer, KeyType
<1>4. CallsRight'
  BY DEF CallsRight, RightSince, MissCached, recordVars, keyHistory, KeyType
<1>5. AnswersAreRecent'
  BY DEF AnswersAreRecent, MissCached, recordVars, keyHistory, KeyType
<1>6. QED
  BY <1>1, <1>2, <1>3, <1>4, <1>5

LEMMA FindByDigestStep == ASSUME KeyInv, NEW a \in Askers, FindByDigest(a) PROVE KeyInv'
<1> USE DEF KeyInv
<1>1. KeyType'
  BY DEF KeyType, FindByDigest, recordVars, keyHistory
<1>2. PresentWitnessed' /\ EntriesRight'
  BY DEF PresentWitnessed, EntriesRight, RightSince, FindByDigest, recordVars, keyHistory
<1>3. CallsRight'
  <2>1. \A b \in Askers : since'[b] <= instant' /\ (asking'[b] # "idle" => token'[b] \in Tokens)
    BY DEF CallsRight, FindByDigest, recordVars, KeyType
  <2>2. ASSUME NEW b \in Askers, asking'[b] = "store"
        PROVE  RightSince(token[b], answer'[b], since[b])
    <3>1. CASE b # a
      BY <2>2, <3>1 DEF CallsRight, FindByDigest, KeyType
    <3>2. CASE b = a
      <4>1. token[a] \in Tokens /\ since[a] <= instant /\ since[a] \in Nat /\ instant \in Nat /\ expiry \in Int
        BY DEF CallsRight, FindByDigest, KeyType
      <4>2. answer'[a] = (digest = token[a] /\ active /\ expiry > since[a])
        BY DEF FindByDigest, KeyType
      <4>3. instant \in (IF digest = token[a] /\ active THEN usable[token[a]] ELSE unusable[token[a]])
        BY <4>1 DEF PresentWitnessed
      <4>4. CASE answer'[a]
        <5>1. instant \in usable[token[a]] /\ expiry > since[a]
          BY <4>2, <4>3, <4>4
        <5>2. QED
          BY <3>2, <4>1, <4>4, <5>1 DEF RightSince
      <4>5. CASE ~answer'[a] /\ ~(expiry <= instant)
        <5>1. expiry > since[a]
          BY <4>1, <4>5
        <5>2. ~(digest = token[a] /\ active)
          BY <4>2, <4>5, <5>1
        <5>3. instant \in unusable[token[a]]
          BY <4>3, <5>2
        <5>4. QED
          BY <3>2, <4>1, <4>5, <5>3 DEF RightSince
      <4>6. CASE ~answer'[a] /\ expiry <= instant
        BY <3>2, <4>6 DEF RightSince
      <4>7. QED
        BY <4>4, <4>5, <4>6
    <3>3. QED
      BY <3>1, <3>2
  <2>3. UNCHANGED <<expiry, instant, usable, unusable, token, since>>
    BY DEF FindByDigest, recordVars, keyHistory
  <2>4. QED
    BY <2>1, <2>2, <2>3 DEF CallsRight, RightSince
<1>4. AnswersAreRecent'
  BY DEF AnswersAreRecent, FindByDigest, recordVars, keyHistory, KeyType
<1>5. QED
  BY <1>1, <1>2, <1>3, <1>4

LEMMA FindByDigestFailsStep == ASSUME KeyInv, NEW a \in Askers, FindByDigestFails(a) PROVE KeyInv'
<1> USE DEF KeyInv
<1>1. KeyType'
  BY DEF KeyType, FindByDigestFails, recordVars, keyHistory
<1>2. PresentWitnessed' /\ EntriesRight'
  BY DEF PresentWitnessed, EntriesRight, RightSince, FindByDigestFails, recordVars, keyHistory
<1>3. CallsRight' /\ AnswersAreRecent'
  BY DEF CallsRight, AnswersAreRecent, RightSince, FindByDigestFails, recordVars, keyHistory, KeyType
<1>4. QED
  BY <1>1, <1>2, <1>3

LEMMA SetCachedStep == ASSUME KeyInv, NEW a \in Askers, SetCached(a) PROVE KeyInv'
<1> USE DEF KeyInv
<1>0. AuthTTL \in Nat \ {0}
  BY KeyAuthConstants
<1>a. token[a] \in Tokens /\ since[a] \in Nat /\ answer[a] \in BOOLEAN /\ RightSince(token[a], answer[a], since[a])
  BY DEF CallsRight, SetCached, KeyType
<1>1. KeyType'
  BY <1>0, <1>a DEF KeyType, SetCached, recordVars, keyHistory
<1>2. PresentWitnessed'
  BY DEF PresentWitnessed, SetCached, recordVars, keyHistory
<1>3. EntriesRight'
  <2>1. ASSUME NEW k \in Tokens, entry'[k].cached
        PROVE  RightSince(k, entry'[k].found, entry'[k].expiresAt - AuthTTL)
    <3>1. CASE k # token[a]
      BY <2>1, <3>1 DEF EntriesRight, SetCached, KeyType
    <3>2. CASE k = token[a]
      <4>1. entry'[k].found = answer[a] /\ entry'[k].expiresAt = since[a] + AuthTTL
        BY <3>2 DEF SetCached, KeyType
      <4>2. entry'[k].expiresAt - AuthTTL = since[a]
        BY <4>1, <1>a, <1>0
      <4>3. QED
        BY <3>2, <4>1, <4>2, <1>a
    <3>3. QED
      BY <3>1, <3>2
  <2>2. UNCHANGED <<expiry, instant, usable, unusable>>
    BY DEF SetCached, recordVars, keyHistory
  <2>3. QED
    BY <2>1, <2>2 DEF EntriesRight, RightSince
<1>4. CallsRight'
  BY DEF CallsRight, RightSince, SetCached, recordVars, keyHistory, KeyType
<1>5. AnswersAreRecent'
  <2> SUFFICES ASSUME NEW b \in Askers, asking'[b] = "answered"
               PROVE  IF answer'[b]
                      THEN /\ expiry' > since'[b] - AuthTTL
                           /\ \E t \in usable'[token'[b]] : t > since'[b] - AuthTTL
                      ELSE expiry' <= instant' \/ \E t \in unusable'[token'[b]] : t > since'[b] - AuthTTL
    BY DEF AnswersAreRecent
  <2>0. UNCHANGED <<expiry, instant, usable, unusable, token, since, answer>>
    BY DEF SetCached, recordVars, keyHistory
  <2>1. CASE b # a
    BY <2>1, <2>0, <1>1, RecentStays DEF SetCached, KeyType
  <2>2. CASE b = a
    <3>1. usable[token[a]] \subseteq Nat /\ unusable[token[a]] \subseteq Nat /\ expiry \in Int
      BY <1>a DEF KeyType
    <3>2. QED
      BY <2>2, <2>0, <3>1, <1>0, <1>a DEF RightSince
  <2>3. QED
    BY <2>1, <2>2
<1>6. QED
  BY <1>1, <1>2, <1>3, <1>4, <1>5

\* The tool and the clock leave the calls alone and add to the history.
LEMMA WitnessStep ==
    ASSUME KeyInv, NEW k, NEW b \in BOOLEAN, NEW t \in Nat, t >= instant, Witness(k, b, t),
           instant' = t, digest' = k, active' = b, UNCHANGED <<expiry, entry, askVars>>
    PROVE  KeyInv'
<1> USE DEF KeyInv
<1>1. KeyType'
  BY DEF KeyType, Witness, askVars
<1>2. PresentWitnessed'
  BY DEF PresentWitnessed, Witness, KeyType
<1>3. \A j \in Tokens : usable[j] \subseteq usable'[j] /\ unusable[j] \subseteq unusable'[j]
  BY DEF Witness, KeyType
<1>4. EntriesRight'
  <2>1. ASSUME NEW j \in Tokens, entry[j].cached
        PROVE  RightSince(j, entry[j].found, entry[j].expiresAt - AuthTTL)'
    <3>1. entry[j].found \in BOOLEAN /\ entry[j].expiresAt - AuthTTL \in Int
      BY KeyAuthConstants DEF KeyType
    <3>2. RightSince(j, entry[j].found, entry[j].expiresAt - AuthTTL)
      BY <2>1 DEF EntriesRight
    <3>3. entry' = entry /\ expiry' = expiry /\ instant' >= instant
      OBVIOUS
    <3>4. CASE entry[j].found
      BY <1>3, <3>2, <3>3, <3>4 DEF RightSince
    <3>5. CASE ~entry[j].found
      BY <1>1, <1>3, <3>2, <3>3, <3>5 DEF RightSince, KeyType
    <3>6. QED
      BY <3>4, <3>5
  <2>2. QED
    BY <2>1 DEF EntriesRight
<1>5. CallsRight'
  <2> SUFFICES ASSUME NEW a \in Askers
               PROVE  /\ since'[a] <= instant'
                      /\ asking'[a] # "idle" => token'[a] \in Tokens
                      /\ asking'[a] = "store" => RightSince(token[a], answer[a], since[a])'
    BY DEF CallsRight
  <2>1. since'[a] <= instant' /\ (asking'[a] # "idle" => token'[a] \in Tokens)
    BY DEF CallsRight, askVars, KeyType
  <2>2. ASSUME asking'[a] = "store" PROVE RightSince(token[a], answer[a], since[a])'
    <3>1. token[a] \in Tokens /\ RightSince(token[a], answer[a], since[a])
      BY <2>2 DEF CallsRight, askVars
    <3>2. expiry' = expiry /\ token' = token /\ answer' = answer /\ since' = since
      BY DEF askVars
    <3>3. CASE answer[a]
      BY <1>3, <3>1, <3>2, <3>3 DEF RightSince
    <3>4. CASE ~answer[a]
      BY <1>1, <1>3, <3>1, <3>2, <3>4 DEF RightSince, KeyType
    <3>5. QED
      BY <3>3, <3>4
  <2>3. QED
    BY <2>1, <2>2
<1>6. AnswersAreRecent'
  BY <1>1, <1>3, RecentStays DEF AnswersAreRecent, askVars, KeyType
<1>7. QED
  BY <1>1, <1>2, <1>4, <1>5, <1>6

LEMMA KeyStep == KeyInv /\ [KeyNext]_keyVars => KeyInv'
<1> SUFFICES ASSUME KeyInv, [KeyNext]_keyVars PROVE KeyInv'
  OBVIOUS
<1>1. CASE UNCHANGED keyVars
  BY <1>1 DEF keyVars, recordVars, askVars, keyHistory, KeyInv, KeyType, PresentWitnessed,
              EntriesRight, CallsRight, AnswersAreRecent, RightSince
<1>2. ASSUME NEW a \in Askers,
             \/ \E k \in Tokens : Ask(a, k)
             \/ GetCached(a) \/ MissCached(a) \/ FindByDigest(a) \/ FindByDigestFails(a) \/ SetCached(a)
      PROVE  KeyInv'
  BY <1>2, AskStep, GetCachedStep, MissCachedStep, FindByDigestStep, FindByDigestFailsStep, SetCachedStep
<1>3. ASSUME NEW k \in Tokens, GiveToken(k) PROVE KeyInv'
  <2>1. Witness(k, TRUE, instant) /\ digest' = k /\ active' = TRUE
    BY <1>3 DEF GiveToken, SetRecord
  <2>2. instant \in Nat /\ instant >= instant
    BY DEF KeyInv, KeyType
  <2>3. instant' = instant /\ UNCHANGED <<expiry, entry, askVars>>
    BY <1>3 DEF GiveToken, SetRecord
  <2>4. QED
    BY <2>1, <2>2, <2>3, WitnessStep
<1>4. CASE Disable
  <2>1. Witness(digest, FALSE, instant) /\ digest' = digest /\ active' = FALSE
    BY <1>4 DEF Disable, SetRecord
  <2>2. instant \in Nat /\ instant >= instant
    BY DEF KeyInv, KeyType
  <2>3. instant' = instant /\ UNCHANGED <<expiry, entry, askVars>>
    BY <1>4 DEF Disable, SetRecord
  <2>4. QED
    BY <2>1, <2>2, <2>3, WitnessStep
<1>5. CASE InstantPasses
  BY <1>5, WitnessStep DEF InstantPasses, recordVars, KeyInv, KeyType
<1>6. QED
  BY <1>1, <1>2, <1>3, <1>4, <1>5 DEF KeyNext

\* An answer of AuthenticateAPIKey, a grant or a refusal, is at most one
\* cache TTL old, however requests interleave with the repository and the
\* tool that creates, rotates and disables the key.
THEOREM RecentAnswers == ServerSpec => []AnswersAreRecent
<1>1. ServerInit => KeyInv
  BY PartInits, KeyInitially
<1>2. KeyInv /\ [ServerNext]_serverVars => KeyInv'
  BY PartSteps, KeyStep
<1>3. KeyInv => AnswersAreRecent
  BY DEF KeyInv
<1>4. QED
  BY <1>1, <1>2, <1>3, PTL DEF ServerSpec

(***************************************************************************)
(* The rate limiter.  What a client was granted and what its bucket still  *)
(* holds never come to more than its bursts and what was refilled.         *)
(***************************************************************************)

LimiterType ==
    /\ second \in 0..LastSecond
    /\ held \subseteq Limited
    /\ tokens \in [Limited -> Nat] /\ refilled \in [Limited -> Nat] /\ granted \in [Limited -> Nat]
    /\ firstAsked \in [Limited -> Nat] /\ displaced \in [Limited -> Nat]

\* With a bucket, and without one: then the next would be a full one.
Budget(g, left, d, from, to) == g + left <= Burst * (1 + d) + Rps * (to - from)

ClientInv(c) ==
    IF firstAsked[c] = NotYet THEN c \notin held /\ granted[c] = 0 /\ displaced[c] = 0
    ELSE /\ firstAsked[c] <= refilled[c] /\ refilled[c] <= second
         /\ IF c \in held THEN Budget(granted[c], tokens[c], displaced[c], firstAsked[c], refilled[c])
            ELSE Budget(granted[c], Burst, displaced[c], firstAsked[c], second)

LimiterInv == LimiterType /\ \A c \in Limited : ClientInv(c)

LEMMA LimiterFacts == Rps \in Nat \ {0} /\ Burst = 2 * Rps /\ Burst \in Nat /\ LastSecond \in Nat /\ BucketTTL \in Nat \ {0, 1}
  BY LimiterConstants DEF Burst

\* Time only adds to what a client may be granted.
LEMMA BudgetGrows ==
    ASSUME NEW g \in Nat, NEW left \in Nat, NEW d \in Nat, NEW from \in Nat, NEW to \in Nat, NEW later \in Nat,
           NEW more \in Nat, to <= later, more <= Rps * (later - to), Budget(g, left, d, from, to)
    PROVE  Budget(g, left + more, d, from, later)
<1>1. Rps \in Nat /\ Burst \in Nat
  BY LimiterFacts
<1>2. Rps * (later - from) = Rps * (to - from) + Rps * (later - to)
  BY <1>1
<1>3. Rps * (later - from) \in Int /\ Rps * (to - from) \in Int /\ Rps * (later - to) \in Int /\ Burst * (1 + d) \in Int
  BY <1>1
<1>4. QED
  BY <1>2, <1>3 DEF Budget

LEMMA LimiterInitially == LimiterInit => LimiterInv
  BY LimiterFacts DEF LimiterInit, LimiterInv, LimiterType, ClientInv, NotYet

\* The tokens a client finds are within its budget.
LEMMA FoundWithin ==
    ASSUME LimiterInv, NEW c \in Limited, firstAsked[c] # NotYet
    PROVE  Found(c) \in Nat /\ Budget(granted[c], Found(c), displaced[c], firstAsked[c], second)
<1> DEFINE more == (second - refilled[c]) * Rps
<1>1. /\ second \in Nat /\ refilled[c] \in Nat /\ tokens[c] \in Nat /\ granted[c] \in Nat
      /\ firstAsked[c] \in Nat /\ displaced[c] \in Nat /\ refilled[c] <= second
  BY DEF LimiterInv, LimiterType, ClientInv
<1>2. Rps \in Nat /\ Burst \in Nat
  BY LimiterFacts
<1>3. more \in Nat /\ more <= Rps * (second - refilled[c])
  BY <1>1, <1>2
<1>4. CASE c \notin held
  <2>1. Found(c) = Burst
    BY <1>4 DEF Found
  <2>2. QED
    BY <1>2, <1>4, <2>1 DEF LimiterInv, ClientInv
<1>5. CASE c \in held
  <2>1. Budget(granted[c], tokens[c], displaced[c], firstAsked[c], refilled[c])
    BY <1>5 DEF LimiterInv, ClientInv
  <2>2. Found(c) \in Nat /\ Found(c) <= tokens[c] + more
    BY <1>1, <1>2, <1>3, <1>5 DEF Found
  <2>3. Burst * (1 + displaced[c]) \in Int /\ Rps * (second - firstAsked[c]) \in Int
    BY <1>1, <1>2
  <2> HIDE DEF more
  <2>4. Budget(granted[c], tokens[c] + more, displaced[c], firstAsked[c], second)
    BY <1>1, <1>3, <2>1, BudgetGrows
  <2>5. QED
    BY <1>1, <1>3, <2>2, <2>3, <2>4 DEF Budget
<1>6. QED
  BY <1>4, <1>5

\* A request takes one of them.
LEMMA TakesStep ==
    ASSUME LimiterInv, NEW c \in Limited, NEW others \in SUBSET Limited, Takes(c, others)
    PROVE  /\ firstAsked'[c] # NotYet /\ firstAsked'[c] <= refilled'[c] /\ refilled'[c] <= second'
           /\ Budget(granted'[c], tokens'[c], displaced[c], firstAsked'[c], refilled'[c])
           /\ tokens' \in [Limited -> Nat] /\ granted' \in [Limited -> Nat]
           /\ refilled' \in [Limited -> Nat] /\ firstAsked' \in [Limited -> Nat]
<1>1. /\ second \in Nat /\ second <= LastSecond /\ LastSecond \in Nat /\ granted[c] \in Nat
      /\ firstAsked[c] \in Nat /\ displaced[c] \in Nat
  BY LimiterFacts DEF LimiterInv, LimiterType
<1>2. Rps \in Nat \ {0} /\ Burst \in Nat /\ Burst = 2 * Rps
  BY LimiterFacts
<1>3. Found(c) \in Nat
  <2>1. CASE firstAsked[c] # NotYet
    BY <2>1, FoundWithin
  <2>2. CASE firstAsked[c] = NotYet
    BY <2>2, <1>2 DEF LimiterInv, ClientInv, Found
  <2>3. QED
    BY <2>1, <2>2
<1>4. /\ refilled' = [refilled EXCEPT ![c] = second] /\ second' = second
      /\ tokens' = [tokens EXCEPT ![c] = IF Found(c) < 1 THEN Found(c) ELSE Found(c) - 1]
      /\ granted' = [granted EXCEPT ![c] = IF Found(c) < 1 THEN @ ELSE @ + 1]
      /\ firstAsked' = [firstAsked EXCEPT ![c] = IF @ = NotYet THEN second ELSE @]
  BY DEF Takes
<1>5. /\ tokens' \in [Limited -> Nat] /\ granted' \in [Limited -> Nat]
      /\ refilled' \in [Limited -> Nat] /\ firstAsked' \in [Limited -> Nat]
  <2>1. /\ (IF Found(c) < 1 THEN Found(c) ELSE Found(c) - 1) \in Nat
        /\ (IF Found(c) < 1 THEN granted[c] ELSE granted[c] + 1) \in Nat
        /\ (IF firstAsked[c] = NotYet THEN second ELSE firstAsked[c]) \in Nat
    BY <1>1, <1>3
  <2>2. QED
    BY <1>1, <1>4, <2>1 DEF LimiterInv, LimiterType
<1>6. /\ refilled'[c] = second /\ granted'[c] + tokens'[c] = granted[c] + Found(c)
      /\ firstAsked'[c] = IF firstAsked[c] = NotYet THEN second ELSE firstAsked[c]
  BY <1>1, <1>3, <1>4 DEF LimiterInv, LimiterType
<1>7. CASE firstAsked[c] # NotYet
  <2>1. Budget(granted[c], Found(c), displaced[c], firstAsked[c], second)
    BY <1>7, FoundWithin
  <2>2. firstAsked'[c] = firstAsked[c] /\ firstAsked[c] <= second
    BY <1>7, <1>6, <1>1 DEF LimiterInv, LimiterType, ClientInv
  <2>3. Budget(granted'[c], tokens'[c], displaced[c], firstAsked'[c], refilled'[c])
    BY <2>1, <2>2, <1>6 DEF Budget
  <2>4. QED
    BY <2>2, <2>3, <1>1, <1>4, <1>5, <1>6, <1>7
<1>8. CASE firstAsked[c] = NotYet
  <2>1. granted[c] = 0 /\ displaced[c] = 0 /\ c \notin held /\ firstAsked'[c] = second
    BY <1>8, <1>6 DEF LimiterInv, ClientInv
  <2>2. Found(c) = Burst
    BY <2>1 DEF Found
  <2>3. Burst * (1 + 0) = Burst /\ Rps * (second - second) = 0
    BY <1>1, <1>2
  <2>4. Budget(granted'[c], tokens'[c], displaced[c], firstAsked'[c], refilled'[c])
    BY <1>1, <1>2, <1>6, <2>1, <2>2, <2>3 DEF Budget
  <2>5. second # NotYet
    BY <1>1 DEF NotYet
  <2>6. QED
    BY <2>1, <2>4, <2>5, <1>1, <1>4, <1>5, <1>6
<1>9. QED
  BY <1>7, <1>8

LEMMA RequestStep == ASSUME LimiterInv, NEW c \in Limited, Request(c) PROVE LimiterInv'
<1>1. held \in SUBSET Limited /\ Takes(c, held) /\ displaced' = displaced
  BY DEF Request, LimiterInv, LimiterType
<1>2. LimiterType'
  BY <1>1, TakesStep DEF LimiterInv, LimiterType, Takes
<1>3. ASSUME NEW d \in Limited PROVE ClientInv(d)'
  <2>1. CASE d = c
    <3>1. c \in held'
      BY <1>1 DEF Takes
    <3>2. QED
      BY <1>1, <2>1, <3>1, TakesStep DEF ClientInv, Budget, NotYet
  <2>2. CASE d # c
    BY <1>1, <2>2 DEF LimiterInv, LimiterType, ClientInv, Budget, NotYet, Takes
  <2>3. QED
    BY <2>1, <2>2
<1>4. QED
  BY <1>2, <1>3 DEF LimiterInv

LEMMA RequestDisplacesStep ==
    ASSUME LimiterInv, NEW c \in Limited, NEW old \in Limited, RequestDisplaces(c, old) PROVE LimiterInv'
<1>1. /\ held \ {old} \in SUBSET Limited /\ Takes(c, held \ {old}) /\ c \notin held /\ old \in held
      /\ displaced' = [displaced EXCEPT ![old] = @ + 1]
  BY DEF RequestDisplaces, LongestUnused, LimiterInv, LimiterType
<1>2. LimiterType'
  <2>1. displaced' \in [Limited -> Nat]
    BY <1>1 DEF LimiterInv, LimiterType
  <2>2. held' \subseteq Limited /\ second' = second
    BY <1>1 DEF Takes
  <2>3. QED
    BY <1>1, <2>1, <2>2, TakesStep DEF LimiterInv, LimiterType
<1>3. ASSUME NEW d \in Limited PROVE ClientInv(d)'
  <2>1. CASE d = c
    <3>1. c \in held' /\ displaced'[c] = displaced[c]
      BY <1>1 DEF Takes, LimiterInv, LimiterType
    <3>2. QED
      BY <1>1, <2>1, <3>1, TakesStep DEF ClientInv, Budget, NotYet
  <2>2. CASE d = old
    <3>1. d # c /\ d \notin held' /\ displaced'[d] = displaced[d] + 1
      BY <1>1, <2>2 DEF Takes, LimiterInv, LimiterType
    <3>2. /\ granted'[d] = granted[d] /\ firstAsked'[d] = firstAsked[d] /\ refilled'[d] = refilled[d]
          /\ second' = second
      BY <1>1, <3>1 DEF Takes, LimiterInv, LimiterType
    <3>3. /\ firstAsked[d] # NotYet /\ firstAsked[d] <= refilled[d] /\ refilled[d] <= second
          /\ Budget(granted[d], tokens[d], displaced[d], firstAsked[d], refilled[d])
      BY <1>1, <2>2 DEF LimiterInv, ClientInv
    <3>4. /\ granted[d] \in Nat /\ tokens[d] \in Nat /\ displaced[d] \in Nat /\ firstAsked[d] \in Nat
          /\ refilled[d] \in Nat /\ second \in Nat /\ Rps \in Nat /\ Burst \in Nat
      BY LimiterFacts DEF LimiterInv, LimiterType
    <3>5. Budget(granted[d], tokens[d] + 0, displaced[d], firstAsked[d], second)
      <4>1. 0 <= Rps * (second - refilled[d])
        BY <3>3, <3>4
      <4>2. QED
        BY <3>3, <3>4, <4>1, BudgetGrows
    <3>6. Burst * (1 + (displaced[d] + 1)) = Burst * (1 + displaced[d]) + Burst
      BY <3>4
    <3>7. Burst * (1 + displaced[d]) \in Int /\ Rps * (second - firstAsked[d]) \in Int
      BY <3>4
    <3>8. Budget(granted[d], Burst, displaced[d] + 1, firstAsked[d], second)
      BY <3>4, <3>5, <3>6, <3>7 DEF Budget
    <3>9. QED
      BY <3>1, <3>2, <3>3, <3>8 DEF ClientInv, Budget, NotYet
  <2>3. CASE d # c /\ d # old
    BY <1>1, <2>3 DEF LimiterInv, LimiterType, ClientInv, Budget, NotYet, Takes
  <2>4. QED
    BY <2>1, <2>2, <2>3
<1>4. QED
  BY <1>2, <1>3 DEF LimiterInv

\* A bucket the sweep takes away would have been full.
LEMMA SweepStep == ASSUME LimiterInv, Sweep PROVE LimiterInv'
<1>1. LimiterType'
  BY DEF LimiterInv, LimiterType, Sweep
<1>2. ASSUME NEW d \in Limited PROVE ClientInv(d)'
  <2>1. CASE d \in held /\ d \notin held'
    <3>1. /\ granted[d] \in Nat /\ tokens[d] \in Nat /\ displaced[d] \in Nat /\ firstAsked[d] \in Nat
          /\ refilled[d] \in Nat /\ second \in Nat /\ Rps \in Nat /\ Burst \in Nat /\ Burst = 2 * Rps
          /\ BucketTTL \in Nat \ {0, 1}
      BY LimiterFacts DEF LimiterInv, LimiterType
    <3>2. second - refilled[d] > BucketTTL
      BY <2>1, <3>1 DEF Sweep
    <3>3. /\ firstAsked[d] # NotYet /\ firstAsked[d] <= refilled[d] /\ refilled[d] <= second
          /\ Budget(granted[d], tokens[d], displaced[d], firstAsked[d], refilled[d])
      BY <2>1 DEF LimiterInv, ClientInv
    <3>4. second - refilled[d] >= 2
      BY <3>1, <3>2
    <3>5. 2 * Rps <= Rps * (second - refilled[d])
      BY <3>1, <3>4
    <3>6. Budget(granted[d], tokens[d] + Burst, displaced[d], firstAsked[d], second)
      BY <3>1, <3>3, <3>5, BudgetGrows
    <3>7. Burst * (1 + displaced[d]) \in Int /\ Rps * (second - firstAsked[d]) \in Int
      BY <3>1
    <3>8. Budget(granted[d], Burst, displaced[d], firstAsked[d], second)
      BY <3>1, <3>6, <3>7 DEF Budget
    <3>9. QED
      BY <2>1, <3>3, <3>8 DEF Sweep, ClientInv, Budget, NotYet
  <2>2. CASE ~(d \in held /\ d \notin held')
    BY <2>2 DEF Sweep, LimiterInv, ClientInv, Budget, NotYet
  <2>3. QED
    BY <2>1, <2>2
<1>3. QED
  BY <1>1, <1>2 DEF LimiterInv

LEMMA SecondPassesStep == ASSUME LimiterInv, SecondPasses PROVE LimiterInv'
<1>1. LimiterType' /\ second' = second + 1 /\ second \in Nat
  BY LimiterFacts DEF LimiterInv, LimiterType, SecondPasses
<1>2. ASSUME NEW d \in Limited PROVE ClientInv(d)'
  <2>1. CASE d \notin held /\ firstAsked[d] # NotYet
    <3>1. /\ granted[d] \in Nat /\ displaced[d] \in Nat /\ firstAsked[d] \in Nat
          /\ Rps \in Nat /\ Burst \in Nat /\ second + 1 \in Nat
      BY <1>1, LimiterFacts DEF LimiterInv, LimiterType
    <3>2. 0 <= Rps * ((second + 1) - second) /\ second <= second + 1
      BY <1>1, <3>1
    <3>3. Budget(granted[d], Burst, displaced[d], firstAsked[d], second)
      BY <2>1 DEF LimiterInv, ClientInv
    <3>4. Budget(granted[d], Burst + 0, displaced[d], firstAsked[d], second + 1)
      BY <1>1, <3>1, <3>2, <3>3, BudgetGrows
    <3>5. Burst + 0 = Burst
      BY <3>1
    <3>6. QED
      BY <1>1, <2>1, <3>4, <3>5 DEF SecondPasses, LimiterInv, LimiterType, ClientInv, Budget, NotYet
  <2>2. CASE d \in held \/ firstAsked[d] = NotYet
    BY <1>1, <2>2 DEF SecondPasses, LimiterInv, LimiterType, ClientInv, Budget, NotYet
  <2>3. QED
    BY <2>1, <2>2
<1>3. QED
  BY <1>1, <1>2 DEF LimiterInv

LEMMA LimiterStep == LimiterInv /\ [LimiterNext]_limiterVars => LimiterInv'
<1> SUFFICES ASSUME LimiterInv, [LimiterNext]_limiterVars PROVE LimiterInv'
  OBVIOUS
<1>1. CASE UNCHANGED limiterVars
  BY <1>1 DEF limiterVars, LimiterInv, LimiterType, ClientInv, Budget, NotYet
<1>2. CASE LimiterNext
  BY <1>2, RequestStep, RequestDisplacesStep, SweepStep, SecondPassesStep DEF LimiterNext
<1>3. QED
  BY <1>1, <1>2

LEMMA LimiterSafe == LimiterInv => RateIsKept
<1> SUFFICES ASSUME LimiterInv, NEW c \in Limited, firstAsked[c] # NotYet
             PROVE  granted[c] <= Burst * (1 + displaced[c]) + Rps * (second - firstAsked[c])
  BY DEF RateIsKept
<1>1. Found(c) \in Nat /\ Budget(granted[c], Found(c), displaced[c], firstAsked[c], second)
  BY FoundWithin
<1>2. /\ granted[c] \in Nat /\ displaced[c] \in Nat /\ firstAsked[c] \in Nat /\ second \in Nat
      /\ Rps \in Nat /\ Burst \in Nat
  BY LimiterFacts DEF LimiterInv, LimiterType
<1>3. Burst * (1 + displaced[c]) \in Int /\ Rps * (second - firstAsked[c]) \in Int
  BY <1>2
<1>4. QED
  BY <1>1, <1>2, <1>3 DEF Budget

\* No client is let through more often than its rate and one burst allow, and
\* one more burst for every time others displaced its bucket: the sweep of
\* RateLimitMiddleware takes away only buckets that would be full.
THEOREM RateKept == ServerSpec => []RateIsKept
<1>1. ServerInit => LimiterInv
  BY PartInits, LimiterInitially
<1>2. LimiterInv /\ [ServerNext]_serverVars => LimiterInv'
  BY PartSteps, LimiterStep
<1>3. QED
  BY <1>1, <1>2, LimiterSafe, PTL DEF ServerSpec

(***************************************************************************)
(* The traffic meter.  What is due in a minute is in memory, or the minute *)
(* is over, written and no longer in memory.                               *)
(***************************************************************************)

TrafficType ==
    /\ minute \in Minutes /\ cutoff \in Nat /\ cutoff <= minute
    /\ transferred \in [Requests -> SUBSET Minutes]
    /\ finishedAt \in [Requests -> 0..(LastMinute + 1)]
    /\ buckets \in [Minutes -> SUBSET Items] /\ rows \in [Minutes -> SUBSET Items]
    /\ snapshot \in [Minutes -> SUBSET Items]

KeptInMemoryOrRow(m) ==
    \/ DueIn(m) \subseteq buckets[m]
    \/ m < minute /\ buckets[m] = {} /\ DueIn(m) \subseteq rows[m]

\* For a minute that none of its requests outlived, what a flush under way
\* took is what is in memory, and after its write the row has it all.
MinuteInv(m) ==
    ~OutlivedBy(m) /\ flusher # "gone" =>
        /\ KeptInMemoryOrRow(m)
        /\ flusher = "write" => snapshot[m] = IF m < cutoff THEN buckets[m] ELSE {}
        /\ flusher = "discard" /\ m < cutoff => DueIn(m) \subseteq rows[m]

TrafficInv == TrafficType /\ \A m \in Minutes : MinuteInv(m)

LEMMA TrafficInitially == TrafficInit => TrafficInv
<1> SUFFICES ASSUME TrafficInit PROVE TrafficInv
  OBVIOUS
<1>0. LastMinute \in Nat
  BY TrafficConstants
<1>1. TrafficType
  BY <1>0 DEF TrafficInit, TrafficType, Minutes, NoItems, Unfinished
<1>2. \A m \in Minutes : DueIn(m) = {}
  BY DEF TrafficInit, DueIn, Items
<1>3. QED
  BY <1>1, <1>2 DEF TrafficInv, MinuteInv, KeptInMemoryOrRow, TrafficInit

LEMMA FlushSteps ==
    ASSUME TrafficInv,
           \/ FlushTick \/ TakeSnapshot \/ WriteTrafficMinutes \/ DiscardBefore
           \/ \E applied \in BOOLEAN : WriteTrafficFails(applied) \/ StopServer(applied)
    PROVE  TrafficInv'
<1>0. LastMinute \in Nat
  BY TrafficConstants
<1>1. UNCHANGED <<minute, transferred, finishedAt>>
  BY DEF FlushTick, TakeSnapshot, WriteTrafficMinutes, DiscardBefore, WriteTrafficFails, StopServer, requestVars
<1>2. \A m \in Minutes : DueIn(m)' = DueIn(m) /\ (OutlivedBy(m)' <=> OutlivedBy(m))
  BY <1>1 DEF DueIn, OutlivedBy
<1>3. \A m \in Minutes : Written[m] = IF snapshot[m] = {} THEN rows[m] ELSE snapshot[m]
  BY DEF Written
<1>4. Written \in [Minutes -> SUBSET Items]
  BY DEF Written, TrafficInv, TrafficType
<1>5. CASE FlushTick
  <2>1. TrafficType'
    BY <1>0, <1>5 DEF FlushTick, TrafficInv, TrafficType, requestVars, Minutes
  <2>2. \A m \in Minutes : MinuteInv(m)'
    BY <1>2, <1>5 DEF FlushTick, TrafficInv, MinuteInv, KeptInMemoryOrRow
  <2>3. QED
    BY <2>1, <2>2 DEF TrafficInv
<1>6. CASE TakeSnapshot
  <2>1. TrafficType'
    BY <1>6 DEF TakeSnapshot, TrafficInv, TrafficType, requestVars
  <2>2. \A m \in Minutes : MinuteInv(m)'
    BY <1>2, <1>6 DEF TakeSnapshot, TrafficInv, MinuteInv, KeptInMemoryOrRow
  <2>3. QED
    BY <2>1, <2>2 DEF TrafficInv
<1>7. CASE WriteTrafficMinutes
  <2>1. TrafficType'
    BY <1>4, <1>7 DEF WriteTrafficMinutes, TrafficInv, TrafficType, requestVars
  <2>2. \A m \in Minutes : MinuteInv(m)'
    BY <1>2, <1>3, <1>7 DEF WriteTrafficMinutes, TrafficInv, MinuteInv, KeptInMemoryOrRow
  <2>3. QED
    BY <2>1, <2>2 DEF TrafficInv
<1>8. CASE DiscardBefore
  <2>1. TrafficType'
    BY <1>8 DEF DiscardBefore, TrafficInv, TrafficType, requestVars
  <2>2. \A m \in Minutes : MinuteInv(m)'
    <3> SUFFICES ASSUME NEW m \in Minutes PROVE MinuteInv(m)'
      OBVIOUS
    <3>1. m \in Nat /\ minute \in Nat /\ cutoff \in Nat /\ cutoff <= minute
      BY <1>0 DEF TrafficInv, TrafficType, Minutes
    <3>2. buckets'[m] = IF m < cutoff THEN {} ELSE buckets[m]
      BY <1>8 DEF DiscardBefore
    <3>3. QED
      BY <1>2, <1>8, <3>1, <3>2 DEF DiscardBefore, TrafficInv, MinuteInv, KeptInMemoryOrRow
  <2>3. QED
    BY <2>1, <2>2 DEF TrafficInv
<1>9. ASSUME NEW applied \in BOOLEAN, WriteTrafficFails(applied) PROVE TrafficInv'
  <2>1. TrafficType'
    BY <1>4, <1>9 DEF WriteTrafficFails, TrafficInv, TrafficType, requestVars
  <2>2. \A m \in Minutes : MinuteInv(m)'
    BY <1>2, <1>3, <1>9 DEF WriteTrafficFails, TrafficInv, MinuteInv, KeptInMemoryOrRow
  <2>3. QED
    BY <2>1, <2>2 DEF TrafficInv
<1>10. ASSUME NEW applied \in BOOLEAN, StopServer(applied) PROVE TrafficInv'
  <2>1. TrafficType'
    BY <1>10 DEF StopServer, TrafficInv, TrafficType, requestVars
  <2>2. \A m \in Minutes : MinuteInv(m)'
    BY <1>10 DEF StopServer, MinuteInv
  <2>3. QED
    BY <2>1, <2>2 DEF TrafficInv
<1>11. QED
  BY <1>5, <1>6, <1>7, <1>8, <1>9, <1>10

\* A request that is not finished has nothing due and outlives nothing yet.
LEMMA TransferStep == ASSUME TrafficInv, NEW r \in Requests, Transfer(r) PROVE TrafficInv'
<1>0. LastMinute \in Nat
  BY TrafficConstants
<1>1. /\ transferred' = [transferred EXCEPT ![r] = @ \cup {minute}] /\ finishedAt[r] = Unfinished
      /\ UNCHANGED <<minute, finishedAt, buckets, rows, flusher, cutoff, snapshot>>
  BY DEF Transfer, flushVars
<1>2. TrafficType'
  <2>1. transferred[r] \cup {minute} \in SUBSET Minutes
    BY DEF TrafficInv, TrafficType
  <2>2. transferred' \in [Requests -> SUBSET Minutes]
    BY <1>1, <2>1 DEF TrafficInv, TrafficType
  <2>3. QED
    BY <1>1, <2>2 DEF TrafficInv, TrafficType
<1>3. \A q \in Requests : q # r => transferred'[q] = transferred[q]
  BY <1>1 DEF TrafficInv, TrafficType
<1>4. \A m \in Minutes : DueIn(m)' = DueIn(m)
  BY <1>1, <1>3 DEF DueIn, Items
<1>5. \A m \in Minutes : OutlivedBy(m)' <=> OutlivedBy(m)
  <2>1. \A m \in Minutes : finishedAt[r] \notin (m + 1)..LastMinute
    BY <1>0, <1>1 DEF Unfinished
  <2>2. QED
    BY <1>1, <1>3, <2>1 DEF OutlivedBy
<1>6. \A m \in Minutes : MinuteInv(m)'
  BY <1>1, <1>4, <1>5 DEF TrafficInv, MinuteInv, KeptInMemoryOrRow
<1>7. QED
  BY <1>2, <1>6 DEF TrafficInv

\* A request that finishes outlives the earlier minutes it has bytes in; in
\* the others it hands in whatever it has to show.
LEMMA FinishStep == ASSUME TrafficInv, NEW r \in Requests, FinishRequest(r) PROVE TrafficInv'
<1>0. LastMinute \in Nat /\ minute \in Nat /\ minute <= LastMinute
  BY TrafficConstants DEF TrafficInv, TrafficType, Minutes
<1>1. /\ finishedAt' = [finishedAt EXCEPT ![r] = minute] /\ finishedAt[r] = Unfinished
      /\ buckets' = [m \in Minutes |-> buckets[m] \cup HandedIn(r, m)]
      /\ UNCHANGED <<minute, transferred, rows, flusher, cutoff, snapshot>>
  BY DEF FinishRequest, flushVars
<1>2. /\ finishedAt'[r] = minute /\ minute # Unfinished
      /\ \A q \in Requests : q # r => finishedAt'[q] = finishedAt[q]
  BY <1>0, <1>1 DEF TrafficInv, TrafficType, Unfinished
<1>3. TrafficType'
  <2>1. \A m \in Minutes : HandedIn(r, m) \subseteq Items
    BY DEF HandedIn
  <2>2. buckets' \in [Minutes -> SUBSET Items]
    BY <1>1, <2>1 DEF TrafficInv, TrafficType
  <2>3. finishedAt' \in [Requests -> 0..(LastMinute + 1)]
    BY <1>0, <1>1 DEF TrafficInv, TrafficType
  <2>4. QED
    BY <1>1, <2>2, <2>3 DEF TrafficInv, TrafficType
<1>4. ASSUME NEW m \in Minutes PROVE DueIn(m)' = DueIn(m) \cup HandedIn(r, m)
  <2>1. \A i \in Items : i.of \in Requests
    BY DEF Items
  <2>2. ASSUME NEW i \in Items, i.of = r PROVE i \in DueIn(m)' <=> i \in DueIn(m) \cup HandedIn(r, m)
    BY <1>1, <1>2, <2>2 DEF DueIn, HandedIn
  <2>3. ASSUME NEW i \in Items, i.of # r PROVE i \in DueIn(m)' <=> i \in DueIn(m) \cup HandedIn(r, m)
    BY <1>1, <1>2, <2>1, <2>3 DEF DueIn, HandedIn
  <2>4. DueIn(m)' \subseteq Items /\ DueIn(m) \subseteq Items /\ HandedIn(r, m) \subseteq Items
    BY DEF DueIn, HandedIn
  <2>5. QED
    BY <2>2, <2>3, <2>4
<1>5. \A m \in Minutes : OutlivedBy(m) => OutlivedBy(m)'
  <2>1. \A m \in Minutes : finishedAt[r] \notin (m + 1)..LastMinute
    BY <1>0, <1>1 DEF Unfinished
  <2>2. QED
    BY <1>1, <1>2, <2>1 DEF OutlivedBy
<1>6. ASSUME NEW m \in Minutes, m < minute, ~OutlivedBy(m)' PROVE HandedIn(r, m) = {}
  <2>1. m \in Nat /\ minute \in (m + 1)..LastMinute
    BY <1>0, <1>6 DEF Minutes
  <2>2. m \notin transferred[r]
    BY <1>1, <1>2, <1>6, <2>1 DEF OutlivedBy
  <2>3. QED
    BY <1>0, <1>6, <2>1, <2>2 DEF HandedIn
<1>7. ASSUME NEW m \in Minutes PROVE MinuteInv(m)'
  <2>0. m \in Nat /\ cutoff \in Nat /\ cutoff <= minute
    BY <1>0 DEF TrafficInv, TrafficType, Minutes
  <2>a. buckets'[m] = buckets[m] \cup HandedIn(r, m)
    BY <1>1
  <2>b. ~OutlivedBy(m)' => ~OutlivedBy(m)
    BY <1>5
  <2>1. CASE m < minute
    <3>1. ~OutlivedBy(m)' => DueIn(m)' = DueIn(m) /\ buckets'[m] = buckets[m]
      BY <1>4, <1>6, <2>1, <2>a
    <3>2. QED
      BY <1>1, <2>b, <3>1 DEF TrafficInv, MinuteInv, KeptInMemoryOrRow
  <2>2. CASE ~(m < minute)
    <3>1. ~(m < cutoff)
      BY <1>0, <2>0, <2>2
    <3>2. QED
      BY <1>1, <1>4, <2>2, <2>a, <2>b, <3>1 DEF TrafficInv, MinuteInv, KeptInMemoryOrRow
  <2>3. QED
    BY <2>1, <2>2
<1>8. QED
  BY <1>3, <1>7 DEF TrafficInv

LEMMA MinutePassesStep == ASSUME TrafficInv, MinutePasses PROVE TrafficInv'
<1>0. LastMinute \in Nat /\ minute \in Nat /\ cutoff \in Nat
  BY TrafficConstants DEF TrafficInv, TrafficType, Minutes
<1>1. minute' = minute + 1 /\ minute < LastMinute
      /\ UNCHANGED <<transferred, finishedAt, buckets, rows, flusher, cutoff, snapshot>>
  BY DEF MinutePasses, requestVars, flushVars
<1>2. TrafficType'
  BY <1>0, <1>1 DEF TrafficInv, TrafficType, Minutes
<1>3. \A m \in Minutes : DueIn(m)' = DueIn(m) /\ (OutlivedBy(m)' <=> OutlivedBy(m))
  BY <1>1 DEF DueIn, OutlivedBy
<1>4. \A m \in Minutes : m < minute => m < minute'
  BY <1>0, <1>1 DEF Minutes
<1>5. \A m \in Minutes : MinuteInv(m)'
  BY <1>1, <1>3, <1>4 DEF TrafficInv, MinuteInv, KeptInMemoryOrRow
<1>6. QED
  BY <1>2, <1>5 DEF TrafficInv

LEMMA TrafficStep == TrafficInv /\ [TrafficNext]_trafficVars => TrafficInv'
<1> SUFFICES ASSUME TrafficInv, [TrafficNext]_trafficVars PROVE TrafficInv'
  OBVIOUS
<1>1. CASE UNCHANGED trafficVars
  <2>1. UNCHANGED <<minute, transferred, finishedAt, buckets, rows, flusher, cutoff, snapshot>>
    BY <1>1 DEF trafficVars, requestVars, flushVars
  <2>2. QED
    BY <2>1 DEF TrafficInv, TrafficType, MinuteInv, KeptInMemoryOrRow, DueIn, OutlivedBy
<1>2. CASE TrafficNext
  BY <1>2, FlushSteps, TransferStep, FinishStep, MinutePassesStep DEF TrafficNext
<1>3. QED
  BY <1>1, <1>2

\* Whatever a flush coincides with or fails at, a minute that none of its
\* requests outlived is accounted for in full, in memory or in its row of
\* api_traffic_minute: DiscardBefore never takes what was not written.
THEOREM PromptMinutesKept == ServerSpec => []PromptMinutesAreKept
<1>1. ServerInit => TrafficInv
  BY PartInits, TrafficInitially
<1>2. TrafficInv /\ [ServerNext]_serverVars => TrafficInv'
  BY PartSteps, TrafficStep
<1>3. TrafficInv => PromptMinutesAreKept
  BY DEF TrafficInv, MinuteInv, KeptInMemoryOrRow, PromptMinutesAreKept
<1>4. QED
  BY <1>1, <1>2, <1>3, PTL DEF ServerSpec

(***************************************************************************)
(* The rebuilds of universes.                                              *)
(***************************************************************************)

\* Min and Max, of sets of numbers that are not empty, nor without a bound.
LEMMA LeastFacts ==
    ASSUME NEW S \in SUBSET Nat, S # {}
    PROVE  Min(S) \in S /\ \A y \in S : Min(S) <= y
<1> DEFINE To(x) == S \cap (0..x)
           Starts == {To(x) : x \in S}
<1>1. \A x \in S : x \in Nat /\ IsFiniteSet(0..x)
  BY FS_Interval
<1>2. \A x \in S : To(x) \in FiniteSubsetsOf(Nat)
  BY <1>1, FS_Subset DEF FiniteSubsetsOf
<1>3. Starts \subseteq FiniteSubsetsOf(Nat) /\ Starts # {}
  BY <1>2
<1>4. PICK T \in Starts : \A U \in Starts : ~(<<U, T>> \in StrictSubsetOrdering(Nat))
  BY <1>3, FS_StrictSubsetOrderingWellFounded, WFMin
<1>5. PICK x \in S : T = To(x)
  BY <1>4
<1>6. ASSUME NEW y \in S, ~(x <= y) PROVE FALSE
  <2>1. x \in Nat /\ y \in Nat /\ y < x
    BY <1>6, <1>1
  <2>2. To(y) \subseteq To(x) /\ x \in To(x) /\ x \notin To(y)
    BY <2>1
  <2>3. To(y) \in SUBSET Nat /\ To(x) \in SUBSET Nat /\ To(y) \in Starts
    OBVIOUS
  <2>4. <<To(y), To(x)>> \in StrictSubsetOrdering(Nat)
    BY <2>2, <2>3 DEF StrictSubsetOrdering
  <2>5. QED
    BY <1>4, <1>5, <2>3, <2>4
<1>7. QED
  BY <1>6 DEF Min

LEMMA GreatestFacts ==
    ASSUME NEW S \in SUBSET Nat, S # {}, NEW n \in Nat, \A x \in S : x <= n
    PROVE  Max(S) \in S /\ \A y \in S : y <= Max(S)
<1> DEFINE Below == {n - x : x \in S}
<1>1. Below \in SUBSET Nat /\ Below # {}
  <2>1. \A x \in S : n - x \in Nat
    OBVIOUS
  <2>2. QED
    BY <2>1
<1>2. Min(Below) \in Below /\ \A y \in Below : Min(Below) <= y
  BY <1>1, LeastFacts
<1>3. PICK x \in S : Min(Below) = n - x
  BY <1>2
<1>4. \A y \in S : x >= y
  <2> SUFFICES ASSUME NEW y \in S PROVE x >= y
    OBVIOUS
  <2>1. n - x <= n - y
    BY <1>2, <1>3
  <2>2. x \in Nat /\ y \in Nat
    OBVIOUS
  <2> HIDE DEF Below
  <2>3. QED
    BY <2>1, <2>2
<1>5. QED
  BY <1>4 DEF Max

\* A window, and a row of universe_membership, within the days there are.
Proper(w) == w.from \in Nat /\ w.to \in Nat /\ 1 <= w.from /\ w.from <= w.to /\ w.to <= LastDay + 1

IsRow(x) ==
    /\ x.from \in Nat /\ x.to \in Nat
    /\ 1 <= x.from /\ x.from < x.to /\ x.to <= LastDay + 1
    /\ x = [symbol |-> x.symbol, from |-> x.from, to |-> x.to, score |-> x.score]

CoveredTo(n) == \A d \in 1 .. n - 1 : d \in covered

\* Each member of day d is in one row.
OneEach(R, d) ==
    \A x, y \in R : d \in DaysOf(x) \cap DaysOf(y) /\ x.symbol = y.symbol => x = y

RightOn(R, d) == MembersOn(R, d) = told[d] /\ OneEach(R, d)

Within(R, w) ==
    /\ \A x \in R : IsRow(x) /\ w.from <= x.from /\ x.to <= w.to
    /\ \A d \in Days : OneEach(R, d)

\* What r keeps of the rows it has deleted is outside its window, and with
\* it the days outside have their members.
Ready(r) ==
    /\ Overlapping(window[r]) = {}
    /\ \A x \in remainders[r] : /\ IsRow(x) /\ CoveredTo(x.to)
                                /\ x.to <= window[r].from \/ window[r].to <= x.from
    /\ \A d \in Days \ lost : d \notin DaysOf(window[r]) => RightOn(universe \cup remainders[r], d)

AtWork(r) ==
    /\ Proper(window[r])
    /\ stage[r] \notin {"idle", "range", "resume"} => CoveredTo(window[r].from)
    /\ stage[r] \in {"replace", "delete", "insert"} => Within(members[r], window[r])
    /\ stage[r] \in {"delete", "insert"} => rebuilder = r
    /\ stage[r] = "delete" => remainders[r] \subseteq RemaindersOf(Overlapping(window[r]), window[r])
    /\ stage[r] = "insert" => Ready(r)

UniverseBase ==
    /\ reference \in Nat /\ reference <= LastDay
    /\ DOMAIN stage = Rebuilds /\ DOMAIN window = Rebuilds /\ DOMAIN members = Rebuilds
    /\ DOMAIN remainders = Rebuilds
    /\ window \in [Rebuilds -> [from : Nat, to : Nat]]
    /\ \A x \in universe : IsRow(x) /\ CoveredTo(x.to)

UniverseQuiet == (\A r \in Rebuilds : stage[r] # "insert") => \A d \in Days \ lost : RightOn(universe, d)

RebuildsInv == UniverseBase /\ UniverseQuiet /\ \A r \in Rebuilds : AtWork(r)

LEMMA RebuildsInitially == UniverseInit => RebuildsInv
<1> SUFFICES ASSUME UniverseInit PROVE RebuildsInv
  OBVIOUS
<1>0. LastDay \in Nat /\ LastDay >= 1
  BY UniverseConstants
<1>1. UniverseBase
  BY <1>0 DEF UniverseInit, UniverseBase, NoWindow
<1>2. UniverseQuiet
  BY DEF UniverseInit, UniverseQuiet, RightOn, OneEach, MembersOn
<1>3. ASSUME NEW r \in Rebuilds PROVE AtWork(r)
  BY <1>0 DEF UniverseInit, AtWork, Proper, NoWindow
<1>4. QED
  BY <1>1, <1>2, <1>3 DEF RebuildsInv

\* Every row of a rebuild that is over is gone.
LEMMA OverAtWork ==
    ASSUME NEW r \in Rebuilds, stage'[r] = "idle", window'[r] = NoWindow
    PROVE  AtWork(r)'
<1>0. LastDay \in Nat /\ LastDay >= 1
  BY UniverseConstants
<1>1. QED
  BY <1>0 DEF AtWork, Proper, NoWindow

\* A rebuild that is not replacing rows stands while others do.
LEMMA RestAtWork ==
    ASSUME NEW r \in Rebuilds, AtWork(r), stage[r] \notin {"delete", "insert"},
           stage'[r] = stage[r], window'[r] = window[r], members'[r] = members[r], covered \subseteq covered'
    PROVE  AtWork(r)'
  BY DEF AtWork, CoveredTo, Within, OneEach

\* One that is replacing rows, while others do not.
LEMMA SameAtWork ==
    ASSUME NEW r \in Rebuilds, AtWork(r),
           stage'[r] = stage[r], window'[r] = window[r], members'[r] = members[r], remainders'[r] = remainders[r],
           UNCHANGED <<universe, rebuilder, covered, told, lost>>
    PROVE  AtWork(r)'
  BY DEF AtWork, CoveredTo, Within, OneEach, Ready, RightOn, MembersOn, Overlapping

\* A step of r that changes no row.
LEMMA QuietStep ==
    ASSUME RebuildsInv, NEW r \in Rebuilds,
           UNCHANGED <<universe, rebuilder, covered, told, lost>>,
           reference' \in Nat, reference' <= LastDay,
           DOMAIN stage' = Rebuilds, DOMAIN members' = Rebuilds, DOMAIN remainders' = Rebuilds,
           window' \in [Rebuilds -> [from : Nat, to : Nat]],
           \A q \in Rebuilds \ {r} : /\ stage'[q] = stage[q] /\ window'[q] = window[q]
                                     /\ members'[q] = members[q] /\ remainders'[q] = remainders[q],
           stage[r] # "insert", stage'[r] # "insert",
           AtWork(r)'
    PROVE  RebuildsInv'
<1>1. UniverseBase'
  BY DEF RebuildsInv, UniverseBase, CoveredTo
<1>2. UniverseQuiet'
  BY DEF RebuildsInv, UniverseQuiet, RightOn, OneEach, MembersOn
<1>3. \A q \in Rebuilds : AtWork(q)'
  BY SameAtWork DEF RebuildsInv
<1>4. QED
  BY <1>1, <1>2, <1>3 DEF RebuildsInv

\* Compressed: within the window, and no two intervals of a symbol overlap,
\* because the first ends where its score does and the other begins anew.
LEMMA CompressedWithin ==
    ASSUME NEW r \in Rebuilds, Proper(window[r])
    PROVE  Within(Compressed(r), window[r])
<1> DEFINE listed == {row.day : row \in PoolRows(r)}
           ranked == {<<row.symbol, row.day>> : row \in PoolRows(r)}
           score(s, d) == Max({OutOfTop} \cup {row.score : row \in {x \in PoolRows(r) : x.symbol = s /\ x.day = d}})
           same(s, d, f) == score(s, d) = score(s, f)
           begins(s, d) == \A e \in {x \in listed : x < d} : ~same(s, e, d) \/ \E f \in listed : e < f /\ f < d /\ ~same(s, f, d)
           others(s, d) == {e \in listed : e > d /\ ~same(s, d, e)} \cup {window[r].to}
           ends(s, d) == Min(others(s, d))
           interval(s, d) == [symbol |-> s, from |-> d, to |-> ends(s, d), score |-> score(s, d)]
<1>0. /\ window[r].from \in Nat /\ window[r].to \in Nat /\ 1 <= window[r].from
      /\ window[r].to <= LastDay + 1 /\ LastDay \in Nat
  BY UniverseConstants DEF Proper
<1>1. Compressed(r) = {interval(x[1], x[2]) : x \in {y \in ranked : begins(y[1], y[2])}}
  BY DEF Compressed
<1>2. listed \subseteq DaysOf(window[r])
  BY DEF PoolRows
<1>3. \A d \in listed : d \in Nat /\ window[r].from <= d /\ d < window[r].to
  <2> HIDE DEF listed
  <2>1. \A d \in listed : d \in window[r].from .. window[r].to - 1
    BY <1>2 DEF DaysOf
  <2>2. QED
    BY <1>0, <2>1
<1>4. \A x \in ranked : x[2] \in listed
  OBVIOUS
<1>5. ASSUME NEW s, NEW d
      PROVE  ends(s, d) \in others(s, d) /\ \A e \in others(s, d) : ends(s, d) <= e
  <2>1. others(s, d) \in SUBSET Nat /\ others(s, d) # {}
    BY <1>0, <1>3
  <2> HIDE DEF others
  <2>2. QED
    BY <2>1, LeastFacts
<1>6. ASSUME NEW s, NEW d \in listed PROVE ends(s, d) \in Nat /\ d < ends(s, d) /\ ends(s, d) <= window[r].to
  <2>1. \A e \in others(s, d) : e \in Nat /\ d < e /\ e <= window[r].to
    BY <1>0, <1>3
  <2> HIDE DEF others, ends
  <2>2. QED
    BY <1>5, <2>1
<1>7. ASSUME NEW x \in Compressed(r) PROVE IsRow(x) /\ window[r].from <= x.from /\ x.to <= window[r].to
  <2>1. PICK y \in ranked : x = interval(y[1], y[2])
    BY <1>1
  <2>2. y[2] \in listed
    BY <1>4
  <2>3. x.symbol = y[1] /\ x.from = y[2] /\ x.to = ends(y[1], y[2]) /\ x.score = score(y[1], y[2])
    BY <2>1
  <2>4. x = [symbol |-> x.symbol, from |-> x.from, to |-> x.to, score |-> x.score]
    BY <2>1, <2>3
  <2> HIDE DEF listed, ranked, ends, interval, score
  <2>5. QED
    BY <1>0, <1>3, <1>6, <2>2, <2>3, <2>4 DEF IsRow
<1> HIDE DEF listed, ranked, same, begins, others, ends, interval
<1>8. ASSUME NEW s, NEW b \in listed, NEW e \in listed, b < e, begins(s, e) PROVE ends(s, b) <= e
  <2>1. CASE ~same(s, b, e)
    <3>1. e \in others(s, b)
      BY <1>8, <2>1 DEF others
    <3>2. QED
      BY <1>5, <3>1
  <2>2. CASE same(s, b, e)
    <3>1. PICK f \in listed : b < f /\ f < e /\ ~same(s, f, e)
      BY <1>8, <2>2 DEF begins
    <3>2. ~same(s, b, f)
      BY <2>2, <3>1 DEF same
    <3>3. f \in others(s, b)
      BY <3>1, <3>2 DEF others
    <3>4. ends(s, b) <= f
      BY <1>5, <3>3
    <3>5. f \in Nat /\ e \in Nat /\ ends(s, b) \in Nat
      BY <1>3, <1>6
    <3>6. QED
      BY <3>1, <3>4, <3>5
  <2>3. QED
    BY <2>1, <2>2
<1>9. ASSUME NEW d \in Days, NEW x \in Compressed(r), NEW y \in Compressed(r),
             d \in DaysOf(x) \cap DaysOf(y), x.symbol = y.symbol
      PROVE  x = y
  <2>1. PICK u \in ranked : begins(u[1], u[2]) /\ x = interval(u[1], u[2])
    BY <1>1
  <2>2. PICK v \in ranked : begins(v[1], v[2]) /\ y = interval(v[1], v[2])
    BY <1>1
  <2>3. u[2] \in listed /\ v[2] \in listed
    BY <1>4
  <2>4. /\ x.symbol = u[1] /\ x.from = u[2] /\ x.to = ends(u[1], u[2])
        /\ y.symbol = v[1] /\ y.from = v[2] /\ y.to = ends(v[1], v[2])
    BY <2>1, <2>2 DEF interval
  <2>5. u[1] = v[1]
    BY <1>9, <2>4
  <2>6. u[2] < v[2] => ends(u[1], u[2]) <= v[2]
    BY <1>8, <2>2, <2>3, <2>5
  <2>7. v[2] < u[2] => ends(v[1], v[2]) <= u[2]
    BY <1>8, <2>1, <2>3, <2>5
  <2>8. /\ u[2] \in Nat /\ v[2] \in Nat /\ d \in Int
        /\ ends(u[1], u[2]) \in Nat /\ ends(v[1], v[2]) \in Nat
    BY <1>3, <1>6, <2>3, UniverseConstants DEF Days
  <2>9. /\ u[2] <= d /\ d < ends(u[1], u[2]) /\ v[2] <= d /\ d < ends(v[1], v[2])
    <3>1. d \in x.from .. x.to - 1 /\ d \in y.from .. y.to - 1
      BY <1>9 DEF DaysOf
    <3>2. QED
      BY <2>4, <2>8, <3>1
  <2>10. u[2] = v[2]
    BY <2>6, <2>7, <2>8, <2>9
  <2>11. QED
    BY <2>1, <2>2, <2>5, <2>10 DEF interval
<1>10. QED
  BY <1>7, <1>9 DEF Within, OneEach

\* PresetMembers: one interval for each symbol.
LEMMA PresetWithin ==
    ASSUME NEW r \in Rebuilds, Proper(window[r]), NEW S, NEW b \in DaysOf(window[r]), NEW e \in b + 1 .. window[r].to
    PROVE  Within({[symbol |-> s, from |-> b, to |-> e, score |-> OutOfTop] : s \in S}, window[r])
<1>1. /\ window[r].from \in Nat /\ window[r].to \in Nat /\ 1 <= window[r].from
      /\ window[r].to <= LastDay + 1 /\ LastDay \in Nat
  BY UniverseConstants DEF Proper
<1>2. b \in Nat /\ e \in Nat /\ window[r].from <= b /\ b < e /\ e <= window[r].to
  BY <1>1 DEF DaysOf
<1>3. QED
  BY <1>1, <1>2 DEF Within, IsRow, OneEach

(***************************************************************************)
(* What is left of a row around a window.                                  *)
(***************************************************************************)

HeadOf(x, w) == [x EXCEPT !.to = w.from]
TailOf(x, w) == [x EXCEPT !.from = w.to]
Over(x, w) == x.from < w.to /\ x.to > w.from

LEMMA PieceFacts ==
    ASSUME NEW x, IsRow(x), NEW w
    PROVE  /\ HeadOf(x, w) = [symbol |-> x.symbol, from |-> x.from, to |-> w.from, score |-> x.score]
           /\ TailOf(x, w) = [symbol |-> x.symbol, from |-> w.to, to |-> x.to, score |-> x.score]
  BY DEF IsRow, HeadOf, TailOf

LEMMA RemainderFacts ==
    ASSUME NEW R, NEW w,
           NEW z \in RemaindersOf(R, w)
    PROVE  \E x \in R : (x.from < w.from /\ z = HeadOf(x, w)) \/ (x.to > w.to /\ z = TailOf(x, w))
  BY DEF RemaindersOf, HeadOf, TailOf

LEMMA RemainderRows ==
    ASSUME UniverseBase, NEW w, Proper(w), NEW z \in RemaindersOf(Overlapping(w), w)
    PROVE  IsRow(z) /\ CoveredTo(z.to) /\ (z.to <= w.from \/ w.to <= z.from)
<1>0. /\ w.from \in Nat /\ w.to \in Nat /\ 1 <= w.from /\ w.from <= w.to /\ w.to <= LastDay + 1 /\ LastDay \in Nat
  BY UniverseConstants DEF Proper
<1>1. PICK x \in Overlapping(w) : (x.from < w.from /\ z = HeadOf(x, w)) \/ (x.to > w.to /\ z = TailOf(x, w))
  BY RemainderFacts
<1>2. IsRow(x) /\ CoveredTo(x.to) /\ x.from < w.to /\ x.to > w.from
  BY DEF UniverseBase, Overlapping
<1>3. /\ x.from \in Nat /\ x.to \in Nat /\ 1 <= x.from /\ x.from < x.to /\ x.to <= LastDay + 1
  BY <1>2 DEF IsRow
<1>4. CASE x.from < w.from /\ z = HeadOf(x, w)
  <2>1. z = [symbol |-> x.symbol, from |-> x.from, to |-> w.from, score |-> x.score]
    BY <1>2, <1>4, PieceFacts
  <2>2. z.symbol = x.symbol /\ z.from = x.from /\ z.to = w.from /\ z.score = x.score
    BY <2>1
  <2>3. IsRow(z) /\ z.to <= w.from
    BY <1>0, <1>3, <1>4, <2>1, <2>2 DEF IsRow
  <2>4. CoveredTo(z.to)
    <3>1. \A d \in 1 .. w.from - 1 : d \in 1 .. x.to - 1
      BY <1>0, <1>2, <1>3
    <3>2. QED
      BY <1>2, <2>2, <3>1 DEF CoveredTo
  <2>5. QED
    BY <2>3, <2>4
<1>5. CASE x.to > w.to /\ z = TailOf(x, w)
  <2>1. z = [symbol |-> x.symbol, from |-> w.to, to |-> x.to, score |-> x.score]
    BY <1>2, <1>5, PieceFacts
  <2>2. z.symbol = x.symbol /\ z.from = w.to /\ z.to = x.to /\ z.score = x.score
    BY <2>1
  <2>3. IsRow(z) /\ w.to <= z.from
    BY <1>0, <1>3, <1>5, <2>1, <2>2 DEF IsRow
  <2>4. QED
    BY <1>2, <2>2, <2>3
<1>6. QED
  BY <1>1, <1>4, <1>5

\* A day outside the window keeps its rows, if shortened, one for one.
LEMMA PiecesMatch ==
    ASSUME UniverseBase, NEW w, Proper(w), NEW d \in Days, d \notin DaysOf(w)
    PROVE  LET kept == (universe \ Overlapping(w)) \cup RemaindersOf(Overlapping(w), w)
               piece(x) == IF x \notin Overlapping(w) THEN x ELSE IF d < w.from THEN HeadOf(x, w) ELSE TailOf(x, w)
           IN  /\ \A x \in universe : d \in DaysOf(x) =>
                      piece(x) \in kept /\ d \in DaysOf(piece(x)) /\ piece(x).symbol = x.symbol
               /\ \A z \in kept : d \in DaysOf(z) =>
                      \E x \in universe : d \in DaysOf(x) /\ z = piece(x) /\ z.symbol = x.symbol
<1> DEFINE kept == (universe \ Overlapping(w)) \cup RemaindersOf(Overlapping(w), w)
           piece(x) == IF x \notin Overlapping(w) THEN x ELSE IF d < w.from THEN HeadOf(x, w) ELSE TailOf(x, w)
<1>0. /\ w.from \in Nat /\ w.to \in Nat /\ w.from <= w.to /\ d \in Nat /\ LastDay \in Nat
      /\ d < w.from \/ w.to <= d
  BY UniverseConstants DEF Proper, DaysOf, Days
<1>1. ASSUME NEW x \in universe PROVE IsRow(x) /\ x.from \in Nat /\ x.to \in Nat
  BY DEF UniverseBase, IsRow
<1>2. ASSUME NEW x, x.from \in Nat, x.to \in Nat PROVE d \in DaysOf(x) <=> x.from <= d /\ d < x.to
  BY <1>0, <1>2 DEF DaysOf
<1>3. ASSUME NEW x \in universe
      PROVE  /\ HeadOf(x, w).symbol = x.symbol /\ HeadOf(x, w).from = x.from /\ HeadOf(x, w).to = w.from
             /\ TailOf(x, w).symbol = x.symbol /\ TailOf(x, w).from = w.to /\ TailOf(x, w).to = x.to
  <2>1. IsRow(x)
    BY <1>1
  <2>2. /\ HeadOf(x, w) = [symbol |-> x.symbol, from |-> x.from, to |-> w.from, score |-> x.score]
        /\ TailOf(x, w) = [symbol |-> x.symbol, from |-> w.to, to |-> x.to, score |-> x.score]
    BY <2>1, PieceFacts
  <2>3. QED
    BY <2>2
<1>4. ASSUME NEW x \in universe, d \in DaysOf(x)
      PROVE  piece(x) \in kept /\ d \in DaysOf(piece(x)) /\ piece(x).symbol = x.symbol
  <2>1. x.from \in Nat /\ x.to \in Nat /\ x.from <= d /\ d < x.to
    BY <1>1, <1>2, <1>4
  <2>2. CASE x \notin Overlapping(w)
    BY <1>4, <2>2
  <2>3. CASE x \in Overlapping(w) /\ d < w.from
    <3>1. piece(x) = HeadOf(x, w) /\ x.from < w.from
      BY <1>0, <2>1, <2>3
    <3>2. HeadOf(x, w) \in kept
      BY <2>3, <3>1 DEF RemaindersOf, HeadOf
    <3>3. d \in DaysOf(HeadOf(x, w))
      BY <1>0, <1>2, <1>3, <2>1, <2>3
    <3> HIDE DEF piece, kept
    <3>4. QED
      BY <1>3, <3>1, <3>2, <3>3
  <2>4. CASE x \in Overlapping(w) /\ ~(d < w.from)
    <3>1. piece(x) = TailOf(x, w) /\ x.to > w.to
      BY <1>0, <2>1, <2>4
    <3>2. TailOf(x, w) \in kept
      BY <2>4, <3>1 DEF RemaindersOf, TailOf
    <3>3. d \in DaysOf(TailOf(x, w))
      BY <1>0, <1>2, <1>3, <2>1, <2>4
    <3> HIDE DEF piece, kept
    <3>4. QED
      BY <1>3, <3>1, <3>2, <3>3
  <2>5. QED
    BY <2>2, <2>3, <2>4
<1>5. ASSUME NEW z \in kept, d \in DaysOf(z)
      PROVE  \E x \in universe : d \in DaysOf(x) /\ z = piece(x) /\ z.symbol = x.symbol
  <2>1. CASE z \in universe \ Overlapping(w)
    BY <1>5, <2>1
  <2>2. CASE z \in RemaindersOf(Overlapping(w), w)
    <3>1. PICK x \in Overlapping(w) : (x.from < w.from /\ z = HeadOf(x, w)) \/ (x.to > w.to /\ z = TailOf(x, w))
      BY <2>2, RemainderFacts
    <3>2. x \in universe /\ x.from < w.to /\ x.to > w.from
      BY DEF Overlapping
    <3>3. x.from \in Nat /\ x.to \in Nat
      BY <1>1, <3>2
    <3>4. CASE x.from < w.from /\ z = HeadOf(x, w)
      <4>1. x.from <= d /\ d < w.from
        BY <1>0, <1>2, <1>3, <1>5, <3>2, <3>3, <3>4
      <4>2. d < x.to
        BY <1>0, <3>2, <3>3, <4>1
      <4>3. d \in DaysOf(x) /\ z = piece(x)
        BY <1>2, <3>1, <3>3, <3>4, <4>1, <4>2
      <4> HIDE DEF piece
      <4>4. QED
        BY <1>3, <3>2, <3>4, <4>3
    <3>5. CASE x.to > w.to /\ z = TailOf(x, w)
      <4>1. w.to <= d /\ d < x.to
        BY <1>0, <1>2, <1>3, <1>5, <3>2, <3>3, <3>5
      <4>2. x.from <= d /\ ~(d < w.from)
        BY <1>0, <3>2, <3>3, <4>1
      <4>3. d \in DaysOf(x) /\ z = piece(x)
        BY <1>2, <3>1, <3>3, <3>5, <4>1, <4>2
      <4> HIDE DEF piece
      <4>4. QED
        BY <1>3, <3>2, <3>5, <4>3
    <3>6. QED
      BY <3>1, <3>4, <3>5
  <2>3. QED
    BY <1>5, <2>1, <2>2
<1> HIDE DEF piece, kept
<1>6. /\ \A x \in universe : d \in DaysOf(x) =>
            piece(x) \in kept /\ d \in DaysOf(piece(x)) /\ piece(x).symbol = x.symbol
      /\ \A z \in kept : d \in DaysOf(z) =>
            \E x \in universe : d \in DaysOf(x) /\ z = piece(x) /\ z.symbol = x.symbol
  BY <1>4, <1>5
<1>7. QED
  BY <1>6 DEF piece, kept

LEMMA KeptRight ==
    ASSUME UniverseBase, NEW w, Proper(w), NEW d \in Days, d \notin DaysOf(w), RightOn(universe, d)
    PROVE  RightOn((universe \ Overlapping(w)) \cup RemaindersOf(Overlapping(w), w), d)
<1> DEFINE kept == (universe \ Overlapping(w)) \cup RemaindersOf(Overlapping(w), w)
           piece(x) == IF x \notin Overlapping(w) THEN x ELSE IF d < w.from THEN HeadOf(x, w) ELSE TailOf(x, w)
<1>1. /\ \A x \in universe : d \in DaysOf(x) =>
            piece(x) \in kept /\ d \in DaysOf(piece(x)) /\ piece(x).symbol = x.symbol
      /\ \A z \in kept : d \in DaysOf(z) =>
            \E x \in universe : d \in DaysOf(x) /\ z = piece(x) /\ z.symbol = x.symbol
  BY PiecesMatch
<1> HIDE DEF piece, kept
<1>2. MembersOn(kept, d) = MembersOn(universe, d)
  BY <1>1 DEF MembersOn
<1>3. OneEach(kept, d)
  BY <1>1 DEF RightOn, OneEach
<1>4. RightOn(kept, d)
  BY <1>2, <1>3 DEF RightOn
<1>5. QED
  BY <1>4 DEF kept

\* A day is right without the rows it is not in.
LEMMA DropRows ==
    ASSUME NEW R, NEW S, S \subseteq R, NEW d, RightOn(R, d), \A x \in R \ S : d \notin DaysOf(x)
    PROVE  RightOn(S, d)
<1>1. MembersOn(S, d) = MembersOn(R, d)
  BY DEF MembersOn
<1>2. OneEach(S, d)
  BY DEF RightOn, OneEach
<1>3. QED
  BY <1>1, <1>2 DEF RightOn

LEMMA SeenRight ==
    ASSUME UniverseBase, NEW w, Proper(w), NEW seen, seen \subseteq RemaindersOf(Overlapping(w), w),
           NEW d \in Days, d \notin DaysOf(w), RightOn(universe, d),
           d \notin DaysIn(RemaindersOf(Overlapping(w), w) \ seen)
    PROVE  RightOn((universe \ Overlapping(w)) \cup seen, d)
<1> DEFINE all == RemaindersOf(Overlapping(w), w)
           rest == universe \ Overlapping(w)
<1>1. RightOn(rest \cup all, d)
  BY KeptRight
<1>2. \A x \in all \ seen : d \notin DaysOf(x)
  BY DEF DaysIn
<1>3. seen \subseteq all
  OBVIOUS
<1> HIDE DEF all, rest
<1>4. RightOn(rest \cup seen, d)
  <2>1. rest \cup seen \subseteq rest \cup all
    BY <1>3
  <2>2. \A x \in (rest \cup all) \ (rest \cup seen) : d \notin DaysOf(x)
    BY <1>2
  <2>3. QED
    BY <1>1, <2>1, <2>2, DropRows
<1>5. QED
  BY <1>4 DEF rest

(***************************************************************************)
(* The steps.                                                              *)
(***************************************************************************)

LEMMA BaseFacts ==
    ASSUME RebuildsInv
    PROVE  /\ reference \in Nat /\ reference <= LastDay /\ LastDay \in Nat /\ LastDay >= 1
           /\ DOMAIN stage = Rebuilds /\ DOMAIN window = Rebuilds /\ DOMAIN members = Rebuilds
           /\ DOMAIN remainders = Rebuilds
           /\ window \in [Rebuilds -> [from : Nat, to : Nat]]
  BY UniverseConstants DEF RebuildsInv, UniverseBase

LEMMA OverFacts ==
    ASSUME RebuildsInv, NEW r \in Rebuilds, IsOver(r)
    PROVE  /\ stage'[r] = "idle" /\ window'[r] = NoWindow
           /\ DOMAIN stage' = Rebuilds /\ DOMAIN members' = Rebuilds /\ DOMAIN remainders' = Rebuilds
           /\ window' \in [Rebuilds -> [from : Nat, to : Nat]]
           /\ \A q \in Rebuilds \ {r} : /\ stage'[q] = stage[q] /\ window'[q] = window[q]
                                         /\ members'[q] = members[q] /\ remainders'[q] = remainders[q]
<1>1. NoWindow \in [from : Nat, to : Nat]
  BY DEF NoWindow
<1>2. window' \in [Rebuilds -> [from : Nat, to : Nat]] /\ window'[r] = NoWindow
      /\ \A q \in Rebuilds \ {r} : window'[q] = window[q]
  BY <1>1, BaseFacts DEF IsOver
<1>3. stage'[r] = "idle" /\ DOMAIN stage' = Rebuilds /\ \A q \in Rebuilds \ {r} : stage'[q] = stage[q]
  BY BaseFacts DEF IsOver, GoesOn
<1>4. DOMAIN members' = Rebuilds /\ \A q \in Rebuilds \ {r} : members'[q] = members[q]
  BY BaseFacts DEF IsOver
<1>5. DOMAIN remainders' = Rebuilds /\ \A q \in Rebuilds \ {r} : remainders'[q] = remainders[q]
  BY BaseFacts DEF IsOver
<1>6. QED
  BY <1>2, <1>3, <1>4, <1>5

\* A rebuild is over that has not deleted rows.
LEMMA OverStep ==
    ASSUME RebuildsInv, NEW r \in Rebuilds, stage[r] \notin {"delete", "insert"}, IsOver(r),
           UNCHANGED <<reference, universe, rebuilder, covered, told, lost>>
    PROVE  RebuildsInv'
<1>1. AtWork(r)'
  BY OverFacts, OverAtWork
<1>2. reference' \in Nat /\ reference' <= LastDay /\ stage'[r] # "insert"
  BY BaseFacts, OverFacts
<1>3. QED
  BY <1>1, <1>2, OverFacts, QuietStep

\* A rebuild goes on, and takes no rows in its hands.
LEMMA OnStep ==
    ASSUME RebuildsInv, NEW r \in Rebuilds, NEW s, GoesOn(r, s),
           stage[r] \notin {"idle", "range", "resume", "delete", "insert"},
           s \in {"ensure", "materialize", "fill", "query"},
           UNCHANGED <<reference, universe, rebuilder, window, members, remainders, covered, told, lost>>
    PROVE  RebuildsInv'
<1>1. stage'[r] = s /\ DOMAIN stage' = Rebuilds /\ \A q \in Rebuilds \ {r} : stage'[q] = stage[q]
  BY BaseFacts DEF GoesOn
<1>2. AtWork(r)'
  BY <1>1 DEF RebuildsInv, AtWork, CoveredTo
<1>3. reference' \in Nat /\ reference' <= LastDay /\ window' \in [Rebuilds -> [from : Nat, to : Nat]]
      /\ DOMAIN members' = Rebuilds /\ DOMAIN remainders' = Rebuilds
  BY BaseFacts
<1>4. QED
  BY <1>1, <1>2, <1>3, QuietStep

LEMMA StartingSteps ==
    ASSUME RebuildsInv, NEW r \in Rebuilds,
           (\E asked \in RebuildRequests : StartRebuild(r, asked)) \/ ReadReference(r)
    PROVE  RebuildsInv'
<1>1. CASE \E asked \in RebuildRequests : StartRebuild(r, asked)
  <2>1. /\ stage[r] = "idle" /\ stage'[r] = "range" /\ DOMAIN stage' = Rebuilds
        /\ \A q \in Rebuilds \ {r} : stage'[q] = stage[q]
        /\ UNCHANGED <<reference, universe, rebuilder, window, members, remainders, covered, told, lost>>
    BY <1>1, BaseFacts DEF StartRebuild, GoesOn, sources, history
  <2>2. AtWork(r)'
    BY <2>1 DEF RebuildsInv, AtWork
  <2>3. reference' \in Nat /\ reference' <= LastDay /\ window' \in [Rebuilds -> [from : Nat, to : Nat]]
        /\ DOMAIN members' = Rebuilds /\ DOMAIN remainders' = Rebuilds
    BY <2>1, BaseFacts
  <2>4. QED
    BY <2>1, <2>2, <2>3, QuietStep
<1>2. CASE ReadReference(r)
  <2>1. /\ stage[r] = "range" /\ stage'[r] = "resume" /\ DOMAIN stage' = Rebuilds /\ reference # 0
        /\ \A q \in Rebuilds \ {r} : stage'[q] = stage[q]
        /\ UNCHANGED <<reference, universe, rebuilder, members, remainders, covered, told, lost>>
    BY <1>2, BaseFacts DEF ReadReference, GoesOn, sources, history
  <2>2. [from |-> RebuildStart, to |-> reference + 1] \in [from : Nat, to : Nat]
    BY BaseFacts DEF RebuildStart
  <2>3. /\ window' \in [Rebuilds -> [from : Nat, to : Nat]]
        /\ window'[r] = [from |-> RebuildStart, to |-> reference + 1]
        /\ \A q \in Rebuilds \ {r} : window'[q] = window[q]
    BY <1>2, <2>2, BaseFacts DEF ReadReference
  <2>4. Proper(window'[r])
    BY <2>1, <2>3, BaseFacts DEF Proper, RebuildStart
  <2>5. AtWork(r)'
    BY <2>1, <2>4 DEF AtWork, Proper
  <2>6. reference' \in Nat /\ reference' <= LastDay /\ DOMAIN members' = Rebuilds /\ DOMAIN remainders' = Rebuilds
    BY <2>1, BaseFacts
  <2>7. QED
    BY <2>1, <2>3, <2>5, <2>6, QuietStep
<1>3. QED
  BY <1>1, <1>2

LEMMA LatestFacts ==
    ASSUME UniverseBase
    PROVE  LatestValidTo \in Nat /\ 1 <= LatestValidTo /\ CoveredTo(LatestValidTo)
<1> DEFINE ends == {row.to : row \in universe} \cup {RebuildStart}
<1>0. LastDay \in Nat /\ LastDay >= 1
  BY UniverseConstants
<1>1. \A n \in ends : n \in Nat /\ n <= LastDay + 1 /\ 1 <= n /\ CoveredTo(n)
  <2>1. \A x \in universe : x.to \in Nat /\ x.to <= LastDay + 1 /\ 1 <= x.to /\ CoveredTo(x.to)
    BY <1>0 DEF UniverseBase, IsRow
  <2>2. CoveredTo(1)
    BY DEF CoveredTo
  <2>3. QED
    BY <1>0, <2>1, <2>2 DEF RebuildStart
<1>2. ends \in SUBSET Nat /\ ends # {} /\ LastDay + 1 \in Nat /\ \A n \in ends : n <= LastDay + 1
  BY <1>0, <1>1
<1>3. LatestValidTo = Max(ends)
  BY DEF LatestValidTo
<1> HIDE DEF ends
<1>4. Max(ends) \in ends
  BY <1>2, GreatestFacts
<1>5. QED
  BY <1>1, <1>3, <1>4

LEMMA ResumeStep == ASSUME RebuildsInv, NEW r \in Rebuilds, Resume(r) PROVE RebuildsInv'
<1>1. /\ stage[r] = "resume" /\ stage'[r] \in {"preset", "ensure"} /\ DOMAIN stage' = Rebuilds
      /\ \A q \in Rebuilds \ {r} : stage'[q] = stage[q]
      /\ UNCHANGED <<reference, universe, rebuilder, members, remainders, covered, told, lost>>
      /\ window' = [window EXCEPT ![r].from = ResumeFrom(r)]
      /\ ResumeFrom(r) < window[r].to
  BY BaseFacts DEF Resume, GoesOn, sources, history
<1>2. ResumeFrom(r) \in Nat /\ 1 <= ResumeFrom(r) /\ CoveredTo(ResumeFrom(r))
  <2>1. CoveredTo(1)
    BY DEF CoveredTo
  <2>2. UniverseBase
    BY DEF RebuildsInv
  <2>3. LatestValidTo \in Nat /\ 1 <= LatestValidTo /\ CoveredTo(LatestValidTo)
    BY <2>2, LatestFacts
  <2>4. ResumeFrom(r) \in {1, LatestValidTo}
    BY DEF ResumeFrom, RebuildStart
  <2>5. QED
    BY <2>1, <2>3, <2>4
<1>3. Proper(window[r])
  BY DEF RebuildsInv, AtWork
<1> DEFINE w == [window[r] EXCEPT !.from = ResumeFrom(r)]
<1>4. w \in [from : Nat, to : Nat] /\ w.from = ResumeFrom(r) /\ w.to = window[r].to
  BY <1>2, BaseFacts
<1>5. window' = [window EXCEPT ![r] = w]
  BY <1>1
<1> HIDE DEF w
<1>6. /\ window' \in [Rebuilds -> [from : Nat, to : Nat]] /\ window'[r] = w
      /\ \A q \in Rebuilds \ {r} : window'[q] = window[q]
  BY <1>4, <1>5, BaseFacts
<1>7. Proper(w)
  BY <1>1, <1>2, <1>3, <1>4 DEF Proper
<1>8. AtWork(r)'
  BY <1>1, <1>2, <1>4, <1>6, <1>7 DEF AtWork, Proper, CoveredTo
<1>9. reference' \in Nat /\ reference' <= LastDay /\ DOMAIN members' = Rebuilds /\ DOMAIN remainders' = Rebuilds
  BY <1>1, BaseFacts
<1>10. QED
  BY <1>1, <1>6, <1>8, <1>9, QuietStep

LEMMA PoolSteps ==
    ASSUME RebuildsInv, NEW r \in Rebuilds,
           DeletePoolRange(r) \/ AlreadyCovered(r) \/ Materialize(r) \/ InsertPoolRows(r)
    PROVE  RebuildsInv'
<1>1. CASE DeletePoolRange(r)
  BY <1>1, OnStep DEF DeletePoolRange, sources, work, history
<1>2. CASE AlreadyCovered(r)
  BY <1>2, OnStep DEF AlreadyCovered, AtSource, Ensured, sources, history
<1>3. CASE Materialize(r)
  BY <1>3, OnStep DEF Materialize, AtSource, sources, history
<1>4. CASE InsertPoolRows(r)
  BY <1>4, OnStep DEF InsertPoolRows, Ensured, sources, history
<1>5. QED
  BY <1>1, <1>2, <1>3, <1>4

LEMMA ComputedStep ==
    ASSUME RebuildsInv, NEW r \in Rebuilds, stage[r] \in {"query", "preset"},
           NEW R, Within(R, window[r]), Computed(r, R),
           UNCHANGED <<reference, universe, rebuilder, covered, told, lost>>
    PROVE  RebuildsInv'
<1>1. CASE request[r].dry
  BY <1>1, OverStep DEF Computed
<1>2. CASE ~request[r].dry
  <2>1. /\ members' = [members EXCEPT ![r] = R] /\ GoesOn(r, "replace") /\ UNCHANGED <<window, remainders>>
    BY <1>2 DEF Computed
  <2>2. stage'[r] = "replace" /\ DOMAIN stage' = Rebuilds /\ \A q \in Rebuilds \ {r} : stage'[q] = stage[q]
    BY <2>1, BaseFacts DEF GoesOn
  <2>3. members'[r] = R /\ DOMAIN members' = Rebuilds /\ \A q \in Rebuilds \ {r} : members'[q] = members[q]
    BY <2>1, BaseFacts
  <2>4. AtWork(r)'
    BY <2>1, <2>2, <2>3 DEF RebuildsInv, AtWork, CoveredTo, Within, OneEach
  <2>5. reference' \in Nat /\ reference' <= LastDay /\ window' \in [Rebuilds -> [from : Nat, to : Nat]]
        /\ DOMAIN remainders' = Rebuilds
    BY <2>1, BaseFacts
  <2>6. QED
    BY <2>1, <2>2, <2>3, <2>4, <2>5, QuietStep
<1>3. QED
  BY <1>1, <1>2

LEMMA MemberSteps ==
    ASSUME RebuildsInv, NEW r \in Rebuilds,
           \/ QueryMembers(r)
           \/ \E symbols \in SUBSET Symbols, from \in Days, to \in 2 .. LastDay + 1 : PresetMembers(r, symbols, from, to)
    PROVE  RebuildsInv'
<1>1. Proper(window[r])
  BY DEF RebuildsInv, AtWork
<1>2. CASE QueryMembers(r)
  <2>1. Within(Compressed(r), window[r])
    BY <1>1, CompressedWithin
  <2>2. QED
    BY <1>2, <2>1, ComputedStep DEF QueryMembers, sources, history
<1>3. ASSUME NEW symbols \in SUBSET Symbols, NEW from, NEW to, PresetMembers(r, symbols, from, to)
      PROVE  RebuildsInv'
  <2> DEFINE R == {[symbol |-> s, from |-> from, to |-> to, score |-> OutOfTop] : s \in symbols}
  <2>1. Within(R, window[r])
    BY <1>1, <1>3, PresetWithin DEF PresetMembers
  <2>2. stage[r] = "preset" /\ Computed(r, R) /\ UNCHANGED <<reference, universe, rebuilder, covered, told, lost>>
    BY <1>3 DEF PresetMembers, sources, history
  <2> HIDE DEF R
  <2>3. QED
    BY <2>1, <2>2, ComputedStep
<1>4. QED
  BY <1>2, <1>3

\* One rebuild at most is between its fetch and its insert.
LEMMA OneReplaces ==
    ASSUME RebuildsInv, NEW r \in Rebuilds, stage[r] \in {"delete", "insert"}
    PROVE  rebuilder = r /\ \A q \in Rebuilds \ {r} : stage[q] \notin {"delete", "insert"}
  BY DEF RebuildsInv, AtWork

LEMMA FetchStep == ASSUME RebuildsInv, NEW r \in Rebuilds, FetchOverlapping(r) PROVE RebuildsInv'
<1>1. /\ stage[r] = "replace" /\ rebuilder = NoRebuild /\ rebuilder' = r
      /\ \E first \in FirstRows(Overlapping(window[r])) :
             remainders' = [remainders EXCEPT ![r] = RemaindersOf(first, window[r])]
      /\ stage' = [stage EXCEPT ![r] = "delete"]
      /\ UNCHANGED <<reference, universe, window, members, covered, told, lost>>
  BY DEF FetchOverlapping, GoesOn, sources, history
<1>2. stage'[r] = "delete" /\ DOMAIN stage' = Rebuilds /\ \A q \in Rebuilds \ {r} : stage'[q] = stage[q]
  BY <1>1, BaseFacts
<1>3. /\ remainders'[r] \subseteq RemaindersOf(Overlapping(window[r]), window[r])' /\ DOMAIN remainders' = Rebuilds
  <2>1. PICK first \in FirstRows(Overlapping(window[r])) :
           remainders' = [remainders EXCEPT ![r] = RemaindersOf(first, window[r])]
    BY <1>1
  <2>2. first \subseteq Overlapping(window[r])
    BY DEF FirstRows
  <2>3. RemaindersOf(first, window[r]) \subseteq RemaindersOf(Overlapping(window[r]), window[r])
    BY <2>2 DEF RemaindersOf
  <2>4. RemaindersOf(Overlapping(window[r]), window[r])' = RemaindersOf(Overlapping(window[r]), window[r])
    BY <1>1 DEF RemaindersOf, Overlapping
  <2>5. QED
    BY <2>1, <2>3, <2>4, BaseFacts
<1>4. \A q \in Rebuilds : stage[q] \notin {"delete", "insert"}
  BY <1>1, UniverseConstants DEF RebuildsInv, AtWork
<1>5. \A q \in Rebuilds \ {r} : AtWork(q)'
  BY <1>1, <1>2, <1>4, RestAtWork DEF RebuildsInv
<1>6. AtWork(r)'
  BY <1>1, <1>2, <1>3 DEF RebuildsInv, AtWork, CoveredTo, Within, OneEach
<1>7. UniverseBase'
  BY <1>1, <1>2, <1>3, BaseFacts DEF RebuildsInv, UniverseBase, CoveredTo
<1>8. UniverseQuiet'
  BY <1>1, <1>4 DEF RebuildsInv, UniverseQuiet, RightOn, MembersOn, OneEach
<1>9. QED
  BY <1>5, <1>6, <1>7, <1>8 DEF RebuildsInv

LEMMA DeleteRowsStep == ASSUME RebuildsInv, NEW r \in Rebuilds, DeleteExisting(r) PROVE RebuildsInv'
<1>1. /\ stage[r] = "delete" /\ stage' = [stage EXCEPT ![r] = "insert"]
      /\ universe' = universe \ Overlapping(window[r])
      /\ lost' = lost \cup Unseen(r)
      /\ UNCHANGED <<reference, rebuilder, window, members, remainders, covered, told>>
  BY DEF DeleteExisting, GoesOn, sources, work, history
<1>2. stage'[r] = "insert" /\ DOMAIN stage' = Rebuilds /\ \A q \in Rebuilds \ {r} : stage'[q] = stage[q]
  BY <1>1, BaseFacts
<1>3. rebuilder = r /\ \A q \in Rebuilds \ {r} : stage[q] \notin {"delete", "insert"}
  BY <1>1, OneReplaces
<1>4. \A q \in Rebuilds \ {r} : AtWork(q)'
  BY <1>1, <1>2, <1>3, RestAtWork DEF RebuildsInv
<1>5. /\ Proper(window[r]) /\ CoveredTo(window[r].from) /\ Within(members[r], window[r])
      /\ remainders[r] \subseteq RemaindersOf(Overlapping(window[r]), window[r])
  BY <1>1 DEF RebuildsInv, AtWork
<1>6. UniverseBase /\ \A d \in Days \ lost : RightOn(universe, d)
  BY <1>1, <1>3 DEF RebuildsInv, UniverseQuiet
<1>7. Ready(r)'
  <2>1. Overlapping(window[r])' = {}
    BY <1>1 DEF Overlapping
  <2>2. \A x \in remainders[r] : IsRow(x) /\ CoveredTo(x.to) /\ (x.to <= window[r].from \/ window[r].to <= x.from)
    BY <1>5, <1>6, RemainderRows
  <2>3. \A d \in Days \ lost' : d \notin DaysOf(window[r]) => RightOn(universe' \cup remainders[r], d)
    BY <1>1, <1>5, <1>6, SeenRight DEF Unseen
  <2>4. QED
    BY <1>1, <2>1, <2>2, <2>3 DEF Ready, CoveredTo, RightOn
<1>8. AtWork(r)'
  BY <1>1, <1>2, <1>3, <1>5, <1>7 DEF AtWork, CoveredTo, Within, OneEach
<1>9. UniverseBase'
  BY <1>1, <1>2, BaseFacts DEF RebuildsInv, UniverseBase, CoveredTo
<1>10. UniverseQuiet'
  BY <1>2 DEF UniverseQuiet
<1>11. QED
  BY <1>4, <1>8, <1>9, <1>10 DEF RebuildsInv

\* A replacement is over.
LEMMA ReplacedStep ==
    ASSUME RebuildsInv, NEW r \in Rebuilds, stage[r] \in {"delete", "insert"}, IsOver(r),
           reference' = reference, covered \subseteq covered',
           \A x \in universe' : IsRow(x) /\ CoveredTo(x.to)',
           \A d \in Days \ lost' : RightOn(universe, d)'
    PROVE  RebuildsInv'
<1>1. \A q \in Rebuilds \ {r} : stage[q] \notin {"delete", "insert"}
  BY OneReplaces
<1>2. AtWork(r)'
  BY OverFacts, OverAtWork
<1>3. \A q \in Rebuilds \ {r} : AtWork(q)'
  BY <1>1, OverFacts, RestAtWork DEF RebuildsInv
<1>4. DOMAIN window' = Rebuilds
  BY OverFacts
<1>5. UniverseBase'
  BY <1>4, BaseFacts, OverFacts DEF UniverseBase
<1>6. UniverseQuiet'
  BY DEF UniverseQuiet
<1>7. QED
  BY <1>2, <1>3, <1>5, <1>6 DEF RebuildsInv

\* What a replacement that has broken off leaves, on the days it has not lost.
LEMMA LeftRight ==
    ASSUME RebuildsInv, NEW r \in Rebuilds, stage[r] \in {"delete", "insert"},
           NEW d \in Days \ lost, d \notin Dropped(r), stage[r] = "delete" => d \notin Unseen(r)
    PROVE  RightOn(IF stage[r] = "insert" THEN universe ELSE universe \ Overlapping(window[r]), d)
<1> DEFINE U == IF stage[r] = "insert" THEN universe ELSE universe \ Overlapping(window[r])
<1>1. d \notin DaysOf(window[r]) /\ \A x \in remainders[r] : d \notin DaysOf(x)
  BY DEF Dropped, DaysIn
<1>2. RightOn(U \cup remainders[r], d)
  <2>1. CASE stage[r] = "insert"
    BY <1>1, <2>1 DEF RebuildsInv, AtWork, Ready
  <2>2. CASE stage[r] = "delete"
    <3>1. /\ Proper(window[r]) /\ UniverseBase
          /\ remainders[r] \subseteq RemaindersOf(Overlapping(window[r]), window[r])
      BY <2>2 DEF RebuildsInv, AtWork
    <3>2. RightOn(universe, d)
      BY <2>2, OneReplaces DEF RebuildsInv, UniverseQuiet
    <3>3. U = universe \ Overlapping(window[r])
      BY <2>2
    <3> HIDE DEF U
    <3>4. QED
      BY <1>1, <2>2, <3>1, <3>2, <3>3, SeenRight DEF Unseen
  <2>3. QED
    BY <2>1, <2>2
<1> HIDE DEF U
<1>4. RightOn(U, d)
  BY <1>1, <1>2, DropRows
<1>5. QED
  BY <1>4 DEF U

LEMMA InsertRowsStep == ASSUME RebuildsInv, NEW r \in Rebuilds, InsertMembers(r) PROVE RebuildsInv'
<1>1. /\ stage[r] = "insert" /\ IsOver(r) /\ reference' = reference
      /\ universe' = universe \cup members[r] \cup remainders[r]
      /\ told' = [d \in Days |-> IF d \in DaysOf(window[r]) THEN MembersOn(members[r], d) ELSE told[d]]
      /\ covered' = covered \cup DaysOf(window[r])
      /\ lost' = lost \ DaysOf(window[r])
  BY DEF InsertMembers, sources
<1>2. /\ Proper(window[r]) /\ CoveredTo(window[r].from) /\ Within(members[r], window[r]) /\ Ready(r) /\ UniverseBase
  BY <1>1 DEF RebuildsInv, AtWork
<1> DEFINE w == window[r]
<1>3. w.from \in Nat /\ w.to \in Nat /\ w.from <= w.to /\ 1 <= w.from /\ w.to <= LastDay + 1 /\ LastDay \in Nat
  BY <1>2, BaseFacts DEF Proper
<1>4. (\A d \in 1 .. w.to - 1 : d \in covered') /\ \A n : CoveredTo(n) => CoveredTo(n)'
  <2>1. \A d \in 1 .. w.to - 1 : d \in 1 .. w.from - 1 \/ d \in DaysOf(w)
    BY <1>3 DEF DaysOf
  <2>2. QED
    BY <1>1, <1>2, <2>1 DEF CoveredTo
<1>5. \A x \in universe' : IsRow(x) /\ CoveredTo(x.to)'
  <2>1. ASSUME NEW x \in members[r] PROVE IsRow(x) /\ CoveredTo(x.to)'
    <3>1. IsRow(x) /\ x.to <= w.to
      BY <1>2 DEF Within
    <3>2. \A d \in 1 .. x.to - 1 : d \in 1 .. w.to - 1
      BY <1>3, <3>1 DEF IsRow
    <3>3. QED
      BY <1>4, <3>1, <3>2 DEF CoveredTo
  <2>2. \A x \in universe : IsRow(x) /\ CoveredTo(x.to)
    BY <1>2 DEF UniverseBase
  <2>3. \A x \in remainders[r] : IsRow(x) /\ CoveredTo(x.to)
    BY <1>2 DEF Ready
  <2>4. QED
    BY <1>1, <1>4, <2>1, <2>2, <2>3
<1>6. ASSUME NEW d \in Days \ lost' PROVE RightOn(universe, d)'
  <2>0. d \in Nat
    BY <1>3 DEF Days
  <2>a. \A x : IsRow(x) => (d \in DaysOf(x) <=> x.from <= d /\ d < x.to)
    BY <2>0 DEF IsRow, DaysOf
  <2>b. d \in DaysOf(w) <=> w.from <= d /\ d < w.to
    BY <1>3, <2>0 DEF DaysOf
  <2>1. CASE d \in DaysOf(w)
    <3>1. told'[d] = MembersOn(members[r], d)
      BY <1>1, <2>1
    <3>2. ASSUME NEW x \in universe PROVE d \notin DaysOf(x)
      <4>1. IsRow(x) /\ ~(x.from < w.to /\ x.to > w.from)
        BY <1>2 DEF UniverseBase, Ready, Overlapping
      <4>2. QED
        BY <1>3, <2>0, <2>1, <2>a, <2>b, <4>1 DEF IsRow
    <3>3. ASSUME NEW x \in remainders[r] PROVE d \notin DaysOf(x)
      <4>1. IsRow(x) /\ (x.to <= w.from \/ w.to <= x.from)
        BY <1>2 DEF Ready
      <4>2. QED
        BY <1>3, <2>0, <2>1, <2>a, <2>b, <4>1 DEF IsRow
    <3>4. MembersOn(universe', d) = MembersOn(members[r], d)
      BY <1>1, <3>2, <3>3 DEF MembersOn
    <3>5. OneEach(members[r], d)
      BY <1>2 DEF Within
    <3>6. OneEach(universe', d)
      BY <1>1, <3>2, <3>3, <3>5 DEF OneEach
    <3>7. QED
      BY <3>1, <3>4, <3>6 DEF RightOn, MembersOn
  <2>2. CASE d \notin DaysOf(w)
    <3>1. told'[d] = told[d] /\ d \in Days \ lost
      BY <1>1, <2>2
    <3>2. RightOn(universe \cup remainders[r], d)
      BY <1>2, <2>2, <3>1 DEF Ready
    <3>3. ASSUME NEW x \in members[r] PROVE d \notin DaysOf(x)
      <4>1. IsRow(x) /\ w.from <= x.from /\ x.to <= w.to
        BY <1>2 DEF Within
      <4>2. QED
        BY <1>3, <2>0, <2>2, <2>a, <2>b, <4>1 DEF IsRow
    <3>4. MembersOn(universe', d) = MembersOn(universe \cup remainders[r], d)
      BY <1>1, <3>3 DEF MembersOn
    <3>5. OneEach(universe', d)
      BY <1>1, <3>2, <3>3 DEF OneEach, RightOn
    <3>6. QED
      BY <3>1, <3>2, <3>4, <3>5 DEF RightOn, MembersOn
  <2>3. QED
    BY <2>1, <2>2
<1>7. covered \subseteq covered'
  BY <1>1
<1>8. QED
  BY <1>1, <1>5, <1>6, <1>7, ReplacedStep

LEMMA FailureSteps ==
    ASSUME RebuildsInv, NEW r \in Rebuilds,
           CallFails(r) \/ InsertFails(r) \/ \E applied \in BOOLEAN : DeleteFails(r, applied)
    PROVE  RebuildsInv'
<1>0. \A x \in universe : IsRow(x) /\ CoveredTo(x.to)
  BY DEF RebuildsInv, UniverseBase
<1>1. CASE CallFails(r)
  BY <1>1, OverStep DEF CallFails, sources, history
<1>2. CASE InsertFails(r)
  <2>1. /\ stage[r] = "insert" /\ IsOver(r) /\ lost' = lost \cup Dropped(r)
        /\ UNCHANGED <<reference, universe, told, covered>>
    BY <1>2 DEF InsertFails, sources
  <2>2. \A d \in Days \ lost' : RightOn(universe, d)
    BY <2>1, LeftRight
  <2>3. \A d \in Days \ lost' : RightOn(universe, d)'
    BY <2>1, <2>2 DEF RightOn, MembersOn, OneEach
  <2>4. \A x \in universe' : IsRow(x) /\ CoveredTo(x.to)'
    BY <1>0, <2>1 DEF CoveredTo
  <2>5. covered \subseteq covered'
    BY <2>1
  <2>6. QED
    BY <2>1, <2>3, <2>4, <2>5, ReplacedStep
<1>3. ASSUME NEW applied \in BOOLEAN, DeleteFails(r, applied) PROVE RebuildsInv'
  <2>1. /\ stage[r] = "delete" /\ IsOver(r) /\ UNCHANGED <<reference, told, covered>>
        /\ universe' = IF applied THEN universe \ Overlapping(window[r]) ELSE universe
        /\ lost' = IF applied THEN lost \cup Dropped(r) \cup Unseen(r) ELSE lost
    BY <1>3 DEF DeleteFails, sources
  <2>2. \A d \in Days \ lost' : RightOn(universe', d)
    <3>1. CASE applied
      BY <2>1, <3>1, LeftRight
    <3>2. CASE ~applied
      BY <2>1, <3>2, OneReplaces DEF RebuildsInv, UniverseQuiet
    <3>3. QED
      BY <3>1, <3>2
  <2>3. \A d \in Days \ lost' : RightOn(universe, d)'
    BY <2>1, <2>2 DEF RightOn, MembersOn, OneEach
  <2>4. \A x \in universe' : IsRow(x) /\ CoveredTo(x.to)'
    BY <1>0, <2>1 DEF CoveredTo
  <2>5. covered \subseteq covered'
    BY <2>1
  <2>6. QED
    BY <2>1, <2>3, <2>4, <2>5, ReplacedStep
<1>4. QED
  BY <1>1, <1>2, <1>3

LEMMA KillServerStep == ASSUME RebuildsInv, KillServer PROVE RebuildsInv'
<1>1. /\ stage' = [r \in Rebuilds |-> "idle"] /\ window' = [r \in Rebuilds |-> NoWindow]
      /\ members' = [r \in Rebuilds |-> {}] /\ remainders' = [r \in Rebuilds |-> {}]
      /\ UNCHANGED <<reference, universe, told, covered>>
      /\ lost' = lost \cup UNION {Dropped(r) : r \in {x \in Rebuilds : stage[x] = "insert"}}
  BY DEF KillServer, sources
<1>2. \A r \in Rebuilds : AtWork(r)'
  BY <1>1, OverAtWork
<1>3. UniverseBase'
  <2>1. window' \in [Rebuilds -> [from : Nat, to : Nat]]
    BY <1>1 DEF NoWindow
  <2>2. QED
    BY <1>1, <2>1, BaseFacts DEF RebuildsInv, UniverseBase, CoveredTo
<1>4. ASSUME NEW d \in Days \ lost' PROVE RightOn(universe, d)
  <2>1. CASE \E r \in Rebuilds : stage[r] = "insert"
    <3>1. PICK r \in Rebuilds : stage[r] = "insert"
      BY <2>1
    <3>2. d \in Days \ lost /\ d \notin Dropped(r)
      BY <1>1, <3>1
    <3>3. QED
      BY <3>1, <3>2, LeftRight
  <2>2. CASE ~\E r \in Rebuilds : stage[r] = "insert"
    BY <1>1, <2>2 DEF RebuildsInv, UniverseQuiet
  <2>3. QED
    BY <2>1, <2>2
<1>5. UniverseQuiet'
  BY <1>1, <1>4 DEF UniverseQuiet, RightOn, MembersOn, OneEach
<1>6. QED
  BY <1>2, <1>3, <1>5 DEF RebuildsInv

LEMMA StandStep ==
    ASSUME RebuildsInv, reference' \in Nat, reference' <= LastDay,
           UNCHANGED <<universe, rebuilder, stage, window, members, remainders, told, covered, lost>>
    PROVE  RebuildsInv'
<1>1. \A r \in Rebuilds : AtWork(r)'
  BY SameAtWork DEF RebuildsInv
<1>2. UniverseBase' /\ UniverseQuiet'
  BY DEF RebuildsInv, UniverseBase, UniverseQuiet, CoveredTo, RightOn, MembersOn, OneEach
<1>3. QED
  BY <1>1, <1>2 DEF RebuildsInv

LEMMA RebuildsStep == RebuildsInv /\ [UniverseNext]_universeVars => RebuildsInv'
<1> SUFFICES ASSUME RebuildsInv, [UniverseNext]_universeVars PROVE RebuildsInv'
  OBVIOUS
<1>1. CASE UNCHANGED universeVars
  BY <1>1, StandStep, BaseFacts DEF universeVars
<1>2. CASE BarsArrive
  <2>1. /\ reference' \in reference .. LastDay
        /\ UNCHANGED <<universe, rebuilder, stage, window, members, remainders, told, covered, lost>>
    BY <1>2 DEF BarsArrive, work, history
  <2>2. reference' \in Nat /\ reference' <= LastDay
    BY <2>1, BaseFacts
  <2>3. QED
    BY <2>1, <2>2, StandStep
<1>3. CASE KillServer
  BY <1>3, KillServerStep
<1>4. ASSUME NEW r \in Rebuilds, NoReference(r) \/ NoWork(r) PROVE RebuildsInv'
  BY <1>4, OverStep DEF NoReference, NoWork, sources, history
<1>5. QED
  BY <1>1, <1>2, <1>3, <1>4, StartingSteps, ResumeStep, PoolSteps, MemberSteps, FetchStep, DeleteRowsStep,
     InsertRowsStep, FailureSteps DEF UniverseNext

LEMMA OnlyWindows == RebuildsInv => WindowsOnly
<1> SUFFICES ASSUME RebuildsInv, NEW d \in Days \ lost, \A r \in Rebuilds : stage[r] # "insert"
             PROVE  /\ MembersOn(universe, d) = told[d]
                    /\ \A x, y \in universe : d \in DaysOf(x) \cap DaysOf(y) /\ x.symbol = y.symbol => x = y
  BY DEF WindowsOnly
<1>1. QED
  BY DEF RebuildsInv, UniverseQuiet, RightOn, OneEach

LEMMA NothingSkipped == RebuildsInv => ResumeSkipsNothing
<1> SUFFICES ASSUME RebuildsInv PROVE ResumeSkipsNothing
  OBVIOUS
<1>1. CoveredTo(LatestValidTo)
  BY LatestFacts DEF RebuildsInv
<1>2. QED
  BY <1>1 DEF CoveredTo, ResumeSkipsNothing, RebuildStart

LEMMA UniverseInvariant == ServerSpec => []RebuildsInv
<1>1. ServerInit => RebuildsInv
  BY PartInits, RebuildsInitially
<1>2. RebuildsInv /\ [ServerNext]_serverVars => RebuildsInv'
  BY PartSteps, RebuildsStep
<1>3. QED
  BY <1>1, <1>2, PTL DEF ServerSpec

\* Whichever rebuilds overlap, fail or are killed, a day that is not lost to a
\* broken replacement has the members the last rebuild of it computed, each in
\* one row: ReplaceMembers changes nothing outside its window.
THEOREM WindowsKept == ServerSpec => []WindowsOnly
  BY UniverseInvariant, OnlyWindows, PTL

\* The rebuild that goes on from latestUniverseValidTo goes on from a day up to
\* which every day has been written.
THEOREM NoDaySkipped == ServerSpec => []ResumeSkipsNothing
  BY UniverseInvariant, NothingSkipped, PTL
=============================================================================
