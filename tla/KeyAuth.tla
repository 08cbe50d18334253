------------------------------ MODULE KeyAuth -------------------------------
(***************************************************************************)
(* Authentication of an API key (AuthenticateAPIKey in                     *)
(* internal/apikeyauth/service.go): the answer of the repository, a grant  *)
(* or a refusal, is cached for the token and given again until AuthTTL     *)
(* after the clock was read by the call that asked.  Calls interleave      *)
(* between the cache, the repository and the cache again.  Meanwhile the   *)
(* cmd/api-keys tool creates the key, gives it another token or disables   *)
(* it in the database, of which the service is not told.                   *)
(***************************************************************************)
EXTENDS Integers

CONSTANTS
    Askers,      \* requests
    Tokens,      \* plaintexts, one for each digest
    NoToken,     \* no token
    AuthTTL,     \* cacheTTL
    Expiries,    \* what ExpiresAt of the key may be
    LastInstant, \* bound: the last instant
    MaxAsks      \* bound: calls

ASSUME KeyAuthConstants ==
    /\ NoToken \notin Tokens
    /\ AuthTTL \in Nat \ {0}
    /\ Expiries \subseteq Int
    /\ LastInstant \in Nat /\ MaxAsks \in Nat

Instants == 0..LastInstant

VARIABLES
    instant,  \* the clock
    digest, active,  \* of the key's record; no token before it is created
    expiry,   \* its ExpiresAt, which nothing changes
    entry,    \* the cache
    asks,     \* calls made so far
    asking,   \* control of each call
    token, since, answer,  \* its key, its now, what it found or returned
    \* History
    usable,   \* instants at which an active record had each token
    unusable  \* instants at which none had

recordVars == <<digest, active, expiry>>
askVars == <<asks, asking, token, since, answer>>
keyHistory == <<usable, unusable>>
keyVars == <<instant, recordVars, entry, askVars, keyHistory>>

NoAnswer == [cached |-> FALSE, found |-> FALSE, expiresAt |-> 0]
None == [k \in Tokens |-> {}]

KeyInit ==
    /\ instant = 0
    /\ digest = NoToken /\ active = FALSE /\ expiry \in Expiries
    /\ entry = [k \in Tokens |-> NoAnswer]
    /\ asks = 0 /\ asking = [a \in Askers |-> "idle"]
    /\ token = [a \in Askers |-> NoToken]
    /\ since = [a \in Askers |-> 0]
    /\ answer = [a \in Askers |-> FALSE]
    /\ usable = None /\ unusable = [k \in Tokens |-> {0}]

(***************************************************************************)
(* A call                                                                  *)
(***************************************************************************)

Ask(a, k) ==
    /\ asking[a] \in {"idle", "answered"} /\ asks < MaxAsks
    /\ asks' = asks + 1
    /\ asking' = [asking EXCEPT ![a] = "lookup"]
    /\ token' = [token EXCEPT ![a] = k]
    /\ since' = [since EXCEPT ![a] = instant]
    /\ answer' = [answer EXCEPT ![a] = FALSE]
    /\ UNCHANGED <<instant, recordVars, entry, keyHistory>>

\* getCached: an entry serves a call whose now is before its expiry.
Serves(k, t) == entry[k].cached /\ t < entry[k].expiresAt

\* Mutant: a hit keeps the entry for another while.
GetCachedSliding(a) ==
    /\ asking[a] = "lookup" /\ Serves(token[a], since[a])
    /\ asking' = [asking EXCEPT ![a] = "answered"]
    /\ answer' = [answer EXCEPT ![a] = entry[token[a]].found]
    /\ entry' = [entry EXCEPT ![token[a]].expiresAt = since[a] + AuthTTL]
    /\ UNCHANGED <<instant, recordVars, asks, token, since, keyHistory>>

GetCached(a) ==
    /\ asking[a] = "lookup" /\ Serves(token[a], since[a])
    /\ asking' = [asking EXCEPT ![a] = "answered"]
    /\ answer' = [answer EXCEPT ![a] = entry[token[a]].found]
    /\ UNCHANGED <<instant, recordVars, entry, asks, token, since, keyHistory>>

\* An entry that does not serve is deleted.
MissCached(a) ==
    /\ asking[a] = "lookup" /\ ~Serves(token[a], since[a])
    /\ entry' = [entry EXCEPT ![token[a]] = NoAnswer]
    /\ asking' = [asking EXCEPT ![a] = "query"]
    /\ UNCHANGED <<instant, recordVars, asks, token, since, answer, keyHistory>>

\* FindByDigest, and the expiry against the call's now.
FindByDigest(a) ==
    /\ asking[a] = "query"
    /\ asking' = [asking EXCEPT ![a] = "store"]
    /\ answer' = [answer EXCEPT ![a] = digest = token[a] /\ active /\ expiry > since[a]]
    /\ UNCHANGED <<instant, recordVars, entry, asks, token, since, keyHistory>>

\* The query fails: the request is refused and nothing is cached.
FindByDigestFails(a) ==
    /\ asking[a] = "query"
    /\ asking' = [asking EXCEPT ![a] = "idle"]
    /\ UNCHANGED <<instant, recordVars, entry, asks, token, since, answer, keyHistory>>

SetCached(a) ==
    /\ asking[a] = "store"
    /\ entry' = [entry EXCEPT ![token[a]] =
          [cached |-> TRUE, found |-> answer[a], expiresAt |-> since[a] + AuthTTL]]
    /\ asking' = [asking EXCEPT ![a] = "answered"]
    /\ UNCHANGED <<instant, recordVars, asks, token, since, answer, keyHistory>>

(***************************************************************************)
(* The tool and the clock                                                  *)
(***************************************************************************)

\* What the repository says of the tokens from now, instant t, on.
Witness(k, a, t) ==
    /\ usable' = [j \in Tokens |-> IF a /\ j = k THEN usable[j] \cup {t} ELSE usable[j]]
    /\ unusable' = [j \in Tokens |-> IF a /\ j = k THEN unusable[j] ELSE unusable[j] \cup {t}]

SetRecord(k, a) ==
    /\ digest' = k /\ active' = a
    /\ Witness(k, a, instant)
    /\ UNCHANGED <<instant, expiry, entry, askVars>>

\* create makes the record, rotate gives it a new token and activates it;
\* tokens are random, so that one is never given out twice.
GiveToken(k) == usable[k] = {} /\ SetRecord(k, TRUE)

Disable == digest # NoToken /\ active /\ SetRecord(digest, FALSE)

InstantPasses ==
    /\ instant < LastInstant
    /\ instant' = instant + 1
    /\ Witness(digest, active, instant + 1)
    /\ UNCHANGED <<recordVars, entry, askVars>>

KeyNext ==
    \/ \E a \in Askers : \/ \E k \in Tokens : Ask(a, k)
                         \/ GetCached(a) \/ MissCached(a)
                         \/ FindByDigest(a) \/ FindByDigestFails(a) \/ SetCached(a)
    \/ \E k \in Tokens : GiveToken(k)
    \/ Disable \/ InstantPasses

KeySpec == KeyInit /\ [][KeyNext]_keyVars

(***************************************************************************)
(* Properties                                                              *)
(***************************************************************************)

\* However calls and the tool interleave, an answer is at most one TTL old:
\* a token that is granted was the active key's at some instant less than
\* AuthTTL before the call began, or since, when the key had not expired; one
\* that is refused was not, or the key had expired.  So a token that was
\* disabled or replaced is out, and a new one in, AuthTTL later at most.
AnswersAreRecent ==
    \A a \in Askers : asking[a] = "answered" =>
        IF answer[a]
        THEN /\ expiry > since[a] - AuthTTL
             /\ \E t \in usable[token[a]] : t > since[a] - AuthTTL
        ELSE expiry <= instant \/ \E t \in unusable[token[a]] : t > since[a] - AuthTTL
=============================================================================
