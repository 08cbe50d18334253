---------------------------- MODULE TrafficMeter ----------------------------
(***************************************************************************)
(* The traffic statistics of the API server (TrafficMeter, TrafficRequest  *)
(* and the flusher in internal/api/traffic_meter.go).  A request collects  *)
(* its bytes with the times they went at and hands them in when it         *)
(* finishes: each to the bucket of its own minute.  The flusher takes a    *)
(* snapshot of the minutes that are over, writes it, and then discards     *)
(* those minutes; a minute is a row of a ReplacingMergeTree, so that what  *)
(* is written for it later takes its place.                                *)
(*                                                                         *)
(* All requests have one method, route and status class.  Bytes are items: *)
(* what a request transferred in a minute, or that it was counted there.   *)
(***************************************************************************)
EXTENDS Naturals

CONSTANTS
    Requests,
    LastMinute  \* bound: the last minute

ASSUME TrafficConstants == LastMinute \in Nat

Minutes == 0..LastMinute
Items == [of : Requests, what : {"bytes", "count"}]

VARIABLES
    minute,      \* the clock
    transferred, \* minutes each request has transferred bytes in
    finishedAt,  \* minute each request finished in, or none
    buckets,     \* items in memory for each minute
    rows,        \* items in each minute's row of api_traffic_minute
    flusher,     \* control of the flusher
    cutoff,      \* minute the flush under way is for
    snapshot     \* what Snapshot returned

requestVars == <<transferred, finishedAt>>
flushVars == <<flusher, cutoff, snapshot>>
trafficVars == <<minute, requestVars, buckets, rows, flushVars>>

Unfinished == LastMinute + 1
NoItems == [m \in Minutes |-> {}]

TrafficInit ==
    /\ minute = 0
    /\ transferred = [r \in Requests |-> {}]
    /\ finishedAt = [r \in Requests |-> Unfinished]
    /\ buckets = NoItems /\ rows = NoItems
    /\ flusher = "waiting" /\ cutoff = 0 /\ snapshot = NoItems

\* A body is read or written a piece at a time.
Transfer(r) ==
    /\ finishedAt[r] = Unfinished /\ flusher # "gone"
    /\ transferred' = [transferred EXCEPT ![r] = @ \cup {minute}]
    /\ UNCHANGED <<minute, finishedAt, buckets, rows, flushVars>>

\* What request r hands in for minute m when it finishes now.
HandedIn(r, m) ==
    {i \in Items : /\ i.of = r
                   /\ \/ i.what = "bytes" /\ m \in transferred[r]
                      \/ i.what = "count" /\ m = minute}

FinishRequest(r) ==
    /\ finishedAt[r] = Unfinished /\ flusher # "gone"
    /\ finishedAt' = [finishedAt EXCEPT ![r] = minute]
    /\ buckets' = [m \in Minutes |-> buckets[m] \cup HandedIn(r, m)]
    /\ UNCHANGED <<minute, transferred, rows, flushVars>>

\* The ticker fires; its instant is the cutoff, whenever it is looked at.
FlushTick ==
    /\ flusher = "waiting"
    /\ flusher' = "snapshot" /\ cutoff' = minute
    /\ UNCHANGED <<minute, requestVars, buckets, rows, snapshot>>

\* Snapshot: nothing to write, nothing to discard.
TakeSnapshot ==
    /\ flusher = "snapshot"
    /\ snapshot' = [m \in Minutes |-> IF m < cutoff THEN buckets[m] ELSE {}]
    /\ flusher' = IF \A m \in Minutes : snapshot'[m] = {} THEN "waiting" ELSE "write"
    /\ UNCHANGED <<minute, requestVars, buckets, rows, cutoff>>

Written == [m \in Minutes |-> IF snapshot[m] = {} THEN rows[m] ELSE snapshot[m]]

WriteTrafficMinutes ==
    /\ flusher = "write"
    /\ rows' = Written
    /\ flusher' = "discard"
    /\ UNCHANGED <<minute, requestVars, buckets, cutoff, snapshot>>

\* The write fails for the flusher, applied or not: the buckets stay.
WriteTrafficFails(applied) ==
    /\ flusher = "write"
    /\ rows' = IF applied THEN Written ELSE rows
    /\ flusher' = "waiting"
    /\ UNCHANGED <<minute, requestVars, buckets, cutoff, snapshot>>

\* Mutant: the minutes before the present one are discarded.
DiscardBeforeNow ==
    /\ flusher = "discard"
    /\ buckets' = [m \in Minutes |-> IF m < minute THEN {} ELSE buckets[m]]
    /\ flusher' = "waiting"
    /\ UNCHANGED <<minute, requestVars, rows, cutoff, snapshot>>

DiscardBefore ==
    /\ flusher = "discard"
    /\ buckets' = [m \in Minutes |-> IF m < cutoff THEN {} ELSE buckets[m]]
    /\ flusher' = "waiting"
    /\ UNCHANGED <<minute, requestVars, rows, cutoff, snapshot>>

\* The server stops and its process ends.  main does not wait for the last
\* flush, of all that is there: it may or may not come to its write.
StopServer(applied) ==
    /\ flusher = "waiting"
    /\ rows' = [m \in Minutes |-> IF applied /\ buckets[m] # {} THEN buckets[m] ELSE rows[m]]
    /\ flusher' = "gone"
    /\ UNCHANGED <<minute, requestVars, buckets, cutoff, snapshot>>

MinutePasses ==
    /\ minute < LastMinute
    /\ minute' = minute + 1
    /\ UNCHANGED <<requestVars, buckets, rows, flushVars>>

TrafficNext ==
    \/ \E r \in Requests : Transfer(r) \/ FinishRequest(r)
    \/ FlushTick \/ TakeSnapshot \/ WriteTrafficMinutes \/ DiscardBefore
    \/ \E applied \in BOOLEAN : WriteTrafficFails(applied) \/ StopServer(applied)
    \/ MinutePasses

TrafficSpec == TrafficInit /\ [][TrafficNext]_trafficVars

(***************************************************************************)
(* Properties                                                              *)
(***************************************************************************)

\* What finished requests have to show in minute m.
DueIn(m) ==
    {i \in Items : /\ finishedAt[i.of] # Unfinished
                   /\ \/ i.what = "bytes" /\ m \in transferred[i.of]
                      \/ i.what = "count" /\ m = finishedAt[i.of]}

\* A request that finished in a later minute than it transferred bytes in.
OutlivedBy(m) == \E r \in Requests : m \in transferred[r] /\ finishedAt[r] \in (m + 1)..LastMinute

\* Whatever a flush coincides with or fails at, a minute none of whose
\* requests outlived it is accounted for in full, in memory or in its row.
PromptMinutesAreKept ==
    \A m \in Minutes : flusher # "gone" /\ ~OutlivedBy(m) => DueIn(m) \subseteq buckets[m] \cup rows[m]
=============================================================================
