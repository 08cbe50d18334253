---------------------------- MODULE ArchiveCases ----------------------------
(***************************************************************************)
(* Small archives: what the files of three hours may hold.                 *)
(***************************************************************************)
EXTENDS Naturals, Sequences, TLC

MCStart == ("s" :> 2) @@ ("t" :> 0)
MCEnd == ("s" :> 3) @@ ("t" :> 1)

Event(stream, type, exch, recv) == [stream |-> stream, type |-> type, exch |-> exch, recv |-> recv]
Whole(events) == [events |-> events, broken |-> FALSE]
Broken(events) == [events |-> events, broken |-> TRUE]

\* The book of s before its window, and t's in its own.
First1 == <<Event("s", "book", 1, 1), Event("t", "book", 0, 1)>>
\* The window of s: changes of the book, and a book.
Second1 == <<Event("s", "change", 2, 2), Event("s", "trade", 2, 2)>>
Second2 == <<Event("s", "book", 2, 2)>>
\* Late arrivals: in the window of s, and too late for t.
Third1(hour) == <<Event("s", "change", 2, hour), Event("t", "trade", 0, hour)>>

MCHours == <<1, 2, 4>>
MCContents == <<{Whole(First1)},
                {Whole(Second1), Whole(Second2), Broken(Second1)},
                {Whole(Third1(4))}>>
MCTailHours == <<1, 2, 3>>
MCTailContents == <<{Whole(First1)}, {Whole(Second1), Whole(<<>>)}, {Whole(Third1(3))}>>
=============================================================================
