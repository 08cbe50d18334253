---------------------------- MODULE ArchiveBooks ----------------------------
(***************************************************************************)
(* ArchiveProcessor of internal/polymarket: the order books it keeps while *)
(* the files of the archive go by, what it emits for an event, and the log *)
(* it undoes a file with.  A book is the list of the events it was built   *)
(* from; prices and sizes are left to the events.  The last part says      *)
(* without a processor which rows the archive should come to.              *)
(***************************************************************************)
EXTENDS Integers, SequencesExt, FiniteSets

CONSTANTS
    Streams,      \* a condition and one of its assets
    WindowStart,  \* of each stream's condition
    WindowEnd,
    Horizon       \* hours a book is kept after its window

ASSUME ArchiveBooksConstants ==
    /\ WindowStart \in [Streams -> Int] /\ WindowEnd \in [Streams -> Int]
    /\ Horizon \in Nat

EventTypes == {"book", "change", "tick", "trade"}

\* exch and recv are the hours of the two clocks of an event's key.
RawEvents == [stream : Streams, type : EventTypes, exch : Int, recv : Int]

\* A row of polymarket_l2_event: an event of a file, or the synthetic book
\* that goes before it and shows the book as it was.
EventRow(e) == [of |-> e, shows |-> <<>>, tick |-> <<>>]
SyntheticRow(e, book) == [of |-> e, shows |-> book.levels, tick |-> book.tick]

NoBook == [known |-> FALSE]
NewBook == [known |-> TRUE, initialized |-> FALSE, levels |-> <<>>, tick |-> <<>>, emitted |-> FALSE]

InWindow(e) == WindowStart[e.stream] <= e.exch /\ e.exch < WindowEnd[e.stream]
Late(e) == e.recv > WindowEnd[e.stream] + Horizon

\* Book.Apply: a change needs a snapshot to apply to.
ApplyEvent(book, e) ==
    IF e.type = "book" THEN [book EXCEPT !.levels = <<e>>, !.initialized = TRUE]
    ELSE IF e.type = "change" /\ book.initialized THEN [book EXCEPT !.levels = Append(@, e)]
    ELSE IF e.type = "tick" THEN [book EXCEPT !.tick = <<e>>]
    ELSE book

(***************************************************************************)
(* The processor: books, and the books as they were before a file that is  *)
(* being imported touched them.  undo is a function on the touched streams *)
(* and logging says whether there is one.                                  *)
(***************************************************************************)
NewProcessor == [books |-> [s \in Streams |-> NoBook], logging |-> FALSE, undo |-> <<>>]

BeginFile(p) == [p EXCEPT !.logging = TRUE, !.undo = <<>>]
CommitFile(p) == [p EXCEPT !.logging = FALSE, !.undo = <<>>]

RollbackFile(p) ==
    [books   |-> [s \in Streams |-> IF s \in DOMAIN p.undo THEN p.undo[s] ELSE p.books[s]],
     logging |-> FALSE, undo |-> <<>>]

\* beforeMutate and the assignment it goes before.
SetBook(p, s, book) ==
    [p EXCEPT !.books[s] = book,
              !.undo = IF ~p.logging \/ s \in DOMAIN @ THEN @
                       ELSE [t \in DOMAIN @ \cup {s} |-> IF t = s THEN p.books[s] ELSE @[t]]]

\* AdvanceWatermark
Advance(p, hour) ==
    [p EXCEPT !.books = [s \in Streams |->
        IF hour > WindowEnd[s] + Horizon THEN NoBook ELSE @[s]]]

\* process: the books after an event, and the rows it is worth.
Process(p, e, writable, committed) ==
    LET s == e.stream
        q == IF p.books[s].known THEN p ELSE SetBook(p, s, NewBook)
        marks == InWindow(e) /\ committed /\ (q.books[s].initialized \/ e.type = "book")
        r == IF marks THEN SetBook(q, s, [q.books[s] EXCEPT !.emitted = TRUE]) ELSE q
        current == r.books[s]
    IN  IF Late(e) THEN [processor |-> [p EXCEPT !.books[s] = NoBook], rows |-> <<>>]
        ELSE IF current.emitted THEN [processor |-> r, rows |-> IF InWindow(e) /\ writable THEN <<EventRow(e)>> ELSE <<>>]
        ELSE IF ~(InWindow(e) /\ writable) THEN [processor |-> SetBook(r, s, ApplyEvent(current, e)), rows |-> <<>>]
        ELSE IF e.type # "book" /\ ~current.initialized THEN [processor |-> r, rows |-> <<>>]
        ELSE [processor |-> SetBook(r, s, [ApplyEvent(current, e) EXCEPT !.emitted = TRUE]),
              rows      |-> IF e.type = "book" THEN <<EventRow(e)>> ELSE <<SyntheticRow(e, current), EventRow(e)>>]

\* A file that is only read to bring the books up to its end.
Warm(p, events, committed) ==
    LET after[i \in 0..Len(events)] ==
            IF i = 0 THEN p ELSE Process(after[i - 1], events[i], FALSE, committed).processor
    IN  after[Len(events)]

(***************************************************************************)
(* What the archive should come to.  A log is the list of what the files   *)
(* hold, those that cannot be read holding nothing; the files up to        *)
(* warmups only lead up to the ones that are imported.  A stream's rows    *)
(* are its events in the window from the first one on whose book is known; *)
(* if that is not itself a book, one that shows the book goes before it.   *)
(***************************************************************************)
Places(log) == UNION {{f} \X (1..Len(log[f])) : f \in DOMAIN log}
At(log, x) == log[x[1]][x[2]]
Before(x, y) == x[1] < y[1] \/ (x[1] = y[1] /\ x[2] < y[2])

\* Where events of x's stream and of some types came before x.
Earlier(log, x, types) ==
    {y \in Places(log) : Before(y, x) /\ At(log, y).stream = At(log, x).stream /\ At(log, y).type \in types}

BookKnown(log, x) == At(log, x).type = "book" \/ Earlier(log, x, {"book"}) # {}

Due(log, warmups, x) ==
    x[1] > warmups /\ InWindow(At(log, x)) /\ ~Late(At(log, x)) /\ BookKnown(log, x)

FirstDue(log, warmups, x) == \A y \in Earlier(log, x, EventTypes) : ~Due(log, warmups, y)

\* The events at some places, in their order.
Listing(log, places) ==
    LET order == CHOOSE q \in [1..Cardinality(places) -> places] :
                     \A i, j \in DOMAIN q : i < j => Before(q[i], q[j])
    IN  [i \in DOMAIN order |-> At(log, order[i])]

\* The events a snapshot before x is made of: the last book, the changes since.
Shown(log, x) ==
    Listing(log, {y \in Earlier(log, x, {"book", "change"}) : \A z \in Earlier(log, x, {"book"}) : ~Before(y, z)})

TickShown(log, x) ==
    Listing(log, {y \in Earlier(log, x, {"tick"}) : \A z \in Earlier(log, x, {"tick"}) : ~Before(y, z)})

\* The rows of file f, as a set: no two of them are alike.
RowsOf(log, warmups, f) ==
    LET due == {x \in Places(log) : x[1] = f /\ Due(log, warmups, x)}
        synthetic == {x \in due : FirstDue(log, warmups, x) /\ At(log, x).type # "book"}
    IN  {EventRow(At(log, x)) : x \in due}
          \cup {[of |-> At(log, x), shows |-> Shown(log, x), tick |-> TickShown(log, x)] : x \in synthetic}
=============================================================================
