--------------------------- MODULE Spreads_proofs ---------------------------
(***************************************************************************)
(* Proofs about Spreads for any templates, prices, bars and bounds.        *)
(***************************************************************************)
EXTENDS Spreads, Sums, FiniteSetTheorems, SequenceTheorems, TLAPS

LEMMA ConstantFacts ==
    /\ LastBar \in Nat \ {0} /\ MaxSpreads \in Nat /\ MaxLegs \in Nat /\ MaxScheduled \in Nat
    /\ Quotes \subseteq Nat
    /\ Templates \subseteq Seq([side : LegSides, expiry : Nat]) \ {<<>>}
  BY SpreadConstants

(***************************************************************************)
(* Sequences                                                               *)
(***************************************************************************)

LEMMA Elements ==
    ASSUME NEW S, NEW queue \in Seq(S)
    PROVE  /\ Len(queue) \in Nat /\ DOMAIN queue = 1..Len(queue)
           /\ \A k \in 1..Len(queue) : queue[k] \in S
  OBVIOUS

LEMMA FromFunction ==
    ASSUME NEW S, NEW n \in Nat, NEW queue \in [1..n -> S]
    PROVE  queue \in Seq(S)
  OBVIOUS

LEMMA Wider ==
    ASSUME NEW S, NEW T, S \subseteq T, NEW queue \in Seq(S)
    PROVE  queue \in Seq(T)
  OBVIOUS

LEMMA Taken ==
    ASSUME NEW S, NEW queue \in Seq(S), queue # <<>>
    PROVE  /\ Head(queue) \in S /\ Tail(queue) \in Seq(S) /\ Len(queue) \in Nat
           /\ DOMAIN queue = 1..Len(queue) /\ DOMAIN Tail(queue) = 1..(Len(queue) - 1)
           /\ 1 \in DOMAIN queue /\ queue[1] = Head(queue)
           /\ \A k \in DOMAIN Tail(queue) : k + 1 \in DOMAIN queue /\ Tail(queue)[k] = queue[k + 1]
           /\ \A k \in DOMAIN queue : k # 1 => k - 1 \in DOMAIN Tail(queue) /\ Tail(queue)[k - 1] = queue[k]
  OBVIOUS

LEMMA Appended ==
    ASSUME NEW S, NEW queue \in Seq(S), NEW x \in S
    PROVE  /\ Append(queue, x) \in Seq(S) /\ Len(queue) \in Nat
           /\ Len(Append(queue, x)) = Len(queue) + 1
           /\ DOMAIN queue = 1..Len(queue) /\ DOMAIN Append(queue, x) = 1..(Len(queue) + 1)
           /\ \A k \in DOMAIN queue : Append(queue, x)[k] = queue[k]
           /\ Append(queue, x)[Len(queue) + 1] = x
  OBVIOUS

(***************************************************************************)
(* Legs                                                                    *)
(***************************************************************************)

LEMMA BoughtFacts ==
    ASSUME NEW template \in Templates, NEW price \in Quotes
    PROVE  /\ Bought(template, price) \in Seq(Legs) /\ Len(template) \in Nat \ {0}
           /\ DOMAIN Bought(template, price) = 1..Len(template)
           /\ Len(Bought(template, price)) = Len(template)
           /\ \A l \in 1..Len(template) : ~Bought(template, price)[l].closed
           /\ ~FullyClosed(Bought(template, price))
<1>1. /\ Len(template) \in Nat \ {0} /\ DOMAIN template = 1..Len(template)
      /\ \A l \in 1..Len(template) : template[l] \in [side : LegSides, expiry : Nat]
  <2>1. template \in Seq([side : LegSides, expiry : Nat]) /\ template # <<>>
    BY ConstantFacts
  <2>2. Len(template) # 0
    BY <2>1, EmptySeq
  <2>3. QED
    BY <2>1, <2>2, Elements
<1>2. \A l \in 1..Len(template) :
          [side |-> template[l].side, expiry |-> template[l].expiry, entry |-> price,
           closed |-> FALSE, exit |-> 0] \in Legs
  BY <1>1 DEF Legs
<1>3. DOMAIN Bought(template, price) = 1..Len(template)
  BY <1>1 DEF Bought
<1>4. \A l \in 1..Len(template) :
          Bought(template, price)[l] \in Legs /\ ~Bought(template, price)[l].closed
  BY <1>1, <1>2 DEF Bought
<1>5. Bought(template, price) \in [1..Len(template) -> Legs]
  BY <1>1, <1>2 DEF Bought
<1>6. Bought(template, price) \in Seq(Legs) /\ Len(Bought(template, price)) = Len(template)
  BY <1>1, <1>5
<1>7. 1 \in 1..Len(template)
  BY <1>1
<1>8. QED
  BY <1>1, <1>3, <1>4, <1>6, <1>7 DEF FullyClosed

LEMMA ListFacts ==
    ASSUME TypeLists
    PROVE  /\ Len(spreads) \in Nat /\ DOMAIN spreads = Ids
           /\ Len(array) \in Nat /\ DOMAIN array = 1..Len(array)
           /\ size \in Nat /\ size <= Len(array)
           /\ \A k \in 1..Len(array) : array[k] \in Ids
           /\ \A id \in Ids : /\ spreads[id] \in Seq(Legs) /\ Len(spreads[id]) \in Nat
                              /\ DOMAIN spreads[id] = 1..Len(spreads[id])
                              /\ \A l \in DOMAIN spreads[id] : spreads[id][l] \in Legs
           /\ Open \in Seq(Ids) /\ Len(Open) = size
           /\ \A k \in 1..size : Open[k] = array[k]
<1>1. /\ Len(spreads) \in Nat /\ DOMAIN spreads = Ids
      /\ Len(array) \in Nat /\ DOMAIN array = 1..Len(array)
      /\ size \in Nat /\ size <= Len(array)
  BY DEF TypeLists, Ids
<1>2. \A k \in 1..Len(array) : array[k] \in Ids
  BY DEF TypeLists
<1>3. \A id \in Ids : spreads[id] \in Seq(Legs)
  BY DEF TypeLists, Ids
<1>4. \A id \in Ids : /\ Len(spreads[id]) \in Nat /\ DOMAIN spreads[id] = 1..Len(spreads[id])
                      /\ \A l \in DOMAIN spreads[id] : spreads[id][l] \in Legs
  BY <1>3
<1>5. Open \in Seq(Ids) /\ Len(Open) = size /\ \A k \in 1..size : Open[k] = array[k]
  <2>1. Open = [k \in 1..size |-> array[k]]
    BY <1>1 DEF Open, TypeLists
  <2>2. Open \in [1..size -> Ids]
    BY <1>1, <1>2, <2>1
  <2>3. QED
    BY <1>1, <2>1, <2>2
<1>6. QED
  BY <1>1, <1>2, <1>3, <1>4, <1>5

(***************************************************************************)
(* What an operation of the tracker does to the spreads there are: it keeps *)
(* their legs, the closed ones as they are, and fully closed spreads whole. *)
(***************************************************************************)

Keeps ==
    /\ Len(spreads') >= Len(spreads)
    /\ \A id \in Ids :
          /\ DOMAIN spreads[id] \subseteq DOMAIN spreads'[id]
          /\ \A l \in DOMAIN spreads[id] : spreads[id][l].closed => spreads'[id][l] = spreads[id][l]
          /\ FullyClosed(spreads[id]) => spreads'[id] = spreads[id]

LEMMA NothingMoves ==
    ASSUME TypeLists, UNCHANGED <<spreads, size, archive>>, array' = array \/ array' = Open
    PROVE  TypeLists' /\ Keeps /\ (ListedOnce => ListedOnce')
<1>1. Ids' = Ids /\ Len(array') \in Nat /\ size <= Len(array') /\ array' \in Seq(Ids)
  BY ListFacts DEF Ids, TypeLists
<1>2. \A k \in 1..size : array'[k] = array[k]
  BY ListFacts
<1>3. TypeLists'
  BY <1>1, ListFacts DEF TypeLists
<1>4. Keeps
  BY ListFacts DEF Keeps
<1>5. ListedOnce => ListedOnce'
  BY <1>1, <1>2 DEF ListedOnce, FullyClosed
<1>6. QED
  BY <1>3, <1>4, <1>5

LEMMA OpensFacts ==
    ASSUME TypeLists, NEW template \in Templates, NEW price \in Quotes, Opens(template, price)
    PROVE  TypeLists' /\ Keeps /\ (ListedOnce => ListedOnce')
<1> DEFINE n == Len(spreads)
           legs == Bought(template, price)
<1>1. /\ spreads' = Append(spreads, legs) /\ array' = Append(Open, n + 1)
      /\ size' = size + 1 /\ archive' = archive /\ n < MaxSpreads
  BY DEF Opens
<1>2. legs \in Seq(Legs) /\ ~FullyClosed(legs)
  BY BoughtFacts
<1>3. /\ spreads' \in Seq(Seq(Legs)) /\ Len(spreads') = n + 1 /\ n \in Nat
      /\ \A id \in 1..n : spreads'[id] = spreads[id]
      /\ spreads'[n + 1] = legs
  BY <1>1, <1>2, Appended DEF TypeLists
<1>4. Ids = 1..n /\ Ids' = 1..(n + 1)
  BY <1>3 DEF Ids
<1>5. /\ array' \in Seq(1..(n + 1)) /\ Len(array') = size + 1 /\ size \in Nat
      /\ \A k \in 1..size : array'[k] = array[k] /\ array[k] \in 1..n
      /\ array'[size + 1] = n + 1
  <2>1. Open \in Seq(1..n) /\ 1..n \subseteq 1..(n + 1) /\ n + 1 \in 1..(n + 1) /\ Len(Open) = size
    BY <1>3, <1>4, ListFacts
  <2>2. DOMAIN Open = 1..size
    BY <2>1
  <2>3. /\ Append(Open, n + 1) \in Seq(1..(n + 1)) /\ Len(Append(Open, n + 1)) = size + 1
        /\ \A k \in 1..size : Append(Open, n + 1)[k] = Open[k]
        /\ Append(Open, n + 1)[size + 1] = n + 1
    <3>1. Open \in Seq(1..(n + 1)) /\ n + 1 \in 1..(n + 1)
      BY <2>1, Wider
    <3>2. QED
      BY <2>1, <2>2, <3>1, Appended
  <2>4. size \in Nat /\ \A k \in 1..size : Open[k] = array[k] /\ array[k] \in 1..n
    BY <1>4, ListFacts
  <2>5. QED
    BY <1>1, <2>3, <2>4
<1>n. n \in Nat /\ size \in Nat
  BY <1>3, <1>5
<1> HIDE DEF legs, n
<1>6. TypeLists'
  <2>1. archive \in Seq(1..n)
    BY <1>4 DEF TypeLists
  <2>2. archive' \in Seq(Ids')
    BY <1>1, <1>3, <1>4, <2>1
  <2>3. Len(spreads') <= MaxSpreads
    BY <1>1, <1>3, ConstantFacts
  <2>4. size' \in 0..Len(array')
    BY <1>1, <1>5
  <2>5. QED
    BY <1>3, <1>4, <1>5, <2>2, <2>3, <2>4 DEF TypeLists
<1>7. Keeps
  BY <1>3, <1>4 DEF Keeps, n
<1>8. ASSUME ListedOnce PROVE ListedOnce'
  <2>1. \A k, l \in 1..size' : array'[k] = array'[l] => k = l
    <3>1. \A k, l \in 1..size : array'[k] = array'[l] => k = l
      BY <1>5, <1>8 DEF ListedOnce
    <3>2. \A k \in 1..size : array'[k] # array'[size + 1]
      <4>1. \A k \in 1..size : array'[k] \in 1..n
        BY <1>5
      <4>2. array'[size + 1] \notin 1..n
        BY <1>n, <1>5
      <4>3. QED
        BY <4>1, <4>2
    <3>3. \A k \in 1..size' : k \in 1..size \/ k = size + 1
      BY <1>1, <1>5
    <3>4. QED
      BY <3>1, <3>2, <3>3
  <2>2. \A k \in DOMAIN archive : archive[k] \in 1..n
    <3>1. archive \in Seq(1..n)
      BY <1>4 DEF TypeLists
    <3>2. QED
      BY <3>1, Elements
  <2>3. ASSUME NEW id \in Ids'
        PROVE  /\ (\E k \in 1..size' : array'[k] = id) <=> ~FullyClosed(spreads'[id])
               /\ (\E k \in DOMAIN archive' : archive'[k] = id) <=> FullyClosed(spreads'[id])
    <3>1. CASE id = n + 1
      <4>1. size + 1 \in 1..size' /\ array'[size + 1] = id
        BY <1>1, <1>5, <3>1
      <4>2. \A k \in DOMAIN archive' : archive'[k] # id
        BY <1>1, <1>3, <2>2, <3>1
      <4>3. ~FullyClosed(spreads'[id])
        BY <1>2, <1>3, <3>1
      <4>4. QED
        BY <4>1, <4>2, <4>3
    <3>2. CASE id \in Ids
      <4>1. spreads'[id] = spreads[id] /\ id # n + 1
        BY <1>3, <1>4, <3>2
      <4>2. (\E k \in 1..size' : array'[k] = id) <=> (\E k \in 1..size : array[k] = id)
        <5>1. \A k \in 1..size' : k \in 1..size \/ k = size + 1
          BY <1>1, <1>5
        <5>2. \A k \in 1..size : k \in 1..size'
          BY <1>1, <1>5
        <5>3. array'[size + 1] # id
          BY <1>5, <4>1
        <5>4. QED
          BY <1>5, <5>1, <5>2, <5>3
      <4>3. QED
        BY <1>1, <1>8, <3>2, <4>1, <4>2 DEF ListedOnce
    <3>3. QED
      BY <1>3, <1>4, <2>3, <3>1, <3>2
  <2>4. QED
    BY <1>1, <1>8, <2>1, <2>3 DEF ListedOnce
<1>9. QED
  BY <1>6, <1>7, <1>8

\* A spread is replaced by one with the same legs and perhaps more, of which
\* the closed ones stay as they were.
Follows(id, legs) ==
    /\ legs \in Seq(Legs) /\ spreads' = [spreads EXCEPT ![id] = legs]
    /\ DOMAIN spreads[id] \subseteq DOMAIN legs
    /\ \A l \in DOMAIN spreads[id] : spreads[id][l].closed => legs[l] = spreads[id][l]
    /\ ~FullyClosed(spreads[id])

LEMMA FollowsFacts ==
    ASSUME TypeLists, NEW id \in Ids, NEW legs, Follows(id, legs)
    PROVE  /\ spreads' \in Seq(Seq(Legs)) /\ Len(spreads') = Len(spreads) /\ Ids' = Ids
           /\ spreads'[id] = legs /\ \A x \in Ids : x # id => spreads'[x] = spreads[x]
           /\ Keeps
<1>1. /\ spreads \in Seq(Seq(Legs)) /\ DOMAIN spreads = Ids /\ Len(spreads) \in Nat
      /\ Ids = 1..Len(spreads)
  BY ListFacts DEF TypeLists, Ids
<1>2. legs \in Seq(Legs) /\ spreads' = [spreads EXCEPT ![id] = legs]
  BY DEF Follows
<1>3. spreads' \in Seq(Seq(Legs)) /\ Len(spreads') = Len(spreads)
  BY <1>1, <1>2
<1>4. spreads'[id] = legs /\ \A x \in Ids : x # id => spreads'[x] = spreads[x]
  BY <1>1, <1>2
<1>5. Ids' = Ids
  BY <1>3 DEF Ids
<1>6. Keeps
  <2>1. Len(spreads') >= Len(spreads)
    BY <1>1, <1>3
  <2>2. QED
    BY <1>4, <2>1 DEF Keeps, Follows
<1>7. QED
  BY <1>3, <1>4, <1>5, <1>6

LEMMA AppendFacts ==
    ASSUME TypeLists, NEW id \in Ids, NEW template \in Templates, NEW price \in Quotes,
           AppendSpreadLegs(id, template, price)
    PROVE  TypeLists' /\ Keeps /\ (ListedOnce => ListedOnce')
<1> DEFINE legs == Bought(template, price)
           all == spreads[id] \o legs
<1>1. /\ ~FullyClosed(spreads[id]) /\ spreads' = [spreads EXCEPT ![id] = all]
      /\ UNCHANGED <<array, size, archive>>
  BY DEF AppendSpreadLegs
<1>2. /\ spreads[id] \in Seq(Legs) /\ DOMAIN spreads[id] = 1..Len(spreads[id])
      /\ legs \in Seq(Legs)
  BY ListFacts, BoughtFacts
<1> HIDE DEF legs
<1>3. /\ all \in Seq(Legs) /\ DOMAIN spreads[id] \subseteq DOMAIN all
      /\ \A l \in DOMAIN spreads[id] : all[l] = spreads[id][l]
  BY <1>2
<1> HIDE DEF all
<1>4. Follows(id, all) /\ ~FullyClosed(all)
  BY <1>1, <1>3 DEF Follows, FullyClosed
<1>5. /\ spreads' \in Seq(Seq(Legs)) /\ Len(spreads') = Len(spreads) /\ Ids' = Ids
      /\ spreads'[id] = all /\ \A x \in Ids : x # id => spreads'[x] = spreads[x]
      /\ Keeps
  BY <1>4, FollowsFacts
<1>6. TypeLists'
  BY <1>1, <1>5 DEF TypeLists
<1>7. \A x \in Ids : FullyClosed(spreads'[x]) <=> FullyClosed(spreads[x])
  BY <1>1, <1>4, <1>5
<1>8. ASSUME ListedOnce PROVE ListedOnce'
  <2>1. \A x \in Ids' :
            /\ (\E k \in 1..size' : array'[k] = x) <=> ~FullyClosed(spreads'[x])
            /\ (\E k \in DOMAIN archive' : archive'[k] = x) <=> FullyClosed(spreads'[x])
    <3>1. SUFFICES ASSUME NEW x \in Ids
                   PROVE  /\ (\E k \in 1..size : array[k] = x) <=> ~FullyClosed(spreads'[x])
                          /\ (\E k \in DOMAIN archive : archive[k] = x) <=> FullyClosed(spreads'[x])
      BY <1>1, <1>5
    <3>2. QED
      BY <1>7, <1>8 DEF ListedOnce
  <2>2. QED
    BY <1>1, <1>8, <2>1 DEF ListedOnce
<1>9. QED
  BY <1>5, <1>6, <1>8

\* No spread is twice in the first size places, and those of the next state
\* lack the spread y alone.
OnceListed == \A k, l \in 1..size : array[k] = array[l] => k = l

LeavesOut(y) ==
    \A x : (\E k \in 1..size' : array'[k] = x) <=> (x # y /\ \E k \in 1..size : array[k] = x)

\* Taking a spread out of the open ones moves those after it down by one.
LEMMA ArchivedFacts ==
    ASSUME TypeLists, NEW i \in 1..size, archive' = Append(archive, array[i]), size' = size - 1,
           array' = [k \in DOMAIN array |-> IF k >= i /\ k < size THEN array[k + 1] ELSE array[k]]
    PROVE  /\ array' \in Seq(Ids) /\ Len(array') = Len(array)
           /\ archive' \in Seq(Ids) /\ size' \in 0..Len(array)
           /\ OnceListed => OnceListed' /\ LeavesOut(array[i])
<1>1. /\ Len(array) \in Nat /\ DOMAIN array = 1..Len(array) /\ size \in Nat /\ size <= Len(array)
      /\ \A k \in 1..Len(array) : array[k] \in Ids
      /\ i \in Nat /\ i >= 1 /\ i <= size
  BY ListFacts
<1>2. array' \in [1..Len(array) -> Ids]
  BY <1>1
<1>3. array' \in Seq(Ids) /\ Len(array') = Len(array)
  BY <1>1, <1>2
<1>4. archive' \in Seq(Ids) /\ size' \in 0..Len(array)
  BY <1>1, Appended DEF TypeLists
<1>5. /\ \A k \in 1..size' : k < i => array'[k] = array[k] /\ k \in 1..size
      /\ \A k \in 1..size' : k >= i => array'[k] = array[k + 1] /\ k + 1 \in 1..size
  BY <1>1
<1>6. ASSUME OnceListed PROVE OnceListed' /\ LeavesOut(array[i])
  <2> DEFINE from(k) == IF k < i THEN k ELSE k + 1
  <2>1. \A k \in 1..size' : /\ from(k) \in 1..size /\ from(k) # i
                             /\ array'[k] = array[from(k)]
    BY <1>1, <1>5
  <2>2. \A k, l \in 1..size' : from(k) = from(l) => k = l
    BY <1>1
  <2>3. \A m \in 1..size : m # i => \E k \in 1..size' : from(k) = m
    <3>1. SUFFICES ASSUME NEW m \in 1..size, m # i PROVE \E k \in 1..size' : from(k) = m
      OBVIOUS
    <3>2. CASE m < i
      <4>1. m \in 1..size' /\ from(m) = m
        BY <1>1, <3>2
      <4>2. QED
        BY <4>1
    <3>3. CASE m > i
      <4>1. m - 1 \in 1..size' /\ from(m - 1) = m
        BY <1>1, <3>3
      <4>2. QED
        BY <4>1
    <3>4. QED
      BY <1>1, <3>1, <3>2, <3>3
  <2> HIDE DEF from
  <2>4. \A k, l \in 1..size' : array'[k] = array'[l] => k = l
    <3>1. SUFFICES ASSUME NEW k \in 1..size', NEW l \in 1..size', array'[k] = array'[l] PROVE k = l
      OBVIOUS
    <3>2. from(k) \in 1..size /\ from(l) \in 1..size /\ array[from(k)] = array[from(l)]
      BY <2>1, <3>1
    <3>3. from(k) = from(l)
      BY <1>6, <3>2 DEF OnceListed
    <3>4. QED
      BY <2>2, <3>3
  <2>5. ASSUME NEW x
        PROVE  (\E k \in 1..size' : array'[k] = x) <=>
                   (x # array[i] /\ \E k \in 1..size : array[k] = x)
    <3>1. ASSUME NEW k \in 1..size', array'[k] = x
          PROVE  x # array[i] /\ \E m \in 1..size : array[m] = x
      <4>1. from(k) \in 1..size /\ from(k) # i /\ array[from(k)] = x
        BY <2>1, <3>1
      <4>2. x # array[i]
        BY <4>1, <1>6 DEF OnceListed
      <4>3. QED
        BY <4>1, <4>2
    <3>2. ASSUME NEW m \in 1..size, array[m] = x, x # array[i]
          PROVE  \E k \in 1..size' : array'[k] = x
      <4>1. PICK k \in 1..size' : from(k) = m
        BY <2>3, <3>2
      <4>2. array'[k] = x
        BY <2>1, <3>2, <4>1
      <4>3. QED
        BY <4>2
    <3>3. QED
      BY <3>1, <3>2
  <2>6. QED
    BY <2>4, <2>5 DEF OnceListed, LeavesOut
<1>7. QED
  BY <1>3, <1>4, <1>6

\* Closing legs closes exactly those, and moves a spread without open legs to
\* the archive.
LEMMA ClosesFacts ==
    ASSUME TypeLists, NEW id \in Ids, NEW which, which \subseteq OpenLegs(id), which # {},
           NEW price \in Quotes \cup {0}, Closes(id, which, price)
    PROVE  /\ TypeLists' /\ Keeps /\ (ListedOnce => ListedOnce') /\ Len(array') = Len(array)
           /\ Ids' = Ids /\ DOMAIN spreads'[id] = DOMAIN spreads[id]
           /\ \A l \in which : spreads'[id][l].closed
           /\ \A l \in DOMAIN spreads[id] : l \notin which => spreads'[id][l] = spreads[id][l]
<1> DEFINE legs == [l \in DOMAIN spreads[id] |->
                       IF l \in which THEN [spreads[id][l] EXCEPT !.closed = TRUE, !.exit = price]
                       ELSE spreads[id][l]]
<1>1. spreads' = [spreads EXCEPT ![id] = legs] /\ Archived(id, legs)
  BY DEF Closes
<1>2. /\ DOMAIN spreads[id] = 1..Len(spreads[id]) /\ Len(spreads[id]) \in Nat
      /\ \A l \in DOMAIN spreads[id] : spreads[id][l] \in Legs
  BY ListFacts
<1>3. \A l \in which : l \in DOMAIN spreads[id] /\ ~spreads[id][l].closed
  BY DEF OpenLegs
<1>4. /\ DOMAIN legs = DOMAIN spreads[id]
      /\ \A l \in which : legs[l].closed
      /\ \A l \in DOMAIN spreads[id] : l \notin which => legs[l] = spreads[id][l]
  BY <1>2, <1>3 DEF Legs
<1>5. legs \in Seq(Legs)
  <2>1. \A l \in DOMAIN spreads[id] : legs[l] \in Legs
    BY <1>2 DEF Legs
  <2>2. legs \in [1..Len(spreads[id]) -> Legs]
    BY <1>2, <2>1
  <2> HIDE DEF legs
  <2>3. QED
    BY <1>2, <2>2, FromFunction
<1> HIDE DEF legs
<1>6. Follows(id, legs)
  BY <1>1, <1>3, <1>4, <1>5 DEF Follows, FullyClosed
<1>7. /\ spreads' \in Seq(Seq(Legs)) /\ Len(spreads') = Len(spreads) /\ Ids' = Ids
      /\ spreads'[id] = legs /\ \A x \in Ids : x # id => spreads'[x] = spreads[x]
      /\ Keeps
  BY <1>6, FollowsFacts
<1>8. Len(spreads') <= MaxSpreads
  BY <1>7 DEF TypeLists
<1>9. ~FullyClosed(spreads[id])
  BY <1>6 DEF Follows
<1>10. CASE FullyClosed(legs) /\ \E k \in 1..size : array[k] = id
  <2> DEFINE i == CHOOSE k \in 1..size : array[k] = id
  <2>1. i \in 1..size /\ array[i] = id
    BY <1>10
  <2>2. /\ array' = [k \in DOMAIN array |-> IF k >= i /\ k < size THEN array[k + 1] ELSE array[k]]
        /\ size' = size - 1 /\ archive' = Append(archive, array[i])
    BY <1>1, <1>10, <2>1 DEF Archived
  <2> HIDE DEF i
  <2>3. /\ array' \in Seq(Ids) /\ Len(array') = Len(array)
        /\ archive' \in Seq(Ids) /\ size' \in 0..Len(array)
        /\ OnceListed => OnceListed' /\ LeavesOut(id)
    BY <2>1, <2>2, ArchivedFacts
  <2>4. TypeLists'
    BY <1>7, <1>8, <2>3 DEF TypeLists
  <2>5. ASSUME ListedOnce PROVE ListedOnce'
    <3>1. /\ \A k, l \in 1..size' : array'[k] = array'[l] => k = l
          /\ \A x : (\E k \in 1..size' : array'[k] = x) <=>
                       (x # id /\ \E k \in 1..size : array[k] = x)
      BY <2>3, <2>5 DEF ListedOnce, OnceListed, LeavesOut
    <3>2. /\ Len(archive) \in Nat /\ DOMAIN archive = 1..Len(archive)
          /\ DOMAIN archive' = 1..(Len(archive) + 1)
          /\ \A k \in DOMAIN archive : archive'[k] = archive[k]
          /\ archive'[Len(archive) + 1] = id
      BY <2>1, <2>2, Appended DEF TypeLists
    <3>3. \A k \in DOMAIN archive : archive[k] # id
      BY <1>9, <2>5 DEF ListedOnce
    <3>4. \A k \in DOMAIN archive' : k \in DOMAIN archive \/ k = Len(archive) + 1
      BY <3>2
    <3>5. DOMAIN archive \subseteq DOMAIN archive' /\ Len(archive) + 1 \in DOMAIN archive'
      BY <3>2
    <3>6. \A k, l \in DOMAIN archive' : archive'[k] = archive'[l] => k = l
      BY <2>5, <3>2, <3>3, <3>4 DEF ListedOnce
    <3>7. ASSUME NEW x \in Ids
          PROVE  /\ (\E k \in 1..size' : array'[k] = x) <=> ~FullyClosed(spreads'[x])
                 /\ (\E k \in DOMAIN archive' : archive'[k] = x) <=> FullyClosed(spreads'[x])
      <4>1. CASE x = id
        BY <1>7, <1>10, <3>1, <3>2, <3>5, <4>1
      <4>2. CASE x # id
        <5>1. (\E k \in DOMAIN archive' : archive'[k] = x) <=> (\E k \in DOMAIN archive : archive[k] = x)
          BY <3>2, <3>4, <3>5, <4>2
        <5>2. QED
          BY <1>7, <2>5, <3>1, <4>2, <5>1 DEF ListedOnce
      <4>3. QED
        BY <4>1, <4>2
    <3>8. QED
      BY <1>7, <3>1, <3>6, <3>7 DEF ListedOnce
  <2>6. QED
    BY <1>4, <1>7, <2>3, <2>4, <2>5
<1>11. CASE ~(FullyClosed(legs) /\ \E k \in 1..size : array[k] = id)
  <2>1. UNCHANGED <<array, size, archive>>
    BY <1>1, <1>11 DEF Archived
  <2>2. TypeLists'
    BY <1>7, <1>8, <2>1 DEF TypeLists
  <2>3. ASSUME ListedOnce PROVE ListedOnce'
    <3>1. ~FullyClosed(legs)
      BY <1>9, <1>11, <2>3 DEF ListedOnce
    <3>2. \A x \in Ids : FullyClosed(spreads'[x]) <=> FullyClosed(spreads[x])
      BY <1>7, <1>9, <3>1
    <3>3. \A x \in Ids' :
              /\ (\E k \in 1..size' : array'[k] = x) <=> ~FullyClosed(spreads'[x])
              /\ (\E k \in DOMAIN archive' : archive'[k] = x) <=> FullyClosed(spreads'[x])
      <4>1. SUFFICES ASSUME NEW x \in Ids
                     PROVE  /\ (\E k \in 1..size : array[k] = x) <=> ~FullyClosed(spreads'[x])
                            /\ (\E k \in DOMAIN archive : archive[k] = x) <=> FullyClosed(spreads'[x])
        BY <1>7, <2>1
      <4>2. QED
        BY <2>3, <3>2 DEF ListedOnce
    <3>4. QED
      BY <2>1, <2>3, <3>3 DEF ListedOnce
  <2>4. QED
    BY <1>4, <1>7, <2>1, <2>2, <2>3
<1>12. QED
  BY <1>10, <1>11

(***************************************************************************)
(* Types, with what the barPhase says of the queue and of the range, and      *)
(* every action's target                                                   *)
(***************************************************************************)

Aimed(a) ==
    IF a.kind = "open" THEN a.legs \in Templates
    ELSE a.id \in Ids /\ (a.kind = "leg" => a.leg \in DOMAIN spreads[a.id])

AllAimed(queue) == \A k \in DOMAIN queue : Aimed(queue[k])

TypeInv ==
    /\ SpreadTypeOK
    /\ barPhase \in {"scheduled", "strategy"} => at = 0
    /\ barPhase # "scheduled" => toRun = <<>>
    /\ AllAimed(scheduled) /\ AllAimed(toRun)
    /\ \A a \in promised : Aimed(a)

LEMMA AimedStays == ASSUME TypeLists, TypeLists', Keeps PROVE \A a : Aimed(a) => Aimed(a)'
<1>1. Ids \subseteq Ids'
  BY ListFacts DEF Keeps, Ids, TypeLists
<1>2. QED
  BY <1>1 DEF Keeps, Aimed

\* The action that is looked at, and what is left to look at.
LEMMA LookingFacts ==
    ASSUME TypeInv, LookingAtAction
    PROVE  /\ CurrentAction \in Actions /\ Aimed(CurrentAction) /\ barPhase = "scheduled"
           /\ toRun' \in Seq(Actions) /\ AllAimed(Tail(toRun))
  BY Taken DEF TypeInv, SpreadTypeOK, LookingAtAction, CurrentAction, AllAimed

\* Whichever way legs are closed: a spread there is, open legs of it, a price.
LEMMA CloseStep ==
    ASSUME TypeInv, [SpreadNext]_spreadVars
    PROVE  \/ /\ UNCHANGED <<spreads, size, archive, spreadCash>>
              /\ array' = array \/ array' = Open
           \/ \E template \in Templates, price \in Quotes : Opens(template, price)
           \/ \E id \in Ids, template \in Templates, price \in Quotes :
                  AppendSpreadLegs(id, template, price)
           \/ \E id \in Ids, price \in Quotes \cup {0} : \E which \in SUBSET OpenLegs(id) :
                  which # {} /\ Closes(id, which, price)
<1> DEFINE Still == UNCHANGED <<spreads, size, archive, spreadCash>> /\ (array' = array \/ array' = Open)
           ClosesSome == \E id \in Ids, price \in Quotes \cup {0} : \E which \in SUBSET OpenLegs(id) :
                             which # {} /\ Closes(id, which, price)
           OpensOne == \E template \in Templates, price \in Quotes : Opens(template, price)
           Appends == \E id \in Ids, template \in Templates, price \in Quotes :
                          AppendSpreadLegs(id, template, price)
<1> SUFFICES Still \/ OpensOne \/ Appends \/ ClosesSome
  OBVIOUS
<1>1. CASE BarBegins \/ ActionWaits \/ ScheduledDone \/ StrategyDone \/ Visit \/ AllVisited \/ UNCHANGED spreadVars
  <2>1. Still
    BY <1>1 DEF BarBegins, ActionWaits, ScheduledDone, StrategyDone, Visit, AllVisited, spreadVars, lists
  <2>2. QED
    BY <2>1
<1>2. ASSUME NEW price \in Quotes, OpenScheduled(price) PROVE Still \/ OpensOne
  <2>1. CurrentAction.legs \in Templates
    BY <1>2, LookingFacts DEF OpenScheduled, Aimed
  <2>2. QED
    BY <1>2, <2>1 DEF OpenScheduled, lists
<1>3. ASSUME NEW price \in Quotes, CloseScheduled(price) PROVE Still \/ ClosesSome
  <2>1. CurrentAction.id \in Ids
    BY <1>3, LookingFacts DEF CloseScheduled, Aimed
  <2>2. QED
    BY <1>3, <2>1 DEF CloseScheduled, lists
<1>4. ASSUME NEW id \in Ids, NEW price \in Quotes,
             CloseSpread(id, price) \/ \E leg \in DOMAIN spreads[id] : CloseSpreadLeg(id, leg, price)
      PROVE  ClosesSome
  BY <1>4 DEF CloseSpread, CloseSpreadLeg
<1>5. ASSUME NEW leg \in ToClose, NEW price \in Quotes \cup {0}, ForceClose(leg, price)
      PROVE  ClosesSome
  <2>1. visiting \in Ids /\ leg \in OpenLegs(visiting)
    BY <1>5 DEF TypeInv, SpreadTypeOK, ToClose, Expired
  <2>2. Closes(visiting, {leg}, price)
    BY <1>5 DEF ForceClose
  <2>3. QED
    BY <2>1, <2>2
<1>6. ASSUME NEW action, Schedule(action) PROVE Still
  BY <1>6 DEF Schedule, lists
<1>o. ASSUME NEW template \in Templates, NEW price \in Quotes, OpenSpread(template, price)
       PROVE  OpensOne
  BY <1>o DEF OpenSpread
<1>a. ASSUME NEW id \in Ids, NEW template \in Templates, NEW price \in Quotes,
              AppendSpreadLegs(id, template, price)
       PROVE  Appends
  BY <1>a
<1> HIDE DEF Still, ClosesSome, OpensOne, Appends
<1>7. CASE ScheduledStep
  BY <1>1, <1>2, <1>3, <1>7 DEF ScheduledStep
<1>8. CASE StrategyStep
  BY <1>1, <1>4, <1>6, <1>o, <1>a, <1>8
     DEF StrategyStep, ScheduleOpenSpread, ScheduleCloseLeg, ScheduleCloseSpread
<1>9. CASE ExpiryStep
  BY <1>1, <1>5, <1>9 DEF ExpiryStep
<1>10. QED
  BY <1>1, <1>7, <1>8, <1>9 DEF SpreadNext

LEMMA ListsStep ==
    ASSUME TypeInv, [SpreadNext]_spreadVars PROVE TypeLists' /\ Keeps /\ (ListedOnce => ListedOnce')
<1>1. TypeLists
  BY DEF TypeInv, SpreadTypeOK
<1>2. QED
  BY <1>1, CloseStep, NothingMoves, OpensFacts, AppendFacts, ClosesFacts

\* An action that is scheduled has its target, and so has what it promises.
LEMMA ScheduleType ==
    ASSUME TypeInv, NEW action \in Actions, Aimed(action), Schedule(action)
    PROVE  TypeInv'
<1>1. UNCHANGED <<barPhase, bar, lists, toRun, range>>
  BY DEF Schedule
<1>2. \A a : Aimed(a)' <=> Aimed(a)
  BY <1>1 DEF Aimed, Ids, lists
<1>3. scheduled' = Append(scheduled, action) /\ count' = count + 1 /\ count < MaxScheduled
  BY DEF Schedule
<1>4. scheduled' \in Seq(Actions) /\ AllAimed(scheduled)'
  BY <1>2, <1>3, Appended DEF TypeInv, SpreadTypeOK, AllAimed
<1>5. count' \in 0..MaxScheduled
  BY <1>3, ConstantFacts DEF TypeInv, SpreadTypeOK
<1>6. promised' \subseteq Actions /\ \A a \in promised' : Aimed(a)'
  <2> DEFINE promise == [action EXCEPT !.bar = IF @ > bar THEN @ ELSE bar + 1]
  <2>1. promise \in Actions /\ Aimed(promise)
    <3>1. bar + 1 \in Nat /\ action.bar \in Nat
      BY ConstantFacts DEF TypeInv, SpreadTypeOK, Actions
    <3>2. /\ promise \in Actions /\ promise.kind = action.kind /\ promise.id = action.id
          /\ promise.leg = action.leg /\ promise.legs = action.legs
      BY <3>1 DEF Actions
    <3>3. QED
      BY <3>2 DEF Aimed
  <2>2. promised' = promised \/ promised' = promised \cup {promise}
    BY DEF Schedule
  <2> HIDE DEF promise
  <2>3. QED
    BY <1>2, <2>1, <2>2 DEF TypeInv, SpreadTypeOK
<1>7. AllAimed(toRun)'
  BY <1>1, <1>2 DEF TypeInv, AllAimed
<1>8. TypeLists'
  BY <1>1 DEF TypeInv, SpreadTypeOK, TypeLists, Ids, lists
<1>9. QED
  BY <1>1, <1>4, <1>5, <1>6, <1>7, <1>8 DEF TypeInv, SpreadTypeOK, lists, range, Ids

LEMMA TypeStep == ASSUME TypeInv, [SpreadNext]_spreadVars PROVE TypeInv'
<1>t. /\ barPhase \in {"scheduled", "strategy", "expiry", "done"} /\ bar \in 0..LastBar
      /\ scheduled \in Seq(Actions) /\ toRun \in Seq(Actions) /\ promised \subseteq Actions
      /\ count \in 0..MaxScheduled /\ at \in 0..Len(array) /\ visiting \in Ids \cup {0}
      /\ (barPhase \in {"scheduled", "strategy"} => at = 0) /\ (barPhase # "scheduled" => toRun = <<>>)
      /\ AllAimed(scheduled) /\ AllAimed(toRun) /\ TypeLists
  BY DEF TypeInv, SpreadTypeOK
<1>l. TypeLists' /\ \A a : Aimed(a) => Aimed(a)'
  BY <1>t, ListsStep, AimedStays
<1>p. promised' = promised => \A a \in promised' : Aimed(a)'
  BY <1>l DEF TypeInv
<1>i. Ids \subseteq Ids' /\ Len(array) \in Nat /\ Len(array') \in Nat
  <2>1. Len(spreads) \in Nat /\ Len(spreads') \in Nat /\ Len(array) \in Nat /\ Len(array') \in Nat
    BY <1>t, <1>l DEF TypeLists
  <2>2. Len(spreads') >= Len(spreads)
    BY ListsStep DEF Keeps
  <2>3. QED
    BY <2>1, <2>2 DEF Ids
<1>0. <<>> \in Seq(Actions) /\ AllAimed(<<>>)' /\ Len(Open) \in Nat
  BY <1>t, EmptySeq, ListFacts DEF AllAimed
\* An action that leaves the schedule and the range alone.
<1>s. ASSUME UNCHANGED <<bar, schedule, range>>, barPhase' \in {"scheduled", "strategy", "expiry", "done"},
             Len(array') = Len(array) \/ at = 0,
             barPhase' \in {"scheduled", "strategy"} => at = 0, barPhase' # "scheduled" => toRun = <<>>
      PROVE  TypeInv'
  <2>1. AllAimed(scheduled)' /\ AllAimed(toRun)'
    BY <1>s, <1>t, <1>l DEF AllAimed, schedule
  <2>2. at' \in 0..Len(array') /\ visiting' \in Ids' \cup {0}
    BY <1>s, <1>t, <1>i DEF range
  <2>3. QED
    BY <1>s, <1>t, <1>l, <1>p, <2>1, <2>2 DEF TypeInv, SpreadTypeOK, schedule, range
\* An action that takes one from the schedule, and may put it back.
<1>q. ASSUME LookingAtAction, UNCHANGED <<barPhase, bar, count, promised, range>>,
             scheduled' = scheduled \/ scheduled' = Append(scheduled, CurrentAction)
      PROVE  TypeInv'
  <2>1. /\ CurrentAction \in Actions /\ Aimed(CurrentAction) /\ barPhase = "scheduled"
        /\ toRun' \in Seq(Actions) /\ AllAimed(Tail(toRun)) /\ toRun' = Tail(toRun)
    BY <1>q, LookingFacts DEF LookingAtAction
  <2>2. scheduled' \in Seq(Actions) /\ AllAimed(scheduled)'
    <3>1. CASE scheduled' = scheduled
      BY <1>t, <1>l, <3>1 DEF AllAimed
    <3>2. CASE scheduled' = Append(scheduled, CurrentAction)
      <4>1. /\ scheduled' \in Seq(Actions) /\ DOMAIN scheduled' = 1..(Len(scheduled) + 1)
            /\ DOMAIN scheduled = 1..Len(scheduled) /\ Len(scheduled) \in Nat
            /\ \A k \in DOMAIN scheduled : scheduled'[k] = scheduled[k]
            /\ scheduled'[Len(scheduled) + 1] = CurrentAction
        BY <1>t, <2>1, <3>2, Appended
      <4>2. \A k \in DOMAIN scheduled' : Aimed(scheduled'[k])
        BY <1>t, <2>1, <4>1 DEF AllAimed
      <4>3. QED
        BY <1>l, <4>1, <4>2 DEF AllAimed
    <3>3. QED
      BY <1>q, <3>1, <3>2
  <2>3. AllAimed(toRun)'
    BY <1>l, <2>1 DEF AllAimed
  <2>4. at' \in 0..Len(array') /\ visiting' \in Ids' \cup {0} /\ at = 0
    BY <1>q, <1>t, <1>i, <2>1 DEF range
  <2>5. QED
    BY <1>q, <1>t, <1>l, <1>p, <2>1, <2>2, <2>3, <2>4 DEF TypeInv, SpreadTypeOK, range
<1>1. CASE BarBegins
  <2>1. /\ bar' \in 0..LastBar /\ at' \in 0..Len(array') /\ visiting' \in Ids' \cup {0} /\ at' = 0
    BY <1>1, <1>t, <1>i, ConstantFacts DEF BarBegins
  <2>2. AllAimed(toRun)' /\ AllAimed(scheduled)' /\ scheduled' \in Seq(Actions)
    BY <1>1, <1>0, <1>t, <1>l DEF BarBegins, AllAimed
  <2>3. QED
    BY <1>1, <1>t, <1>l, <1>p, <2>1, <2>2 DEF BarBegins, TypeInv, SpreadTypeOK
<1>2. CASE ActionWaits \/ \E price \in Quotes : OpenScheduled(price) \/ CloseScheduled(price)
  BY <1>2, <1>q DEF ActionWaits, OpenScheduled, CloseScheduled, Remains
<1>3. CASE ScheduledDone
  BY <1>3, <1>s, <1>t DEF ScheduledDone
<1>4. CASE StrategyDone
  BY <1>4, <1>s, <1>t DEF StrategyDone
<1>5. ASSUME NEW id \in Ids, NEW price \in Quotes,
             \/ CloseSpread(id, price)
             \/ \E leg \in DOMAIN spreads[id] : CloseSpreadLeg(id, leg, price)
             \/ \E template \in Templates : AppendSpreadLegs(id, template, price)
      PROVE  TypeInv'
  BY <1>5, <1>s, <1>t DEF CloseSpread, CloseSpreadLeg, AppendSpreadLegs
<1>6. ASSUME NEW template \in Templates, NEW price \in Quotes, OpenSpread(template, price)
      PROVE  TypeInv'
  BY <1>6, <1>s, <1>t DEF OpenSpread
<1>7. ASSUME NEW template \in Templates, NEW when \in 1..LastBar, NEW priced \in BOOLEAN,
             ScheduleOpenSpread(template, when, priced)
      PROVE  TypeInv'
  <2> DEFINE action == [kind |-> "open", bar |-> when, priced |-> priced, legs |-> template,
                        id |-> 0, leg |-> 0]
  <2>1. action \in Actions /\ Aimed(action) /\ Schedule(action)
    BY <1>7 DEF Actions, Aimed, ScheduleOpenSpread
  <2> HIDE DEF action
  <2>2. QED
    BY <2>1, ScheduleType
<1>8. ASSUME NEW id \in Ids, NEW leg \in DOMAIN spreads[id], NEW when \in 1..LastBar,
             NEW priced \in BOOLEAN, ScheduleCloseLeg(id, leg, when, priced)
      PROVE  TypeInv'
  <2> DEFINE action == [kind |-> "leg", bar |-> when, priced |-> priced, legs |-> <<>>,
                        id |-> id, leg |-> leg]
  <2>1. id \in Nat /\ leg \in Nat
    BY <1>t, ListFacts DEF Ids
  <2>2. action \in Actions /\ Aimed(action) /\ Schedule(action)
    BY <1>8, <2>1 DEF Actions, Aimed, ScheduleCloseLeg
  <2> HIDE DEF action
  <2>3. QED
    BY <2>2, ScheduleType
<1>9. ASSUME NEW id \in Ids, NEW when \in 1..LastBar, NEW priced \in BOOLEAN,
             ScheduleCloseSpread(id, when, priced)
      PROVE  TypeInv'
  <2> DEFINE action == [kind |-> "spread", bar |-> when, priced |-> priced, legs |-> <<>>,
                        id |-> id, leg |-> 0]
  <2>1. id \in Nat
    BY DEF Ids
  <2>2. action \in Actions /\ Aimed(action) /\ Schedule(action)
    BY <1>9, <2>1 DEF Actions, Aimed, ScheduleCloseSpread
  <2> HIDE DEF action
  <2>3. QED
    BY <2>2, ScheduleType
<1>10. CASE Visit
  <2>1. at' \in 0..Len(array') /\ visiting' \in Ids'
    <3>1. /\ at \in Nat /\ at < Len(array) /\ at' = at + 1 /\ visiting' = array[at + 1]
          /\ array' = array /\ spreads' = spreads
      BY <1>10, <1>t DEF Visit, lists
    <3>2. at + 1 \in 1..Len(array)
      BY <1>i, <3>1
    <3>3. array[at + 1] \in Ids
      BY <1>t, <3>2, ListFacts
    <3>4. QED
      BY <1>i, <3>1, <3>2, <3>3
  <2>2. barPhase' = "expiry" /\ barPhase = "expiry"
    BY <1>10 DEF Visit
  <2>3. AllAimed(scheduled)' /\ AllAimed(toRun)'
    BY <1>10, <1>t, <1>l DEF AllAimed, Visit, schedule
  <2>4. QED
    BY <1>10, <1>t, <1>l, <1>p, <2>1, <2>2, <2>3 DEF Visit, TypeInv, SpreadTypeOK, schedule
<1>11. CASE AllVisited \/ UNCHANGED spreadVars
  BY <1>11, <1>s, <1>t DEF AllVisited, spreadVars, lists
<1>12. ASSUME NEW leg \in ToClose, NEW price \in Quotes \cup {0}, ForceClose(leg, price)
       PROVE  TypeInv'
  <2>1. visiting \in Ids /\ {leg} \subseteq OpenLegs(visiting) /\ {leg} # {}
    BY <1>t DEF ToClose, Expired
  <2>2. Len(array') = Len(array)
    BY <1>12, <1>t, <2>1, ClosesFacts DEF ForceClose
  <2>3. QED
    BY <1>12, <1>s, <1>t, <2>2 DEF ForceClose
<1>13. CASE ScheduledStep
  BY <1>2, <1>3, <1>13 DEF ScheduledStep
<1>14. CASE StrategyStep
  BY <1>4, <1>5, <1>6, <1>7, <1>8, <1>9, <1>14 DEF StrategyStep
<1>15. CASE ExpiryStep
  BY <1>10, <1>11, <1>12, <1>15 DEF ExpiryStep
<1>16. QED
  BY <1>1, <1>11, <1>13, <1>14, <1>15 DEF SpreadNext

LEMMA TypeInit == SpreadInit => TypeInv /\ ListedOnce
<1>1. ASSUME SpreadInit PROVE TypeInv /\ ListedOnce
  <2>1. /\ \A S : <<>> \in Seq(S)
        /\ Len(<<>>) = 0 /\ DOMAIN <<>> = {}
    BY EmptySeq
  <2>2. TypeLists /\ Ids = {}
    BY <1>1, <2>1, ConstantFacts DEF SpreadInit, TypeLists, Ids
  <2>3. SpreadTypeOK
    BY <1>1, <2>1, <2>2, ConstantFacts DEF SpreadInit, SpreadTypeOK
  <2>4. TypeInv
    BY <1>1, <2>1, <2>3 DEF SpreadInit, TypeInv, AllAimed
  <2>5. ListedOnce
    BY <1>1, <2>1, <2>2 DEF SpreadInit, ListedOnce
  <2>6. QED
    BY <2>4, <2>5
<1>2. QED
  BY <1>1

(***************************************************************************)
(* A market close that has been promised has happened, or it waits among   *)
(* the actions still to look at, or, for a later bar, in the schedule.     *)
(***************************************************************************)

Kept(a) == IF a.kind = "leg" THEN spreads[a.id][a.leg].closed ELSE FullyClosed(spreads[a.id])

\* The scheduled action is a close that fulfils what is promised.
Serves(action, a) ==
    /\ action.kind = a.kind /\ action.id = a.id /\ action.leg = a.leg
    /\ ~action.priced /\ action.bar <= a.bar

Waits(a, queue) == \E k \in DOMAIN queue : Serves(queue[k], a)

Safe(a) == Kept(a) \/ Waits(a, toRun) \/ (a.bar > bar /\ Waits(a, scheduled))

PromiseInv == \A a \in promised : a.kind \in {"leg", "spread"} /\ Safe(a)

LEMMA KeptStays ==
    ASSUME TypeInv, Keeps, NEW a \in Actions, Aimed(a), a.kind \in {"leg", "spread"}, Kept(a)
    PROVE  Kept(a)'
<1>1. a.id \in Ids /\ (a.kind = "leg" => a.leg \in DOMAIN spreads[a.id])
  BY DEF Aimed
<1>2. QED
  BY <1>1 DEF Keeps, Kept

\* A due close leaves no open leg of what it was aimed at.
LEMMA CloseKeeps ==
    ASSUME TypeInv, NEW a \in Actions, Serves(CurrentAction, a), a.kind \in {"leg", "spread"},
           NEW price \in Quotes, CloseScheduled(price)
    PROVE  Kept(a)'
<1> DEFINE which == IF a.kind = "leg" THEN OpenLegs(a.id) \cap {a.leg} ELSE OpenLegs(a.id)
<1>1. /\ a.id \in Ids /\ (a.kind = "leg" => a.leg \in DOMAIN spreads[a.id])
      /\ IF which = {} THEN UNCHANGED lists ELSE Closes(a.id, which, price)
  BY LookingFacts DEF CloseScheduled, Serves, Aimed
<1>2. TypeLists
  BY DEF TypeInv, SpreadTypeOK
<1>3. which \subseteq OpenLegs(a.id)
  OBVIOUS
<1>4. /\ DOMAIN spreads'[a.id] = DOMAIN spreads[a.id]
      /\ \A l \in which : spreads'[a.id][l].closed
      /\ \A l \in DOMAIN spreads[a.id] : l \notin which => spreads'[a.id][l] = spreads[a.id][l]
  <2>1. CASE which = {}
    BY <1>1, <2>1 DEF lists
  <2>2. CASE which # {}
    <3>1. Closes(a.id, which, price)
      BY <1>1, <2>2
    <3> HIDE DEF which
    <3>2. QED
      BY <1>1, <1>2, <1>3, <2>2, <3>1, ClosesFacts
  <2>3. QED
    BY <2>1, <2>2
<1>5. CASE a.kind = "leg"
  <2>1. a.leg \in DOMAIN spreads[a.id]
    BY <1>1, <1>5
  <2>2. CASE a.leg \in which
    BY <1>4, <1>5, <2>2 DEF Kept
  <2>3. CASE a.leg \notin which
    <3>1. spreads'[a.id][a.leg] = spreads[a.id][a.leg] /\ spreads[a.id][a.leg].closed
      BY <1>4, <1>5, <2>1, <2>3 DEF OpenLegs
    <3>2. QED
      BY <1>5, <3>1 DEF Kept
  <2>4. QED
    BY <2>2, <2>3
<1>6. CASE a.kind = "spread"
  <2>1. \A l \in DOMAIN spreads[a.id] : spreads'[a.id][l].closed
    BY <1>4, <1>6 DEF OpenLegs
  <2>2. QED
    BY <1>4, <1>6, <2>1 DEF Kept, FullyClosed
<1>7. QED
  BY <1>5, <1>6

LEMMA PromiseStep == ASSUME TypeInv, PromiseInv, [SpreadNext]_spreadVars PROVE PromiseInv'
<1>k. \A a \in promised : a \in Actions /\ a.bar \in Nat /\ a.kind \in {"leg", "spread"} /\ Safe(a)
                             /\ (Kept(a) => Kept(a)')
  BY ListsStep, KeptStays DEF TypeInv, SpreadTypeOK, PromiseInv, Actions
<1>t. /\ bar \in Nat /\ scheduled \in Seq(Actions) /\ toRun \in Seq(Actions)
      /\ (barPhase # "scheduled" => toRun = <<>>)
  BY DEF TypeInv, SpreadTypeOK
<1>0. \A a : ~Waits(a, <<>>)
  BY EmptySeq DEF Waits
\* The schedule and the clock stand still.
<1>s. ASSUME UNCHANGED <<bar, schedule>> PROVE PromiseInv'
  BY <1>s, <1>k DEF PromiseInv, Safe, Waits, Serves, schedule
<1>1. CASE BarBegins
  <2>1. ASSUME NEW a \in promised PROVE Safe(a)'
    <3>1. Kept(a)' \/ Waits(a, scheduled)
      BY <1>1, <1>0, <1>k, <1>t, <2>1 DEF BarBegins, Safe
    <3>2. Waits(a, scheduled) => Waits(a, toRun)'
      BY <1>1 DEF BarBegins, Waits, Serves
    <3>3. QED
      BY <3>1, <3>2 DEF Safe
  <2>2. QED
    BY <1>1, <1>k, <2>1 DEF BarBegins, PromiseInv
\* One action is looked at, and what it served is kept or still waits.
<1>q. ASSUME LookingAtAction, UNCHANGED <<bar, promised>>,
             scheduled' = scheduled \/ scheduled' = Append(scheduled, CurrentAction),
             \A a \in promised : Serves(CurrentAction, a) =>
                 Kept(a)' \/ (a.bar > bar /\ scheduled' = Append(scheduled, CurrentAction))
      PROVE  PromiseInv'
  <2>1. CurrentAction \in Actions /\ toRun # <<>> /\ toRun' = Tail(toRun)
    BY <1>q, LookingFacts DEF LookingAtAction
  <2>2. ASSUME NEW a, Waits(a, toRun) PROVE Serves(CurrentAction, a) \/ Waits(a, toRun)'
    <3>1. PICK k \in DOMAIN toRun : Serves(toRun[k], a)
      BY <2>2 DEF Waits
    <3>2. /\ toRun[1] = CurrentAction
          /\ k # 1 => k - 1 \in DOMAIN toRun' /\ toRun'[k - 1] = toRun[k]
      BY <1>t, <2>1, <3>1, Taken DEF CurrentAction
    <3>3. QED
      BY <3>1, <3>2 DEF Waits, Serves
  <2>3. ASSUME NEW a, Waits(a, scheduled) PROVE Waits(a, scheduled)'
    <3>1. PICK k \in DOMAIN scheduled : Serves(scheduled[k], a)
      BY <2>3 DEF Waits
    <3>2. k \in DOMAIN scheduled' /\ scheduled'[k] = scheduled[k]
      BY <1>q, <1>t, <2>1, <3>1, Appended
    <3>3. QED
      BY <3>1, <3>2 DEF Waits, Serves
  <2>4. ASSUME NEW a, Serves(CurrentAction, a), scheduled' = Append(scheduled, CurrentAction)
        PROVE  Waits(a, scheduled)'
    <3>1. /\ Len(scheduled) + 1 \in DOMAIN scheduled'
          /\ scheduled'[Len(scheduled) + 1] = CurrentAction
      BY <1>t, <2>1, <2>4, Appended
    <3>2. Serves(scheduled'[Len(scheduled) + 1], a)
      BY <2>4, <3>1
    <3>3. QED
      BY <3>1, <3>2 DEF Waits, Serves
  <2>5. ASSUME NEW a \in promised PROVE Safe(a)'
    <3>1. Kept(a)' \/ Waits(a, toRun) \/ (a.bar > bar /\ Waits(a, scheduled))
      BY <1>k, <2>5 DEF Safe
    <3>2. QED
      BY <1>q, <2>2, <2>3, <2>4, <3>1 DEF Safe
  <2>6. QED
    BY <1>q, <1>k, <2>5 DEF PromiseInv
<1>2. CASE ActionWaits
  <2>1. \A a \in promised : Serves(CurrentAction, a) => a.bar > bar
    <3>1. CurrentAction.bar \in Nat
      BY <1>2, LookingFacts DEF ActionWaits, Actions
    <3>2. QED
      BY <1>2, <1>k, <1>t, <3>1 DEF ActionWaits, Due, Serves
  <2>2. LookingAtAction /\ UNCHANGED <<bar, promised>> /\ scheduled' = Append(scheduled, CurrentAction)
    BY <1>2 DEF ActionWaits, Remains
  <2>3. QED
    BY <1>q, <2>1, <2>2
<1>3. ASSUME NEW price \in Quotes, OpenScheduled(price) PROVE PromiseInv'
  <2>1. LookingAtAction /\ UNCHANGED <<bar, promised, scheduled>> /\ CurrentAction.kind = "open"
    BY <1>3 DEF OpenScheduled
  <2>2. \A a \in promised : ~Serves(CurrentAction, a)
    BY <1>k, <2>1 DEF Serves
  <2>3. QED
    BY <1>q, <2>1, <2>2
<1>4. ASSUME NEW price \in Quotes, CloseScheduled(price) PROVE PromiseInv'
  <2>1. LookingAtAction /\ UNCHANGED <<bar, promised, scheduled>>
    BY <1>4 DEF CloseScheduled
  <2>2. \A a \in promised : Serves(CurrentAction, a) => Kept(a)'
    BY <1>4, <1>k, CloseKeeps
  <2>3. QED
    BY <1>q, <2>1, <2>2
\* The strategy schedules an action.
<1>5. ASSUME NEW action \in Actions, Schedule(action) PROVE PromiseInv'
  <2>0. PICK promise : promise = [action EXCEPT !.bar = IF @ > bar THEN @ ELSE bar + 1]
    OBVIOUS
  <2>1. /\ scheduled' = Append(scheduled, action) /\ UNCHANGED <<bar, lists, toRun>>
        /\ promised' = IF action.priced \/ action.kind = "open" THEN promised
                       ELSE promised \cup {promise}
    BY <1>5, <2>0 DEF Schedule
  <2>2. /\ DOMAIN scheduled = 1..Len(scheduled) /\ Len(scheduled) + 1 \in DOMAIN scheduled'
        /\ \A k \in DOMAIN scheduled : k \in DOMAIN scheduled' /\ scheduled'[k] = scheduled[k]
        /\ scheduled'[Len(scheduled) + 1] = action
    BY <1>t, <2>1, Appended
  <2>3. /\ action.bar \in Nat /\ action.kind \in {"open", "leg", "spread"}
        /\ promise.kind = action.kind /\ promise.id = action.id /\ promise.leg = action.leg
        /\ promise.bar = IF action.bar > bar THEN action.bar ELSE bar + 1
    BY <2>0 DEF Actions
  <2>4. ASSUME NEW a \in promised PROVE a.kind \in {"leg", "spread"} /\ Safe(a)'
    <3>1. Waits(a, scheduled) => Waits(a, scheduled)'
      BY <2>2 DEF Waits, Serves
    <3>2. Kept(a)' <=> Kept(a)
      BY <2>1 DEF Kept, FullyClosed, lists
    <3>3. Waits(a, toRun)' <=> Waits(a, toRun)
      BY <2>1 DEF Waits, Serves
    <3>4. QED
      BY <1>k, <2>1, <2>4, <3>1, <3>2, <3>3 DEF Safe
  <2>5. ASSUME ~action.priced, action.kind # "open"
        PROVE  promise.kind \in {"leg", "spread"} /\ Safe(promise)'
    <3>1. promise.bar > bar /\ action.bar <= promise.bar
      BY <1>t, <2>3
    <3>2. Serves(scheduled'[Len(scheduled) + 1], promise)
      BY <2>2, <2>3, <2>5, <3>1 DEF Serves
    <3>3. Waits(promise, scheduled')
      BY <2>2, <3>2 DEF Waits
    <3>4. QED
      BY <2>1, <2>3, <2>5, <3>1, <3>3 DEF Safe, Waits, Serves
  <2>6. \A a \in promised' : a.kind \in {"leg", "spread"} /\ Safe(a)'
    BY <2>1, <2>4, <2>5
  <2>7. QED
    BY <2>6 DEF PromiseInv
<1>6. ASSUME NEW template \in Templates, NEW when \in 1..LastBar, NEW priced \in BOOLEAN,
             ScheduleOpenSpread(template, when, priced)
      PROVE  PromiseInv'
  BY <1>5, <1>6 DEF ScheduleOpenSpread, Actions
<1>7. ASSUME NEW id \in Ids, NEW leg \in DOMAIN spreads[id], NEW when \in 1..LastBar,
             NEW priced \in BOOLEAN, ScheduleCloseLeg(id, leg, when, priced)
      PROVE  PromiseInv'
  <2>1. id \in Nat /\ leg \in Nat
    BY ListFacts DEF Ids, TypeInv, SpreadTypeOK
  <2>2. QED
    BY <1>5, <1>7, <2>1 DEF ScheduleCloseLeg, Actions
<1>8. ASSUME NEW id \in Ids, NEW when \in 1..LastBar, NEW priced \in BOOLEAN,
             ScheduleCloseSpread(id, when, priced)
      PROVE  PromiseInv'
  <2>1. id \in Nat
    BY DEF Ids
  <2>2. QED
    BY <1>5, <1>8, <2>1 DEF ScheduleCloseSpread, Actions
<1>9. CASE ScheduledStep
  BY <1>2, <1>3, <1>4, <1>9, <1>s DEF ScheduledStep, ScheduledDone
<1>10. CASE StrategyStep
  BY <1>6, <1>7, <1>8, <1>10, <1>s
     DEF StrategyStep, StrategyDone, OpenSpread, AppendSpreadLegs, CloseSpread, CloseSpreadLeg
<1>11. CASE ExpiryStep
  BY <1>11, <1>s DEF ExpiryStep, Visit, AllVisited, ForceClose
<1>12. CASE UNCHANGED spreadVars
  BY <1>12, <1>s DEF spreadVars
<1>13. QED
  BY <1>1, <1>9, <1>10, <1>11, <1>12 DEF SpreadNext

\* The tracker's lists, the schedule and the range over the list keep their
\* types: in particular no range leaves the array that archiving shrinks.
THEOREM TypeCorrect == SpreadSpec => []SpreadTypeOK
<1>1. TypeInv => SpreadTypeOK
  BY DEF TypeInv
<1>2. QED
  BY TypeInit, TypeStep, <1>1, PTL DEF SpreadSpec

\* Every spread is in one of the two lists, once, whatever closes it and
\* whatever ranges over the list meanwhile.
THEOREM OneList == SpreadSpec => []ListedOnce
<1>1. ASSUME TypeInv, ListedOnce, [SpreadNext]_spreadVars PROVE ListedOnce'
  BY <1>1, ListsStep
<1>2. QED
  BY TypeInit, TypeStep, <1>1, PTL DEF SpreadSpec

\* Of strategy, schedule and expiry, the first to close a leg sets its price.
THEOREM FirstCloseStands == SpreadSpec => ClosedStays
<1> DEFINE Stays == \A id \in Ids : \A l \in DOMAIN spreads[id] :
                        spreads[id][l].closed => spreads'[id][l] = spreads[id][l]
<1>1. ASSUME TypeInv, [SpreadNext]_spreadVars PROVE [Stays]_spreadVars
  BY <1>1, ListsStep DEF Keeps
<1>2. QED
  BY TypeInit, TypeStep, <1>1, PTL DEF SpreadSpec, ClosedStays

\* A market close that is scheduled for a bar has happened when the strategy
\* sees that bar, in whatever order and on whatever legs it is run.
THEOREM SchedulePromises == SpreadSpec => []PromisesKept
<1>1. SpreadInit => PromiseInv
  BY DEF SpreadInit, PromiseInv
<1>2. ASSUME TypeInv, PromiseInv PROVE PromisesKept
  <2>1. SUFFICES ASSUME barPhase \in {"strategy", "expiry", "done"}, NEW a \in promised, a.bar <= bar
                 PROVE  Kept(a)
    BY DEF PromisesKept, Kept
  <2>2. a.bar \in Nat /\ bar \in Nat /\ toRun = <<>>
    BY <1>2, <2>1 DEF TypeInv, SpreadTypeOK, Actions
  <2>3. ~Waits(a, toRun)
    BY <2>2, EmptySeq DEF Waits
  <2>4. QED
    BY <1>2, <2>1, <2>2, <2>3 DEF PromiseInv, Safe
<1>3. QED
  BY TypeInit, TypeStep, PromiseStep, <1>1, <1>2, PTL DEF SpreadSpec

(***************************************************************************)
(* Closing what has expired                                                *)
(***************************************************************************)

Late == {id \in Ids : Expired(id) # {}}

\* Expired spreads that the range has passed and will not come to any more.
Skipped == {id \in Late : id # visiting /\ \A k \in (at + 1)..size : array[k] # id}

SkipInv ==
    /\ barPhase = "expiry" => Cardinality(Skipped) <= Len(array) - size
    /\ barPhase = "done" => Cardinality(Late) <= Len(array) - size

\* A set of spreads is no larger than one it is in but for one element.
LEMMA FewSpreads ==
    ASSUME TypeLists, NEW K, K \subseteq Ids
    PROVE  /\ IsFiniteSet(K) /\ Cardinality(K) \in Nat
           /\ \A J : J \subseteq K => Cardinality(J) <= Cardinality(K) /\ Cardinality(J) \in Nat
           /\ \A J, x : J \subseteq K \cup {x} => Cardinality(J) <= Cardinality(K) + 1 /\ Cardinality(J) \in Nat
<1>1. IsFiniteSet(Ids)
  BY ListFacts, FS_Interval DEF Ids, TypeLists
<1>2. IsFiniteSet(K) /\ Cardinality(K) \in Nat
  BY <1>1, FS_Subset, FS_CardinalityType
<1>3. ASSUME NEW J, J \subseteq K PROVE Cardinality(J) <= Cardinality(K) /\ Cardinality(J) \in Nat
  BY <1>2, <1>3, FS_Subset, FS_CardinalityType
<1>4. ASSUME NEW J, NEW x, J \subseteq K \cup {x}
      PROVE  Cardinality(J) <= Cardinality(K) + 1 /\ Cardinality(J) \in Nat
  <2>1. /\ IsFiniteSet(K \cup {x}) /\ Cardinality(K \cup {x}) \in Nat
        /\ Cardinality(K \cup {x}) <= Cardinality(K) + 1
    BY <1>2, FS_AddElement, FS_CardinalityType
  <2>2. Cardinality(J) <= Cardinality(K \cup {x}) /\ Cardinality(J) \in Nat
    BY <1>4, <2>1, FS_Subset, FS_CardinalityType
  <2>3. QED
    BY <1>2, <2>1, <2>2
<1>5. QED
  BY <1>2, <1>3, <1>4

LEMMA VisitStep == ASSUME TypeInv, SkipInv, Visit PROVE SkipInv'
<1>1. /\ barPhase = "expiry" /\ barPhase' = "expiry" /\ Done /\ at < Len(array)
      /\ visiting' = array[at + 1] /\ at' = at + 1
      /\ UNCHANGED <<bar, spreads, array, size>>
  BY DEF Visit, lists
<1>2. TypeLists /\ at \in Nat /\ size \in Nat
  BY ListFacts DEF TypeInv, SpreadTypeOK
<1>3. \A k \in (at + 1)..size : k = at + 1 \/ k \in (at' + 1)..size
  BY <1>1, <1>2
<1>4. visiting \notin Late
  BY <1>1 DEF Done, ToClose, Late, Ids
<1>5. Late' = Late
  BY <1>1 DEF Late, Ids, Expired, OpenLegs
<1>6. Skipped' \subseteq Skipped
  BY <1>1, <1>3, <1>4, <1>5 DEF Skipped
<1>7. Skipped \subseteq Ids
  BY DEF Skipped, Late
<1>8. Cardinality(Skipped') <= Cardinality(Skipped) /\ Cardinality(Skipped') \in Nat /\ Cardinality(Skipped) \in Nat
  BY <1>2, <1>6, <1>7, FewSpreads
<1>9. Len(array) \in Nat
  BY <1>2, ListFacts
<1>10. QED
  BY <1>1, <1>2, <1>8, <1>9 DEF SkipInv

LEMMA ForceCloseStep ==
    ASSUME TypeInv, ListedOnce, SkipInv, NEW leg \in ToClose, NEW price \in Quotes \cup {0}, ForceClose(leg, price)
    PROVE  SkipInv'
<1>1. /\ barPhase = "expiry" /\ barPhase' = "expiry" /\ Closes(visiting, {leg}, price)
      /\ UNCHANGED <<bar, at, visiting>>
  BY DEF ForceClose, range
<1>2. /\ TypeLists /\ at \in Nat /\ size \in Nat /\ Len(array) \in Nat /\ size <= Len(array)
      /\ DOMAIN array = 1..Len(array)
  BY ListFacts DEF TypeInv, SpreadTypeOK
<1>3. visiting \in Ids /\ {leg} \subseteq OpenLegs(visiting)
  BY DEF TypeInv, SpreadTypeOK, ToClose, Expired
<1>4. Ids' = Ids /\ Len(array') = Len(array)
  BY <1>1, <1>2, <1>3, ClosesFacts
<1>5. \A id \in Ids : id # visiting => spreads'[id] = spreads[id]
  BY <1>1, <1>2, ListFacts DEF Closes
<1>6. \A id \in Late' : id # visiting => id \in Late
  BY <1>1, <1>4, <1>5 DEF Late, Expired, OpenLegs
<1>7. Skipped \subseteq Ids
  BY DEF Skipped, Late
<1>8. CASE UNCHANGED <<array, size>>
  <2>1. Skipped' \subseteq Skipped
    BY <1>1, <1>6, <1>8 DEF Skipped
  <2>2. Cardinality(Skipped') <= Cardinality(Skipped) /\ Cardinality(Skipped') \in Nat /\ Cardinality(Skipped) \in Nat
    BY <1>2, <1>7, <2>1, FewSpreads
  <2>3. QED
    BY <1>1, <1>2, <1>8, <2>2 DEF SkipInv
<1>9. CASE ~UNCHANGED <<array, size>>
  <2>1. PICK i \in 1..size : /\ array[i] = visiting /\ size' = size - 1
                             /\ array' = [k \in DOMAIN array |-> IF k >= i /\ k < size THEN array[k + 1] ELSE array[k]]
    BY <1>1, <1>9 DEF Closes, Archived
  <2>2. ASSUME NEW id \in Skipped' PROVE id \in Skipped \cup {array[at + 1]}
    <3>1. id \in Late /\ id # visiting /\ \A k \in (at + 1)..(size - 1) : array'[k] # id
      BY <1>1, <1>6, <2>1 DEF Skipped
    <3>2. ASSUME NEW k \in (at + 1)..size, array[k] = id, k # at + 1 PROVE FALSE
      <4>1. k \in Nat /\ k # i /\ i \in Nat /\ i >= 1 /\ i <= size /\ k > at + 1 /\ k <= size
        BY <1>2, <2>1, <3>1, <3>2
      <4>2. CASE k < i
        <5>1. k \in (at + 1)..(size - 1) /\ k \in DOMAIN array
          BY <1>2, <4>1, <4>2
        <5>2. array'[k] = array[k]
          BY <2>1, <4>1, <4>2, <5>1
        <5>3. QED
          BY <3>1, <3>2, <5>1, <5>2
      <4>3. CASE k > i
        <5>1. k - 1 \in (at + 1)..(size - 1) /\ k - 1 \in DOMAIN array /\ k - 1 >= i /\ k - 1 < size /\ (k - 1) + 1 = k
          BY <1>2, <4>1, <4>3
        <5>2. array'[k - 1] = array[k]
          BY <2>1, <5>1
        <5>3. QED
          BY <3>1, <3>2, <5>1, <5>2
      <4>4. QED
        BY <4>1, <4>2, <4>3
    <3>3. QED
      BY <3>1, <3>2 DEF Skipped
  <2>3. Skipped' \subseteq Skipped \cup {array[at + 1]}
    BY <2>2
  <2>4. /\ Cardinality(Skipped') <= Cardinality(Skipped) + 1 /\ Cardinality(Skipped') \in Nat
        /\ Cardinality(Skipped) \in Nat
    BY <1>2, <1>7, <2>3, FewSpreads
  <2>5. QED
    BY <1>1, <1>2, <1>4, <2>1, <2>4 DEF SkipInv
<1>10. QED
  BY <1>8, <1>9

LEMMA SkipStep == ASSUME TypeInv, ListedOnce, SkipInv, [SpreadNext]_spreadVars PROVE SkipInv'
<1>0. /\ TypeLists /\ at \in Nat /\ size \in Nat /\ Len(array) \in Nat /\ size <= Len(array)
  BY ListFacts DEF TypeInv, SpreadTypeOK
<1>1. CASE UNCHANGED spreadVars
  BY <1>1 DEF SkipInv, Skipped, Late, Ids, Expired, OpenLegs, spreadVars, lists, range
<1>2. CASE StrategyDone
  <2>1. /\ barPhase' = "expiry" /\ array' = Open /\ UNCHANGED <<bar, spreads, size, at, visiting>> /\ at = 0
    BY <1>2 DEF StrategyDone, range, TypeInv
  <2>2. Late' = Late
    BY <2>1 DEF Late, Ids, Expired, OpenLegs
  <2>3. \A id \in Late : \E k \in 1..size : array[k] = id
    BY DEF Late, Expired, OpenLegs, FullyClosed, ListedOnce
  <2>4. Len(array') = size /\ \A k \in 1..size : array'[k] = array[k]
    BY <1>0, <2>1 DEF Open, TypeLists
  <2>5. Skipped' = {}
    BY <2>1, <2>2, <2>3, <2>4 DEF Skipped
  <2>6. Cardinality(Skipped') = 0
    BY <2>5, FS_EmptySet
  <2>7. QED
    BY <1>0, <2>1, <2>4, <2>6 DEF SkipInv
<1>3. CASE AllVisited
  <2>1. /\ barPhase = "expiry" /\ barPhase' = "done" /\ Done /\ at = Len(array)
        /\ UNCHANGED <<bar, spreads, array, size>>
    BY <1>3 DEF AllVisited, lists
  <2>2. visiting \notin Late
    BY <2>1 DEF Done, ToClose, Late, Ids
  <2>3. (at + 1)..size = {}
    BY <1>0, <2>1
  <2>4. Late' = Skipped
    BY <2>1, <2>2, <2>3 DEF Late, Skipped, Ids, Expired, OpenLegs
  <2>5. QED
    BY <2>1, <2>4 DEF SkipInv
<1>4. CASE barPhase' \in {"scheduled", "strategy"}
  BY <1>4 DEF SkipInv
<1>5. CASE BarBegins \/ ScheduledStep
  BY <1>4, <1>5 DEF BarBegins, ScheduledStep, ActionWaits, ScheduledDone, OpenScheduled, CloseScheduled, LookingAtAction
<1>6. CASE StrategyStep
  <2>1. ASSUME NEW action, Schedule(action) PROVE SkipInv'
    BY <1>4, <2>1 DEF Schedule
  <2>2. ASSUME NEW template, NEW price, OpenSpread(template, price) PROVE SkipInv'
    BY <1>4, <2>2 DEF OpenSpread
  <2>3. ASSUME NEW id, NEW template, NEW price, AppendSpreadLegs(id, template, price) PROVE SkipInv'
    BY <1>4, <2>3 DEF AppendSpreadLegs
  <2>4. ASSUME NEW id, NEW price, CloseSpread(id, price) \/ \E leg \in DOMAIN spreads[id] : CloseSpreadLeg(id, leg, price)
        PROVE  SkipInv'
    BY <1>4, <2>4 DEF CloseSpread, CloseSpreadLeg
  <2>5. QED
    BY <1>2, <1>6, <2>1, <2>2, <2>3, <2>4 DEF StrategyStep, ScheduleOpenSpread, ScheduleCloseLeg, ScheduleCloseSpread
<1>7. CASE ExpiryStep
  BY <1>3, <1>7, VisitStep, ForceCloseStep DEF ExpiryStep
<1>8. QED
  BY <1>1, <1>5, <1>6, <1>7 DEF SpreadNext

\* Of the spreads that have legs left after the closing of the bar's expired
\* ones, there are no more than were archived during it: each archiving moves
\* one spread at most past the range of forceCloseExpiredOptionLegs.
THEOREM FewSkipped == SpreadSpec => []SkippedAtMostArchived
<1>1. SpreadInit => SkipInv
  <2>1. SUFFICES ASSUME SpreadInit PROVE SkipInv
    OBVIOUS
  <2>2. Late = {} /\ Len(array) = 0 /\ size = 0
    BY <2>1 DEF SpreadInit, Late, Ids
  <2>3. Cardinality(Late) = 0
    BY <2>2, FS_EmptySet
  <2>4. QED
    BY <2>1, <2>2, <2>3 DEF SpreadInit, SkipInv
<1>2. ASSUME TypeInv, ListedOnce, SkipInv, [SpreadNext]_spreadVars PROVE ListedOnce' /\ SkipInv'
  BY <1>2, ListsStep, SkipStep
<1>3. SkipInv => SkippedAtMostArchived
  BY DEF SkipInv, Late, SkippedAtMostArchived
<1>4. QED
  BY TypeInit, TypeStep, <1>1, <1>2, <1>3, PTL DEF SpreadSpec

(***************************************************************************)
(* Cash                                                                    *)
(***************************************************************************)

LEMMA SumOfAll == ASSUME NEW f PROVE SumFunction(f) = Sum(f, DOMAIN f)
  BY DEF Sum, SumFunction

LEMMA FlowFacts ==
    ASSUME NEW leg \in Legs, NEW price \in Quotes \cup {0}
    PROVE  /\ EntryFlow(leg) \in Int /\ ExitFlow(leg, price) \in Int /\ Moved(leg) \in Int
           /\ ~leg.closed => Moved(leg) = EntryFlow(leg)
<1>1. /\ leg.side \in Int /\ leg.entry \in Int /\ leg.exit \in Int /\ price \in Int
      /\ LegCommission \in Int
  <2>1. leg.side \in LegSides /\ leg.entry \in Quotes /\ leg.exit \in Quotes \cup {0}
    BY DEF Legs
  <2>2. /\ \A p \in Quotes \cup {0} : p \in Int
        /\ \A s \in LegSides : s \in Int
        /\ LegCommission \in Int
    BY SpreadConstants DEF LegSides
  <2>3. leg.side \in Int
    BY <2>1, <2>2
  <2>4. leg.entry \in Int /\ leg.exit \in Int /\ price \in Int
    BY <2>1, <2>2
  <2>5. QED
    BY <2>2, <2>3, <2>4
<1>2. \A p \in Int : -leg.side * p \in Int /\ leg.side * p \in Int
  BY <1>1
<1>3. EntryFlow(leg) \in Int /\ ExitFlow(leg, price) \in Int /\ ExitFlow(leg, leg.exit) \in Int
  BY <1>1, <1>2 DEF EntryFlow, ExitFlow
<1>4. QED
  BY <1>3 DEF Moved

LEMMA MovedByType ==
    ASSUME NEW legs \in Seq(Legs)
    PROVE  /\ DOMAIN legs = 1..Len(legs) /\ Len(legs) \in Nat /\ IsFiniteSet(DOMAIN legs)
           /\ \A l \in DOMAIN legs : legs[l] \in Legs
           /\ MovedBy(legs) = Sum([l \in DOMAIN legs |-> Moved(legs[l])], DOMAIN legs)
           /\ MovedBy(legs) \in Int
<1> DEFINE f == [l \in DOMAIN legs |-> Moved(legs[l])]
<1>1. /\ DOMAIN legs = 1..Len(legs) /\ Len(legs) \in Nat
      /\ \A l \in DOMAIN legs : legs[l] \in Legs
  BY Elements
<1>2. IsFiniteSet(DOMAIN legs)
  BY <1>1, FS_Interval
<1>3. \A l \in DOMAIN legs : f[l] \in Int
  BY <1>1, FlowFacts
<1>4. MovedBy(legs) = Sum(f, DOMAIN legs)
  BY SumOfAll DEF MovedBy
<1> HIDE DEF f
<1>5. MovedBy(legs) \in Int
  BY <1>2, <1>3, <1>4, SumType
<1>6. QED
  BY <1>1, <1>2, <1>4, <1>5 DEF f

\* Legs that were bought have moved what was paid for them.
LEMMA MovedByBought ==
    ASSUME NEW template \in Templates, NEW price \in Quotes
    PROVE  LET legs == Bought(template, price) IN MovedBy(legs) = EntryFlows(legs)
<1> DEFINE legs == Bought(template, price)
           f == [l \in DOMAIN legs |-> Moved(legs[l])]
           g == [l \in DOMAIN legs |-> EntryFlow(legs[l])]
<1>1. /\ \A l \in DOMAIN legs : legs[l] \in Legs /\ ~legs[l].closed
  BY BoughtFacts
<1> HIDE DEF legs
<1>2. \A l \in DOMAIN legs : f[l] = g[l]
  BY <1>1, FlowFacts
<1>3. f = g
  BY <1>2
<1>4. QED
  BY <1>3 DEF MovedBy, EntryFlows, legs

\* Legs that join others add what they have moved.
LEMMA MovedByBoth ==
    ASSUME NEW some \in Seq(Legs), NEW others \in Seq(Legs)
    PROVE  MovedBy(some \o others) = MovedBy(some) + MovedBy(others)
<1> DEFINE all == some \o others
           m == Len(some)
           n == Len(others)
           later == [l \in 1..n |-> m + l]
           After == Range(later)
           f == [l \in DOMAIN all |-> Moved(all[l])]
           g == [l \in DOMAIN some |-> Moved(some[l])]
           h == [l \in DOMAIN others |-> Moved(others[l])]
<1>1. /\ m \in Nat /\ n \in Nat /\ DOMAIN some = 1..m /\ DOMAIN others = 1..n
      /\ all \in Seq(Legs) /\ DOMAIN all = 1..(m + n)
      /\ \A l \in 1..m : all[l] = some[l]
      /\ \A l \in 1..n : all[m + l] = others[l]
  OBVIOUS
<1>2. /\ MovedBy(all) = Sum(f, 1..(m + n)) /\ MovedBy(some) = Sum(g, 1..m)
      /\ MovedBy(others) = Sum(h, 1..n)
      /\ \A l \in 1..(m + n) : all[l] \in Legs
      /\ \A l \in 1..n : others[l] \in Legs
  BY <1>1, MovedByType
<1> HIDE DEF all, m, n
<1>3. /\ 1..m \cup After = 1..(m + n) /\ (1..m) \cap After = {}
      /\ \A k, l \in 1..n : later[k] = later[l] => k = l
  <2>1. After = (m + 1)..(m + n)
    <3>1. \A l \in 1..n : later[l] \in (m + 1)..(m + n)
      BY <1>1
    <3>2. \A k \in (m + 1)..(m + n) : k - m \in 1..n /\ later[k - m] = k
      BY <1>1
    <3>3. DOMAIN later = 1..n
      OBVIOUS
    <3> HIDE DEF later
    <3>4. QED
      BY <3>1, <3>2, <3>3 DEF Range
  <2>2. \A k, l \in 1..n : later[k] = later[l] => k = l
    BY <1>1
  <2> HIDE DEF After, later
  <2>3. QED
    BY <1>1, <2>1, <2>2
<1>4. IsFiniteSet(1..m) /\ IsFiniteSet(1..n) /\ IsFiniteSet(1..(m + n)) /\ IsFiniteSet(After)
  <2>1. IsFiniteSet(1..m) /\ IsFiniteSet(1..n) /\ IsFiniteSet(1..(m + n))
    BY <1>1, FS_Interval
  <2> HIDE DEF After
  <2>2. QED
    BY <1>3, <2>1, FS_Subset
<1>5. \A l \in 1..n : h[l] \in Int /\ f[later[l]] = h[l]
  <2>1. \A l \in 1..n : m + l \in 1..(m + n) /\ later[l] = m + l
    BY <1>1
  <2>2. \A l \in 1..n : h[l] = Moved(others[l]) /\ Moved(others[l]) \in Int
    BY <1>1, <1>2, FlowFacts
  <2> HIDE DEF later
  <2>3. QED
    BY <1>1, <2>1, <2>2
<1>6. \A l \in 1..m : f[l] = g[l]
  <2>1. \A l \in 1..m : l \in 1..(m + n)
    BY <1>1
  <2>2. QED
    BY <1>1, <2>1
<1>7. \A l \in 1..(m + n) : f[l] \in Int
  BY <1>1, <1>2, FlowFacts
<1>d. DOMAIN later = 1..n
  OBVIOUS
<1> HIDE DEF f, g, h, later
<1>8. Sum(f, After) = Sum(h, 1..n)
  <2> DEFINE D == 1..n
  <2>1. /\ D = DOMAIN later /\ IsFiniteSet(D)
        /\ \A l \in D : h[l] \in Int /\ f[later[l]] = h[l]
        /\ \A k, l \in D : later[k] = later[l] => k = l
    BY <1>d, <1>3, <1>4, <1>5
  <2> HIDE DEF D
  <2>2. Sum(f, Range(later)) = Sum(h, D)
    BY <2>1, SumImage
  <2>3. QED
    BY <2>2 DEF D
<1> HIDE DEF After
<1>9. Sum(f, 1..(m + n)) = Sum(f, 1..m) + Sum(f, After)
  <2>1. \A l \in 1..m \cup After : f[l] \in Int
    BY <1>3, <1>7
  <2>2. Sum(f, 1..m \cup After) = Sum(f, 1..m) + Sum(f, After)
    BY <1>3, <1>4, <2>1, SumDisjoint
  <2>3. QED
    BY <1>3, <2>2
<1>10. Sum(f, 1..m) = Sum(g, 1..m)
  BY <1>4, <1>6, SumSame
<1>11. QED
  BY <1>2, <1>8, <1>9, <1>10 DEF all

\* Legs that are closed add what was received for them.
LEMMA MovedByClosed ==
    ASSUME NEW old \in Seq(Legs), NEW which, which \subseteq DOMAIN old,
           \A l \in which : ~old[l].closed, NEW price \in Quotes \cup {0}
    PROVE  LET legs == [l \in DOMAIN old |->
                           IF l \in which THEN [old[l] EXCEPT !.closed = TRUE, !.exit = price]
                           ELSE old[l]]
           IN  /\ MovedBy(legs) = MovedBy(old) + ExitFlows(legs, which, price)
               /\ ExitFlows(legs, which, price) \in Int
<1> DEFINE legs == [l \in DOMAIN old |->
                       IF l \in which THEN [old[l] EXCEPT !.closed = TRUE, !.exit = price]
                       ELSE old[l]]
           f == [l \in DOMAIN old |-> Moved(old[l])]
           g == [l \in DOMAIN legs |-> Moved(legs[l])]
           h == [l \in which |-> ExitFlow(legs[l], price)]
<1>1. IsFiniteSet(DOMAIN old) /\ \A l \in DOMAIN old : old[l] \in Legs
  BY MovedByType
<1>2. DOMAIN legs = DOMAIN old
  OBVIOUS
<1>3. \A l \in DOMAIN old : legs[l] = IF l \in which THEN [old[l] EXCEPT !.closed = TRUE, !.exit = price]
                                      ELSE old[l]
  OBVIOUS
<1> HIDE DEF legs
<1>4. \A l \in DOMAIN old : f[l] \in Int
  BY <1>1, FlowFacts
<1>5. \A l \in DOMAIN old \ which : g[l] = f[l]
  BY <1>2, <1>3
<1>6. ASSUME NEW l \in which PROVE h[l] \in Int /\ g[l] = f[l] + h[l]
  <2>1. l \in DOMAIN old /\ old[l] \in Legs /\ ~old[l].closed
    BY <1>1
  <2>2. legs[l] = [old[l] EXCEPT !.closed = TRUE, !.exit = price]
    BY <1>3, <2>1
  <2>3. /\ legs[l] \in Legs /\ legs[l].closed /\ legs[l].exit = price
        /\ legs[l].side = old[l].side /\ legs[l].entry = old[l].entry
    BY <2>1, <2>2 DEF Legs
  <2>4. EntryFlow(legs[l]) = EntryFlow(old[l])
    BY <2>3 DEF EntryFlow
  <2>5. Moved(legs[l]) = EntryFlow(legs[l]) + ExitFlow(legs[l], price)
    BY <2>3 DEF Moved
  <2>6. Moved(old[l]) = EntryFlow(old[l]) /\ ExitFlow(legs[l], price) \in Int
    BY <2>1, <2>3, FlowFacts
  <2>7. f[l] = Moved(old[l]) /\ g[l] = Moved(legs[l]) /\ h[l] = ExitFlow(legs[l], price)
    BY <1>2, <2>1
  <2> HIDE DEF f, g, h
  <2>8. QED
    BY <2>4, <2>5, <2>6, <2>7
<1>7. MovedBy(old) = Sum(f, DOMAIN old) /\ MovedBy(legs) = Sum(g, DOMAIN old)
  BY <1>2, SumOfAll DEF MovedBy
<1>8. ExitFlows(legs, which, price) = Sum(h, which)
  BY SumOfAll DEF ExitFlows
<1> HIDE DEF f, g, h
<1>9. Sum(g, DOMAIN old) = Sum(f, DOMAIN old) + Sum(h, which)
  BY <1>1, <1>4, <1>5, <1>6, SumAdded
<1>10. Sum(h, which) \in Int
  <2>1. IsFiniteSet(which)
    BY <1>1, FS_Subset
  <2>2. QED
    BY <1>6, <2>1, SumType
<1>11. QED
  BY <1>7, <1>8, <1>9, <1>10 DEF legs

MovedByAll(all) == SumFunction([id \in DOMAIN all |-> MovedBy(all[id])])

LEMMA AllFacts ==
    ASSUME NEW all \in Seq(Seq(Legs))
    PROVE  LET f == [id \in DOMAIN all |-> MovedBy(all[id])]
           IN  /\ MovedByAll(all) = Sum(f, DOMAIN all) /\ MovedByAll(all) \in Int
               /\ DOMAIN all = 1..Len(all) /\ Len(all) \in Nat /\ IsFiniteSet(DOMAIN all)
               /\ \A id \in DOMAIN all : f[id] = MovedBy(all[id]) /\ MovedBy(all[id]) \in Int
<1> DEFINE f == [id \in DOMAIN all |-> MovedBy(all[id])]
<1>1. /\ DOMAIN all = 1..Len(all) /\ Len(all) \in Nat
      /\ \A id \in DOMAIN all : all[id] \in Seq(Legs)
  BY Elements
<1>2. IsFiniteSet(DOMAIN all)
  BY <1>1, FS_Interval
<1>3. \A id \in DOMAIN all : f[id] = MovedBy(all[id]) /\ MovedBy(all[id]) \in Int
  BY <1>1, MovedByType
<1>4. MovedByAll(all) = Sum(f, DOMAIN all)
  BY SumOfAll DEF MovedByAll
<1> HIDE DEF f
<1>5. Sum(f, DOMAIN all) \in Int
  BY <1>2, <1>3, SumType
<1>6. QED
  BY <1>1, <1>2, <1>3, <1>4, <1>5 DEF f

\* A spread is added, or one is replaced.
LEMMA AllWith ==
    ASSUME NEW all \in Seq(Seq(Legs)), NEW legs \in Seq(Legs)
    PROVE  MovedByAll(Append(all, legs)) = MovedByAll(all) + MovedBy(legs)
<1> DEFINE more == Append(all, legs)
           n == Len(all)
           f == [id \in DOMAIN all |-> MovedBy(all[id])]
           g == [id \in DOMAIN more |-> MovedBy(more[id])]
<1>1. /\ more \in Seq(Seq(Legs)) /\ n \in Nat /\ DOMAIN all = 1..n /\ DOMAIN more = 1..(n + 1)
      /\ \A id \in 1..n : more[id] = all[id]
      /\ more[n + 1] = legs
  BY Appended
<1>2. 1..(n + 1) = 1..n \cup {n + 1} /\ n + 1 \notin 1..n
  BY <1>1
<1> HIDE DEF more, n
<1>3. /\ MovedByAll(all) = Sum(f, 1..n) /\ MovedByAll(more) = Sum(g, 1..n \cup {n + 1})
      /\ IsFiniteSet(1..n)
      /\ \A id \in 1..n \cup {n + 1} : g[id] = MovedBy(more[id]) /\ MovedBy(more[id]) \in Int
      /\ \A id \in 1..n : f[id] = MovedBy(all[id])
  BY <1>1, <1>2, AllFacts
<1>4. \A id \in 1..n : f[id] = g[id]
  BY <1>1, <1>3
<1>5. g[n + 1] = MovedBy(legs)
  BY <1>1, <1>3
<1> HIDE DEF f, g
<1>6. Sum(g, 1..n \cup {n + 1}) = Sum(g, 1..n) + g[n + 1]
  <2> DEFINE D == 1..n
             x == n + 1
  <2>1. IsFiniteSet(D) /\ x \notin D
    BY <1>2, <1>3
  <2>2. \A id \in D \cup {x} : g[id] \in Int
    BY <1>3
  <2> HIDE DEF D, x
  <2>3. Sum(g, D \cup {x}) = Sum(g, D) + g[x]
    BY <2>1, <2>2, SumWith
  <2>4. QED
    BY <2>3 DEF D, x
<1>7. Sum(g, 1..n) = Sum(f, 1..n)
  <2> DEFINE D == 1..n
  <2>1. IsFiniteSet(D) /\ \A id \in D : g[id] = f[id]
    BY <1>3, <1>4
  <2> HIDE DEF D
  <2>2. Sum(g, D) = Sum(f, D)
    BY <2>1, SumSame
  <2>3. QED
    BY <2>2 DEF D
<1>8. QED
  BY <1>3, <1>5, <1>6, <1>7 DEF more

LEMMA AllChanged ==
    ASSUME NEW all \in Seq(Seq(Legs)), NEW id \in DOMAIN all, NEW legs \in Seq(Legs),
           NEW amount \in Int, MovedBy(legs) = MovedBy(all[id]) + amount
    PROVE  MovedByAll([all EXCEPT ![id] = legs]) = MovedByAll(all) + amount
<1> DEFINE changed == [all EXCEPT ![id] = legs]
           f == [x \in DOMAIN all |-> MovedBy(all[x])]
           g == [x \in DOMAIN changed |-> MovedBy(changed[x])]
<1>1. /\ changed \in Seq(Seq(Legs)) /\ DOMAIN changed = DOMAIN all /\ changed[id] = legs
      /\ \A x \in DOMAIN all \ {id} : changed[x] = all[x]
  OBVIOUS
<1> HIDE DEF changed
<1>2. /\ MovedByAll(all) = Sum(f, DOMAIN all) /\ MovedByAll(changed) = Sum(g, DOMAIN all)
      /\ IsFiniteSet(DOMAIN all) /\ MovedByAll(all) \in Int
      /\ \A x \in DOMAIN all : f[x] = MovedBy(all[x]) /\ MovedBy(all[x]) \in Int
      /\ \A x \in DOMAIN all : g[x] = MovedBy(changed[x]) /\ MovedBy(changed[x]) \in Int
  BY <1>1, AllFacts
<1> HIDE DEF f, g
<1>3. /\ \A x \in DOMAIN all : f[x] \in Int
      /\ \A x \in DOMAIN all \ {id} : g[x] = f[x]
      /\ g[id] = f[id] + amount /\ g[id] \in Int /\ f[id] \in Int
  BY <1>1, <1>2
<1>4. Sum(g, DOMAIN all) = Sum(f, DOMAIN all) - f[id] + g[id]
  <2>1. Replaced(f, g, DOMAIN all, id)
    BY <1>3 DEF Replaced
  <2>2. QED
    BY <1>2, <2>1, SumChanged
<1>5. QED
  BY <1>2, <1>3, <1>4 DEF changed

LEMMA CashStep ==
    ASSUME TypeInv, [SpreadNext]_spreadVars, spreadCash = MovedByAll(spreads)
    PROVE  spreadCash' = MovedByAll(spreads')
<1>1. TypeLists /\ spreads \in Seq(Seq(Legs)) /\ DOMAIN spreads = Ids
  BY ListFacts DEF TypeInv, SpreadTypeOK, TypeLists
<1>2. ASSUME UNCHANGED <<spreads, size, archive, spreadCash>>
      PROVE  spreadCash' = MovedByAll(spreads')
  BY <1>2
<1>3. ASSUME NEW template \in Templates, NEW price \in Quotes, Opens(template, price)
      PROVE  spreadCash' = MovedByAll(spreads')
  <2> DEFINE legs == Bought(template, price)
  <2>1. legs \in Seq(Legs) /\ MovedBy(legs) = EntryFlows(legs)
    BY BoughtFacts, MovedByBought
  <2>2. spreads' = Append(spreads, legs) /\ spreadCash' = spreadCash + EntryFlows(legs)
    BY <1>3 DEF Opens
  <2> HIDE DEF legs
  <2>3. QED
    BY <1>1, <2>1, <2>2, AllWith
<1>4. ASSUME NEW id \in Ids, NEW template \in Templates, NEW price \in Quotes,
             AppendSpreadLegs(id, template, price)
      PROVE  spreadCash' = MovedByAll(spreads')
  <2> DEFINE legs == Bought(template, price)
  <2>1. legs \in Seq(Legs) /\ MovedBy(legs) = EntryFlows(legs)
    BY BoughtFacts, MovedByBought
  <2>2. /\ spreads' = [spreads EXCEPT ![id] = spreads[id] \o legs]
        /\ spreadCash' = spreadCash + EntryFlows(legs)
    BY <1>1, <1>4 DEF AppendSpreadLegs
  <2> HIDE DEF legs
  <2> DEFINE both == spreads[id] \o legs
  <2>3. spreads[id] \in Seq(Legs) /\ both \in Seq(Legs)
    BY <1>1, <2>1
  <2>4. MovedBy(both) = MovedBy(spreads[id]) + MovedBy(legs) /\ MovedBy(legs) \in Int
    BY <2>1, <2>3, MovedByBoth, MovedByType
  <2> HIDE DEF both
  <2>5. MovedByAll([spreads EXCEPT ![id] = both]) = MovedByAll(spreads) + MovedBy(legs)
    BY <1>1, <2>3, <2>4, AllChanged
  <2>6. QED
    BY <2>1, <2>2, <2>5 DEF both
<1>5. ASSUME NEW id \in Ids, NEW price \in Quotes \cup {0}, NEW which \in SUBSET OpenLegs(id),
             Closes(id, which, price)
      PROVE  spreadCash' = MovedByAll(spreads')
  <2> DEFINE legs == [l \in DOMAIN spreads[id] |->
                         IF l \in which THEN [spreads[id][l] EXCEPT !.closed = TRUE, !.exit = price]
                         ELSE spreads[id][l]]
  <2>1. spreads' = [spreads EXCEPT ![id] = legs] /\ spreadCash' = spreadCash + ExitFlows(legs, which, price)
    BY <1>5 DEF Closes
  <2>2. /\ spreads[id] \in Seq(Legs) /\ which \subseteq DOMAIN spreads[id]
        /\ \A l \in which : ~spreads[id][l].closed
    BY <1>1 DEF OpenLegs
  <2>3. /\ MovedBy(legs) = MovedBy(spreads[id]) + ExitFlows(legs, which, price)
        /\ ExitFlows(legs, which, price) \in Int
    BY <2>2, MovedByClosed
  <2>4. legs \in Seq(Legs)
    <3>1. /\ DOMAIN spreads[id] = 1..Len(spreads[id]) /\ Len(spreads[id]) \in Nat
          /\ \A l \in DOMAIN spreads[id] : spreads[id][l] \in Legs
      BY <2>2, MovedByType
    <3>2. \A l \in DOMAIN spreads[id] : legs[l] \in Legs
      BY <3>1 DEF Legs
    <3>3. legs \in [1..Len(spreads[id]) -> Legs]
      BY <3>1, <3>2
    <3> HIDE DEF legs
    <3>4. QED
      BY <3>1, <3>3, FromFunction
  <2> HIDE DEF legs
  <2> DEFINE amount == ExitFlows(legs, which, price)
  <2> HIDE DEF amount
  <2>5. MovedByAll([spreads EXCEPT ![id] = legs]) = MovedByAll(spreads) + amount
    <3>1. amount \in Int /\ MovedBy(legs) = MovedBy(spreads[id]) + amount
      BY <2>3 DEF amount
    <3>2. QED
      BY <1>1, <2>4, <3>1, AllChanged
  <2>6. QED
    BY <2>1, <2>5 DEF amount
<1>6. QED
  BY <1>2, <1>3, <1>4, <1>5, CloseStep

\* The cash that the spreads have moved is what every leg was paid for when it
\* was opened and what it was closed for, once each, for any templates and
\* prices, whichever of strategy, schedule and expiry opens or closes it.
THEOREM EveryLegPaidOnce == SpreadSpec => []CashIsLegs
<1>1. CashIsLegs <=> spreadCash = MovedByAll(spreads)
  BY DEF CashIsLegs, MovedByAll
<1>2. TypeInv /\ CashIsLegs /\ [SpreadNext]_spreadVars => CashIsLegs'
  BY CashStep DEF CashIsLegs, MovedByAll
<1>3. SpreadInit => CashIsLegs
  <2> SUFFICES ASSUME SpreadInit PROVE spreadCash = MovedByAll(spreads)
    BY <1>1
  <2>1. spreads = <<>> /\ spreadCash = 0 /\ DOMAIN spreads = {}
    BY DEF SpreadInit
  <2>2. MovedByAll(spreads) = 0
    BY <2>1, SumOfAll, SumEmpty DEF MovedByAll
  <2>3. QED
    BY <2>1, <2>2
<1>4. QED
  BY <1>2, <1>3, TypeInit, TypeStep, PTL DEF SpreadSpec
=============================================================================
