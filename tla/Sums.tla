-------------------------------- MODULE Sums --------------------------------
(***************************************************************************)
(* Sums of the values of a function over a finite set, as the community    *)
(* modules fold them.  An induction over finite sets is out of the provers'*)
(* reach; what it would show is shown by a smallest counterexample, which  *)
(* the well-foundedness of the strict subsets gives.                       *)
(***************************************************************************)
EXTENDS Integers, Functions, FiniteSetTheorems, WellFoundedInduction, TLAPS

Sum(f, S) == SumFunctionOnSet(f, S)

\* The element a fold takes out of a set first.
Picked(s) == CHOOSE x \in s : TRUE

\* g holds the sums over the subsets of S.
Sums(f, g, S) == g = [s \in SUBSET S |-> IF s = {} THEN 0 ELSE f[Picked(s)] + g[s \ {Picked(s)}]]

\* A sum is what such a function holds for the whole set.
LEMMA Folded ==
    ASSUME NEW f, NEW S
    PROVE  Sum(f, S) = (CHOOSE g : Sums(f, g, S))[S]
  BY DEF Sum, SumFunctionOnSet, FoldFunctionOnSet, MapThenFoldSet, Sums, Picked

LEMMA PickedFacts == ASSUME NEW s, s # {} PROVE Picked(s) \in s
  BY DEF Picked

\* Among the subsets of a finite set for which something fails there is one
\* such that it holds for all the smaller ones.
LEMMA Smallest ==
    ASSUME NEW Bad, NEW W, IsFiniteSet(W), Bad \subseteq SUBSET W, Bad # {}
    PROVE  \E s \in Bad : \A u \in Bad : u \subseteq s => u = s
<1>1. Bad \subseteq FiniteSubsetsOf(W)
  BY FS_Subset DEF FiniteSubsetsOf
<1>2. PICK s \in Bad : \A u \in Bad : ~(<<u, s>> \in StrictSubsetOrdering(W))
  BY <1>1, FS_StrictSubsetOrderingWellFounded, WFMin
<1>3. ASSUME NEW u \in Bad, u \subseteq s, u # s PROVE FALSE
  BY <1>2, <1>3 DEF StrictSubsetOrdering
<1>4. QED
  BY <1>3

LEMMA SolutionFacts ==
    ASSUME NEW f, NEW S, NEW g, Sums(f, g, S), NEW s \in SUBSET S
    PROVE  g[s] = IF s = {} THEN 0 ELSE f[Picked(s)] + g[s \ {Picked(s)}]
<1>1. DOMAIN g = SUBSET S
  BY DEF Sums
<1>2. g = [u \in SUBSET S |-> IF u = {} THEN 0 ELSE f[Picked(u)] + g[u \ {Picked(u)}]]
  BY DEF Sums
<1>3. g[s] = [u \in SUBSET S |-> IF u = {} THEN 0 ELSE f[Picked(u)] + g[u \ {Picked(u)}]][s]
  BY <1>2
<1>4. QED
  BY <1>3

\* Two functions that hold the sums over the subsets of finite sets agree.
LEMMA Agree ==
    ASSUME NEW f, NEW S, NEW g, Sums(f, g, S), NEW T, NEW h, Sums(f, h, T),
           NEW s \in SUBSET (S \cap T), IsFiniteSet(s)
    PROVE  g[s] = h[s]
<1> DEFINE Bad == {u \in SUBSET s : g[u] # h[u]}
<1>1. SUFFICES ASSUME Bad # {} PROVE FALSE
  OBVIOUS
<1>2. PICK u \in Bad : \A v \in Bad : v \subseteq u => v = u
  <2>1. Bad \subseteq SUBSET s
    OBVIOUS
  <2> HIDE DEF Bad
  <2>2. QED
    BY <1>1, <2>1, Smallest
<1>3. u \in SUBSET S /\ u \in SUBSET T
  OBVIOUS
<1>4. /\ g[u] = IF u = {} THEN 0 ELSE f[Picked(u)] + g[u \ {Picked(u)}]
      /\ h[u] = IF u = {} THEN 0 ELSE f[Picked(u)] + h[u \ {Picked(u)}]
  BY <1>3, SolutionFacts
<1>5. u # {}
  BY <1>4
<1>6. u \ {Picked(u)} \in SUBSET s /\ u \ {Picked(u)} # u
  BY <1>5, PickedFacts
<1>7. g[u \ {Picked(u)}] = h[u \ {Picked(u)}]
  BY <1>2, <1>6
<1>8. QED
  BY <1>4, <1>5, <1>7

\* For a finite set there is such a function.
LEMMA Solved ==
    ASSUME NEW f, NEW S, IsFiniteSet(S)
    PROVE  \E g : Sums(f, g, S)
<1> DEFINE Bad == {u \in SUBSET S : ~\E g : Sums(f, g, u)}
<1>1. SUFFICES ASSUME Bad # {} PROVE FALSE
  OBVIOUS
<1>2. PICK u \in Bad : \A v \in Bad : v \subseteq u => v = u
  <2>1. Bad \subseteq SUBSET S
    OBVIOUS
  <2> HIDE DEF Bad
  <2>2. QED
    BY <1>1, <2>1, Smallest
<1>f. \A v \in SUBSET u : IsFiniteSet(v)
  BY FS_Subset
<1> DEFINE G(v) == CHOOSE g : Sums(f, g, v)
           Value(v) == IF v = u THEN IF u = {} THEN 0 ELSE f[Picked(u)] + G(u \ {Picked(u)})[u \ {Picked(u)}]
                       ELSE G(v)[v]
           g == [v \in SUBSET u |-> Value(v)]
<1>3. \A v \in SUBSET u : v # u => Sums(f, G(v), v)
  BY <1>2
<1>4. ASSUME NEW v \in SUBSET u, v # {}, v # u
      PROVE  G(v)[v] = f[Picked(v)] + G(v \ {Picked(v)})[v \ {Picked(v)}]
  <2> DEFINE w == v \ {Picked(v)}
  <2>1. w \in SUBSET v /\ w \in SUBSET u /\ w # u
    BY <1>4, PickedFacts
  <2>2. Sums(f, G(v), v) /\ Sums(f, G(w), w) /\ IsFiniteSet(w)
    BY <1>3, <1>4, <1>f, <2>1
  <2> HIDE DEF G
  <2>3. G(v)[w] = G(w)[w]
    BY <2>1, <2>2, Agree
  <2>4. G(v)[v] = f[Picked(v)] + G(v)[w]
    BY <2>2, <1>4, SolutionFacts
  <2>5. QED
    BY <2>3, <2>4
<1> HIDE DEF G
<1>5. \A v \in SUBSET u : v # {} => v \ {Picked(v)} \in SUBSET u /\ v \ {Picked(v)} # u
  BY PickedFacts
<1>6. ASSUME NEW v \in SUBSET u
      PROVE  Value(v) = IF v = {} THEN 0 ELSE f[Picked(v)] + g[v \ {Picked(v)}]
  <2>1. CASE v = {}
    <3>1. CASE v = u
      BY <2>1, <3>1
    <3>2. CASE v # u
      <4>1. Sums(f, G(v), v) /\ v \in SUBSET v
        BY <1>3, <3>2
      <4>2. G(v)[v] = 0
        BY <2>1, <4>1, SolutionFacts
      <4>3. QED
        BY <2>1, <3>2, <4>2
    <3>3. QED
      BY <3>1, <3>2
  <2>2. CASE v # {}
    <3>1. g[v \ {Picked(v)}] = G(v \ {Picked(v)})[v \ {Picked(v)}]
      BY <1>5, <2>2
    <3>2. Value(v) = f[Picked(v)] + G(v \ {Picked(v)})[v \ {Picked(v)}]
      BY <1>4, <2>2
    <3>3. QED
      BY <2>2, <3>1, <3>2
  <2>3. QED
    BY <2>1, <2>2
<1>7. g = [v \in SUBSET u |-> IF v = {} THEN 0 ELSE f[Picked(v)] + g[v \ {Picked(v)}]]
  <2> DEFINE right == [v \in SUBSET u |-> IF v = {} THEN 0 ELSE f[Picked(v)] + g[v \ {Picked(v)}]]
  <2>1. g = [v \in SUBSET u |-> g[v]] /\ right = [v \in SUBSET u |-> right[v]]
    OBVIOUS
  <2>2. \A v \in SUBSET u : g[v] = right[v]
    BY <1>6
  <2> HIDE DEF g, right
  <2>3. g = right
    BY <2>1, <2>2
  <2>4. QED
    BY <2>3 DEF right
<1> HIDE DEF g
<1>8. QED
  BY <1>2, <1>7 DEF Sums

\* The sum over the empty set, and over any other: an element and the rest.
LEMMA SumEmpty == ASSUME NEW f PROVE Sum(f, {}) = 0
<1>1. PICK g : Sums(f, g, {})
  BY Solved, FS_EmptySet
<1>2. Sums(f, CHOOSE h : Sums(f, h, {}), {})
  BY <1>1
<1>3. QED
  BY <1>2, Folded, SolutionFacts

LEMMA SumOfPicked ==
    ASSUME NEW f, NEW S, IsFiniteSet(S), S # {}
    PROVE  Sum(f, S) = f[Picked(S)] + Sum(f, S \ {Picked(S)})
<1> DEFINE R == S \ {Picked(S)}
           g == CHOOSE h : Sums(f, h, S)
           k == CHOOSE h : Sums(f, h, R)
<1>1. IsFiniteSet(R) /\ R \in SUBSET (S \cap R) /\ S \in SUBSET S
  BY FS_Subset
<1>2. Sums(f, g, S) /\ Sums(f, k, R)
  BY <1>1, Solved
<1>3. Sum(f, S) = g[S] /\ Sum(f, R) = k[R]
  BY Folded
<1> HIDE DEF g, k
<1>4. g[R] = k[R]
  BY <1>1, <1>2, Agree
<1>5. g[S] = f[Picked(S)] + g[R]
  BY <1>1, <1>2, SolutionFacts
<1>6. QED
  BY <1>3, <1>4, <1>5

(***************************************************************************)
(* What a proof needs of a sum of integers                                 *)
(***************************************************************************)

\* The sum of integers is one.
LEMMA SumType ==
    ASSUME NEW f, NEW S, IsFiniteSet(S), \A x \in S : f[x] \in Int
    PROVE  Sum(f, S) \in Int
<1> DEFINE Bad == {u \in SUBSET S : Sum(f, u) \notin Int}
<1>1. SUFFICES ASSUME Bad # {} PROVE FALSE
  OBVIOUS
<1>2. PICK u \in Bad : \A v \in Bad : v \subseteq u => v = u
  <2>1. Bad \subseteq SUBSET S
    OBVIOUS
  <2> HIDE DEF Bad
  <2>2. QED
    BY <1>1, <2>1, Smallest
<1>3. u # {} /\ IsFiniteSet(u)
  <2>1. 0 \in Int
    OBVIOUS
  <2>2. QED
    BY <2>1, SumEmpty, FS_Subset
<1>4. Picked(u) \in S /\ u \ {Picked(u)} \in SUBSET S /\ u \ {Picked(u)} # u
  BY <1>3, PickedFacts
<1>5. Sum(f, u \ {Picked(u)}) \in Int
  BY <1>2, <1>4
<1>6. QED
  BY <1>3, <1>4, <1>5, SumOfPicked

\* A sum of naturals is one.
LEMMA SumNat ==
    ASSUME NEW f, NEW S, IsFiniteSet(S), \A x \in S : f[x] \in Nat
    PROVE  Sum(f, S) \in Nat
<1> DEFINE Bad == {u \in SUBSET S : Sum(f, u) \notin Nat}
<1>1. SUFFICES ASSUME Bad # {} PROVE FALSE
  OBVIOUS
<1>2. PICK u \in Bad : \A v \in Bad : v \subseteq u => v = u
  <2>1. Bad \subseteq SUBSET S
    OBVIOUS
  <2> HIDE DEF Bad
  <2>2. QED
    BY <1>1, <2>1, Smallest
<1>3. u # {} /\ IsFiniteSet(u)
  <2>1. 0 \in Nat
    OBVIOUS
  <2>2. QED
    BY <2>1, SumEmpty, FS_Subset
<1>4. Picked(u) \in S /\ u \ {Picked(u)} \in SUBSET S /\ u \ {Picked(u)} # u
  BY <1>3, PickedFacts
<1>5. Sum(f, u \ {Picked(u)}) \in Nat
  BY <1>2, <1>4
<1>6. QED
  BY <1>3, <1>4, <1>5, SumOfPicked

\* Any element can be taken out first, and one that is new added last.
LEMMA SumWithout ==
    ASSUME NEW f, NEW S, IsFiniteSet(S), \A x \in S : f[x] \in Int, NEW x \in S
    PROVE  Sum(f, S) = f[x] + Sum(f, S \ {x})
<1> DEFINE Bad == {u \in SUBSET S : \E y \in u : Sum(f, u) # f[y] + Sum(f, u \ {y})}
<1>1. SUFFICES ASSUME Bad # {} PROVE FALSE
  OBVIOUS
<1>2. PICK u \in Bad : \A v \in Bad : v \subseteq u => v = u
  <2>1. Bad \subseteq SUBSET S
    OBVIOUS
  <2> HIDE DEF Bad
  <2>2. QED
    BY <1>1, <2>1, Smallest
<1>3. PICK y \in u : Sum(f, u) # f[y] + Sum(f, u \ {y})
  OBVIOUS
<1> DEFINE a == Picked(u)
           rest == u \ {a, y}
<1>4. \A v \in SUBSET u : IsFiniteSet(v)
  BY FS_Subset
<1>5. a \in u /\ Sum(f, u) = f[a] + Sum(f, u \ {a})
  BY <1>4, PickedFacts, SumOfPicked
<1> HIDE DEF a
<1>6. a # y
  BY <1>3, <1>5
<1>7. u \ {a} \notin Bad /\ u \ {y} \notin Bad /\ u \ {a} \in SUBSET S /\ u \ {y} \in SUBSET S
  BY <1>2, <1>5
<1>8. y \in u \ {a} /\ a \in u \ {y} /\ (u \ {a}) \ {y} = rest /\ (u \ {y}) \ {a} = rest
  BY <1>5, <1>6
<1>9. Sum(f, u \ {a}) = f[y] + Sum(f, rest) /\ Sum(f, u \ {y}) = f[a] + Sum(f, rest)
  BY <1>7, <1>8
<1>10. f[a] \in Int /\ f[y] \in Int /\ Sum(f, rest) \in Int
  <2>1. IsFiniteSet(rest) /\ \A z \in rest : f[z] \in Int
    BY <1>4
  <2>2. QED
    BY <2>1, <1>5, SumType
<1> HIDE DEF rest, Bad
<1>11. QED
  BY <1>3, <1>5, <1>9, <1>10

LEMMA SumWith ==
    ASSUME NEW f, NEW S, IsFiniteSet(S), NEW x, x \notin S, \A y \in S \cup {x} : f[y] \in Int
    PROVE  Sum(f, S \cup {x}) = Sum(f, S) + f[x]
<1>1. IsFiniteSet(S \cup {x}) /\ x \in S \cup {x} /\ (S \cup {x}) \ {x} = S
  BY FS_AddElement
<1>2. Sum(f, S \cup {x}) = f[x] + Sum(f, S) /\ Sum(f, S) \in Int /\ f[x] \in Int
  BY <1>1, SumWithout, SumType
<1>3. QED
  BY <1>2

\* Functions that agree on the set have the same sum.
LEMMA SumSame ==
    ASSUME NEW f, NEW g, NEW S, IsFiniteSet(S), \A x \in S : f[x] = g[x]
    PROVE  Sum(f, S) = Sum(g, S)
<1> DEFINE Bad == {u \in SUBSET S : Sum(f, u) # Sum(g, u)}
<1>1. SUFFICES ASSUME Bad # {} PROVE FALSE
  OBVIOUS
<1>2. PICK u \in Bad : \A v \in Bad : v \subseteq u => v = u
  <2>1. Bad \subseteq SUBSET S
    OBVIOUS
  <2> HIDE DEF Bad
  <2>2. QED
    BY <1>1, <2>1, Smallest
<1>3. u # {} /\ IsFiniteSet(u)
  BY SumEmpty, FS_Subset
<1>4. Picked(u) \in S /\ u \ {Picked(u)} \in SUBSET S /\ u \ {Picked(u)} # u
  BY <1>3, PickedFacts
<1>5. Sum(f, u \ {Picked(u)}) = Sum(g, u \ {Picked(u)})
  BY <1>2, <1>4
<1>6. QED
  BY <1>3, <1>4, <1>5, SumOfPicked

LEMMA SumZero ==
    ASSUME NEW f, NEW S, IsFiniteSet(S), \A x \in S : f[x] = 0
    PROVE  Sum(f, S) = 0
<1> DEFINE Bad == {u \in SUBSET S : Sum(f, u) # 0}
<1>1. SUFFICES ASSUME Bad # {} PROVE FALSE
  OBVIOUS
<1>2. PICK u \in Bad : \A v \in Bad : v \subseteq u => v = u
  <2>1. Bad \subseteq SUBSET S
    OBVIOUS
  <2> HIDE DEF Bad
  <2>2. QED
    BY <1>1, <2>1, Smallest
<1>3. u # {} /\ IsFiniteSet(u)
  BY SumEmpty, FS_Subset
<1>4. Picked(u) \in S /\ u \ {Picked(u)} \in SUBSET S /\ u \ {Picked(u)} # u
  BY <1>3, PickedFacts
<1>5. Sum(f, u \ {Picked(u)}) = 0
  BY <1>2, <1>4
<1>6. QED
  BY <1>3, <1>4, <1>5, SumOfPicked

\* One value is replaced.
Replaced(f, g, S, x) ==
    /\ \A y \in S : f[y] \in Int
    /\ g[x] \in Int /\ \A y \in S \ {x} : g[y] = f[y]

LEMMA SumChanged ==
    ASSUME NEW f, NEW g, NEW S, IsFiniteSet(S), NEW x \in S, Replaced(f, g, S, x)
    PROVE  Sum(g, S) = Sum(f, S) - f[x] + g[x]
<1> DEFINE R == S \ {x}
<1>1. IsFiniteSet(R) /\ \A y \in R : f[y] = g[y] /\ f[y] \in Int
  BY FS_Subset DEF Replaced
<1>2. \A y \in S : f[y] \in Int /\ g[y] \in Int
  BY DEF Replaced
<1>3. Sum(f, S) = f[x] + Sum(f, R) /\ Sum(g, S) = g[x] + Sum(g, R)
  BY <1>2, SumWithout
<1>4. Sum(f, R) = Sum(g, R) /\ Sum(f, R) \in Int
  BY <1>1, SumSame, SumType
<1>5. QED
  BY <1>2, <1>3, <1>4

\* Sums over disjoint sets add up.
LEMMA SumDisjoint ==
    ASSUME NEW f, NEW S, IsFiniteSet(S), NEW T, IsFiniteSet(T), S \cap T = {},
           \A x \in S \cup T : f[x] \in Int
    PROVE  Sum(f, S \cup T) = Sum(f, S) + Sum(f, T)
<1> DEFINE Bad == {u \in SUBSET T : Sum(f, S \cup u) # Sum(f, S) + Sum(f, u)}
<1>1. SUFFICES ASSUME Bad # {} PROVE FALSE
  OBVIOUS
<1>2. PICK u \in Bad : \A v \in Bad : v \subseteq u => v = u
  <2>1. Bad \subseteq SUBSET T
    OBVIOUS
  <2> HIDE DEF Bad
  <2>2. QED
    BY <1>1, <2>1, Smallest
<1> DEFINE a == Picked(u)
           R == u \ {a}
<1>s. Sum(f, S) \in Int
  BY SumType
<1>3. u # {} /\ IsFiniteSet(u)
  <2>1. u # {}
    <3>1. S \cup {} = S
      OBVIOUS
    <3>2. QED
      BY <3>1, <1>s, SumEmpty
  <2>2. QED
    BY <2>1, FS_Subset
<1>4. a \in u /\ R \in SUBSET T /\ R # u /\ IsFiniteSet(R)
  BY <1>3, PickedFacts, FS_Subset
<1> HIDE DEF a
<1>5. Sum(f, S \cup R) = Sum(f, S) + Sum(f, R)
  BY <1>2, <1>4
<1>6. Sum(f, u) = f[a] + Sum(f, R) /\ Sum(f, R) \in Int /\ f[a] \in Int
  <2>1. (\A y \in u : f[y] \in Int) /\ (\A y \in R : f[y] \in Int)
    BY <1>4
  <2>2. QED
    BY <2>1, <1>3, <1>4, SumWithout, SumType
<1>7. Sum(f, S \cup u) = f[a] + Sum(f, S \cup R)
  <2>1. IsFiniteSet(S \cup u) /\ (\A y \in S \cup u : f[y] \in Int) /\ a \in S \cup u
    BY <1>3, <1>4, FS_Union
  <2>2. (S \cup u) \ {a} = S \cup R
    BY <1>4
  <2>3. QED
    BY <2>1, <2>2, SumWithout
<1> HIDE DEF R
<1>8. QED
  BY <1>s, <1>5, <1>6, <1>7

\* Adding to every value adds to the sum; adding to some adds those.
LEMMA SumPlus ==
    ASSUME NEW f, NEW g, NEW h, NEW S, IsFiniteSet(S),
           \A x \in S : f[x] \in Int /\ h[x] \in Int /\ g[x] = f[x] + h[x]
    PROVE  Sum(g, S) = Sum(f, S) + Sum(h, S)
<1> DEFINE Bad == {u \in SUBSET S : Sum(g, u) # Sum(f, u) + Sum(h, u)}
<1>1. SUFFICES ASSUME Bad # {} PROVE FALSE
  OBVIOUS
<1>2. PICK u \in Bad : \A v \in Bad : v \subseteq u => v = u
  <2>1. Bad \subseteq SUBSET S
    OBVIOUS
  <2> HIDE DEF Bad
  <2>2. QED
    BY <1>1, <2>1, Smallest
<1>3. u # {} /\ IsFiniteSet(u)
  <2>1. Sum(g, {}) = 0 /\ Sum(f, {}) = 0 /\ Sum(h, {}) = 0
    BY SumEmpty
  <2>2. Sum(g, u) # Sum(f, u) + Sum(h, u) /\ u \in SUBSET S
    OBVIOUS
  <2> HIDE DEF Bad
  <2>3. CASE u = {}
    <3>1. Sum(g, u) = 0 /\ Sum(f, u) = 0 /\ Sum(h, u) = 0
      BY <2>1, <2>3
    <3>2. QED
      BY <2>2, <3>1
  <2>4. IsFiniteSet(u)
    BY <2>2, FS_Subset
  <2>5. QED
    BY <2>3, <2>4
<1> DEFINE a == Picked(u)
           R == u \ {a}
<1>4. a \in S /\ R \in SUBSET S /\ R # u /\ IsFiniteSet(R)
  BY <1>3, PickedFacts, FS_Subset
<1>5. Sum(g, R) = Sum(f, R) + Sum(h, R)
  BY <1>2, <1>4
<1>6. /\ Sum(g, u) = g[a] + Sum(g, R) /\ Sum(f, u) = f[a] + Sum(f, R)
      /\ Sum(h, u) = h[a] + Sum(h, R)
  BY <1>3, SumOfPicked
<1>7. Sum(f, R) \in Int /\ Sum(h, R) \in Int /\ f[a] \in Int /\ h[a] \in Int /\ g[a] = f[a] + h[a]
  <2>1. \A x \in R : f[x] \in Int /\ h[x] \in Int
    BY <1>4
  <2>2. QED
    BY <1>4, <2>1, SumType
<1>8. Sum(g, u) # Sum(f, u) + Sum(h, u)
  OBVIOUS
<1> HIDE DEF a, R, Bad
<1>9. QED
  BY <1>5, <1>6, <1>7, <1>8

LEMMA SumAdded ==
    ASSUME NEW f, NEW g, NEW h, NEW S, IsFiniteSet(S), NEW T, T \subseteq S,
           \A x \in S : f[x] \in Int, \A x \in S \ T : g[x] = f[x],
           \A x \in T : h[x] \in Int /\ g[x] = f[x] + h[x]
    PROVE  Sum(g, S) = Sum(f, S) + Sum(h, T)
<1> DEFINE R == S \ T
<1>1. /\ IsFiniteSet(R) /\ IsFiniteSet(T) /\ R \cap T = {} /\ R \cup T = S
      /\ \A x \in R \cup T : f[x] \in Int /\ g[x] \in Int
      /\ \A x \in R : g[x] = f[x]
  BY FS_Subset
<1> HIDE DEF R
<1>2. Sum(f, S) = Sum(f, R) + Sum(f, T) /\ Sum(g, S) = Sum(g, R) + Sum(g, T)
  <2>1. Sum(f, R \cup T) = Sum(f, R) + Sum(f, T)
    BY <1>1, SumDisjoint
  <2>2. Sum(g, R \cup T) = Sum(g, R) + Sum(g, T)
    BY <1>1, SumDisjoint
  <2>3. QED
    BY <1>1, <2>1, <2>2
<1>3. Sum(g, R) = Sum(f, R) /\ Sum(g, T) = Sum(f, T) + Sum(h, T)
  BY <1>1, SumSame, SumPlus
<1>4. Sum(f, R) \in Int /\ Sum(f, T) \in Int /\ Sum(h, T) \in Int
  BY <1>1, SumType
<1>5. QED
  BY <1>2, <1>3, <1>4

\* A sum keeps its value when its indices are renamed.
LEMMA SumImage ==
    ASSUME NEW f, NEW g, NEW h, NEW S, S = DOMAIN h, IsFiniteSet(S),
           \A x \in S : f[x] \in Int /\ g[h[x]] = f[x],
           \A x, y \in S : h[x] = h[y] => x = y
    PROVE  Sum(g, Range(h)) = Sum(f, S)
<1> DEFINE Image(u) == {h[x] : x \in u}
           Bad == {u \in SUBSET S : Sum(g, Image(u)) # Sum(f, u)}
<1>1. SUFFICES ASSUME Bad # {} PROVE FALSE
  BY DEF Range
<1>2. PICK u \in Bad : \A v \in Bad : v \subseteq u => v = u
  <2>1. Bad \subseteq SUBSET S
    OBVIOUS
  <2> HIDE DEF Bad
  <2>2. QED
    BY <1>1, <2>1, Smallest
<1>3. u # {} /\ IsFiniteSet(u)
  <2>1. Image({}) = {}
    OBVIOUS
  <2>2. QED
    BY <2>1, SumEmpty, FS_Subset
<1> DEFINE a == Picked(u)
           R == u \ {a}
<1>4. a \in u /\ R \in SUBSET S /\ R # u /\ IsFiniteSet(R)
  BY <1>3, PickedFacts, FS_Subset
<1>5. Sum(g, Image(R)) = Sum(f, R) /\ Sum(f, u) = f[a] + Sum(f, R)
  BY <1>2, <1>3, <1>4, SumOfPicked
<1>6. Image(u) = Image(R) \cup {h[a]} /\ h[a] \notin Image(R)
  BY <1>4
<1>7. IsFiniteSet(Image(R))
  <2> DEFINE k == [x \in R |-> h[x]]
  <2>1. k \in Surjection(R, Image(R))
    BY DEF Surjection
  <2>2. QED
    BY <1>4, <2>1, FS_Surjection
<1>8. \A y \in Image(R) \cup {h[a]} : g[y] \in Int
  BY <1>4
<1>9. f[a] \in Int /\ g[h[a]] = f[a] /\ Sum(f, R) \in Int
  <2>1. \A x \in R : f[x] \in Int
    BY <1>4
  <2>2. QED
    BY <1>4, <2>1, SumType
<1>10. Sum(g, Image(u)) # Sum(f, u)
  OBVIOUS
<1> HIDE DEF a, R, Bad, Image
<1>11. Sum(g, Image(u)) = Sum(g, Image(R)) + g[h[a]]
  <2>1. Sum(g, Image(R) \cup {h[a]}) = Sum(g, Image(R)) + g[h[a]]
    BY <1>6, <1>7, <1>8, SumWith
  <2>2. QED
    BY <1>6, <2>1
<1>12. QED
  BY <1>5, <1>9, <1>10, <1>11
=============================================================================
