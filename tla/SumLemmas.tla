----------------------------- MODULE SumLemmas ------------------------------
(***************************************************************************)
(* Sums over finite sets.  MapThenSumSet is a recursive function that      *)
(* picks its elements by CHOOSE; here are the facts that make it a sum:    *)
(* it is well defined, it does not depend on the order of picking, and an  *)
(* element more adds its value.  Every induction is a minimal              *)
(* counterexample among the subsets of a finite set.                       *)
(***************************************************************************)
EXTENDS FiniteSetsExt, FiniteSetTheorems, WellFoundedInduction, TLAPS

\* The element the fold picks.
Any(s) == CHOOSE x \in s : TRUE

\* g has the sums of f over the subsets of S.
SumsUp(f, S, g) ==
  g = [s \in SUBSET S |-> IF s = {} THEN 0 ELSE f[Any(s)] + g[s \ {Any(s)}]]

\* The sum of f over S.
Total(f, S) == (CHOOSE g : SumsUp(f, S, g))[S]
-----------------------------------------------------------------------------
\* A nonempty set of natural numbers has a least one.
LEMMA LeastNumber ==
  ASSUME NEW T, T \subseteq Nat, T # {}
  PROVE  \E i \in T : \A j \in T : i <= j
  <1>1. PICK i \in T : \A j \in T : ~(<<j, i>> \in OpToRel(<, Nat))
    BY NatLessThanWellFounded, WFMin
  <1>2. ASSUME NEW a \in Nat, NEW b \in Nat, a < b
        PROVE  <<a, b>> \in OpToRel(<, Nat)
    BY <1>2, Zenon DEF OpToRel
  <1>3. \A j \in T : ~(j < i)
    BY <1>1, <1>2, Zenon
  <1> QED BY <1>3

\* A nonempty set of finite sets has a member none of whose elements can be
\* taken away.
LEMMA SmallestSet ==
  ASSUME NEW S, IsFiniteSet(S), NEW Bad, Bad \subseteq SUBSET S, Bad # {}
  PROVE  \E s \in Bad : \A t \in Bad : t \subseteq s => t = s
  <1> DEFINE T == {Cardinality(s) : s \in Bad}
  <1>1. \A s \in Bad : IsFiniteSet(s) /\ Cardinality(s) \in Nat
    BY FS_Subset, FS_CardinalityType
  <1>2. T \subseteq Nat /\ T # {}
    BY <1>1
  <1>3. PICK n \in T : \A m \in T : n <= m
    BY <1>2, LeastNumber
  <1>4. PICK s \in Bad : Cardinality(s) = n
    BY <1>3
  <1>5. ASSUME NEW t \in Bad, t \subseteq s
        PROVE  t = s
    <2>1. IsFiniteSet(s) /\ t \in SUBSET s
      BY <1>1, <1>4, <1>5
    <2>2. Cardinality(t) <= Cardinality(s) /\ (Cardinality(s) = Cardinality(t) => s = t)
      BY <2>1, FS_Subset
    <2>3. Cardinality(s) <= Cardinality(t)
      BY <1>3, <1>4
    <2> QED BY <1>1, <2>2, <2>3
  <1> QED BY <1>5

LEMMA AnyIn ==
  ASSUME NEW s, s # {}
  PROVE  Any(s) \in s
  BY DEF Any

\* What the sums say of a subset.
LEMMA SumsUpAt ==
  ASSUME NEW f, NEW S, NEW g, SumsUp(f, S, g), NEW s \in SUBSET S
  PROVE  /\ s = {} => g[s] = 0
         /\ s # {} => g[s] = f[Any(s)] + g[s \ {Any(s)}]
  <1>1. g[s] = IF s = {} THEN 0 ELSE f[Any(s)] + g[s \ {Any(s)}]
    BY Zenon DEF SumsUp
  <1> QED BY <1>1

\* Two tables of sums agree where both have one.
LEMMA SumsAgree ==
  ASSUME NEW f, NEW S, NEW U, IsFiniteSet(S), NEW g, NEW h, SumsUp(f, S, g), SumsUp(f, U, h)
  PROVE  \A s \in SUBSET (S \cap U) : g[s] = h[s]
  <1> DEFINE Bad == {s \in SUBSET (S \cap U) : g[s] # h[s]}
  <1> SUFFICES ASSUME Bad # {} PROVE FALSE
    OBVIOUS
  <1>1. Bad \subseteq SUBSET S
    OBVIOUS
  <1> HIDE DEF Bad
  <1>2. PICK s \in Bad : \A t \in Bad : t \subseteq s => t = s
    BY <1>1, SmallestSet
  <1>3. s \in SUBSET S /\ s \in SUBSET U /\ g[s] # h[s]
    BY DEF Bad
  <1>4. s # {}
    BY <1>3, SumsUpAt
  <1>5. Any(s) \in s
    BY <1>4, AnyIn
  <1>6. g[s \ {Any(s)}] = h[s \ {Any(s)}]
    BY <1>2, <1>3, <1>5 DEF Bad
  <1> QED BY <1>3, <1>4, <1>6, SumsUpAt

\* There is one.
LEMMA SumsExist ==
  ASSUME NEW f, NEW S, IsFiniteSet(S)
  PROVE  \E g : SumsUp(f, S, g)
  <1> DEFINE HasSums(s) == \E g : SumsUp(f, s, g)
             Bad == {s \in SUBSET S : ~HasSums(s)}
  <1> HIDE DEF HasSums
  <1> SUFFICES ASSUME Bad # {} PROVE FALSE
    BY DEF HasSums
  <1>1. Bad \subseteq SUBSET S
    OBVIOUS
  <1>2. PICK s \in Bad : \A t \in Bad : t \subseteq s => t = s
    <2> HIDE DEF Bad
    <2> QED BY <1>1, SmallestSet
  <1>3. s \in SUBSET S /\ ~HasSums(s)
    OBVIOUS
  <1> DEFINE G(t) == CHOOSE g : SumsUp(f, t, g)
             Less(t) == t \ {Any(t)}
             Sum(t) == IF t = {} THEN 0 ELSE f[Any(t)] + G(Less(t))[Less(t)]
             h == [t \in SUBSET s |-> Sum(t)]
  <1>4. ASSUME NEW t, t \subseteq s, t # s
        PROVE  SumsUp(f, t, G(t)) /\ IsFiniteSet(t)
    <2>1. HasSums(t)
      BY <1>2, <1>4
    <2>2. SumsUp(f, t, G(t))
      BY <2>1, Zenon DEF HasSums
    <2> QED BY <1>3, <1>4, <2>2, FS_Subset
  <1> HIDE DEF Bad, G
  <1>5. ASSUME NEW t, t # {}
        PROVE  Less(t) \subseteq t /\ Less(t) # t
    BY <1>5, AnyIn
  <1>6. ASSUME NEW u, u \subseteq s, u # s
        PROVE  G(u)[u] = Sum(u)
    <2>1. SumsUp(f, u, G(u)) /\ IsFiniteSet(u) /\ u \in SUBSET u
      BY <1>4, <1>6
    <2>2. CASE u = {}
      BY <2>1, <2>2, SumsUpAt
    <2>3. CASE u # {}
      <3> DEFINE v == Less(u)
      <3>1. v \subseteq s /\ v # s /\ v \subseteq u
        BY <1>5, <1>6, <2>3
      <3>2. G(u)[u] = f[Any(u)] + G(u)[v]
        BY <2>1, <2>3, SumsUpAt
      <3>3. Sum(u) = f[Any(u)] + G(v)[v]
        BY <2>3
      <3> HIDE DEF v, Sum
      <3>4. SumsUp(f, v, G(v)) /\ v \in SUBSET (u \cap v)
        BY <1>4, <3>1
      <3>5. G(u)[v] = G(v)[v]
        BY <2>1, <3>4, SumsAgree
      <3> QED BY <3>2, <3>3, <3>5
    <2> QED BY <2>2, <2>3
  <1>7. ASSUME NEW t \in SUBSET s
        PROVE  Sum(t) = IF t = {} THEN 0 ELSE f[Any(t)] + h[Less(t)]
    <2>1. CASE t = {}
      BY <2>1
    <2>2. CASE t # {}
      <3>1. Less(t) \subseteq s /\ Less(t) # s
        BY <1>5, <2>2
      <3>2. G(Less(t))[Less(t)] = Sum(Less(t))
        BY <1>6, <3>1
      <3>3. h[Less(t)] = Sum(Less(t))
        BY <3>1
      <3> QED BY <2>2, <3>2, <3>3
    <2> QED BY <2>1, <2>2
  <1>8. SumsUp(f, s, h)
    <2> HIDE DEF Sum
    <2>1. h = [t \in SUBSET s |-> IF t = {} THEN 0 ELSE f[Any(t)] + h[Less(t)]]
      BY <1>7
    <2> QED BY <2>1 DEF SumsUp
  <1>9. HasSums(s)
    <2> HIDE DEF h
    <2> QED BY <1>8 DEF HasSums
  <1> QED BY <1>3, <1>9

\* Sums of integers are integers.
LEMMA SumsAreInt ==
  ASSUME NEW f, NEW S, IsFiniteSet(S), \A x \in S : f[x] \in Int, NEW g, SumsUp(f, S, g)
  PROVE  \A s \in SUBSET S : g[s] \in Int
  <1> DEFINE Bad == {s \in SUBSET S : g[s] \notin Int}
  <1> SUFFICES ASSUME Bad # {} PROVE FALSE
    OBVIOUS
  <1>1. Bad \subseteq SUBSET S
    OBVIOUS
  <1> HIDE DEF Bad
  <1>2. PICK s \in Bad : \A t \in Bad : t \subseteq s => t = s
    BY <1>1, SmallestSet
  <1>3. s \in SUBSET S /\ g[s] \notin Int
    BY DEF Bad
  <1>4. s # {}
    <2>1. s = {} => g[s] = 0
      BY <1>3, SumsUpAt
    <2> QED BY <1>3, <2>1
  <1>5. Any(s) \in s
    BY <1>4, AnyIn
  <1>6. g[s \ {Any(s)}] \in Int /\ f[Any(s)] \in Int
    BY <1>2, <1>3, <1>5 DEF Bad
  <1>7. g[s] = f[Any(s)] + g[s \ {Any(s)}]
    BY <1>3, <1>4, SumsUpAt
  <1> QED BY <1>3, <1>6, <1>7

\* Any element may be the first to be counted.
LEMMA SumsInAnyOrder ==
  ASSUME NEW f, NEW S, IsFiniteSet(S), \A x \in S : f[x] \in Int, NEW g, SumsUp(f, S, g)
  PROVE  \A s \in SUBSET S : \A x \in s : g[s] = f[x] + g[s \ {x}]
  <1> DEFINE Bad == {s \in SUBSET S : \E x \in s : g[s] # f[x] + g[s \ {x}]}
  <1> SUFFICES ASSUME Bad # {} PROVE FALSE
    OBVIOUS
  <1>1. Bad \subseteq SUBSET S
    OBVIOUS
  <1> HIDE DEF Bad
  <1>2. PICK s \in Bad : \A t \in Bad : t \subseteq s => t = s
    BY <1>1, SmallestSet
  <1>3. PICK x \in s : g[s] # f[x] + g[s \ {x}]
    BY DEF Bad
  <1> DEFINE a == Any(s)
  <1>4. s \in SUBSET S /\ a \in s
    BY <1>1, <1>3, AnyIn
  <1>5. g[s] = f[a] + g[s \ {a}]
    BY <1>3, <1>4, SumsUpAt
  <1> HIDE DEF a
  <1>6. x # a
    BY <1>3, <1>5
  <1>7. /\ g[s \ {a}] = f[x] + g[(s \ {a}) \ {x}]
        /\ g[s \ {x}] = f[a] + g[(s \ {x}) \ {a}]
    <2>1. s \ {a} \notin Bad /\ s \ {x} \notin Bad
      BY <1>2, <1>3, <1>4
    <2>2. s \ {a} \in SUBSET S /\ s \ {x} \in SUBSET S /\ x \in s \ {a} /\ a \in s \ {x}
      BY <1>3, <1>4, <1>6
    <2> QED BY <2>1, <2>2 DEF Bad
  <1>8. (s \ {a}) \ {x} = (s \ {x}) \ {a}
    OBVIOUS
  <1>9. f[x] \in Int /\ f[a] \in Int /\ g[(s \ {x}) \ {a}] \in Int
    <2>1. \A t \in SUBSET S : g[t] \in Int
      BY SumsAreInt
    <2>2. (s \ {x}) \ {a} \in SUBSET S /\ x \in S /\ a \in S
      BY <1>3, <1>4
    <2> QED BY <2>1, <2>2
  <1> DEFINE rest == g[(s \ {x}) \ {a}]
  <1>10. g[s] = f[a] + (f[x] + rest) /\ g[s \ {x}] = f[a] + rest
    BY <1>5, <1>7, <1>8
  <1>11. f[a] + (f[x] + rest) = f[x] + (f[a] + rest)
    <2>1. f[x] \in Int /\ f[a] \in Int /\ rest \in Int
      BY <1>9
    <2> HIDE DEF rest
    <2> QED BY <2>1
  <1> QED BY <1>3, <1>10, <1>11
-----------------------------------------------------------------------------
(* Totals. *)

LEMMA TotalSumsUp ==
  ASSUME NEW f, NEW S, IsFiniteSet(S)
  PROVE  SumsUp(f, S, CHOOSE g : SumsUp(f, S, g))
  <1>1. \E g : SumsUp(f, S, g)
    BY SumsExist
  <1> QED BY <1>1, Zenon

\* A table of sums over S, however it is written, has its total.
LEMMA TotalIs ==
  ASSUME NEW f, NEW S, IsFiniteSet(S), NEW g, SumsUp(f, S, g)
  PROVE  g[S] = Total(f, S)
  <1>1. S \in SUBSET (S \cap S) /\ SumsUp(f, S, CHOOSE k : SumsUp(f, S, k))
    BY TotalSumsUp
  <1>2. g[S] = (CHOOSE k : SumsUp(f, S, k))[S]
    BY <1>1, SumsAgree
  <1> QED BY <1>2 DEF Total

LEMMA TotalEmpty == \A f : Total(f, {}) = 0
  <1> TAKE f
  <1>1. IsFiniteSet({})
    BY FS_EmptySet
  <1>2. SumsUp(f, {}, CHOOSE g : SumsUp(f, {}, g)) /\ {} \in SUBSET {}
    BY <1>1, TotalSumsUp
  <1> HIDE DEF SumsUp
  <1> QED BY <1>2, SumsUpAt DEF Total

LEMMA TotalInt ==
  ASSUME NEW f, NEW S, IsFiniteSet(S), \A x \in S : f[x] \in Int
  PROVE  Total(f, S) \in Int
  BY TotalSumsUp, SumsAreInt DEF Total

\* One element more adds its value.
LEMMA TotalAdd ==
  ASSUME NEW f, NEW S, IsFiniteSet(S), NEW x, x \notin S, \A y \in S \cup {x} : f[y] \in Int
  PROVE  Total(f, S \cup {x}) = Total(f, S) + f[x]
  <1> DEFINE U == S \cup {x}
             g == CHOOSE k : SumsUp(f, S, k)
             h == CHOOSE k : SumsUp(f, U, k)
  <1>1. IsFiniteSet(U)
    BY FS_AddElement
  <1>2. SumsUp(f, S, g) /\ SumsUp(f, U, h) /\ Total(f, S) = g[S] /\ Total(f, U) = h[U]
    BY <1>1, TotalSumsUp DEF Total
  <1>3. x \in U /\ U \in SUBSET U /\ U \ {x} = S /\ S \in SUBSET (S \cap U)
    OBVIOUS
  <1>4. \A y \in U : f[y] \in Int
    OBVIOUS
  <1> HIDE DEF U, g, h
  <1>5. h[U] = f[x] + h[S]
    BY <1>1, <1>2, <1>3, <1>4, SumsInAnyOrder
  <1>6. h[S] = g[S] /\ h[S] \in Int /\ f[x] \in Int
    <2>1. \A t \in SUBSET U : h[t] \in Int
      BY <1>1, <1>2, <1>4, SumsAreInt
    <2>2. \A s \in SUBSET (S \cap U) : g[s] = h[s]
      <3>1. SumsUp(f, S, g) /\ SumsUp(f, U, h) /\ IsFiniteSet(S)
        BY <1>2
      <3> QED BY <3>1, SumsAgree
    <2>3. S \in SUBSET U /\ f[x] \in Int
      BY <1>3, <1>4
    <2> QED BY <1>3, <2>1, <2>2, <2>3
  <1> QED BY <1>2, <1>5, <1>6 DEF U

\* Sums of natural numbers are natural numbers.
LEMMA TotalNat ==
  ASSUME NEW f, NEW S, IsFiniteSet(S), \A x \in S : f[x] \in Nat
  PROVE  Total(f, S) \in Nat
  <1> DEFINE Bad == {s \in SUBSET S : Total(f, s) \notin Nat}
  <1> SUFFICES ASSUME Bad # {} PROVE FALSE
    OBVIOUS
  <1>1. Bad \subseteq SUBSET S
    OBVIOUS
  <1> HIDE DEF Bad
  <1>2. PICK s \in Bad : \A t \in Bad : t \subseteq s => t = s
    BY <1>1, SmallestSet
  <1>3. s \in SUBSET S /\ Total(f, s) \notin Nat
    BY DEF Bad
  <1> DEFINE x == Any(s)
             rest == s \ {x}
  <1>4. x \in s
    BY <1>3, TotalEmpty, AnyIn
  <1> HIDE DEF x
  <1>5. Total(f, rest) \in Nat
    BY <1>2, <1>3, <1>4 DEF Bad
  <1>6. IsFiniteSet(rest) /\ x \notin rest /\ s = rest \cup {x}
    BY <1>3, <1>4, FS_Subset
  <1>7. \A y \in rest \cup {x} : f[y] \in Int
    BY <1>3, <1>4
  <1> HIDE DEF rest
  <1>8. Total(f, rest \cup {x}) = Total(f, rest) + f[x]
    BY <1>6, <1>7, TotalAdd
  <1>9. f[x] \in Nat
    BY <1>3, <1>4
  <1> QED BY <1>3, <1>5, <1>6, <1>8, <1>9

\* Only the values of the elements count.
LEMMA TotalSame ==
  ASSUME NEW f, NEW e, NEW S, IsFiniteSet(S), \A x \in S : f[x] = e[x]
  PROVE  Total(f, S) = Total(e, S)
  <1> DEFINE g == CHOOSE k : SumsUp(f, S, k)
             h == CHOOSE k : SumsUp(e, S, k)
  <1>1. SumsUp(f, S, g) /\ SumsUp(e, S, h) /\ Total(f, S) = g[S] /\ Total(e, S) = h[S]
    BY TotalSumsUp DEF Total
  <1> HIDE DEF g, h
  <1>2. SumsUp(f, S, h)
    <2>1. \A s \in SUBSET S : s # {} => f[Any(s)] = e[Any(s)]
      BY AnyIn
    <2> QED BY <1>1, <2>1 DEF SumsUp
  <1> QED BY <1>1, <1>2, SumsAgree
=============================================================================
