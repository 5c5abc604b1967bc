------------------------------ MODULE SumLemmas ------------------------------
(***************************************************************************)
(* Sums over finite sets, as MapThenSumSet of the community modules computes *)
(* them: element by element, in the order CHOOSE picks.  The order does not  *)
(* matter, so a sum grows by an element's weight when the element is added.  *)
(* Weights are functions, and induction is over a set: of subsets here, of   *)
(* prefix lengths in UpToInduction.  Then the order of finitely many integers *)
(* and folds over the positions of a sequence.                               *)
(***************************************************************************)
EXTENDS Integers, FiniteSetsExt, FiniteSetTheorems, WellFoundedInduction, TLAPS

Pick(s) == CHOOSE x \in s : TRUE

\* g is the fold of w over the subsets of S.
IsSum(g, w, S) ==
  g = [s \in SUBSET S |-> IF s = {} THEN 0 ELSE w[Pick(s)] + g[s \ {Pick(s)}]]

\* Two weights agree on a set.
Same(w, v, U) == \A x \in U : w[x] = v[x]

\* The sum of the weights of S.
Total(w, S) == (CHOOSE g : IsSum(g, w, S))[S]

-----------------------------------------------------------------------------
\* Induction over the subsets of a finite set: a set of subsets that contains
\* each subset whose proper subsets it contains holds them all.
LEMMA SubsetInduction ==
  ASSUME NEW S, IsFiniteSet(S), NEW Good,
         \A T \in SUBSET S : (\A U \in SUBSET T : U # T => U \in Good) => T \in Good
  PROVE  SUBSET S \subseteq Good
<1> DEFINE Bad == {T \in SUBSET S : T \notin Good}
           R == StrictSubsetOrdering(S)
<1>1. IsWellFoundedOn(R, SUBSET S)
  BY FS_StrictSubsetOrderingWellFounded, FS_FiniteSubsetsOfFinite
<1>2. SUFFICES ASSUME Bad # {} PROVE FALSE
  OBVIOUS
<1>3. PICK T \in Bad : \A U \in Bad : <<U, T>> \notin R
  <2> HIDE DEF R
  <2>1. Bad \subseteq SUBSET S
    OBVIOUS
  <2> HIDE DEF Bad
  <2> QED
    BY <1>1, <1>2, <2>1, WFMin
<1>4. ASSUME NEW U \in SUBSET T, U # T
      PROVE  U \in Good
  <2>1. <<U, T>> \in R
    BY <1>3, <1>4 DEF StrictSubsetOrdering
  <2> QED
    BY <1>3, <1>4, <2>1
<1> QED
  BY <1>3, <1>4

\* Induction over the numbers up to n, by their initial segments.
LEMMA UpToInduction ==
  ASSUME NEW n \in Nat, NEW Good, 0 \in Good, \A k \in 0..(n - 1) : k \in Good => k + 1 \in Good
  PROVE  0..n \subseteq Good
<1> DEFINE All == 1..n
           H == {T \in SUBSET All : \A k \in 0..n : T = 1..k => k \in Good}
<1>1. ASSUME NEW T \in SUBSET All, \A U \in SUBSET T : U # T => U \in H
      PROVE  T \in H
  <2> SUFFICES ASSUME NEW k \in 0..n, T = 1..k PROVE k \in Good
    OBVIOUS
  <2>1. CASE k = 0
    BY <2>1
  <2>2. CASE k # 0
    <3> DEFINE U == 1..(k - 1)
    <3>1. U \in SUBSET T /\ U # T
      <4>1. k \in T /\ k \notin U /\ \A i \in U : i \in T
        BY <2>2
      <4> QED
        BY <4>1
    <3>2. U \in H
      BY <1>1, <3>1
    <3>3. k - 1 \in 0..n /\ k - 1 \in 0..(n - 1) /\ (k - 1) + 1 = k
      BY <2>2
    <3>4. k - 1 \in Good
      BY <3>2, <3>3
    <3> QED
      BY <3>3, <3>4
  <2> QED
    BY <2>1, <2>2
<1>2. IsFiniteSet(All)
  BY FS_Interval
<1>3. SUBSET All \subseteq H
  <2> HIDE DEF H, All
  <2> QED
    BY <1>1, <1>2, SubsetInduction
<1>4. \A k \in 0..n : 1..k \in SUBSET All
  OBVIOUS
<1> QED
  BY <1>3, <1>4

LEMMA PickIsMember == ASSUME NEW s, s # {} PROVE Pick(s) \in s
BY DEF Pick

LEMMA SumValue ==
  ASSUME NEW g, NEW w, NEW S, IsSum(g, w, S), NEW T \in SUBSET S
  PROVE  g[T] = IF T = {} THEN 0 ELSE w[Pick(T)] + g[T \ {Pick(T)}]
BY DEF IsSum

\* Two folds agree where both are defined, and so do those of weights that agree.
LEMMA SumsAgree ==
  ASSUME NEW g, NEW h, NEW w, NEW v, NEW S, NEW T, NEW U, IsFiniteSet(U),
         IsSum(g, w, S), IsSum(h, v, T), U \subseteq S, U \subseteq T,
         Same(w, v, U)
  PROVE  g[U] = h[U]
<1> DEFINE Good == {V \in SUBSET U : g[V] = h[V]}
<1>1. ASSUME NEW V \in SUBSET U, \A W \in SUBSET V : W # V => W \in Good
      PROVE  V \in Good
  <2>1. CASE V = {}
    <3>1. V \in SUBSET S /\ V \in SUBSET T
      OBVIOUS
    <3>2. g[V] = 0
      BY <2>1, <3>1, SumValue
    <3>3. h[V] = 0
      BY <2>1, <3>1, SumValue
    <3> QED
      BY <3>2, <3>3
  <2>2. CASE V # {}
    <3>1. Pick(V) \in V
      BY <2>2, PickIsMember
    <3>2. g[V \ {Pick(V)}] = h[V \ {Pick(V)}]
      BY <1>1, <3>1
    <3>3. V \in SUBSET S /\ V \in SUBSET T
      OBVIOUS
    <3>4. g[V] = w[Pick(V)] + g[V \ {Pick(V)}]
      BY <2>2, <3>3 DEF IsSum
    <3>5. h[V] = v[Pick(V)] + h[V \ {Pick(V)}]
      BY <2>2, <3>3 DEF IsSum
    <3> QED
      BY <3>1, <3>2, <3>4, <3>5 DEF Same
  <2> QED
    BY <2>1, <2>2
<1>2. SUBSET U \subseteq Good
  <2> HIDE DEF Good
  <2> QED
    BY <1>1, SubsetInduction
<1> QED
  BY <1>2

\* The fold exists: the recursion of MapThenFoldSet ends on a finite set.
LEMMA SumExists ==
  ASSUME NEW w, NEW S, IsFiniteSet(S)
  PROVE  \E g : IsSum(g, w, S)
<1> DEFINE Good == {T \in SUBSET S : \E g : IsSum(g, w, T)}
<1>1. ASSUME NEW T \in SUBSET S, \A U \in SUBSET T : U # T => U \in Good
      PROVE  T \in Good
  <2> DEFINE next(s) == s \ {Pick(s)}
             h == [s \in SUBSET T |->
                     IF s # T THEN Total(w, s)
                     ELSE IF T = {} THEN 0 ELSE w[Pick(T)] + Total(w, next(T))]
  <2>1. \A U \in SUBSET T : U # T => IsSum(CHOOSE g : IsSum(g, w, U), w, U)
    BY <1>1
  <2>2. ASSUME NEW s \in SUBSET T, s # T
        PROVE  Total(w, s) = IF s = {} THEN 0 ELSE w[Pick(s)] + Total(w, next(s))
    <3>1. CASE s = {}
      BY <2>1, <2>2, <3>1, SumValue DEF Total
    <3>2. CASE s # {}
      <4> DEFINE a == CHOOSE g : IsSum(g, w, s)
                 b == CHOOSE g : IsSum(g, w, next(s))
      <4>1. Pick(s) \in s /\ next(s) \subseteq s /\ next(s) # T /\ next(s) \in SUBSET T
        BY <2>2, <3>2, PickIsMember
      <4>2. IsSum(a, w, s) /\ IsSum(b, w, next(s))
        BY <2>1, <2>2, <4>1
      <4>3. IsFiniteSet(next(s))
        BY <4>1, FS_Subset
      <4> HIDE DEF a, b
      <4>4. a[next(s)] = b[next(s)]
        BY <4>1, <4>2, <4>3, SumsAgree DEF Same
      <4>5. a[s] = w[Pick(s)] + a[next(s)]
        BY <3>2, <4>2, SumValue
      <4> QED
        BY <3>2, <4>4, <4>5 DEF Total, a, b
    <3> QED
      BY <3>1, <3>2
  <2>3. \A s \in SUBSET T : h[s] = IF s = {} THEN 0 ELSE w[Pick(s)] + h[next(s)]
    <3> SUFFICES ASSUME NEW s \in SUBSET T
                 PROVE  h[s] = IF s = {} THEN 0 ELSE w[Pick(s)] + h[next(s)]
      OBVIOUS
    <3>1. s # {} => Pick(s) \in s /\ next(s) \in SUBSET T /\ next(s) # T
      BY PickIsMember
    <3>2. CASE s # T
      BY <2>2, <3>1, <3>2
    <3>3. CASE s = T
      BY <3>1, <3>3
    <3> QED
      BY <3>2, <3>3
  <2>4. IsSum(h, w, T)
    <3>1. h = [s \in SUBSET T |-> h[s]]
      OBVIOUS
    <3> HIDE DEF h
    <3> QED
      BY <2>3, <3>1 DEF IsSum
  <2> QED
    BY <2>4
<1>2. SUBSET S \subseteq Good
  <2> HIDE DEF Good
  <2> QED
    BY <1>1, SubsetInduction
<1> QED
  BY <1>2

-----------------------------------------------------------------------------
LEMMA TotalIsSum ==
  ASSUME NEW w, NEW S, IsFiniteSet(S)
  PROVE  IsSum(CHOOSE g : IsSum(g, w, S), w, S)
BY SumExists

LEMMA TotalOf ==
  ASSUME NEW g, NEW w, NEW v, NEW S, NEW T \in SUBSET S, IsFiniteSet(T), IsSum(g, w, S),
         Same(w, v, T)
  PROVE  g[T] = Total(v, T)
<1> DEFINE h == CHOOSE f : IsSum(f, v, T)
<1>1. IsSum(h, v, T)
  BY SumExists
<1> HIDE DEF h
<1>2. g[T] = h[T]
  <2>1. T \subseteq S /\ T \subseteq T
    OBVIOUS
  <2> QED
    BY <1>1, <2>1, SumsAgree
<1> QED
  BY <1>2 DEF h, Total

LEMMA TotalOfNothing == \A w : Total(w, {}) = 0
BY FS_EmptySet, TotalIsSum, SumValue DEF Total

LEMMA TotalStep ==
  ASSUME NEW w, NEW S, IsFiniteSet(S), S # {}
  PROVE  Total(w, S) = w[Pick(S)] + Total(w, S \ {Pick(S)})
<1> DEFINE g == CHOOSE f : IsSum(f, w, S)
           rest == S \ {Pick(S)}
<1>1. IsSum(g, w, S)
  BY SumExists
<1>2. rest \subseteq S /\ IsFiniteSet(rest)
  BY FS_Subset
<1> HIDE DEF g
<1>3. g[rest] = Total(w, rest)
  BY <1>1, <1>2, TotalOf DEF Same
<1>4. g[S] = w[Pick(S)] + g[rest]
  BY <1>1, SumValue
<1> QED
  BY <1>3, <1>4 DEF g, Total

\* A sum of whole numbers is one, and one of natural numbers is natural.
LEMMA TotalType ==
  ASSUME NEW w, NEW S, IsFiniteSet(S)
  PROVE  /\ (\A x \in S : w[x] \in Int) => Total(w, S) \in Int
         /\ (\A x \in S : w[x] \in Nat) => Total(w, S) \in Nat
<1> DEFINE Good == {T \in SUBSET S : /\ (\A x \in T : w[x] \in Int) => Total(w, T) \in Int
                                     /\ (\A x \in T : w[x] \in Nat) => Total(w, T) \in Nat}
<1>1. ASSUME NEW T \in SUBSET S, \A U \in SUBSET T : U # T => U \in Good
      PROVE  T \in Good
  <2>1. CASE T = {}
    BY <2>1, TotalOfNothing
  <2>2. CASE T # {}
    <3>1. Pick(T) \in T /\ T \ {Pick(T)} \in Good /\ IsFiniteSet(T)
      BY <1>1, <2>2, PickIsMember, FS_Subset
    <3>2. Total(w, T) = w[Pick(T)] + Total(w, T \ {Pick(T)})
      BY <2>2, <3>1, TotalStep
    <3> QED
      BY <3>1, <3>2
  <2> QED
    BY <2>1, <2>2
<1>2. SUBSET S \subseteq Good
  <2> HIDE DEF Good
  <2> QED
    BY <1>1, SubsetInduction
<1> QED
  BY <1>2

\* The order does not matter: any element can be taken out first.
LEMMA TotalRemove ==
  ASSUME NEW w, NEW S, IsFiniteSet(S), \A x \in S : w[x] \in Int, NEW y \in S
  PROVE  Total(w, S) = w[y] + Total(w, S \ {y})
<1> DEFINE Good == {T \in SUBSET S : \A x \in T : Total(w, T) = w[x] + Total(w, T \ {x})}
<1>1. ASSUME NEW T \in SUBSET S, \A U \in SUBSET T : U # T => U \in Good
      PROVE  T \in Good
  <2> SUFFICES ASSUME NEW x \in T
               PROVE  Total(w, T) = w[x] + Total(w, T \ {x})
    OBVIOUS
  <2> DEFINE p == Pick(T)
  <2>1. p \in T /\ IsFiniteSet(T)
    BY PickIsMember, FS_Subset
  <2>2. Total(w, T) = w[p] + Total(w, T \ {p})
    BY <2>1, TotalStep
  <2> HIDE DEF p
  <2>3. CASE x = p
    BY <2>2, <2>3
  <2>4. CASE x # p
    <3>1. T \ {x} \in Good /\ T \ {p} \in Good
      BY <1>1, <2>1
    <3>2. Total(w, T \ {p}) = w[x] + Total(w, (T \ {p}) \ {x})
      BY <2>4, <3>1
    <3>3. Total(w, T \ {x}) = w[p] + Total(w, (T \ {x}) \ {p})
      BY <2>1, <2>4, <3>1
    <3>4. (T \ {p}) \ {x} = (T \ {x}) \ {p}
      OBVIOUS
    <3>5. Total(w, (T \ {x}) \ {p}) \in Int /\ w[x] \in Int /\ w[p] \in Int
      BY <2>1, TotalType, FS_Subset
    <3> DEFINE both == Total(w, (T \ {x}) \ {p})
    <3>6. Total(w, T) = w[p] + (w[x] + both) /\ Total(w, T \ {x}) = w[p] + both
      BY <2>2, <3>2, <3>3, <3>4
    <3> HIDE DEF Good, both
    <3> QED
      BY <3>5, <3>6 DEF both
  <2> QED
    BY <2>3, <2>4
<1>2. SUBSET S \subseteq Good
  <2> HIDE DEF Good
  <2> QED
    BY <1>1, SubsetInduction
<1> QED
  BY <1>2

LEMMA TotalInsert ==
  ASSUME NEW w, NEW S, IsFiniteSet(S), NEW y, y \notin S, \A x \in S \cup {y} : w[x] \in Int
  PROVE  Total(w, S \cup {y}) = w[y] + Total(w, S)
<1>1. IsFiniteSet(S \cup {y}) /\ (S \cup {y}) \ {y} = S
  BY FS_AddElement
<1> QED
  BY <1>1, TotalRemove

\* A smaller set of natural weights has no larger sum.
LEMMA TotalOfSubset ==
  ASSUME NEW w, NEW S, IsFiniteSet(S), \A x \in S : w[x] \in Nat, NEW T \in SUBSET S
  PROVE  Total(w, T) <= Total(w, S)
<1> DEFINE Good == {V \in SUBSET (S \ T) : Total(w, T) <= Total(w, T \cup V)}
<1>1. ASSUME NEW V \in SUBSET (S \ T), \A U \in SUBSET V : U # V => U \in Good
      PROVE  V \in Good
  <2>1. CASE V = {}
    <3>1. T \cup V = T /\ IsFiniteSet(T)
      BY <2>1, FS_Subset
    <3> QED
      BY <3>1, TotalType
  <2>2. CASE V # {}
    <3> DEFINE p == Pick(V)
    <3>1. p \in V
      BY <2>2, PickIsMember
    <3> HIDE DEF p
    <3>2. /\ T \cup (V \ {p}) \in SUBSET S /\ p \notin T \cup (V \ {p})
          /\ T \cup V = (T \cup (V \ {p})) \cup {p} /\ p \in S
      BY <3>1
    <3>3. IsFiniteSet(T \cup (V \ {p})) /\ IsFiniteSet(T)
      BY <3>2, FS_Subset
    <3>4. Total(w, T \cup V) = w[p] + Total(w, T \cup (V \ {p}))
      BY <3>2, <3>3, TotalInsert
    <3>5. Total(w, T) <= Total(w, T \cup (V \ {p}))
      BY <1>1, <3>1
    <3>6. Total(w, T) \in Nat /\ Total(w, T \cup (V \ {p})) \in Nat
      BY <3>2, <3>3, TotalType
    <3> HIDE DEF Good
    <3>7. Total(w, T) <= Total(w, T \cup V)
      BY <3>2, <3>4, <3>5, <3>6
    <3> QED
      BY <3>7 DEF Good
  <2> QED
    BY <2>1, <2>2
<1>2. S \ T \in Good
  <2> DEFINE rest == S \ T
  <2>1. IsFiniteSet(rest)
    BY FS_Subset
  <2>2. \A V \in SUBSET rest : (\A U \in SUBSET V : U # V => U \in Good) => V \in Good
    BY <1>1
  <2> HIDE DEF Good, rest
  <2>3. SUBSET rest \subseteq Good
    BY <2>1, <2>2, SubsetInduction
  <2> QED
    BY <2>3 DEF rest
<1>3. T \cup (S \ T) = S
  OBVIOUS
<1> QED
  BY <1>2, <1>3

\* Larger weights have no smaller sum.
LEMMA TotalOfLarger ==
  ASSUME NEW w, NEW v, NEW S, IsFiniteSet(S),
         \A x \in S : w[x] \in Int /\ v[x] \in Int /\ w[x] <= v[x]
  PROVE  Total(w, S) <= Total(v, S)
<1> DEFINE Good == {T \in SUBSET S : Total(w, T) <= Total(v, T)}
<1>1. ASSUME NEW T \in SUBSET S, \A U \in SUBSET T : U # T => U \in Good
      PROVE  T \in Good
  <2>1. CASE T = {}
    BY <2>1, TotalOfNothing
  <2>2. CASE T # {}
    <3> DEFINE p == Pick(T)
    <3>1. p \in T /\ T \ {p} \in Good /\ IsFiniteSet(T) /\ IsFiniteSet(T \ {p})
      BY <1>1, <2>2, PickIsMember, FS_Subset
    <3>2. Total(w, T) = w[p] + Total(w, T \ {p}) /\ Total(v, T) = v[p] + Total(v, T \ {p})
      BY <2>2, <3>1, TotalStep
    <3>3. Total(w, T \ {p}) \in Int /\ Total(v, T \ {p}) \in Int
      BY <3>1, TotalType
    <3>4. Total(w, T \ {p}) <= Total(v, T \ {p})
      BY <3>1
    <3> HIDE DEF Good, p
    <3>5. Total(w, T) <= Total(v, T)
      BY <3>1, <3>2, <3>3, <3>4
    <3> QED
      BY <3>5 DEF Good
  <2> QED
    BY <2>1, <2>2
<1>2. SUBSET S \subseteq Good
  <2> HIDE DEF Good
  <2> QED
    BY <1>1, SubsetInduction
<1> QED
  BY <1>2

\* Sums of disjoint sets add up.
LEMMA TotalOfUnion ==
  ASSUME NEW w, NEW S, NEW T, IsFiniteSet(S), IsFiniteSet(T), S \cap T = {},
         \A x \in S \cup T : w[x] \in Int
  PROVE  Total(w, S \cup T) = Total(w, S) + Total(w, T)
<1> DEFINE Good == {V \in SUBSET T : Total(w, S \cup V) = Total(w, S) + Total(w, V)}
<1>1. ASSUME NEW V \in SUBSET T, \A U \in SUBSET V : U # V => U \in Good
      PROVE  V \in Good
  <2>1. CASE V = {}
    <3>1. S \cup V = S /\ Total(w, S) \in Int
      BY <2>1, TotalType
    <3> QED
      BY <2>1, <3>1, TotalOfNothing
  <2>2. CASE V # {}
    <3> DEFINE p == Pick(V)
               rest == V \ {p}
    <3>1. p \in V /\ IsFiniteSet(V) /\ IsFiniteSet(rest) /\ rest \in Good
      BY <1>1, <2>2, PickIsMember, FS_Subset
    <3>2. Total(w, V) = w[p] + Total(w, rest)
      BY <2>2, <3>1, TotalStep
    <3>3. p \notin S \cup rest /\ S \cup V = (S \cup rest) \cup {p} /\ IsFiniteSet(S \cup rest)
      BY <3>1, FS_Union
    <3>4. Total(w, S \cup V) = w[p] + Total(w, S \cup rest)
      <4> HIDE DEF p, rest
      <4>1. \A x \in (S \cup rest) \cup {p} : w[x] \in Int
        BY <3>1 DEF rest
      <4> QED
        BY <3>3, <4>1, TotalInsert
    <3>5. Total(w, S) \in Int /\ Total(w, rest) \in Int /\ w[p] \in Int
      BY <3>1, TotalType
    <3>6. Total(w, S \cup rest) = Total(w, S) + Total(w, rest)
      BY <3>1
    <3> HIDE DEF p, rest, Good
    <3>7. Total(w, S \cup V) = Total(w, S) + Total(w, V)
      BY <3>2, <3>4, <3>5, <3>6
    <3> QED
      BY <3>7 DEF Good
  <2> QED
    BY <2>1, <2>2
<1>2. SUBSET T \subseteq Good
  <2> HIDE DEF Good
  <2> QED
    BY <1>1, SubsetInduction
<1> QED
  BY <1>2

\* A set with one more member.
LEMMA OneMore ==
  ASSUME NEW S, IsFiniteSet(S), NEW x
  PROVE  /\ IsFiniteSet(S \cup {x}) /\ Cardinality(S) \in Nat /\ Cardinality(S \cup {x}) \in Nat
         /\ Cardinality(S \cup {x}) <= Cardinality(S) + 1
<1>1. Cardinality(S) \in Nat
  BY FS_CardinalityType
<1>2. CASE x \in S
  <2> DEFINE T == S \cup {x}
  <2>1. T = S
    BY <1>2
  <2> HIDE DEF T
  <2>2. IsFiniteSet(T) /\ Cardinality(T) \in Nat /\ Cardinality(T) <= Cardinality(S) + 1
    BY <1>1, <2>1
  <2> QED
    BY <1>1, <2>2 DEF T
<1>3. CASE x \notin S
  <2>1. IsFiniteSet(S \cup {x}) /\ Cardinality(S \cup {x}) = Cardinality(S) + 1
    BY <1>3, FS_AddElement
  <2> QED
    BY <1>1, <2>1
<1> QED
  BY <1>2, <1>3

\* The least and the greatest of finitely many integers.
LEMMA Extremes ==
  ASSUME NEW S, IsFiniteSet(S), S # {}, S \subseteq Int
  PROVE  /\ Max(S) \in S /\ \A x \in S : x <= Max(S)
         /\ Min(S) \in S /\ \A x \in S : Min(S) <= x
<1> DEFINE Top(T) == \E m \in T : \A x \in T : m >= x
           Low(T) == \E m \in T : \A x \in T : m <= x
           Good == {T \in SUBSET S : T # {} => Top(T) /\ Low(T)}
<1>1. ASSUME NEW T \in SUBSET S, \A U \in SUBSET T : U # T => U \in Good
      PROVE  T \in Good
  <2> SUFFICES ASSUME T # {} PROVE Top(T) /\ Low(T)
    OBVIOUS
  <2>1. PICK y \in T : TRUE
    OBVIOUS
  <2> DEFINE U == T \ {y}
  <2>2. U \in Good
    BY <1>1
  <2>3. CASE U = {}
    BY <2>1, <2>3
  <2>4. CASE U # {}
    <3>1. PICK m \in U : \A x \in U : m >= x
      BY <2>2, <2>4
    <3>2. PICK k \in U : \A x \in U : k <= x
      BY <2>2, <2>4
    <3>3. m \in Int /\ k \in Int /\ y \in Int /\ m \in T /\ k \in T /\ \A x \in T : x \in U \/ x = y
      OBVIOUS
    <3>4. Top(T)
      <4>1. CASE m >= y
        BY <3>1, <3>3, <4>1
      <4>2. CASE ~(m >= y)
        <5>1. \A x \in T : y >= x
          BY <3>1, <3>3, <4>2
        <5> QED
          BY <5>1
      <4> QED
        BY <4>1, <4>2
    <3>5. Low(T)
      <4>1. CASE k <= y
        BY <3>2, <3>3, <4>1
      <4>2. CASE ~(k <= y)
        <5>1. \A x \in T : y <= x
          BY <3>2, <3>3, <4>2
        <5> QED
          BY <5>1
      <4> QED
        BY <4>1, <4>2
    <3> QED
      BY <3>4, <3>5
  <2> QED
    BY <2>3, <2>4
<1>2. S \in Good
  <2> HIDE DEF Good
  <2>1. SUBSET S \subseteq Good
    BY <1>1, SubsetInduction
  <2> QED
    BY <2>1
<1>3. (\E m \in S : \A x \in S : m >= x) /\ (\E m \in S : \A x \in S : m <= x)
  BY <1>2
<1>4. Max(S) \in S /\ \A x \in S : x <= Max(S)
  BY <1>3 DEF Max
<1>5. Min(S) \in S /\ \A x \in S : Min(S) <= x
  BY <1>3 DEF Min
<1> QED
  BY <1>4, <1>5

-----------------------------------------------------------------------------
\* How many members of S lie before e.
Sooner(S, e) == {x \in S : x < e}
Rank(S, e) == Cardinality(Sooner(S, e))

LEMMA RankType ==
  ASSUME NEW S, IsFiniteSet(S), NEW e \in S
  PROVE  IsFiniteSet(Sooner(S, e)) /\ Rank(S, e) \in Nat
  BY FS_Subset, FS_CardinalityType DEF Rank, Sooner

LEMMA RankGrows ==
  ASSUME NEW S \in SUBSET Int, IsFiniteSet(S), NEW e \in S, NEW f \in S, e < f
  PROVE  Rank(S, e) < Rank(S, f)
<1>1. Sooner(S, e) \subseteq Sooner(S, f) /\ e \in Sooner(S, f) /\ e \notin Sooner(S, e)
  <2>1. \A x \in S : x \in Int
    OBVIOUS
  <2>2. \A x \in S : x < e => x < f
    BY <2>1
  <2>3. ~(e < e)
    BY <2>1
  <2> QED
    BY <2>2, <2>3 DEF Sooner
<1>2. /\ Cardinality(Sooner(S, e)) <= Cardinality(Sooner(S, f))
      /\ Cardinality(Sooner(S, f)) # Cardinality(Sooner(S, e))
  BY <1>1, RankType, FS_Subset
<1> QED
  BY <1>2, RankType DEF Rank

\* The ranks of a finite set are the numbers below its size.
LEMMA RankExists ==
  ASSUME NEW S \in SUBSET Int, IsFiniteSet(S), NEW i \in 1 .. Cardinality(S)
  PROVE  \E e \in S : Rank(S, e) = i - 1
<1> DEFINE n == Cardinality(S)
           T == 0 .. n - 1
           f == [e \in S |-> Rank(S, e)]
<1>1. n \in Nat
  BY FS_CardinalityType
<1>2. ASSUME NEW e \in S PROVE Rank(S, e) \in T
  <2>1. Sooner(S, e) \in SUBSET S /\ Sooner(S, e) # S
    BY DEF Sooner
  <2>2. Cardinality(Sooner(S, e)) <= n /\ n # Cardinality(Sooner(S, e))
    BY <2>1, FS_Subset
  <2> QED
    BY <1>1, <2>2, RankType DEF Rank
<1>3. \A e, g \in S : Rank(S, e) = Rank(S, g) => e = g
  <2> SUFFICES ASSUME NEW e \in S, NEW g \in S, Rank(S, e) = Rank(S, g), e # g PROVE FALSE
    OBVIOUS
  <2>1. e < g \/ g < e
    OBVIOUS
  <2> QED
    BY <2>1, RankGrows, RankType
<1>4. f \in Injection(S, T)
  BY <1>2, <1>3 DEF Injection, IsInjective
<1>5. IsFiniteSet(T) /\ Cardinality(T) = n
  <2> HIDE DEF n
  <2> QED
    BY <1>1, FS_Interval
<1> HIDE DEF T, f
<1>6. f \in Surjection(S, T)
  BY <1>4, <1>5, FS_Injection
<1>7. i - 1 \in T
  BY <1>1 DEF T
<1>8. PICK e \in S : f[e] = i - 1
  BY <1>6, <1>7 DEF Surjection
<1> QED
  BY <1>8 DEF f

\* The middle of finitely many integers, or any other place in their order: some
\* index has at most k below it and more than k up to it.
InPlace(S, g, k, i) == /\ Cardinality({j \in S : g[j] < g[i]}) <= k
                       /\ k < Cardinality({j \in S : g[j] <= g[i]})

LEMMA PlaceExists ==
  ASSUME NEW S, IsFiniteSet(S), NEW g, \A i \in S : g[i] \in Int, NEW k \in Nat, k < Cardinality(S)
  PROVE  \E i \in S : InPlace(S, g, k, i)
<1> DEFINE lt(i) == {j \in S : g[j] < g[i]}
           le(i) == {j \in S : g[j] <= g[i]}
           A == {i \in S : k < Cardinality(le(i))}
           V == {g[i] : i \in A}
           W == {g[i] : i \in S}
<1>1. \A i \in S : /\ IsFiniteSet(lt(i)) /\ Cardinality(lt(i)) \in Nat
                   /\ IsFiniteSet(le(i)) /\ Cardinality(le(i)) \in Nat
  <2> SUFFICES ASSUME NEW i \in S PROVE /\ IsFiniteSet(lt(i)) /\ Cardinality(lt(i)) \in Nat
                                        /\ IsFiniteSet(le(i)) /\ Cardinality(le(i)) \in Nat
    OBVIOUS
  <2>1. lt(i) \in SUBSET S /\ le(i) \in SUBSET S
    OBVIOUS
  <2> HIDE DEF lt, le
  <2> QED
    BY <2>1, FS_Subset, FS_CardinalityType
<1>2. S # {}
  <2>1. Cardinality(S) # 0
    BY FS_CardinalityType
  <2> QED
    BY <2>1, FS_EmptySet
<1>3. \A T \in SUBSET S : IsFiniteSet({g[i] : i \in T}) /\ {g[i] : i \in T} \subseteq Int
  <2> SUFFICES ASSUME NEW T \in SUBSET S PROVE IsFiniteSet({g[i] : i \in T}) /\ {g[i] : i \in T} \subseteq Int
    OBVIOUS
  <2> DEFINE f == [i \in T |-> g[i]]
             R == {g[i] : i \in T}
  <2>1. IsFiniteSet(T)
    BY FS_Subset
  <2>2. f \in Surjection(T, R)
    BY DEF Surjection
  <2> HIDE DEF f, R
  <2>3. IsFiniteSet(R)
    BY <2>1, <2>2, FS_Surjection
  <2> QED
    BY <2>3 DEF R
<1>4. A # {}
  <2>1. IsFiniteSet(W) /\ W \subseteq Int /\ W # {}
    BY <1>2, <1>3
  <2>2. PICK m \in S : \A j \in S : g[j] <= g[m]
    <3> HIDE DEF W
    <3>1. Max(W) \in W /\ \A x \in W : x <= Max(W)
      BY <2>1, Extremes
    <3> QED
      BY <3>1 DEF W
  <2>3. le(m) = S
    BY <2>2
  <2> HIDE DEF le
  <2>4. m \in A
    BY <2>3
  <2> QED
    BY <2>4
<1>5. PICK i \in A : \A j \in A : g[i] <= g[j]
  <2>1. A \in SUBSET S
    OBVIOUS
  <2> HIDE DEF A
  <2>2. IsFiniteSet(V) /\ V \subseteq Int /\ V # {}
    BY <1>3, <1>4, <2>1
  <2> HIDE DEF V
  <2>3. Min(V) \in V /\ \A x \in V : Min(V) <= x
    BY <2>2, Extremes
  <2> QED
    BY <2>3 DEF V
<1>6. i \in S /\ k < Cardinality(le(i))
  BY <1>5
<1>7. Cardinality(lt(i)) <= k
  <2> SUFFICES ASSUME ~(Cardinality(lt(i)) <= k) PROVE FALSE
    OBVIOUS
  <2>0. k < Cardinality(lt(i))
    BY <1>1, <1>6
  <2>1. lt(i) # {}
    <3> HIDE DEF lt
    <3>1. Cardinality(lt(i)) # 0
      BY <1>1, <1>6, <2>0
    <3> QED
      BY <3>1, FS_EmptySet
  <2> DEFINE U == {g[j] : j \in lt(i)}
  <2>2. IsFiniteSet(U) /\ U \subseteq Int /\ U # {}
    <3>1. lt(i) \in SUBSET S
      OBVIOUS
    <3> HIDE DEF lt
    <3> QED
      BY <1>3, <2>1, <3>1
  <2>3. PICK m \in lt(i) : \A j \in lt(i) : g[j] <= g[m]
    <3> HIDE DEF U, lt
    <3>1. Max(U) \in U /\ \A x \in U : x <= Max(U)
      BY <2>2, Extremes
    <3> QED
      BY <3>1 DEF U
  <2>4. m \in S /\ g[m] < g[i] /\ g[m] \in Int /\ g[i] \in Int
    BY <1>6, <2>3
  <2>5. le(m) = lt(i)
    <3>1. \A j \in S : g[j] <= g[m] => g[j] < g[i]
      BY <2>4
    <3>2. \A j \in S : g[j] < g[i] => g[j] <= g[m]
      BY <2>3
    <3> QED
      BY <3>1, <3>2
  <2>6. m \in A
    BY <2>0, <2>4, <2>5
  <2>7. g[i] <= g[m]
    BY <1>5, <2>6
  <2> QED
    BY <2>4, <2>7
<1> QED
  BY <1>6, <1>7 DEF InPlace

-----------------------------------------------------------------------------
\* Folds over the subsets of D that take the greatest element last, as FoldLeft does
\* over the positions of a sequence; F is the step, T the type of what is folded.
IsFold(g, F, base, D) ==
  g = [s \in SUBSET D |-> IF s = {} THEN base ELSE F[<<g[s \ {Max(s)}], Max(s)>>]]

LEMMA FoldExists ==
  ASSUME NEW D, IsFiniteSet(D), D \subseteq Int, NEW T, NEW base \in T, NEW F,
         \A t \in T, i \in D : F[<<t, i>>] \in T
  PROVE  \E g : IsFold(g, F, base, D) /\ \A s \in SUBSET D : g[s] \in T
<1> DEFINE Step(g, u) == IF u = {} THEN base ELSE F[<<g[u \ {Max(u)}], Max(u)>>]
           Fine(g, s) == \A u \in SUBSET s : g[u] = Step(g, u) /\ g[u] \in T
           Good == {s \in SUBSET D : \E g : Fine(g, s)}
<1>1. ASSUME NEW s \in SUBSET D, \A u \in SUBSET s : u # s => u \in Good
      PROVE  s \in Good
  <2>1. CASE s = {}
    <3> DEFINE g == [u \in {{}} |-> base]
    <3>1. \A u \in SUBSET s : u = {}
      BY <2>1
    <3>2. g[{}] = base
      OBVIOUS
    <3> HIDE DEF g
    <3>3. Fine(g, s)
      BY <3>1, <3>2
    <3> QED
      BY <3>3
  <2>2. CASE s # {}
    <3> DEFINE m == Max(s)
               r == s \ {m}
    <3>1. \A u \in SUBSET s : u # {} => Max(u) \in u /\ \A x \in u : x <= Max(u)
      <4> SUFFICES ASSUME NEW u \in SUBSET s, u # {} PROVE Max(u) \in u /\ \A x \in u : x <= Max(u)
        OBVIOUS
      <4>1. IsFiniteSet(u) /\ u \subseteq Int
        BY FS_Subset
      <4> QED
        BY <4>1, Extremes
    <3>2. m \in s /\ \A x \in s : x <= m
      BY <2>2, <3>1
    <3>3. \A x \in s : x \in Int
      OBVIOUS
    <3>4. \A u \in SUBSET s : m \in u => Max(u) = m
      <4> SUFFICES ASSUME NEW u \in SUBSET s, m \in u PROVE Max(u) = m
        OBVIOUS
      <4> HIDE DEF m
      <4>1. Max(u) \in u /\ m <= Max(u)
        BY <3>1
      <4>2. Max(u) \in s /\ Max(u) <= m /\ m \in Int /\ Max(u) \in Int
        BY <3>2, <3>3, <4>1
      <4> QED
        BY <4>1, <4>2
    <3>5. r \in SUBSET s /\ r # s
      BY <3>2
    <3>6. PICK g : Fine(g, r)
      BY <1>1, <3>5
    <3> HIDE DEF r
    <3> DEFINE h == [u \in SUBSET s |-> IF m \in u THEN F[<<g[u \ {m}], m>>] ELSE g[u]]
    <3>7. \A u \in SUBSET s : /\ m \in u => h[u] = F[<<g[u \ {m}], m>>] /\ u \ {m} \in SUBSET r
                              /\ m \notin u => h[u] = g[u] /\ u \in SUBSET r
      BY DEF r
    <3> HIDE DEF h
    <3>8. \A u \in SUBSET s : m \in u => h[u] = F[<<h[u \ {m}], m>>] /\ h[u] \in T
      <4> SUFFICES ASSUME NEW u \in SUBSET s, m \in u PROVE h[u] = F[<<h[u \ {m}], m>>] /\ h[u] \in T
        OBVIOUS
      <4>1. u \ {m} \in SUBSET s /\ m \notin u \ {m}
        OBVIOUS
      <4>2. h[u \ {m}] = g[u \ {m}] /\ u \ {m} \in SUBSET r /\ g[u \ {m}] \in T
        BY <3>6, <3>7, <4>1
      <4>3. m \in D
        BY <3>2
      <4> HIDE DEF m
      <4> QED
        BY <3>7, <4>2, <4>3
    <3>9. \A u \in SUBSET s : m \notin u => h[u] = Step(h, u) /\ h[u] \in T
      <4> SUFFICES ASSUME NEW u \in SUBSET s, m \notin u PROVE h[u] = Step(h, u) /\ h[u] \in T
        OBVIOUS
      <4>1. u \in SUBSET r /\ h[u] = g[u]
        BY <3>7
      <4>2. g[u] = Step(g, u) /\ g[u] \in T
        BY <3>6, <4>1
      <4> DEFINE v == u \ {Max(u)}
      <4>3. v \in SUBSET s /\ m \notin v
        OBVIOUS
      <4> HIDE DEF v, m
      <4>4. h[v] = g[v]
        BY <3>7, <4>3
      <4> QED
        BY <4>1, <4>2, <4>4 DEF v
    <3>10. Fine(h, s)
      <4> SUFFICES ASSUME NEW u \in SUBSET s PROVE h[u] = Step(h, u) /\ h[u] \in T
        OBVIOUS
      <4>1. CASE m \in u
        <5>1. u # {} /\ Max(u) = m
          BY <3>4, <4>1
        <5> HIDE DEF m
        <5> QED
          BY <3>8, <4>1, <5>1
      <4>2. CASE m \notin u
        BY <3>9, <4>2
      <4> QED
        BY <4>1, <4>2
    <3> QED
      BY <3>10
  <2> QED
    BY <2>1, <2>2
<1>2. D \in Good
  <2> HIDE DEF Good
  <2>1. SUBSET D \subseteq Good
    BY <1>1, SubsetInduction
  <2> QED
    BY <2>1
<1>3. PICK g : Fine(g, D)
  BY <1>2
<1> DEFINE h == [s \in SUBSET D |-> g[s]]
<1>4. \A s \in SUBSET D : h[s] = g[s]
  OBVIOUS
<1>5. \A s \in SUBSET D : h[s] = Step(h, s) /\ h[s] \in T
  <2> SUFFICES ASSUME NEW s \in SUBSET D PROVE h[s] = Step(h, s) /\ h[s] \in T
    OBVIOUS
  <2> DEFINE v == s \ {Max(s)}
  <2>1. v \in SUBSET D
    OBVIOUS
  <2> HIDE DEF h, v
  <2>2. h[v] = g[v] /\ h[s] = g[s] /\ g[s] = Step(g, s) /\ g[s] \in T
    BY <1>3, <1>4, <2>1
  <2> QED
    BY <2>2 DEF v
<1>6. h = [s \in SUBSET D |-> Step(h, s)]
  <2>1. h = [s \in SUBSET D |-> h[s]]
    OBVIOUS
  <2> HIDE DEF h
  <2> QED
    BY <1>5, <2>1
<1> QED
  BY <1>5, <1>6 DEF IsFold

\* What a fold over 1..n comes to, position by position.
LEMMA UpTo ==
  ASSUME NEW k \in Nat
  PROVE  1 .. (k + 1) # {} /\ Max(1 .. (k + 1)) = k + 1 /\ (1 .. (k + 1)) \ {k + 1} = 1 .. k
<1> DEFINE S == 1 .. (k + 1)
<1>1. IsFiniteSet(S)
  BY FS_Interval
<1>2. k + 1 \in S /\ S \subseteq Int /\ \A x \in S : x <= k + 1
  OBVIOUS
<1>3. S \ {k + 1} = 1 .. k
  OBVIOUS
<1> HIDE DEF S
<1>4. Max(S) \in S /\ \A x \in S : x <= Max(S)
  BY <1>1, <1>2, Extremes
<1>5. Max(S) = k + 1
  <2>1. Max(S) \in Int /\ Max(S) <= k + 1 /\ k + 1 <= Max(S)
    BY <1>2, <1>4
  <2> QED
    BY <2>1
<1> QED
  BY <1>2, <1>3, <1>5 DEF S

\* The extremes of a pair.
LEMMA OfTwo ==
  \A a, b \in Int : /\ a <= b => Min({a, b}) = a /\ Max({a, b}) = b
                    /\ b <= a => Min({a, b}) = b /\ Max({a, b}) = a
<1> TAKE a, b \in Int
<1> DEFINE S == {a, b}
<1>1. IsFiniteSet(S) /\ S # {} /\ S \subseteq Int /\ a \in S /\ b \in S
  <2>1. IsFiniteSet({a}) /\ S = {a} \cup {b}
    BY FS_Singleton
  <2> QED
    BY <2>1, FS_AddElement
<1>2. \A x \in S : x = a \/ x = b
  OBVIOUS
<1> HIDE DEF S
<1>3. Min(S) \in S /\ Max(S) \in S /\ Min(S) <= a /\ Min(S) <= b /\ a <= Max(S) /\ b <= Max(S)
  BY <1>1, Extremes
<1>4. (Min(S) = a \/ Min(S) = b) /\ (Max(S) = a \/ Max(S) = b)
  BY <1>2, <1>3
<1> QED
  BY <1>3, <1>4 DEF S

\* A number cut off at zero.
LEMMA FromZero == \A a \in Int : Max({0, a}) = IF 0 <= a THEN a ELSE 0
<1> TAKE a \in Int
<1> DEFINE z == 0
<1>1. z \in Int
  OBVIOUS
<1> HIDE DEF z
<1>2. Max({z, a}) = IF z <= a THEN a ELSE z
  BY <1>1, OfTwo
<1> QED
  BY <1>2 DEF z
=============================================================================
