--------------------------------- MODULE Sums ---------------------------------
(***************************************************************************)
(* Sums of natural numbers over finite sets, for the proofs about money.    *)
(* The sum is the one the models use (MapThenSumSet); the lemmas say that    *)
(* it may be taken apart in any order.  They rest on SubsetInduction, which *)
(* states induction over the subsets of a finite set with a set in the      *)
(* place of a predicate.                                                    *)
(***************************************************************************)
EXTENDS Integers, FiniteSetsExt, FiniteSetTheorems, WellFoundedInduction, TLAPS

SumOf(f, S) == MapThenSumSet(LAMBDA x : f[x], S)

\* What holds of a set whenever it holds of its proper subsets holds of every subset of a
\* finite set: a smallest counterexample would be one of a set whose subsets are none.
LEMMA SubsetInduction ==
    ASSUME NEW S, IsFiniteSet(S), NEW G,
           \A T \in SUBSET S : (\A U \in SUBSET T : U # T => U \in G) => T \in G
    PROVE  \A T \in SUBSET S : T \in G
<1> DEFINE Bad == {T \in SUBSET S : T \notin G}
<1>1. SUFFICES ASSUME Bad # {} PROVE FALSE
  OBVIOUS
<1>2. IsWellFoundedOn(StrictSubsetOrdering(S), SUBSET S)
  BY FS_StrictSubsetOrderingWellFounded, FS_FiniteSubsetsOfFinite
<1>3. PICK T \in Bad : \A U \in Bad : <<U, T>> \notin StrictSubsetOrdering(S)
  <2> HIDE DEF Bad
  <2>1. Bad \subseteq SUBSET S
    BY DEF Bad
  <2> QED
    BY <1>1, <1>2, <2>1, WFMin
<1>4. \A U \in SUBSET T : U # T => U \in G
  BY <1>3 DEF StrictSubsetOrdering
<1> QED
  BY <1>3, <1>4

-----------------------------------------------------------------------------
(* MapThenSumSet is the value at S of the function that takes one element    *)
(* out of each set: it exists, and is the same for each set it is built for. *)

Pick(S) == CHOOSE x \in S : TRUE

IsIter(g, f, S) ==
    g = [s \in SUBSET S |-> IF s = {} THEN 0 ELSE f[Pick(s)] + g[s \ {Pick(s)}]]
Iter(f, S) == CHOOSE g : IsIter(g, f, S)

\* An element can be picked from a set that has one.
LEMMA PickIn == \A S : S # {} => Pick(S) \in S
  BY DEF Pick

\* The value of such a function at a subset.
LEMMA IterValue ==
    ASSUME NEW f, NEW S, NEW g, IsIter(g, f, S), NEW s \in SUBSET S
    PROVE  g[s] = IF s = {} THEN 0 ELSE f[Pick(s)] + g[s \ {Pick(s)}]
  BY Zenon DEF IsIter

\* The value of such a function at the whole set.
LEMMA IterTop ==
    ASSUME NEW f, NEW S, NEW g, IsIter(g, f, S)
    PROVE  g[S] = IF S = {} THEN 0 ELSE f[Pick(S)] + g[S \ {Pick(S)}]
<1>1. S \in SUBSET S
  OBVIOUS
<1> QED
  BY <1>1, IterValue

\* The function for a set and the one for a part of it agree on that part.
LEMMA IterUnique ==
    ASSUME NEW S, IsFiniteSet(S), NEW f, NEW g, NEW h, NEW T \in SUBSET S,
           IsIter(g, f, S), IsIter(h, f, T)
    PROVE  g[T] = h[T]
<1> DEFINE G == {U \in SUBSET T : g[U] = h[U]}
<1>1. IsFiniteSet(T)
  BY FS_Subset
<1>2. ASSUME NEW U \in SUBSET T, \A V \in SUBSET U : V # U => V \in G
      PROVE  U \in G
  <2>1. CASE U = {}
    BY <2>1, IterValue
  <2>2. CASE U # {}
    <3>1. Pick(U) \in U /\ U \ {Pick(U)} \in SUBSET U
      BY <2>2, PickIn
    <3>2. g[U \ {Pick(U)}] = h[U \ {Pick(U)}]
      BY <1>2, <3>1
    <3>3. g[U] = f[Pick(U)] + g[U \ {Pick(U)}]
      BY <2>2, IterValue
    <3>4. h[U] = f[Pick(U)] + h[U \ {Pick(U)}]
      BY <2>2, IterValue
    <3> QED
      BY <3>2, <3>3, <3>4
  <2> QED
    BY <2>1, <2>2
<1> HIDE DEF G
<1>3. T \in G
  BY <1>1, <1>2, SubsetInduction
<1> QED
  BY <1>3 DEF G

\* There is such a function for every finite set: it is put together from those of its parts.
LEMMA IterExists ==
    ASSUME NEW S, IsFiniteSet(S), NEW f
    PROVE  IsIter(Iter(f, S), f, S)
<1> DEFINE G == {T \in SUBSET S : IsIter(Iter(f, T), f, T)}
<1>1. ASSUME NEW T \in SUBSET S, \A U \in SUBSET T : U # T => U \in G
      PROVE  T \in G
  <2> DEFINE Rest(s) == s \ {Pick(s)}
             g == [s \in SUBSET T |-> IF s = {} THEN 0 ELSE f[Pick(s)] + Iter(f, Rest(s))[Rest(s)]]
  <2>1. ASSUME NEW s \in SUBSET T, s # {} PROVE g[Rest(s)] = Iter(f, Rest(s))[Rest(s)]
    <3> DEFINE u == Rest(s)
    <3>1. u \in SUBSET T /\ u # T
      BY <2>1, PickIn
    <3>2. IsIter(Iter(f, u), f, u) /\ IsFiniteSet(u)
      BY <1>1, <3>1, FS_Subset
    <3>3. Iter(f, u)[u] = IF u = {} THEN 0 ELSE f[Pick(u)] + Iter(f, u)[Rest(u)]
      <4> HIDE DEF u
      <4> QED
        BY <3>2, IterTop
    <3>4. ASSUME u # {} PROVE Iter(f, u)[Rest(u)] = Iter(f, Rest(u))[Rest(u)]
      <4>1. Rest(u) \in SUBSET u /\ Rest(u) \in SUBSET T /\ Rest(u) # T
        BY <3>1
      <4>2. IsIter(Iter(f, Rest(u)), f, Rest(u))
        BY <1>1, <4>1
      <4> QED
        BY <3>2, <4>1, <4>2, IterUnique
    <3>5. g[u] = IF u = {} THEN 0 ELSE f[Pick(u)] + Iter(f, Rest(u))[Rest(u)]
      BY <3>1
    <3> QED
      BY <3>3, <3>4, <3>5
  <2>2. g = [s \in SUBSET T |-> IF s = {} THEN 0 ELSE f[Pick(s)] + g[s \ {Pick(s)}]]
    BY <2>1
  <2> HIDE DEF g
  <2>3. IsIter(g, f, T)
    BY <2>2 DEF IsIter
  <2> QED
    BY <2>3 DEF Iter
<1> HIDE DEF G
<1>2. S \in G
  BY <1>1, SubsetInduction
<1> QED
  BY <1>2 DEF G

\* The sum is the value of that function.
LEMMA SumIter == \A f, S : SumOf(f, S) = Iter(f, S)[S]
  BY DEF SumOf, MapThenSumSet, MapThenFoldSet, Iter, IsIter, Pick

\* A sum is one summand and the sum of the others.
LEMMA SumRec ==
    ASSUME NEW f, NEW S, IsFiniteSet(S)
    PROVE  SumOf(f, S) = IF S = {} THEN 0 ELSE f[Pick(S)] + SumOf(f, S \ {Pick(S)})
<1> DEFINE R == S \ {Pick(S)}
<1>1. IsFiniteSet(R) /\ R \in SUBSET S
  BY FS_Subset
<1>2. IsIter(Iter(f, S), f, S) /\ IsIter(Iter(f, R), f, R)
  BY <1>1, IterExists
<1>3. Iter(f, S)[S] = IF S = {} THEN 0 ELSE f[Pick(S)] + Iter(f, S)[R]
  BY <1>2, IterTop
<1>4. Iter(f, S)[R] = Iter(f, R)[R]
  BY <1>1, <1>2, IterUnique
<1> QED
  BY <1>3, <1>4, SumIter

-----------------------------------------------------------------------------
(* What the proofs use.                                                      *)

\* The sum of nothing is 0.
LEMMA SumEmpty == \A f : SumOf(f, {}) = 0
  BY SumRec, FS_EmptySet

\* Sums of natural numbers are natural numbers.
LEMMA SumType ==
    ASSUME NEW S, IsFiniteSet(S), NEW f, \A x \in S : f[x] \in Nat
    PROVE  \A T \in SUBSET S : IsFiniteSet(T) /\ SumOf(f, T) \in Nat
<1> DEFINE G == {T \in SUBSET S : SumOf(f, T) \in Nat}
<1>1. ASSUME NEW T \in SUBSET S, \A U \in SUBSET T : U # T => U \in G
      PROVE  T \in G
  <2>1. IsFiniteSet(T)
    BY FS_Subset
  <2>2. T # {} => Pick(T) \in T
    BY PickIn
  <2>3. T # {} => SumOf(f, T \ {Pick(T)}) \in Nat /\ f[Pick(T)] \in Nat
    BY <1>1, <2>2
  <2>4. SumOf(f, T) = IF T = {} THEN 0 ELSE f[Pick(T)] + SumOf(f, T \ {Pick(T)})
    BY <2>1, SumRec
  <2>5. SumOf(f, T) \in Nat
    BY <2>3, <2>4
  <2> QED
    BY <2>5
<1> HIDE DEF G
<1>2. ASSUME NEW T \in SUBSET S PROVE T \in G
  BY <1>1, SubsetInduction
<1> QED
  BY <1>2, FS_Subset DEF G

\* Any element can be taken out of a sum.
LEMMA SumTake ==
    ASSUME NEW S, IsFiniteSet(S), NEW f, \A x \in S : f[x] \in Nat
    PROVE  \A x \in S : SumOf(f, S) = f[x] + SumOf(f, S \ {x})
<1> DEFINE G == {T \in SUBSET S : \A x \in T : SumOf(f, T) = f[x] + SumOf(f, T \ {x})}
<1>1. ASSUME NEW T \in SUBSET S, \A U \in SUBSET T : U # T => U \in G
      PROVE  T \in G
  <2>1. SUFFICES ASSUME NEW x \in T PROVE SumOf(f, T) = f[x] + SumOf(f, T \ {x})
    OBVIOUS
  <2> DEFINE p == Pick(T)
  <2>2. p \in T /\ T # {}
    BY PickIn
  <2> HIDE DEF p
  <2>3. SumOf(f, T) = f[p] + SumOf(f, T \ {p})
    BY <2>2, FS_Subset, SumRec DEF p
  <2>4. CASE x = p
    BY <2>3, <2>4
  <2>5. CASE x # p
    <3>1. SumOf(f, T \ {p}) = f[x] + SumOf(f, (T \ {p}) \ {x})
      BY <1>1, <2>2, <2>5
    <3>2. SumOf(f, T \ {x}) = f[p] + SumOf(f, (T \ {x}) \ {p})
      BY <1>1, <2>2, <2>5
    <3>3. (T \ {p}) \ {x} = (T \ {x}) \ {p}
      OBVIOUS
    <3>4. SumOf(f, (T \ {x}) \ {p}) \in Nat /\ f[x] \in Nat /\ f[p] \in Nat
      BY <2>2, SumType
    <3> QED
      BY <2>2, <2>3, <3>1, <3>2, <3>3, <3>4
  <2> QED
    BY <2>4, <2>5
<1> HIDE DEF G
<1>2. S \in G
  BY <1>1, SubsetInduction
<1> QED
  BY <1>2 DEF G

\* The sum over a set is the sum over a part of it and the sum over the rest.
LEMMA SumSplit ==
    ASSUME NEW S, IsFiniteSet(S), NEW f, \A x \in S : f[x] \in Nat
    PROVE  \A T \in SUBSET S : SumOf(f, S) = SumOf(f, T) + SumOf(f, S \ T)
<1> DEFINE G == {T \in SUBSET S : SumOf(f, S) = SumOf(f, T) + SumOf(f, S \ T)}
<1>1. ASSUME NEW T \in SUBSET S, \A U \in SUBSET T : U # T => U \in G
      PROVE  T \in G
  <2>1. CASE T = {}
    <3>1. SumOf(f, T) = 0 /\ S \ T = S /\ SumOf(f, S) \in Nat
      BY <2>1, SumEmpty, SumType
    <3> QED
      BY <3>1
  <2>2. CASE T # {}
    <3>1. PICK x \in T : TRUE
      BY <2>2
    <3> DEFINE U == T \ {x}  R == S \ U
    <3>2. U \in SUBSET T /\ U # T /\ R \in SUBSET S /\ x \in R /\ R \ {x} = S \ T
          /\ T \in SUBSET S /\ U \in SUBSET S /\ (S \ T) \in SUBSET S
      BY <3>1
    <3>3. SumOf(f, S) = SumOf(f, U) + SumOf(f, R)
      BY <1>1, <3>2
    <3> HIDE DEF R
    <3>4. IsFiniteSet(T) /\ IsFiniteSet(R) /\ SumOf(f, U) \in Nat /\ SumOf(f, S \ T) \in Nat
      BY <3>2, SumType
    <3>5. SumOf(f, T) = f[x] + SumOf(f, U)
      BY <3>1, <3>4, SumTake
    <3>6. SumOf(f, R) = f[x] + SumOf(f, R \ {x})
      BY <3>2, <3>4, SumTake
    <3> QED
      BY <3>1, <3>2, <3>3, <3>4, <3>5, <3>6
  <2> QED
    BY <2>1, <2>2
<1> HIDE DEF G
<1>2. ASSUME NEW T \in SUBSET S PROVE T \in G
  BY <1>1, SubsetInduction
<1> QED
  BY <1>2 DEF G

\* A sum grows with its summands.
LEMMA SumMonotone ==
    ASSUME NEW S, IsFiniteSet(S), NEW f, NEW g,
           \A x \in S : f[x] \in Nat /\ g[x] \in Nat /\ f[x] <= g[x]
    PROVE  SumOf(f, S) <= SumOf(g, S)
<1> DEFINE G == {T \in SUBSET S : SumOf(f, T) <= SumOf(g, T)}
<1>1. ASSUME NEW T \in SUBSET S, \A U \in SUBSET T : U # T => U \in G
      PROVE  T \in G
  <2> DEFINE p == Pick(T)
  <2>1. IsFiniteSet(T)
    BY FS_Subset
  <2>2. CASE T = {}
    BY <2>2, SumEmpty
  <2>3. CASE T # {}
    <3>1. p \in T
      BY <2>3, PickIn
    <3>2. SumOf(f, T) = f[p] + SumOf(f, T \ {p}) /\ SumOf(g, T) = g[p] + SumOf(g, T \ {p})
      BY <2>1, <2>3, SumRec
    <3>3. SumOf(f, T \ {p}) <= SumOf(g, T \ {p})
      BY <1>1, <3>1
    <3>4. SumOf(f, T \ {p}) \in Nat /\ SumOf(g, T \ {p}) \in Nat
      BY SumType
    <3> QED
      BY <3>1, <3>2, <3>3, <3>4
  <2> QED
    BY <2>2, <2>3
<1> HIDE DEF G
<1>2. S \in G
  BY <1>1, SubsetInduction
<1> QED
  BY <1>2 DEF G

\* Functions that agree on a set have the same sum over it.
LEMMA SumCongruent ==
    ASSUME NEW S, IsFiniteSet(S), NEW f, NEW g,
           \A x \in S : f[x] \in Nat /\ g[x] = f[x]
    PROVE  SumOf(f, S) = SumOf(g, S)
<1>1. SumOf(f, S) <= SumOf(g, S) /\ SumOf(g, S) <= SumOf(f, S)
  BY SumMonotone
<1>2. SumOf(f, S) \in Nat /\ SumOf(g, S) \in Nat
  BY SumType
<1> QED
  BY <1>1, <1>2

\* The sum over a part of a set is at most the sum over the set.
LEMMA SumSubset ==
    ASSUME NEW S, IsFiniteSet(S), NEW f, \A x \in S : f[x] \in Nat, NEW T \in SUBSET S
    PROVE  SumOf(f, T) <= SumOf(f, S)
<1>1. SumOf(f, T) \in Nat /\ SumOf(f, S \ T) \in Nat
  BY SumType
<1> QED
  BY <1>1, SumSplit

\* No summand is larger than the sum.
LEMMA SumBound ==
    ASSUME NEW S, IsFiniteSet(S), NEW f, \A x \in S : f[x] \in Nat, NEW x \in S
    PROVE  f[x] <= SumOf(f, S)
<1>1. SumOf(f, S \ {x}) \in Nat
  BY SumType
<1> QED
  BY <1>1, SumTake

\* The sum of sums is the sum over both summands.
LEMMA SumPlus ==
    ASSUME NEW S, IsFiniteSet(S), NEW f, NEW g, NEW h,
           \A x \in S : f[x] \in Nat /\ g[x] \in Nat /\ h[x] = f[x] + g[x]
    PROVE  SumOf(h, S) = SumOf(f, S) + SumOf(g, S)
<1> DEFINE G == {T \in SUBSET S : SumOf(h, T) = SumOf(f, T) + SumOf(g, T)}
<1>1. ASSUME NEW T \in SUBSET S, \A U \in SUBSET T : U # T => U \in G
      PROVE  T \in G
  <2> DEFINE p == Pick(T)  R == T \ {p}
  <2>1. IsFiniteSet(T)
    BY FS_Subset
  <2>2. CASE T = {}
    BY <2>2, SumEmpty
  <2>3. CASE T # {}
    <3>1. p \in T
      BY <2>3, PickIn
    <3>2. /\ SumOf(f, T) = f[p] + SumOf(f, R) /\ SumOf(g, T) = g[p] + SumOf(g, R)
          /\ SumOf(h, T) = h[p] + SumOf(h, R)
      BY <2>1, <2>3, SumRec
    <3>3. SumOf(h, R) = SumOf(f, R) + SumOf(g, R)
      BY <1>1, <3>1
    <3>4. SumOf(f, R) \in Nat /\ SumOf(g, R) \in Nat /\ f[p] \in Nat /\ g[p] \in Nat /\ h[p] = f[p] + g[p]
      BY <3>1, SumType
    <3> QED
      BY <3>2, <3>3, <3>4
  <2> QED
    BY <2>2, <2>3
<1> HIDE DEF G
<1>2. S \in G
  BY <1>1, SubsetInduction
<1> QED
  BY <1>2 DEF G

\* Summands that count only in a part of the set sum up to the sum over that part.
LEMMA SumFilter ==
    ASSUME NEW S, IsFiniteSet(S), NEW R, NEW f, NEW g,
           \A x \in S : f[x] \in Nat /\ g[x] = IF x \in R THEN f[x] ELSE 0
    PROVE  SumOf(g, S) = SumOf(f, S \cap R)
<1> DEFINE G == {T \in SUBSET S : SumOf(g, T) = SumOf(f, T \cap R)}
<1>1. ASSUME NEW T \in SUBSET S, \A U \in SUBSET T : U # T => U \in G
      PROVE  T \in G
  <2> DEFINE p == Pick(T)  Q == T \cap R
  <2>1. IsFiniteSet(T) /\ IsFiniteSet(Q)
    BY FS_Subset
  <2>2. CASE T = {}
    <3>1. Q = {}
      BY <2>2
    <3> QED
      BY <2>2, <3>1, SumEmpty
  <2>3. CASE T # {}
    <3>1. p \in T
      BY <2>3, PickIn
    <3> HIDE DEF p
    <3>2. SumOf(g, T) = g[p] + SumOf(g, T \ {p})
      BY <2>1, <2>3, SumRec DEF p
    <3>3. SumOf(g, T \ {p}) = SumOf(f, (T \ {p}) \cap R)
      BY <1>1, <3>1
    <3>4. (T \ {p}) \cap R = Q \ {p}
      OBVIOUS
    <3>5. SumOf(f, Q) \in Nat
      BY <2>1, SumType
    <3>6. CASE p \in R
      <4>1. SumOf(f, Q) = f[p] + SumOf(f, Q \ {p})
        <5>1. p \in Q /\ \A x \in Q : f[x] \in Nat
          BY <3>1, <3>6
        <5> HIDE DEF Q
        <5> QED
          BY <2>1, <5>1, SumTake
      <4>2. g[p] = f[p]
        BY <3>1, <3>6
      <4> QED
        BY <3>2, <3>3, <3>4, <4>1, <4>2
    <3>7. CASE p \notin R
      <4>1. Q \ {p} = Q /\ g[p] = 0
        BY <3>1, <3>7
      <4> QED
        BY <3>2, <3>3, <3>4, <3>5, <4>1
    <3> QED
      BY <3>6, <3>7
  <2> QED
    BY <2>2, <2>3
<1> HIDE DEF G
<1>2. S \in G
  BY <1>1, SubsetInduction
<1> QED
  BY <1>2 DEF G
=============================================================================
