------------------------------- MODULE Places -------------------------------
(***************************************************************************)
(* A list in an order: the place of a row is how many rows are ahead of it. *)
(* The lemmas say what the first n rows are when a row leaves the list,      *)
(* comes to it or goes to another place, and how many are left after them.  *)
(***************************************************************************)
EXTENDS Sums

\* An order is the set of the pairs whose first one comes first.
Ahead(L, R, i) == {j \in L : <<j, i>> \in R}
First(L, R, n) == {i \in L : Cardinality(Ahead(L, R, i)) < n}

IsOrder(L, R) ==
    /\ IsFiniteSet(L)
    /\ \A i \in L : <<i, i>> \notin R
    /\ \A i \in L, j \in L : i # j => <<i, j>> \in R \/ <<j, i>> \in R
    /\ \A i \in L, j \in L, k \in L : <<i, j>> \in R /\ <<j, k>> \in R => <<i, k>> \in R

\* Two orders say the same of the rows of a list.
Agree(L, R, Q) == \A i \in L, j \in L : <<i, j>> \in R <=> <<i, j>> \in Q

\* A finite number of rows is ahead.
LEMMA AheadFinite ==
    ASSUME NEW L, IsFiniteSet(L), NEW R, NEW i
    PROVE  IsFiniteSet(Ahead(L, R, i)) /\ Cardinality(Ahead(L, R, i)) \in Nat
  BY FS_Subset, FS_CardinalityType DEF Ahead

\* What orders a list orders a part of it.
LEMMA OrderOfPart ==
    ASSUME NEW L, NEW R, IsOrder(L, R), NEW K \in SUBSET L
    PROVE  IsOrder(K, R)
  BY FS_Subset DEF IsOrder

\* Orders that agree have the same first rows.
LEMMA SameFirst ==
    ASSUME NEW L, NEW R, NEW Q, Agree(L, R, Q), NEW n
    PROVE  First(L, R, n) = First(L, Q, n)
<1>1. \A i \in L : Ahead(L, R, i) = Ahead(L, Q, i)
  BY DEF Agree, Ahead
<1> QED
  BY <1>1 DEF First

\* A row that is behind another has at least one row more ahead of it.
LEMMA BehindIsFurther ==
    ASSUME NEW L, NEW R, IsOrder(L, R), NEW i \in L, NEW k \in L, <<k, i>> \in R
    PROVE  Cardinality(Ahead(L, R, k)) + 1 <= Cardinality(Ahead(L, R, i))
<1> DEFINE A == Ahead(L, R, k)  B == Ahead(L, R, i)
<1>1. IsFiniteSet(A) /\ IsFiniteSet(B) /\ Cardinality(A) \in Nat /\ Cardinality(B) \in Nat
  BY AheadFinite DEF IsOrder
<1>2. k \notin A /\ A \cup {k} \subseteq B
  BY DEF Ahead, IsOrder
<1> HIDE DEF A, B
<1>3. IsFiniteSet(A \cup {k}) /\ Cardinality(A \cup {k}) = Cardinality(A) + 1
  BY <1>1, <1>2, FS_AddElement
<1>4. Cardinality(A \cup {k}) <= Cardinality(B)
  BY <1>1, <1>2, FS_Subset
<1> QED
  BY <1>1, <1>3, <1>4 DEF A, B

\* A row that leaves the list was ahead of others, or it was not.
LEMMA AheadWithout ==
    ASSUME NEW L, NEW R, IsOrder(L, R), NEW x \in L, NEW i \in L \ {x}
    PROVE  /\ <<x, i>> \in R =>
                Cardinality(Ahead(L \ {x}, R, i)) = Cardinality(Ahead(L, R, i)) - 1
           /\ <<x, i>> \notin R => Ahead(L \ {x}, R, i) = Ahead(L, R, i)
<1>1. ASSUME <<x, i>> \in R
      PROVE  Cardinality(Ahead(L \ {x}, R, i)) = Cardinality(Ahead(L, R, i)) - 1
  <2>1. Ahead(L \ {x}, R, i) = Ahead(L, R, i) \ {x} /\ x \in Ahead(L, R, i)
    BY <1>1 DEF Ahead
  <2>2. IsFiniteSet(Ahead(L, R, i))
    BY AheadFinite DEF IsOrder
  <2> QED
    BY <2>1, <2>2, FS_RemoveElement
<1>2. ASSUME <<x, i>> \notin R PROVE Ahead(L \ {x}, R, i) = Ahead(L, R, i)
  BY <1>2 DEF Ahead
<1> QED
  BY <1>1, <1>2

\* When a row leaves the list, one other at most moves up among the first, and none does
\* unless the row was among the first.
LEMMA OneMovesUp ==
    ASSUME NEW L, NEW R, IsOrder(L, R), NEW x \in L, NEW n \in Nat
    PROVE  /\ \A i, k \in First(L \ {x}, R, n) \ First(L, R, n) : i = k
           /\ x \notin First(L, R, n) => First(L \ {x}, R, n) \subseteq First(L, R, n)
<1> DEFINE Up == First(L \ {x}, R, n) \ First(L, R, n)
<1>1. ASSUME NEW i \in Up
      PROVE  i \in L \ {x} /\ <<x, i>> \in R /\ Cardinality(Ahead(L, R, i)) = n
  <2>1. i \in L \ {x}
    BY <1>1 DEF First
  <2>2. Cardinality(Ahead(L, R, i)) \in Nat /\ Cardinality(Ahead(L \ {x}, R, i)) \in Nat
    <3>1. IsFiniteSet(L) /\ IsFiniteSet(L \ {x})
      BY FS_Subset DEF IsOrder
    <3> QED
      BY <3>1, AheadFinite
  <2>3. Cardinality(Ahead(L \ {x}, R, i)) < n /\ ~(Cardinality(Ahead(L, R, i)) < n)
    BY <1>1, <2>1 DEF First
  <2>4. <<x, i>> \in R
    BY <2>1, <2>3, AheadWithout
  <2>5. Cardinality(Ahead(L \ {x}, R, i)) = Cardinality(Ahead(L, R, i)) - 1
    BY <2>1, <2>4, AheadWithout
  <2> QED
    BY <2>1, <2>2, <2>3, <2>4, <2>5
<1>2. ASSUME NEW i \in Up, NEW k \in Up PROVE <<k, i>> \notin R
  <2>1. i \in L /\ k \in L /\ Cardinality(Ahead(L, R, i)) = n /\ Cardinality(Ahead(L, R, k)) = n
    BY <1>1
  <2> QED
    BY <2>1, BehindIsFurther
<1>3. \A i, k \in Up : i = k
  <2> TAKE i, k \in Up
  <2>1. i \in L /\ k \in L /\ <<k, i>> \notin R /\ <<i, k>> \notin R
    BY <1>1, <1>2
  <2> QED
    BY <2>1 DEF IsOrder
<1>4. ASSUME x \notin First(L, R, n) PROVE Up = {}
  <2> SUFFICES ASSUME NEW i \in Up PROVE FALSE
    OBVIOUS
  <2>1. i \in L /\ <<x, i>> \in R /\ Cardinality(Ahead(L, R, i)) = n
    BY <1>1
  <2> HIDE DEF Up
  <2>2. Cardinality(Ahead(L, R, x)) + 1 <= n
    BY <2>1, BehindIsFurther
  <2>3. Cardinality(Ahead(L, R, x)) \in Nat
    BY AheadFinite DEF IsOrder
  <2>4. Cardinality(Ahead(L, R, x)) < n
    BY <2>2, <2>3
  <2> QED
    BY <1>4, <2>4 DEF First
<1> QED
  BY <1>3, <1>4

\* When a row comes to the list, no other one moves up.
LEMMA NoneMovesUp ==
    ASSUME NEW L, IsFiniteSet(L), NEW R, NEW x, NEW n \in Nat
    PROVE  First(L \cup {x}, R, n) \subseteq First(L, R, n) \cup {x}
<1> SUFFICES ASSUME NEW i \in First(L \cup {x}, R, n), i # x PROVE i \in First(L, R, n)
  OBVIOUS
<1>1. IsFiniteSet(L \cup {x})
  BY FS_AddElement
<1>2. i \in L /\ Cardinality(Ahead(L \cup {x}, R, i)) < n
  BY DEF First
<1>3. Ahead(L, R, i) \subseteq Ahead(L \cup {x}, R, i)
  BY DEF Ahead
<1>4. IsFiniteSet(Ahead(L \cup {x}, R, i)) /\ Cardinality(Ahead(L \cup {x}, R, i)) \in Nat
      /\ Cardinality(Ahead(L, R, i)) \in Nat
  BY <1>1, AheadFinite
<1>5. Cardinality(Ahead(L, R, i)) <= Cardinality(Ahead(L \cup {x}, R, i))
  BY <1>3, <1>4, FS_Subset
<1> QED
  BY <1>2, <1>4, <1>5 DEF First

\* A list that has rows has a first one.
LEMMA TopExists ==
    ASSUME NEW L, NEW R, IsOrder(L, R), L # {}
    PROVE  \E m \in L : \A j \in L \ {m} : <<m, j>> \in R
<1> DEFINE G == {T \in SUBSET L : T # {} => \E m \in T : \A j \in T \ {m} : <<m, j>> \in R}
<1>1. ASSUME NEW T \in SUBSET L, \A U \in SUBSET T : U # T => U \in G
      PROVE  T \in G
  <2> SUFFICES ASSUME T # {} PROVE \E m \in T : \A j \in T \ {m} : <<m, j>> \in R
    OBVIOUS
  <2>1. PICK x \in T : TRUE
    OBVIOUS
  <2>2. CASE T \ {x} = {}
    BY <2>1, <2>2
  <2>3. CASE T \ {x} # {}
    <3>1. T \ {x} \in G
      BY <1>1, <2>1
    <3>2. PICK m \in T \ {x} : \A j \in (T \ {x}) \ {m} : <<m, j>> \in R
      BY <2>3, <3>1
    <3>3. CASE <<m, x>> \in R
      BY <3>2, <3>3
    <3>4. CASE <<m, x>> \notin R
      <4>1. <<x, m>> \in R
        BY <2>1, <3>2, <3>4 DEF IsOrder
      <4>2. ASSUME NEW j \in T \ {x} PROVE <<x, j>> \in R
        <5>1. CASE j = m
          BY <4>1, <5>1
        <5>2. CASE j # m
          <6>1. <<m, j>> \in R
            BY <3>2, <5>2
          <6> QED
            BY <2>1, <3>2, <4>1, <6>1 DEF IsOrder
        <5> QED
          BY <5>1, <5>2
      <4> QED
        BY <2>1, <4>2
    <3> QED
      BY <3>3, <3>4
  <2> QED
    BY <2>2, <2>3
<1> HIDE DEF G
<1>2. L \in G
  BY <1>1, SubsetInduction DEF IsOrder
<1> QED
  BY <1>2 DEF G

\* After the first n rows the list goes on with the rows that are more than n.
LEMMA AfterTheFirst ==
    ASSUME NEW L, NEW R, IsOrder(L, R), NEW n \in Nat, NEW k \in Nat, Cardinality(L) <= n + k
    PROVE  Cardinality(L \ First(L, R, n)) <= k
<1> DEFINE F == First(L, R, n)  Rest == L \ First(L, R, n)
<1>0. F \subseteq L /\ IsFiniteSet(F) /\ IsFiniteSet(Rest) /\ IsFiniteSet(L)
  BY FS_Subset DEF First, IsOrder
<1>1. CASE Rest = {}
  BY <1>1, FS_EmptySet
<1>2. CASE Rest # {}
  <2>1. IsOrder(Rest, R)
    BY OrderOfPart
  <2>2. PICK m \in Rest : \A j \in Rest \ {m} : <<m, j>> \in R
    BY <1>2, <2>1, TopExists
  <2>4. Ahead(L, R, m) \subseteq F
    <3> SUFFICES ASSUME NEW j \in L, <<j, m>> \in R, j \notin F PROVE FALSE
      BY DEF Ahead
    <3>1. j # m /\ j \in Rest /\ m \in L
      BY <2>2 DEF IsOrder
    <3>2. <<m, j>> \in R
      BY <2>2, <3>1
    <3> QED
      BY <3>1, <3>2 DEF IsOrder
  <2>5. ~(Cardinality(Ahead(L, R, m)) < n)
    BY <2>2 DEF First
  <2>6. Cardinality(Ahead(L, R, m)) <= Cardinality(F)
    BY <1>0, <2>4, FS_Subset
  <2>7. Cardinality(Ahead(L, R, m)) \in Nat /\ Cardinality(F) \in Nat /\ Cardinality(L) \in Nat
        /\ Cardinality(Rest) \in Nat
    BY <1>0, AheadFinite, FS_CardinalityType
  <2>8. Cardinality(Rest) = Cardinality(L) - Cardinality(L \cap F)
    BY <1>0, FS_Difference
  <2>9. L \cap F = F
    BY <1>0
  <2> HIDE DEF F, Rest
  <2>10. Cardinality(Rest) = Cardinality(L) - Cardinality(F)
    BY <2>8, <2>9, Zenon
  <2>11. n <= Cardinality(F)
    BY <2>5, <2>6, <2>7
  <2>12. Cardinality(Rest) <= k
    BY <2>7, <2>10, <2>11
  <2> QED
    BY <2>12 DEF Rest
<1> QED
  BY <1>1, <1>2

-----------------------------------------------------------------------------
(* What a reader has missed who has seen rows S of the rows W wanted and has *)
(* the first n rows of the list behind.                                      *)

Missed(L, R, W, S, n) == {i \in W \ S : i \notin L \/ i \in First(L, R, n)}

LEMMA MissedFinite ==
    ASSUME NEW L, NEW R, NEW W, IsFiniteSet(W), NEW S, NEW n
    PROVE  /\ IsFiniteSet(Missed(L, R, W, S, n)) /\ Cardinality(Missed(L, R, W, S, n)) \in Nat
           /\ IsFiniteSet(W \ S) /\ Cardinality(W \ S) \in Nat
  BY FS_Subset, FS_CardinalityType DEF Missed

\* When a row leaves the list, the reader misses one more at most: the row itself, or the
\* one that moves up.
LEMMA MissedWithout ==
    ASSUME NEW L, NEW R, IsOrder(L, R), NEW x \in L, NEW n \in Nat, NEW W, IsFiniteSet(W), NEW S
    PROVE  Cardinality(Missed(L \ {x}, R, W, S, n)) <= Cardinality(Missed(L, R, W, S, n)) + 1
<1> DEFINE A == Missed(L, R, W, S, n)  B == Missed(L \ {x}, R, W, S, n)
<1>0. IsFiniteSet(A) /\ IsFiniteSet(B) /\ Cardinality(A) \in Nat /\ Cardinality(B) \in Nat
  BY MissedFinite
<1>1. \E y : B \subseteq A \cup {y}
  <2>1. CASE x \in First(L, R, n)
    <3>1. B \subseteq A \cup (First(L \ {x}, R, n) \ First(L, R, n))
      BY <2>1 DEF Missed
    <3>2. \E y : First(L \ {x}, R, n) \ First(L, R, n) \subseteq {y}
      BY OneMovesUp
    <3> QED
      BY <3>1, <3>2
  <2>2. CASE x \notin First(L, R, n)
    <3>1. First(L \ {x}, R, n) \subseteq First(L, R, n)
      BY <2>2, OneMovesUp
    <3>2. B \subseteq A \cup {x}
      BY <3>1 DEF Missed
    <3> QED
      BY <3>2
  <2> QED
    BY <2>1, <2>2
<1> HIDE DEF A, B
<1>2. PICK y : B \subseteq A \cup {y}
  BY <1>1
<1>3. IsFiniteSet(A \cup {y}) /\ Cardinality(A \cup {y}) \in Nat
      /\ Cardinality(A \cup {y}) <= Cardinality(A) + 1
  <2>1. y \in A => A \cup {y} = A
    OBVIOUS
  <2>2. Cardinality(A \cup {y}) \in {Cardinality(A), Cardinality(A) + 1}
    BY <1>0, <2>1, FS_AddElement, Zenon
  <2> QED
    BY <1>0, <2>2, FS_AddElement
<1>4. Cardinality(B) <= Cardinality(A \cup {y})
  BY <1>2, <1>3, FS_Subset
<1> QED
  BY <1>0, <1>3, <1>4 DEF A, B

\* When a row comes to the list, the reader misses no more.
LEMMA MissedWith ==
    ASSUME NEW L, IsFiniteSet(L), NEW R, NEW x, x \notin L, NEW n \in Nat, NEW W, NEW S
    PROVE  Missed(L \cup {x}, R, W, S, n) \subseteq Missed(L, R, W, S, n)
  BY NoneMovesUp DEF Missed

\* When one row leaves, comes or moves, the reader misses one more at most, and no more if
\* it was not on the list.
LEMMA MissedMoved ==
    ASSUME NEW L, NEW R, IsOrder(L, R), NEW K, NEW Q, IsOrder(K, Q), NEW x,
           L \ {x} = K \ {x}, Agree(L \ {x}, R, Q),
           NEW n \in Nat, NEW W, IsFiniteSet(W), NEW S
    PROVE  /\ Cardinality(Missed(K, Q, W, S, n)) <= Cardinality(Missed(L, R, W, S, n)) + 1
           /\ x \notin L => Missed(K, Q, W, S, n) \subseteq Missed(L, R, W, S, n)
<1> DEFINE M == L \ {x}
           A == Missed(L, R, W, S, n)  B == Missed(M, R, W, S, n)  C == Missed(K, Q, W, S, n)
<1>1. IsFiniteSet(M) /\ M = K \ {x} /\ Agree(M, R, Q) /\ x \notin M
  BY FS_Subset DEF IsOrder
<1>2. B = Missed(M, Q, W, S, n)
  <2>1. First(M, R, n) = First(M, Q, n)
    BY <1>1, SameFirst
  <2> QED
    BY <2>1 DEF Missed
<1>3. C \subseteq B
  <2>1. CASE x \in K
    <3>1. K = M \cup {x}
      BY <1>1, <2>1
    <3> HIDE DEF M
    <3>2. Missed(M \cup {x}, Q, W, S, n) \subseteq Missed(M, Q, W, S, n)
      BY <1>1, MissedWith
    <3> QED
      BY <1>2, <3>1, <3>2
  <2>2. CASE x \notin K
    <3>1. K = M
      BY <1>1, <2>2
    <3> QED
      BY <1>2, <3>1, Zenon
  <2> QED
    BY <2>1, <2>2
<1>4. Cardinality(B) <= Cardinality(A) + 1 /\ (x \notin L => B = A)
  <2>0. Cardinality(A) \in Nat
    BY MissedFinite
  <2>1. CASE x \in L
    BY <2>1, MissedWithout
  <2>2. CASE x \notin L
    <3>1. M = L
      BY <2>2
    <3>2. B = A
      BY <3>1, Zenon
    <3> HIDE DEF A, B
    <3> QED
      BY <2>0, <3>2
  <2> QED
    BY <2>1, <2>2
<1>5. IsFiniteSet(B) /\ Cardinality(A) \in Nat /\ Cardinality(B) \in Nat /\ Cardinality(C) \in Nat
  BY MissedFinite
<1> HIDE DEF A, B, C, M
<1>6. Cardinality(C) <= Cardinality(B)
  BY <1>3, <1>5, FS_Subset
<1>7. Cardinality(C) <= Cardinality(A) + 1 /\ (x \notin L => C \subseteq A)
  BY <1>3, <1>4, <1>5, <1>6
<1> QED
  BY <1>7 DEF A, C
=============================================================================
