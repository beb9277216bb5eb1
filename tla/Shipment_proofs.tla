--------------------------- MODULE Shipment_proofs ---------------------------
(***************************************************************************)
(* A paid FedEx order always has a shipment row, or a request that is about *)
(* to give it one, for any number of overlapping requests, retries and      *)
(* polls, any labels and any scans.  What the mapper computes of the scans  *)
(* since the cut is a status that they tell and, when they tell of no       *)
(* exception, one that is not behind any of them: while no request that     *)
(* relies on the row is overtaken, the row claims no progress that no scan  *)
(* since its cut tells under its number, and moves forward.                 *)
(***************************************************************************)
EXTENDS Shipment, Sums, SequenceTheorems

\* The awaits of createShipmentsForOrder while there need be no row.
BeforeRow == {"artist", "find", "label", "lookup", "insert", "failFind", "failInsert"}

\* Request k will not end before there is a row, its own or another request's.
WillCreate(k) == task[k].kind \in {"order", "ensure"} /\ stage[k] \in BeforeRow

(* A paid order without a row is being worked on.                            *)
RowInv ==
    /\ DOMAIN stage = Workers /\ DOMAIN task = Workers
    /\ paid /\ ~row => \E k \in Workers : WillCreate(k)

-----------------------------------------------------------------------------
\* Nothing is paid at the start.
LEMMA RowInit == Init => RowInv
  BY DEF Init, RowInv

\* A step of request k that leaves the row missing keeps its promise to make one.
LEMMA PromiseKept ==
    ASSUME RowInv, NEW k \in Workers, Serve(k), WillCreate(k), ~row'
    PROVE  WillCreate(k)'
  <1> USE DEF RowInv, WillCreate, BeforeRow, Task, Job, Nothing, Go, Carry, Finish, Leave,
              Persist, rowVars, shopVars, fedexVars
  <1>1. CASE EnsureOrders(k) \/ FindPending(k) \/ Reread(k) \/ ReadOrigin(k)
    BY <1>1 DEF EnsureOrders, FindPending, Reread, ReadOrigin
  <1>2. CASE ReadArtist(k)
    BY <1>2 DEF ReadArtist
  <1>3. CASE FindShipment(k)
    BY <1>3 DEF FindShipment
  <1>4. CASE LabelRefused(k)
    BY <1>4 DEF LabelRefused, Failed
  <1>5. CASE LabelIssued(k)
    BY <1>5 DEF LabelIssued, Failed
  <1>6. CASE Lookup(k)
    BY <1>6 DEF Lookup
  <1>7. CASE StoreLabel(k)
    BY <1>7 DEF StoreLabel, LabelStored, Failed
  <1>8. CASE FindOutcome(k)
    BY <1>8 DEF FindOutcome
  <1>9. CASE StoreOutcome(k)
    BY <1>9 DEF StoreOutcome, OutcomeStored
  <1>10. CASE StoreException(k) \/ TrackFails(k) \/ TrackAnswers(k) \/ ApplyTrack(k)
    BY <1>10 DEF StoreException, TrackFails, TrackAnswers, ApplyTrack
  <1> QED
    BY <1>1, <1>2, <1>3, <1>4, <1>5, <1>6, <1>7, <1>8, <1>9, <1>10 DEF Serve

\* A row is never deleted.
LEMMA RowStays ==
    ASSUME [Next]_vars, row
    PROVE  row'
  BY DEF Next, vars, Accept, Serve, SaveProfile, FedExScans, FedExLists, CompleteOrder, PostShipment,
         RetryShipment, RetryPending, PollTracking, SyncTracking, ReadForSync, EnsureOrders,
         FindPending, Reread, ReadOrigin, ReadArtist, FindShipment, LabelRefused, LabelIssued,
         Lookup, StoreLabel, LabelStored, FindOutcome, StoreOutcome, OutcomeStored,
         StoreException, TrackFails, TrackAnswers, ApplyTrack, rowVars, shopVars, fedexVars

\* What a step of request k does to the requests: it moves its own only.
LEMMA OthersStay ==
    ASSUME RowInv, NEW k \in Workers, Accept(k) \/ Serve(k)
    PROVE  /\ DOMAIN stage' = Workers /\ DOMAIN task' = Workers
           /\ \A j \in Workers \ {k} : stage'[j] = stage[j] /\ task'[j] = task[j]
  <1> USE DEF RowInv, Go, Carry, Begin, Finish, Leave, Persist, Failed,
              rowVars, shopVars, fedexVars
  <1>1. CASE Accept(k)
    BY <1>1 DEF Accept, CompleteOrder, PostShipment, RetryShipment, RetryPending,
                PollTracking, SyncTracking, ReadForSync
  <1>2. CASE EnsureOrders(k) \/ FindPending(k) \/ Reread(k) \/ ReadOrigin(k)
    BY <1>2 DEF EnsureOrders, FindPending, Reread, ReadOrigin
  <1>3. CASE ReadArtist(k) \/ FindShipment(k) \/ LabelRefused(k) \/ LabelIssued(k)
    BY <1>3 DEF ReadArtist, FindShipment, LabelRefused, LabelIssued
  <1>4. CASE Lookup(k) \/ StoreLabel(k) \/ FindOutcome(k) \/ StoreOutcome(k)
    BY <1>4 DEF Lookup, StoreLabel, FindOutcome, StoreOutcome
  <1>5. CASE StoreException(k) \/ TrackFails(k) \/ TrackAnswers(k) \/ ApplyTrack(k)
    BY <1>5 DEF StoreException, TrackFails, TrackAnswers, ApplyTrack
  <1> QED
    BY <1>1, <1>2, <1>3, <1>4, <1>5 DEF Serve

\* Only completeOrder marks an order PAID, and it begins to create the row.
LEMMA PaidByCompletion ==
    ASSUME RowInv, NEW k \in Workers, Accept(k) \/ Serve(k)
    PROVE  paid' = paid \/ WillCreate(k)'
  <1>1. CASE CompleteOrder(k)
    BY <1>1 DEF RowInv, CompleteOrder, Begin, Go, Carry, Task, Job, WillCreate, BeforeRow
  <1>2. CASE Accept(k) /\ ~CompleteOrder(k)
    BY <1>2 DEF Accept, PostShipment, RetryShipment, RetryPending, PollTracking,
                SyncTracking, ReadForSync, shopVars
  <1>3. CASE Serve(k)
    BY <1>3 DEF Serve, EnsureOrders, FindPending, Reread, ReadOrigin, ReadArtist,
                FindShipment, LabelRefused, LabelIssued, Lookup, StoreLabel, FindOutcome,
                StoreOutcome, StoreException, TrackFails, TrackAnswers, ApplyTrack, shopVars
  <1> QED
    BY <1>1, <1>2, <1>3

\* Every step keeps the invariant.
LEMMA RowStep == RowInv /\ [Next]_vars => RowInv'
  <1> SUFFICES ASSUME RowInv, [Next]_vars PROVE RowInv'
    OBVIOUS
  <1>1. ASSUME NEW k \in Workers, Accept(k) \/ Serve(k) PROVE RowInv'
    <2>1. ASSUME paid', ~row' PROVE \E j \in Workers : WillCreate(j)'
      <3>1. CASE WillCreate(k)'
        BY <3>1
      <3>2. CASE ~WillCreate(k)'
        <4>1. paid /\ ~row
          BY <1>1, <2>1, <3>2, PaidByCompletion, RowStays
        <4>2. PICK j \in Workers : WillCreate(j)
          BY <4>1 DEF RowInv
        <4>3. j # k
          <5>1. CASE Serve(k)
            BY <2>1, <3>2, <4>2, <5>1, PromiseKept
          <5>2. CASE Accept(k)
            BY <3>2, <4>2, <5>2
               DEF Accept, CompleteOrder, PostShipment, RetryShipment, RetryPending,
                   PollTracking, SyncTracking, ReadForSync, Begin, Go, WillCreate, BeforeRow
          <5> QED
            BY <1>1, <5>1, <5>2
        <4> QED
          BY <1>1, <4>2, <4>3, OthersStay DEF WillCreate
      <3> QED
        BY <3>1, <3>2
    <2> QED
      BY <1>1, <2>1, OthersStay DEF RowInv
  <1>2. CASE SaveProfile \/ \E p \in Parcels : FedExScans(p) \/ FedExLists(p)
    BY <1>2 DEF SaveProfile, FedExScans, FedExLists, RowInv, WillCreate, rowVars, shopVars
  <1>3. CASE UNCHANGED vars
    BY <1>3 DEF vars, rowVars, shopVars, fedexVars, RowInv, WillCreate
  <1> QED
    BY <1>1, <1>2, <1>3 DEF Next

\* Whatever fails and however many verifications, retries and polls overlap, a paid
\* order that is not being worked on has a row: createShipmentsForOrder always leaves one.
THEOREM EveryPaidOrderHasARowAlways == Spec => []EveryPaidOrderHasARow
  <1>1. RowInv => EveryPaidOrderHasARow
    BY DEF RowInv, WillCreate, EveryPaidOrderHasARow
  <1> QED
    BY <1>1, RowInit, RowStep, PTL DEF Spec

-----------------------------------------------------------------------------
(* What the mapper computes.  The fold over the listed scans is the value at  *)
(* all of them of a function that takes the last scan out of each set; what   *)
(* such a function has at every set of scans is shown by SubsetInduction.     *)

\* The function for the set I of scans of a list, heard after the status base.
IsHearing(g, base, list, I) ==
    g = [s \in SUBSET I |-> IF s = {} THEN base ELSE Heard(g[s \ {Max(s)}], list[Max(s)])]
Hearing(base, list, I) == CHOOSE g : IsHearing(g, base, list, I)

\* A set of positions has a first and a last one.
LEMMA EndsIn ==
    ASSUME NEW S \in SUBSET Nat, IsFiniteSet(S), S # {}
    PROVE  Max(S) \in S /\ Min(S) \in S
<1> DEFINE Bounded(T) == (\E x \in T : \A y \in T : x >= y) /\ (\E x \in T : \A y \in T : x <= y)
           G == {T \in SUBSET S : T = {} \/ Bounded(T)}
<1>2. ASSUME NEW T \in SUBSET S, \A U \in SUBSET T : U # T => U \in G
      PROVE  T \in G
  <2>1. CASE T = {}
    BY <2>1
  <2>2. ASSUME NEW x \in T PROVE T \in G
    <3>1. T \ {x} \in G
      BY <1>2, <2>2
    <3> QED
      BY <2>2, <3>1
  <2> QED
    BY <2>1, <2>2
<1> HIDE DEF G
<1>3. S \in G
  BY <1>2, SubsetInduction
<1> QED
  BY <1>3 DEF G, Max, Min

\* What such a function is at the empty set.
LEMMA HearingNothing ==
    ASSUME NEW base, NEW list, NEW I, NEW g, IsHearing(g, base, list, I)
    PROVE  g[{}] = base
  BY Zenon DEF IsHearing

\* The function for a set and the one for a part of it agree on that part.
Agree(g, h, T) == g[T] = h[T]

LEMMA HearingUnique ==
    ASSUME NEW base, NEW list, NEW I \in SUBSET Nat, IsFiniteSet(I), NEW T \in SUBSET I,
           NEW g, NEW h, IsHearing(g, base, list, I), IsHearing(h, base, list, T)
    PROVE  Agree(g, h, T)
<1> DEFINE G == {U \in SUBSET T : g[U] = h[U]}
<1>1. g[{}] = base
  BY HearingNothing
<1>2. h[{}] = base
  BY HearingNothing
<1>3. \A s \in SUBSET I : s # {} => g[s] = Heard(g[s \ {Max(s)}], list[Max(s)])
  BY Zenon DEF IsHearing
<1>4. \A s \in SUBSET T : s # {} => h[s] = Heard(h[s \ {Max(s)}], list[Max(s)])
  BY Zenon DEF IsHearing
<1>5. IsFiniteSet(T)
  BY FS_Subset
<1>6. ASSUME NEW U \in SUBSET T, \A V \in SUBSET U : V # U => V \in G
      PROVE  U \in G
  <2>1. CASE U = {}
    BY <1>1, <1>2, <2>1
  <2>2. CASE U # {}
    <3>1. Max(U) \in U /\ U \ {Max(U)} \in SUBSET U
      BY <1>5, <2>2, FS_Subset, EndsIn
    <3>2. g[U \ {Max(U)}] = h[U \ {Max(U)}]
      BY <1>6, <3>1
    <3> QED
      BY <1>3, <1>4, <2>2, <3>2
  <2> QED
    BY <2>1, <2>2
<1> HIDE DEF G
<1>7. T \in G
  BY <1>5, <1>6, SubsetInduction
<1> QED
  BY <1>7 DEF G, Agree

\* What is heard of a set of positions is what is heard of all but the last, and the last.
LEMMA HearingLast ==
    ASSUME NEW base, NEW list, NEW I \in SUBSET Nat, IsFiniteSet(I), I # {},
           NEW T, T = I \ {Max(I)},
           IsHearing(Hearing(base, list, I), base, list, I),
           IsHearing(Hearing(base, list, T), base, list, T)
    PROVE  Hearing(base, list, I)[I] = Heard(Hearing(base, list, T)[T], list[Max(I)])
<1>1. I \in SUBSET I /\ T \in SUBSET I
  OBVIOUS
<1> PICK g, h : g = Hearing(base, list, I) /\ h = Hearing(base, list, T)
  OBVIOUS
<1>2. IsHearing(g, base, list, I) /\ IsHearing(h, base, list, T)
  OBVIOUS
<1>3. g[I] = Heard(g[I \ {Max(I)}], list[Max(I)])
  BY ONLY <1>1, <1>2, I # {}, Zenon DEF IsHearing
<1>4. Agree(g, h, T)
  BY ONLY <1>1, <1>2, I \in SUBSET Nat, IsFiniteSet(I), HearingUnique
<1> QED
  BY <1>3, <1>4, Zenon DEF Agree

\* There is such a function for every set of positions.
LEMMA HearingExists ==
    ASSUME NEW base, NEW list, NEW I \in SUBSET Nat, IsFiniteSet(I)
    PROVE  IsHearing(Hearing(base, list, I), base, list, I)
<1> DEFINE G == {T \in SUBSET I : IsHearing(Hearing(base, list, T), base, list, T)}
<1>1. ASSUME NEW T \in SUBSET I, \A U \in SUBSET T : U # T => U \in G
      PROVE  T \in G
  <2> DEFINE Rest(s) == s \ {Max(s)}
             At(s) == Hearing(base, list, s)[s]
             g == [s \in SUBSET T |-> IF s = {} THEN base ELSE Heard(At(Rest(s)), list[Max(s)])]
  <2>1. ASSUME NEW s \in SUBSET T, s # {} PROVE g[Rest(s)] = At(Rest(s))
    <3> DEFINE u == Rest(s)
    <3>0. IsFiniteSet(s)
      BY FS_Subset
    <3>1. u \in SUBSET T /\ u # T /\ u \in SUBSET Nat /\ IsFiniteSet(u)
      BY <2>1, <3>0, EndsIn, FS_Subset
    <3>2. IsHearing(Hearing(base, list, u), base, list, u)
      BY <1>1, <3>1
    <3>3. CASE u = {}
      <4>1. At(u) = base
        BY <3>2, <3>3, HearingNothing
      <4> QED
        BY <3>1, <3>3, <4>1
    <3>4. CASE u # {}
      <4> DEFINE v == Rest(u)
      <4>1. v \in SUBSET u /\ v \in SUBSET T /\ v # T
        BY <3>1
      <4>2. IsHearing(Hearing(base, list, v), base, list, v)
        BY <1>1, <4>1
      <4>3. g[u] = Heard(At(v), list[Max(u)])
        BY <3>1, <3>4
      <4>4. v = u \ {Max(u)}
        OBVIOUS
      <4> HIDE DEF u, v, g
      <4>5. Hearing(base, list, u)[u] = Heard(Hearing(base, list, v)[v], list[Max(u)])
        BY ONLY <3>1, <3>2, <3>4, <4>2, <4>4, HearingLast
      <4> QED
        BY <4>3, <4>5 DEF u
    <3> QED
      BY <3>3, <3>4
  <2>2. g = [s \in SUBSET T |-> IF s = {} THEN base ELSE Heard(g[s \ {Max(s)}], list[Max(s)])]
    BY <2>1
  <2> HIDE DEF g
  <2>3. IsHearing(g, base, list, T)
    BY <2>2 DEF IsHearing
  <2> QED
    BY <2>3 DEF Hearing
<1> HIDE DEF G
<1>2. I \in G
  BY <1>1, SubsetInduction
<1> QED
  BY <1>2 DEF G

\* The fold of the mapper is the value of that function.
LEMMA FoldIsHearing ==
    ASSUME NEW base, NEW list
    PROVE  FoldLeft(Heard, base, list) = Hearing(base, list, DOMAIN list)[DOMAIN list]
  BY DEF FoldLeft, MapThenFoldSet, Hearing, IsHearing

\* What the fold gives: statuses of R, if no scan leads out of R; and one of U \subseteq R
\* if some scan leads into U and none leads out again.
LEMMA FoldEnds ==
    ASSUME NEW X, NEW list \in Seq(X), NEW R, NEW U \in SUBSET R, NEW base \in R,
           \A i \in DOMAIN list : \A r \in R : Heard(r, list[i]) \in R,
           \A i \in DOMAIN list : \A r \in U : Heard(r, list[i]) \in U
    PROVE  /\ FoldLeft(Heard, base, list) \in R
           /\ \A i \in DOMAIN list : (\A r \in R : Heard(r, list[i]) \in U)
                => FoldLeft(Heard, base, list) \in U
<1> DEFINE I == DOMAIN list
           h == Hearing(base, list, I)
           G == {T \in SUBSET I : h[T] \in R /\ \A i \in T :
                    (\A r \in R : Heard(r, list[i]) \in U) => h[T] \in U}
<1>1. I \in SUBSET Nat /\ IsFiniteSet(I)
  <2>1. Len(list) \in Nat /\ I = 1..Len(list)
    BY LenProperties
  <2> QED
    BY <2>1, FS_Interval
<1>2. IsHearing(h, base, list, I)
  <2> HIDE DEF I
  <2> QED
    BY <1>1, HearingExists
<1>3. FoldLeft(Heard, base, list) = h[I]
  BY FoldIsHearing
<1> HIDE DEF h
<1>4. ASSUME NEW T \in SUBSET I, \A V \in SUBSET T : V # T => V \in G
      PROVE  T \in G
  <2>1. CASE T = {}
    <3>1. h[T] = base
      BY <1>2, <2>1, HearingNothing
    <3> QED
      BY <2>1, <3>1
  <2>2. CASE T # {}
    <3> DEFINE m == Max(T)
               rest == T \ {Max(T)}
    <3>1. m \in T /\ rest \in SUBSET T /\ rest # T
      BY <1>1, <2>2, FS_Subset, EndsIn
    <3>2. h[T] = Heard(h[rest], list[m])
      BY <1>2, <2>2, Zenon DEF IsHearing
    <3>3. rest \in G
      BY <1>4, <3>1
    <3> HIDE DEF m
    <3>4. h[T] \in R
      BY <3>1, <3>2, <3>3
    <3>5. ASSUME NEW i \in T, \A r \in R : Heard(r, list[i]) \in U PROVE h[T] \in U
      <4>1. CASE i = m
        BY <3>2, <3>3, <3>5, <4>1
      <4>2. CASE i # m
        <5>1. i \in rest
          BY <4>2 DEF m
        <5>2. h[rest] \in U
          BY <3>3, <3>5, <5>1
        <5> QED
          BY <3>1, <3>2, <5>2
      <4> QED
        BY <4>1, <4>2
    <3> QED
      BY <3>4, <3>5
  <2> QED
    BY <2>1, <2>2
<1> HIDE DEF G, I
<1>5. I \in G
  BY <1>1, <1>4, SubsetInduction
<1> QED
  BY <1>3, <1>5 DEF G, I

-----------------------------------------------------------------------------
(* What FedEx lists, and what is made of it.                                 *)

\* What the scans of a list since the cut say.
Fresh(list) == {list[i].code : i \in {j \in DOMAIN list : ~list[j].old}}

\* What FedEx keeps of its parcels.
ScansOK ==
    /\ scans \in [Parcels -> Seq(Codes)] /\ past \in [Parcels -> Seq(Scan)]
    /\ behind \in SUBSET Parcels
    /\ \A p \in behind : scans[p] # <<>>

\* What FedEx knows under a number: what an earlier parcel left, and the parcel's own scans.
LEMMA KnownScans ==
    ASSUME ScansOK, NEW p \in Parcels
    PROVE  /\ Known(p) \in Seq(Scan)
           /\ Len(Known(p)) = Len(past[p]) + Len(scans[p])
           /\ Len(past[p]) \in Nat /\ Len(scans[p]) \in Nat
           /\ \A i \in 1..Len(past[p]) : Known(p)[i] = past[p][i]
           /\ \A j \in 1..Len(scans[p]) :
                 Known(p)[Len(past[p]) + j] = [code |-> scans[p][j], old |-> FALSE]
<1> DEFINE late == [i \in DOMAIN scans[p] |-> [code |-> scans[p][i], old |-> FALSE]]
<1>1. past[p] \in Seq(Scan) /\ scans[p] \in Seq(Codes)
  BY DEF ScansOK
<1>2. late \in Seq(Scan) /\ Len(late) = Len(scans[p])
  <2>1. DOMAIN scans[p] = 1..Len(scans[p]) /\ Len(scans[p]) \in Nat
    BY <1>1, LenProperties
  <2>2. \A i \in 1..Len(scans[p]) : [code |-> scans[p][i], old |-> FALSE] \in Scan
    BY <1>1 DEF Scan
  <2> QED
    BY <2>1, <2>2
<1>3. \A i \in 1..Len(late) : late[i] = [code |-> scans[p][i], old |-> FALSE]
  <2>1. DOMAIN scans[p] = 1..Len(late)
    BY <1>1, <1>2, LenProperties
  <2> QED
    BY <2>1
<1>4. Known(p) = past[p] \o late
  BY DEF Known
<1> HIDE DEF late
<1>5. Len(past[p]) \in Nat /\ Len(late) \in Nat
  BY <1>1, <1>2, LenProperties
<1>6. /\ past[p] \o late \in Seq(Scan)
      /\ Len(past[p] \o late) = Len(past[p]) + Len(late)
      /\ \A i \in 1..(Len(past[p]) + Len(late)) : (past[p] \o late)[i] =
            IF i <= Len(past[p]) THEN past[p][i] ELSE late[i - Len(past[p])]
  BY <1>1, <1>2, ConcatProperties
<1>7. \A i \in 1..Len(past[p]) : Known(p)[i] = past[p][i]
  BY <1>4, <1>5, <1>6
<1>8. ASSUME NEW j \in 1..Len(scans[p])
      PROVE  Known(p)[Len(past[p]) + j] = [code |-> scans[p][j], old |-> FALSE]
  <2> DEFINE n == Len(past[p])
             i == n + j
  <2>0. /\ n \in Nat /\ j \in Nat /\ i \in 1..(n + Len(late)) /\ ~(i <= n) /\ i - n = j
    <3>1. \A a, l \in Nat : \A b \in 1..l :
            b \in Nat /\ a + b \in 1..(a + l) /\ ~(a + b <= a) /\ (a + b) - a = b
      OBVIOUS
    <3>2. j \in 1..Len(late)
      BY <1>2
    <3> QED
      BY <1>5, <3>1, <3>2
  <2> HIDE DEF i, n
  <2>1. Known(p)[i] = late[j]
    BY <1>4, <1>6, <2>0 DEF n
  <2> QED
    BY <1>2, <1>3, <2>1 DEF i, n
<1> QED
  BY <1>2, <1>4, <1>5, <1>6, <1>7, <1>8

\* What Track lists of it: all, or all but the last.
LEMMA ListedScans ==
    ASSUME ScansOK, NEW p \in Parcels
    PROVE  /\ Listed(p) \in Seq(Scan)
           /\ Len(Listed(p)) <= Len(Known(p)) /\ Len(Listed(p)) \in Nat
           /\ p \notin behind => Listed(p) = Known(p)
           /\ \A i \in 1..Len(Listed(p)) : Listed(p)[i] = Known(p)[i]
<1>1. Known(p) \in Seq(Scan)
  BY KnownScans
<1>2. Len(Known(p)) \in Nat /\ \A i \in 1..Len(Known(p)) : Known(p)[i] \in Scan
  BY <1>1, LenProperties
<1>3. CASE p \notin behind
  BY <1>1, <1>2, <1>3 DEF Listed
<1>4. CASE p \in behind
  <2> DEFINE n == Len(Known(p)) - 1
             f == SubSeq(Known(p), 1, n)
  <2>1. Listed(p) = f
    BY <1>4 DEF Listed, Front
  <2>2. n \in Int /\ \A i \in 1..n : Known(p)[i] \in Scan
    BY <1>2
  <2>3. Len(Known(p)) # 0
    BY <1>4, KnownScans, LenProperties DEF ScansOK
  <2> HIDE DEF n
  <2>4. /\ f \in Seq(Scan) /\ Len(f) = IF 1 <= n THEN n - 1 + 1 ELSE 0
        /\ \A i \in 1..n - 1 + 1 : f[i] = Known(p)[1 + i - 1]
    BY <2>2, SubSeqProperties
  <2> HIDE DEF f
  <2>5. n \in Nat
    BY <1>2, <2>3 DEF n
  <2>8. Len(f) = n
    <3>1. CASE n = 0
      BY <2>4, <3>1
    <3>2. CASE n # 0
      BY <2>4, <2>5, <3>2
    <3> QED
      BY <3>1, <3>2
  <2>6. \A i \in 1..n : f[i] = Known(p)[i]
    BY <2>4, <2>5, <2>8
  <2>7. n <= Len(Known(p))
    BY <1>2 DEF n
  <2> QED
    BY <1>4, <2>1, <2>4, <2>5, <2>6, <2>7, <2>8
<1> QED
  BY <1>3, <1>4

\* The order in which they are listed does not matter to that.
LEMMA ReversedScans ==
    ASSUME NEW list \in Seq(Scan)
    PROVE  Reverse(list) \in Seq(Scan) /\ Fresh(Reverse(list)) = Fresh(list)
<1>1. Len(list) \in Nat /\ DOMAIN list = 1..Len(list)
  BY LenProperties
<1>2. Reverse(list) \in Seq(Scan)
  BY <1>1 DEF Reverse
<1>3. /\ DOMAIN Reverse(list) = DOMAIN list
      /\ \A i \in DOMAIN list : /\ Len(list) - i + 1 \in DOMAIN list
                                /\ Reverse(list)[i] = list[Len(list) - i + 1]
                                /\ list[i] = Reverse(list)[Len(list) - i + 1]
  BY <1>1 DEF Reverse
<1>4. ASSUME NEW c \in Fresh(list) PROVE c \in Fresh(Reverse(list))
  <2>1. PICK i \in DOMAIN list : ~list[i].old /\ c = list[i].code
    BY <1>4 DEF Fresh
  <2> QED
    BY <1>3, <2>1 DEF Fresh
<1>5. ASSUME NEW c \in Fresh(Reverse(list)) PROVE c \in Fresh(list)
  <2>1. PICK i \in DOMAIN list : ~Reverse(list)[i].old /\ c = Reverse(list)[i].code
    BY <1>3, <1>5 DEF Fresh
  <2> QED
    BY <1>3, <2>1 DEF Fresh
<1> QED
  BY <1>2, <1>4, <1>5

\* A code says one of the statuses, or nothing.
LEMMA MappedType == \A c \in Codes : Mapped(c) \in Statuses \cup {"none"}
  BY DEF Codes, Mapped, Statuses, Moving, Retriable

\* A trusted latest status that some listed scan has is one of the scans since the cut.
LEMMA TrustedIsFresh ==
    ASSUME NEW list \in Seq(Scan), NEW latest, Trusted(list, latest),
           \E i \in DOMAIN list : list[i].code = latest
    PROVE  latest \in Fresh(list)
<1> DEFINE same == {i \in DOMAIN list : list[i].code = latest}
<1>1. DOMAIN list = 1..Len(list) /\ Len(list) \in Nat
  BY LenProperties
<1>2. same \in SUBSET Nat /\ IsFiniteSet(same) /\ same # {}
  <2>1. IsFiniteSet(1..Len(list))
    BY <1>1, FS_Interval
  <2>2. same \in SUBSET (1..Len(list)) /\ same # {}
    BY <1>1
  <2> HIDE DEF same
  <2>3. IsFiniteSet(same)
    BY <2>1, <2>2, FS_Subset
  <2> QED
    BY <1>1, <2>2, <2>3
<1>3. Min(same) \in same
  <2> HIDE DEF same
  <2> QED
    BY <1>2, EndsIn
<1>4. ~list[Min(same)].old
  BY <1>2 DEF Trusted
<1> HIDE DEF same
<1>5. Min(same) \in DOMAIN list /\ list[Min(same)].code = latest
  BY <1>3 DEF same
<1> QED
  BY <1>4, <1>5 DEF Fresh

\* What a poll reckons with: the listed scans since the cut, and the latest status if trusted.
Reckoned(list, latest) == Fresh(list) \cup {c \in {latest} : Trusted(list, latest)}
Tellings(list, latest) == {Mapped(c) : c \in Reckoned(list, latest)}

\* The scans of a list have their codes among those, or are old.
LEMMA FreshCodes ==
    ASSUME NEW list \in Seq(Scan), NEW i \in DOMAIN list
    PROVE  list[i].old \in BOOLEAN /\ (~list[i].old => list[i].code \in Fresh(list) \cap Codes)
<1>1. list[i] \in Scan
  BY LenProperties
<1> QED
  BY <1>1 DEF Scan, Fresh

LEMMA ReckonedCodes ==
    ASSUME NEW list \in Seq(Scan), NEW latest \in Codes \cup {"none"}
    PROVE  /\ Reckoned(list, latest) \subseteq Codes
           /\ \A i \in DOMAIN list : /\ list[i].old \in BOOLEAN
                                     /\ ~list[i].old => list[i].code \in Reckoned(list, latest)
           /\ Trusted(list, latest) => latest \in Reckoned(list, latest)
<1>1. Fresh(list) \subseteq Codes
  BY FreshCodes DEF Fresh
<1>2. Trusted(list, latest) => latest \in Codes
  BY DEF Trusted
<1>3. Reckoned(list, latest) \subseteq Codes
  BY <1>1, <1>2 DEF Reckoned
<1> QED
  BY <1>3, FreshCodes DEF Reckoned

\* What the mapper computes is where it started, an exception, or what is reckoned with.
LEMMA ComputedIsSaid ==
    ASSUME NEW s \in Statuses, NEW list \in Seq(Scan), NEW latest \in Codes \cup {"none"}
    PROVE  \/ s \in {"CANCELLED", "PENDING_ADDRESS"} /\ Computed(s, list, latest) = s
           \/ Computed(s, list, latest) \in
                 {"LABEL_CREATED", "EXCEPTION"} \cup (Tellings(list, latest) \cap Statuses)
<1> DEFINE C == Reckoned(list, latest)
           R == {"LABEL_CREATED", "EXCEPTION"} \cup (Tellings(list, latest) \cap Statuses)
           start == IF s = "EXCEPTION" THEN "EXCEPTION" ELSE "LABEL_CREATED"
           first == IF Trusted(list, latest) THEN Resolve(start, latest) ELSE start
<1>1. ASSUME NEW r \in R, NEW c \in C PROVE Resolve(r, c) \in R
  <2>1. Mapped(c) = "none" \/ Mapped(c) \in R
    BY MappedType, ReckonedCodes DEF Tellings
  <2> QED
    BY <2>1 DEF Resolve
<1>2. start \in R
  OBVIOUS
<1> HIDE DEF R, start
<1>3. first \in R
  BY <1>1, <1>2, ReckonedCodes
<1>4. \A i \in DOMAIN list : \A r \in R : Heard(r, list[i]) \in R
  BY <1>1, ReckonedCodes DEF Heard
<1> HIDE DEF first
<1>5. FoldLeft(Heard, first, list) \in R
  BY <1>3, <1>4, FoldEnds
<1>6. Computed(s, list, latest) =
        IF s \in {"CANCELLED", "PENDING_ADDRESS"} THEN s ELSE FoldLeft(Heard, first, list)
  BY DEF Computed, first, start
<1> QED
  BY <1>5, <1>6 DEF R

\* When that tells of no exception, it is at least each of them, and at least a label if
\* the row knew of one.
LEMMA ComputedIsForward ==
    ASSUME NEW s \in Statuses \ {"CANCELLED", "PENDING_ADDRESS"}, NEW list \in Seq(Scan),
           NEW latest \in Codes \cup {"none"},
           \A c \in Reckoned(list, latest) : Mapped(c) \notin {"EXCEPTION", "CANCELLED"}
    PROVE  /\ \A c \in Reckoned(list, latest) :
                Mapped(c) \in Moving => Rank(Computed(s, list, latest)) >= Rank(Mapped(c))
           /\ s # "EXCEPTION" => Rank(Computed(s, list, latest)) >= 1
<1> DEFINE C == Reckoned(list, latest)
           R == {"LABEL_CREATED"} \cup Moving
           E == R \cup {"EXCEPTION"}
           start == IF s = "EXCEPTION" THEN "EXCEPTION" ELSE "LABEL_CREATED"
           first == IF Trusted(list, latest) THEN Resolve(start, latest) ELSE start
<1>1. \A c \in C : Mapped(c) \in R \cup {"none"}
  <2>1. C \subseteq Codes
    BY ReckonedCodes
  <2> QED
    BY <2>1, MappedType DEF Statuses, Retriable, Mapped, Codes
<1>2. \A r \in R : Rank(r) \in 1..5
  BY DEF Rank, Moving
<1>3. Rank("EXCEPTION") = 0
  BY DEF Rank
<1>4. ASSUME NEW r \in R, NEW c \in C
      PROVE  Resolve(r, c) \in R /\ Rank(Resolve(r, c)) >= Rank(r)
  BY <1>1, <1>2 DEF Resolve, Moving, Retriable
<1>5. ASSUME NEW r \in E, NEW c \in C
      PROVE  Resolve(r, c) \in E
  BY <1>1 DEF Resolve, Moving, Retriable
<1>6. ASSUME NEW r \in E, NEW c \in C, Mapped(c) \in Moving
      PROVE  Resolve(r, c) \in R /\ Rank(Resolve(r, c)) >= Rank(Mapped(c))
  BY <1>2, <1>6 DEF Resolve, Moving, Retriable, Rank
<1>0. Trusted(list, latest) => latest \in C
  BY ReckonedCodes
<1>7. first \in E /\ (s # "EXCEPTION" => first \in R)
  BY <1>0, <1>4, <1>5
<1>8. Computed(s, list, latest) = FoldLeft(Heard, first, list)
  BY DEF Computed, first
<1>9. \A i \in DOMAIN list : list[i].old \in BOOLEAN /\ (~list[i].old => list[i].code \in C)
  BY ReckonedCodes
<1>10. ASSUME s # "EXCEPTION" PROVE Rank(Computed(s, list, latest)) >= 1
  <2>1. \A i \in DOMAIN list : \A r \in R : Heard(r, list[i]) \in R
    BY <1>4, <1>9 DEF Heard
  <2>2. first \in R
    BY <1>7, <1>10
  <2> HIDE DEF R, first
  <2>3. FoldLeft(Heard, first, list) \in R
    BY <2>1, <2>2, FoldEnds
  <2> QED
    BY <1>2, <1>8, <2>3
<1>11. ASSUME NEW c \in C, Mapped(c) \in Moving
       PROVE  Rank(Computed(s, list, latest)) >= Rank(Mapped(c))
  <2> DEFINE U == {r \in R : Rank(r) >= Rank(Mapped(c))}
  <2>0. Rank(Mapped(c)) \in 1..5
    BY <1>2, <1>11
  <2>1. \A i \in DOMAIN list : \A r \in E : Heard(r, list[i]) \in E
    BY <1>5, <1>9 DEF Heard
  <2>2. \A i \in DOMAIN list : \A r \in U : Heard(r, list[i]) \in U
    <3>1. SUFFICES ASSUME NEW i \in DOMAIN list, NEW r \in U, ~list[i].old
                   PROVE Resolve(r, list[i].code) \in U
      BY <1>9 DEF Heard
    <3>2. list[i].code \in C
      BY <1>9, <3>1
    <3>3. Resolve(r, list[i].code) \in R /\ Rank(Resolve(r, list[i].code)) >= Rank(r)
      BY <1>4, <3>2
    <3>4. /\ Rank(r) \in 1..5 /\ Rank(Resolve(r, list[i].code)) \in 1..5
          /\ Rank(r) >= Rank(Mapped(c))
      BY <1>2, <3>3
    <3>5. Rank(Resolve(r, list[i].code)) >= Rank(Mapped(c))
      BY <2>0, <3>3, <3>4
    <3> QED
      BY <3>3, <3>5
  <2>3. U \in SUBSET E
    OBVIOUS
  <2>4. CASE c \in Fresh(list)
    <3>1. PICK i \in DOMAIN list : ~list[i].old /\ list[i].code = c
      BY <2>4 DEF Fresh
    <3>2. \A r \in E : Heard(r, list[i]) \in U
      BY <1>6, <1>11, <3>1 DEF Heard
    <3> HIDE DEF U, E, first
    <3>3. FoldLeft(Heard, first, list) \in U
      BY <1>7, <2>1, <2>2, <2>3, <3>1, <3>2, FoldEnds
    <3> QED
      BY <1>8, <3>3 DEF U
  <2>5. CASE c = latest /\ Trusted(list, latest)
    <3>1. start \in E /\ first = Resolve(start, c)
      BY <2>5
    <3>2. first \in U
      BY <1>6, <1>11, <3>1
    <3> HIDE DEF U, first
    <3>3. FoldLeft(Heard, first, list) \in U
      BY <2>2, <3>2, FoldEnds
    <3> QED
      BY <1>8, <3>3 DEF U
  <2>6. c \in Fresh(list) \/ (c = latest /\ Trusted(list, latest))
    BY <1>11 DEF Reckoned
  <2> QED
    BY <2>4, <2>5, <2>6
<1> QED
  BY <1>10, <1>11

-----------------------------------------------------------------------------
(* What a poll of a parcel reckons with, whatever FedEx calls the latest.    *)

Newest(p)   == IF Known(p) = <<>> THEN "none" ELSE Known(p)[Len(Known(p))].code
Reached(p)  == Reckoned(Ordered(p), Newest(p))
Believed(p) == {Mapped(c) : c \in Reached(p)}

\* The order of the list does not matter to what it says.
LEMMA OrderedScans ==
    ASSUME ScansOK, NEW p \in Parcels
    PROVE  /\ Ordered(p) \in Seq(Scan) /\ Fresh(Ordered(p)) = Fresh(Listed(p))
           /\ p \notin behind => \A i \in DOMAIN Known(p) :
                 \E j \in DOMAIN Ordered(p) : Ordered(p)[j] = Known(p)[i]
<1>1. Listed(p) \in Seq(Scan) /\ (p \notin behind => Listed(p) = Known(p))
  BY ListedScans
<1>2. CASE ~newestFirst
  BY <1>1, <1>2 DEF Ordered
<1>3. CASE newestFirst
  <2>1. Ordered(p) = Reverse(Listed(p))
    BY <1>3 DEF Ordered
  <2>2. ASSUME p \notin behind, NEW i \in DOMAIN Known(p)
        PROVE  \E j \in DOMAIN Ordered(p) : Ordered(p)[j] = Known(p)[i]
    <3>1. Len(Listed(p)) \in Nat /\ DOMAIN Listed(p) = 1..Len(Listed(p)) /\ i \in DOMAIN Listed(p)
      BY <1>1, <2>2, LenProperties
    <3>2. /\ Len(Listed(p)) - i + 1 \in 1..Len(Listed(p))
          /\ Len(Listed(p)) - (Len(Listed(p)) - i + 1) + 1 = i
      BY <3>1
    <3>3. Ordered(p)[Len(Listed(p)) - i + 1] = Listed(p)[i]
      BY <2>1, <3>1, <3>2 DEF Reverse
    <3>4. Len(Listed(p)) - i + 1 \in DOMAIN Ordered(p)
      BY <2>1, <3>2 DEF Reverse
    <3> QED
      BY <1>1, <2>2, <3>3, <3>4
  <2> QED
    BY <1>1, <2>1, <2>2, ReversedScans
<1> QED
  BY <1>2, <1>3

\* A trusted status of a parcel that is not behind is listed.
LEMMA NotBehind ==
    ASSUME ScansOK, NEW p \in Parcels, p \notin behind,
           NEW latest, latest = "none" \/ \E i \in DOMAIN Known(p) : latest = Known(p)[i].code
    PROVE  Reckoned(Ordered(p), latest) = Fresh(Ordered(p))
<1>1. ASSUME Trusted(Ordered(p), latest) PROVE latest \in Fresh(Ordered(p))
  <2>1. PICK i \in DOMAIN Known(p) : latest = Known(p)[i].code
    BY <1>1 DEF Trusted
  <2>2. \E j \in DOMAIN Ordered(p) : Ordered(p)[j].code = latest
    BY <2>1, OrderedScans
  <2> QED
    BY <1>1, <2>2, OrderedScans, TrustedIsFresh
<1> QED
  BY <1>1 DEF Reckoned

LEMMA NewestKnown ==
    ASSUME ScansOK, NEW p \in Parcels
    PROVE  Newest(p) = "none" \/ \E i \in DOMAIN Known(p) : Newest(p) = Known(p)[i].code
<1>1. CASE Known(p) = <<>>
  BY <1>1 DEF Newest
<1>2. CASE Known(p) # <<>>
  <2>1. Known(p) \in Seq(Scan)
    BY KnownScans
  <2>2. Len(Known(p)) \in DOMAIN Known(p)
    BY <1>2, <2>1, LenProperties, EmptySeq
  <2> QED
    BY <1>2, <2>2 DEF Newest
<1> QED
  BY <1>1, <1>2

\* Every poll now reckons with the same codes.
LEMMA PollsAgree ==
    ASSUME ScansOK, NEW p \in Parcels, NEW latest \in Latest(p)
    PROVE  latest \in Codes \cup {"none"} /\ Reckoned(Ordered(p), latest) = Reached(p)
<1>1. latest = "none" \/ \E i \in DOMAIN Known(p) : latest = Known(p)[i].code
  BY DEF Latest
<1>2. latest \in Codes \cup {"none"}
  <2>1. \A i \in DOMAIN Known(p) : Known(p)[i] \in Scan
    BY KnownScans, LenProperties
  <2> QED
    BY <1>1, <2>1 DEF Scan
<1>3. CASE p \in behind
  <2>1. latest = Newest(p)
    BY <1>3 DEF Latest, Newest
  <2> QED
    BY <1>2, <2>1 DEF Reached
<1>4. CASE p \notin behind
  <2>1. Reckoned(Ordered(p), latest) = Fresh(Ordered(p))
    BY <1>1, <1>4, NotBehind
  <2>2. Reckoned(Ordered(p), Newest(p)) = Fresh(Ordered(p))
    BY <1>4, NewestKnown, NotBehind
  <2> QED
    BY <1>2, <2>1, <2>2 DEF Reached
<1> QED
  BY <1>3, <1>4

\* All of it are scans since the cut that FedEx knows.
LEMMA ReachedIsKnown ==
    ASSUME ScansOK, NEW p \in Parcels
    PROVE  Reached(p) \subseteq Fresh(Known(p)) /\ Believed(p) \subseteq Told(p)
<1>1. Fresh(Ordered(p)) \subseteq Fresh(Known(p))
  <2>1. Fresh(Ordered(p)) = Fresh(Listed(p))
    BY OrderedScans
  <2>2. /\ DOMAIN Listed(p) = 1..Len(Listed(p)) /\ DOMAIN Known(p) = 1..Len(Known(p))
        /\ Len(Known(p)) \in Nat
    BY KnownScans, ListedScans, LenProperties
  <2>3. \A i \in DOMAIN Listed(p) : i \in DOMAIN Known(p) /\ Listed(p)[i] = Known(p)[i]
    BY <2>2, ListedScans
  <2> QED
    BY <2>1, <2>3 DEF Fresh
<1>2. ASSUME p \in behind PROVE Newest(p) \in Fresh(Known(p))
  <2>1. Len(scans[p]) # 0
    BY <1>2, LenProperties DEF ScansOK
  <2>2. /\ Len(scans[p]) \in 1..Len(scans[p]) /\ Known(p) # <<>>
        /\ Len(Known(p)) = Len(past[p]) + Len(scans[p])
        /\ Len(Known(p)) \in 1..Len(Known(p))
    <3>1. /\ Len(scans[p]) \in Nat /\ Len(past[p]) \in Nat
          /\ Len(Known(p)) = Len(past[p]) + Len(scans[p])
      BY KnownScans
    <3>2. \A a, b \in Nat : b # 0 => a + b # 0 /\ b \in 1..b /\ a + b \in 1..(a + b)
      OBVIOUS
    <3>3. /\ Len(Known(p)) # 0 /\ Len(scans[p]) \in 1..Len(scans[p])
          /\ Len(Known(p)) \in 1..Len(Known(p))
      BY <2>1, <3>1, <3>2
    <3>4. Known(p) # <<>>
      BY <3>3
    <3> QED
      BY <3>1, <3>3, <3>4
  <2>3. Known(p)[Len(Known(p))] = [code |-> scans[p][Len(scans[p])], old |-> FALSE]
    BY <2>2, KnownScans
  <2>4. Newest(p) = Known(p)[Len(Known(p))].code /\ ~Known(p)[Len(Known(p))].old
    BY <2>2, <2>3 DEF Newest
  <2>5. Len(Known(p)) \in DOMAIN Known(p)
    BY <2>2, KnownScans, LenProperties
  <2> QED
    BY <2>4, <2>5 DEF Fresh
<1>3. p \notin behind => Reached(p) = Fresh(Ordered(p))
  BY NewestKnown, NotBehind DEF Reached
<1>4. Reached(p) \subseteq Fresh(Known(p))
  BY <1>1, <1>2, <1>3 DEF Reached, Reckoned
<1>5. Told(p) = {Mapped(c) : c \in Fresh(Known(p))}
  BY DEF Told, Fresh
<1> QED
  BY <1>4, <1>5 DEF Believed

\* What a poll carries away from FedEx about the parcel it asked for.
LEMMA Answered ==
    ASSUME ScansOK, NEW k \in Workers, NEW p \in Parcels, task[k].parcel = p,
           task[k].status \in Statuses, TrackAnswers(k)
    PROVE  \E s : /\ Carry(k, Task("sync", NoParcel, s, FALSE))
                  /\ s \in {"same", "LABEL_CREATED", "EXCEPTION"} \cup (Believed(p) \cap Statuses)
                  /\ s # "same" /\ task[k].status # "CANCELLED" /\ Smooth(p) =>
                        /\ \A t \in Believed(p) \cap Moving : Rank(s) >= Rank(t)
                        /\ task[k].status \notin Retriable => Rank(s) >= 1
<1> DEFINE list == Ordered(p)
           old  == task[k].status
<1>1. list \in Seq(Scan)
  BY OrderedScans
<1>2. PICK latest \in Latest(p) :
        Carry(k, Task("sync", NoParcel, IF Computed(old, list, latest) = old THEN "same"
                                        ELSE Computed(old, list, latest), FALSE))
  BY DEF TrackAnswers
<1>3. latest \in Codes \cup {"none"} /\ Reckoned(list, latest) = Reached(p)
  BY PollsAgree
<1>4. Believed(p) = Tellings(list, latest)
  BY <1>3 DEF Believed, Tellings
<1> DEFINE new == Computed(old, list, latest)
           s   == IF new = old THEN "same" ELSE new
<1> HIDE DEF list
<1>5. new = old \/ new \in {"LABEL_CREATED", "EXCEPTION"} \cup (Believed(p) \cap Statuses)
  BY <1>1, <1>3, <1>4, ComputedIsSaid
<1>6. old \in {"CANCELLED", "PENDING_ADDRESS"} => new = old
  BY DEF Computed
<1>7. ASSUME old \notin {"CANCELLED", "PENDING_ADDRESS"}, Smooth(p)
      PROVE  /\ \A t \in Believed(p) \cap Moving : Rank(new) >= Rank(t)
             /\ old \notin Retriable => Rank(new) >= 1
  <2>1. \A c \in Reckoned(list, latest) : Mapped(c) \notin {"EXCEPTION", "CANCELLED"}
    BY <1>3, <1>7, ReachedIsKnown DEF Smooth, Believed
  <2>2. /\ \A c \in Reckoned(list, latest) : Mapped(c) \in Moving => Rank(new) >= Rank(Mapped(c))
        /\ old # "EXCEPTION" => Rank(new) >= 1
    <3>1. old \in Statuses \ {"CANCELLED", "PENDING_ADDRESS"}
      BY <1>7
    <3> HIDE DEF old
    <3> QED
      BY <1>1, <1>3, <2>1, <3>1, ComputedIsForward
  <2> QED
    BY <1>4, <2>2 DEF Retriable, Tellings
<1> HIDE DEF new
<1> WITNESS s
<1> QED
  BY <1>2, <1>5, <1>6, <1>7 DEF new

-----------------------------------------------------------------------------
(* The types.                                                                *)

Tasks == [kind : Kinds, parcel : Parcels \cup {NoParcel},
          status : Statuses \cup {"same"}, ready : BOOLEAN]

\* Where the requests are, and what they carry.
WorkersOK ==
    /\ stage \in [Workers -> Stages]
    /\ task \in [Workers -> Tasks]

\* What is written down before anybody works on it, and what FedEx keeps.
RowsOK ==
    /\ row \in BOOLEAN /\ status \in Statuses
    /\ tracking \in Parcels \cup {NoParcel}
    /\ paid \in BOOLEAN /\ profile \in BOOLEAN /\ due \in BOOLEAN
FedExOK ==
    /\ made \in 0..MaxLabels /\ newestFirst \in BOOLEAN
    /\ ScansOK

\* A request that persists a failure carries one; a poll carries what it has read.
LoadsOK ==
    \A k \in Workers :
        /\ stage[k] \in {"failFind", "failUpdate", "failInsert"} => task[k].status \in Retriable
        /\ stage[k] = "track" => task[k].status \in Statuses /\ task[k].parcel \in Parcels

TypeInv == RowsOK /\ FedExOK /\ WorkersOK /\ LoadsOK

LEMMA TypeParts == RowsOK /\ FedExOK /\ WorkersOK => TypeOK
  BY DEF TypeOK, RowsOK, FedExOK, ScansOK, WorkersOK, Tasks

\* A request that goes on, with what it carried or with a new load.
LEMMA TaskType ==
    ASSUME NEW kind \in Kinds, NEW p \in Parcels \cup {NoParcel},
           NEW s \in Statuses \cup {"same"}, NEW ready \in BOOLEAN
    PROVE  Task(kind, p, s, ready) \in Tasks
  BY DEF Task, Tasks

LEMMA JobType == \A kind \in Kinds : Job(kind) \in Tasks
<1>1. NoParcel \in Parcels \cup {NoParcel}
  OBVIOUS
<1> QED
  BY <1>1, TaskType DEF Job

LEMMA GoType ==
    ASSUME WorkersOK, NEW k \in Workers, NEW from, NEW to \in Stages, Go(k, from, to),
           UNCHANGED task \/ \E t \in Tasks : Carry(k, t)
    PROVE  WorkersOK'
  BY DEF WorkersOK, Go, Carry

LEMMA FinishType ==
    ASSUME WorkersOK, NEW k \in Workers, NEW from, Finish(k, from)
    PROVE  WorkersOK'
<1>1. Nothing \in Tasks /\ "idle" \in Stages
  BY JobType DEF Nothing, Kinds, Stages
<1> QED
  BY <1>1, GoType DEF Finish

LEMMA LeaveType ==
    ASSUME WorkersOK, NEW k \in Workers, NEW from, Leave(k, from)
    PROVE  WorkersOK'
<1>1. "pending" \in Stages
  BY DEF Stages
<1> QED
  BY <1>1, GoType, FinishType DEF Leave

LEMMA PersistType ==
    ASSUME WorkersOK, NEW k \in Workers, NEW from, NEW s \in Statuses, Persist(k, from, s)
    PROVE  WorkersOK'
<1>1. "failFind" \in Stages
  BY DEF Stages
<1>2. task[k].kind \in Kinds /\ NoParcel \in Parcels \cup {NoParcel}
  BY DEF WorkersOK, Tasks
<1>3. Task(task[k].kind, NoParcel, s, FALSE) \in Tasks
  BY <1>2, TaskType
<1> QED
  BY <1>1, <1>3, GoType DEF Persist

LEMMA FailedType ==
    ASSUME WorkersOK, NEW k \in Workers, NEW from, Failed(k, from)
    PROVE  WorkersOK'
<1>1. "failById" \in Stages /\ "EXCEPTION" \in Statuses
  BY DEF Stages, Statuses, Retriable
<1> QED
  BY <1>1, GoType, PersistType, FinishType DEF Failed

\* A request begins.
LEMMA AcceptType ==
    ASSUME RowsOK, FedExOK, WorkersOK, NEW k \in Workers, Accept(k)
    PROVE  RowsOK' /\ FedExOK' /\ WorkersOK'
<1>1. {"artist", "label", "origin", "ensure", "track"} \subseteq Stages
  BY DEF Stages
<1>2. {Job("order"), Job("post"), Job("retry"), Job("ensure")} \subseteq Tasks
  BY JobType DEF Kinds
<1>3. Task("sync", tracking, status, FALSE) \in Tasks
  BY TaskType DEF RowsOK, Kinds
<1>4. ASSUME NEW to \in {"artist", "label", "origin", "ensure", "track"}, NEW t \in Tasks,
             Begin(k, to, t)
      PROVE  WorkersOK'
  <2>1. to \in Stages
    BY <1>1
  <2> QED
    BY <1>4, <2>1, GoType DEF Begin
<1>5. WorkersOK'
  BY <1>2, <1>3, <1>4 DEF Accept, CompleteOrder, PostShipment, RetryShipment, RetryPending,
     PollTracking, SyncTracking, ReadForSync
<1>6. RowsOK' /\ FedExOK'
  BY DEF Accept, CompleteOrder, PostShipment, RetryShipment, RetryPending, PollTracking,
     SyncTracking, ReadForSync, RowsOK, FedExOK, ScansOK, rowVars, shopVars, fedexVars
<1> QED
  BY <1>5, <1>6

\* A request takes a step.
LEMMA ServeWorkers ==
    ASSUME RowsOK, FedExOK, WorkersOK, LoadsOK, NEW k \in Workers, Serve(k)
    PROVE  WorkersOK'
<1>1. CASE EnsureOrders(k)
  BY <1>1, GoType DEF EnsureOrders, Stages
<1>2. CASE FindPending(k)
  <2>1. "reread" \in Stages /\ Job("pending") \in Tasks
    BY JobType DEF Stages, Kinds
  <2> QED
    BY <1>2, <2>1, GoType, FinishType DEF FindPending
<1>3. CASE Reread(k)
  <2>1. "origin" \in Stages /\ "EXCEPTION" \in Statuses
    BY DEF Stages, Statuses, Retriable
  <2> QED
    BY <1>3, <2>1, GoType, PersistType DEF Reread
<1>4. CASE ReadOrigin(k)
  <2>1. "label" \in Stages /\ "EXCEPTION" \in Statuses
    BY DEF Stages, Statuses, Retriable
  <2> QED
    BY <1>4, <2>1, GoType, PersistType, FinishType DEF ReadOrigin
<1>5. CASE ReadArtist(k)
  <2>1. "find" \in Stages
    BY DEF Stages
  <2>2. task[k].kind \in Kinds /\ NoParcel \in Parcels \cup {NoParcel}
    BY DEF WorkersOK, Tasks
  <2>3. Task(task[k].kind, NoParcel, "same", profile) \in Tasks
    BY <2>2, TaskType DEF RowsOK
  <2> QED
    BY <1>5, <2>1, <2>3, GoType DEF ReadArtist
<1>6. CASE FindShipment(k)
  <2>1. "label" \in Stages /\ "PENDING_ADDRESS" \in Statuses
    BY DEF Stages, Statuses, Retriable
  <2>2. Job(task[k].kind) \in Tasks
    BY JobType DEF WorkersOK, Tasks
  <2> QED
    BY <1>6, <2>1, <2>2, GoType, PersistType, LeaveType DEF FindShipment
<1>7. CASE LabelRefused(k)
  BY <1>7, FailedType DEF LabelRefused
<1>8. CASE LabelIssued(k)
  <2>1. "lookup" \in Stages /\ task[k].kind \in Kinds
    BY DEF Stages, WorkersOK, Tasks
  <2>2. made + 1 \in Parcels \cup {NoParcel}
    BY <1>8, ShipmentAssumption DEF LabelIssued, FedExOK, Parcels, ShipmentAssumption
  <2>3. Task(task[k].kind, made + 1, "same", FALSE) \in Tasks
    BY <2>1, <2>2, TaskType
  <2> QED
    BY <1>8, <2>1, <2>3, GoType, FailedType DEF LabelIssued
<1>9. CASE Lookup(k)
  BY <1>9, GoType DEF Lookup, Stages
<1>10. CASE StoreLabel(k)
  BY <1>10, LeaveType, FailedType DEF StoreLabel
<1>11. CASE FindOutcome(k)
  <2>1. {"failInsert", "failUpdate"} \subseteq Stages
    BY DEF Stages
  <2> QED
    BY <1>11, <2>1, GoType, LeaveType DEF FindOutcome
<1>12. CASE StoreOutcome(k)
  BY <1>12, LeaveType, FinishType DEF StoreOutcome
<1>13. CASE StoreException(k)
  <2>1. "EXCEPTION" \in Statuses
    BY DEF Statuses, Retriable
  <2> QED
    BY <1>13, <2>1, FinishType, PersistType DEF StoreException
<1>14. CASE TrackFails(k) \/ ApplyTrack(k)
  BY <1>14, FinishType DEF TrackFails, ApplyTrack
<1>15. CASE TrackAnswers(k)
  <2>1. task[k].parcel \in Parcels /\ task[k].status \in Statuses /\ stage[k] = "track"
    BY <1>15 DEF LoadsOK, TrackAnswers, Go
  <2>2. PICK s : Carry(k, Task("sync", NoParcel, s, FALSE)) /\ s \in Statuses \cup {"same"}
    <3>1. {"LABEL_CREATED", "EXCEPTION"} \subseteq Statuses
      BY DEF Statuses, Retriable
    <3>2. ScansOK
      BY DEF FedExOK
    <3> QED
      BY <1>15, <2>1, <3>1, <3>2, Answered
  <2>3. Task("sync", NoParcel, s, FALSE) \in Tasks
    BY <2>2, TaskType DEF Kinds
  <2>4. Go(k, "track", "apply") /\ "apply" \in Stages
    BY <1>15 DEF TrackAnswers, Stages
  <2> QED
    BY <2>2, <2>3, <2>4, GoType
<1> QED
  BY <1>1, <1>2, <1>3, <1>4, <1>5, <1>6, <1>7, <1>8, <1>9, <1>10, <1>11, <1>12, <1>13,
     <1>14, <1>15 DEF Serve

\* The rows take what the requests carry.
LEMMA ServeRows ==
    ASSUME RowsOK, FedExOK, WorkersOK, LoadsOK, NEW k \in Workers, Serve(k)
    PROVE  RowsOK' /\ FedExOK'
<1> USE DEF RowsOK, FedExOK, ScansOK, rowVars, shopVars, fedexVars
<1>0. /\ {"LABEL_CREATED", "EXCEPTION"} \cup Retriable \subseteq Statuses
      /\ NoParcel \in Parcels \cup {NoParcel}
      /\ task[k].status \in Statuses \cup {"same"} /\ task[k].parcel \in Parcels \cup {NoParcel}
  BY DEF Statuses, Retriable, WorkersOK, Tasks
<1>1. CASE LabelIssued(k)
  <2>1. made + 1 \in 0..MaxLabels /\ made + 1 \in Parcels
    BY <1>1, ShipmentAssumption DEF LabelIssued, ShipmentAssumption, Parcels
  <2>2. PICK list \in Recycled[row] : past' = [past EXCEPT ![made + 1] = list]
    BY <1>1 DEF LabelIssued
  <2>3. list \in Seq(Scan)
    BY ShipmentAssumption DEF ShipmentAssumption
  <2> QED
    BY <1>1, <2>1, <2>2, <2>3 DEF LabelIssued
<1>2. CASE StoreLabel(k)
  BY <1>0, <1>2 DEF StoreLabel, LabelStored
<1>3. CASE StoreOutcome(k)
  <2>1. task[k].status \in Statuses \/ UNCHANGED rowVars
    <3>1. stage[k] \in {"failUpdate", "failInsert"}
      BY <1>3 DEF StoreOutcome, Leave, Finish, Go
    <3> QED
      BY <1>0, <3>1 DEF LoadsOK
  <2> QED
    BY <1>0, <1>3, <2>1 DEF StoreOutcome, OutcomeStored
<1>4. CASE StoreException(k)
  BY <1>0, <1>4 DEF StoreException
<1>5. CASE ApplyTrack(k)
  BY <1>0, <1>5 DEF ApplyTrack
<1>6. CASE EnsureOrders(k) \/ FindPending(k) \/ Reread(k) \/ ReadOrigin(k) \/ ReadArtist(k)
           \/ FindShipment(k) \/ LabelRefused(k)
  BY <1>6 DEF EnsureOrders, FindPending, Reread, ReadOrigin, ReadArtist, FindShipment, LabelRefused
<1>7. CASE Lookup(k) \/ FindOutcome(k) \/ TrackFails(k) \/ TrackAnswers(k)
  BY <1>7 DEF Lookup, FindOutcome, TrackFails, TrackAnswers
<1> QED
  BY <1>1, <1>2, <1>3, <1>4, <1>5, <1>6, <1>7 DEF Serve

\* What a request carries to these awaits is known where it leaves for them.
LEMMA LoadsStep ==
    ASSUME RowsOK, WorkersOK, LoadsOK, NEW k \in Workers, Accept(k) \/ Serve(k)
    PROVE  LoadsOK'
<1> USE DEF Go, Carry, Begin, Finish, Leave, Persist, Failed, Task, Job, Nothing
<1>1. ASSUME NEW j \in Workers, j # k PROVE stage'[j] = stage[j] /\ task'[j] = task[j]
  <2>1. CASE Accept(k)
    BY <1>1, <2>1 DEF WorkersOK, Accept, CompleteOrder, PostShipment, RetryShipment,
       RetryPending, PollTracking, SyncTracking, ReadForSync
  <2>2. CASE EnsureOrders(k) \/ FindPending(k) \/ Reread(k) \/ ReadOrigin(k)
             \/ ReadArtist(k) \/ FindShipment(k) \/ LabelRefused(k) \/ LabelIssued(k)
    BY <1>1, <2>2 DEF WorkersOK, EnsureOrders, FindPending, Reread, ReadOrigin, ReadArtist,
       FindShipment, LabelRefused, LabelIssued
  <2>3. CASE Lookup(k) \/ StoreLabel(k) \/ FindOutcome(k) \/ StoreOutcome(k)
             \/ StoreException(k) \/ TrackFails(k) \/ TrackAnswers(k) \/ ApplyTrack(k)
    BY <1>1, <2>3 DEF WorkersOK, Lookup, StoreLabel, FindOutcome, StoreOutcome, StoreException,
       TrackFails, TrackAnswers, ApplyTrack
  <2> QED
    BY <1>1, <2>1, <2>2, <2>3 DEF Serve
<1> DEFINE Loaded == /\ stage'[k] \in {"failFind", "failUpdate", "failInsert"}
                          => task'[k].status \in Retriable
                     /\ stage'[k] = "track" => task'[k].status \in Statuses /\ task'[k].parcel \in Parcels
<1>2. Loaded
  <2>0. {"EXCEPTION", "PENDING_ADDRESS"} = Retriable
    BY DEF Retriable
  <2>1. CASE Accept(k)
    <3>1. CASE PollTracking(k) \/ SyncTracking(k)
      BY <3>1 DEF WorkersOK, RowsOK, PollTracking, SyncTracking, ReadForSync
    <3>2. CASE CompleteOrder(k) \/ PostShipment(k) \/ RetryShipment(k) \/ RetryPending(k)
      BY <3>2 DEF WorkersOK, CompleteOrder, PostShipment, RetryShipment, RetryPending
    <3> QED
      BY <2>1, <3>1, <3>2 DEF Accept
  <2>2. CASE EnsureOrders(k) \/ FindPending(k) \/ Reread(k) \/ ReadOrigin(k)
    BY <2>0, <2>2 DEF WorkersOK, EnsureOrders, FindPending, Reread, ReadOrigin
  <2>3. CASE ReadArtist(k) \/ FindShipment(k) \/ LabelRefused(k) \/ LabelIssued(k)
    BY <2>0, <2>3 DEF WorkersOK, ReadArtist, FindShipment, LabelRefused, LabelIssued
  <2>4. CASE Lookup(k) \/ StoreLabel(k) \/ FindOutcome(k) \/ StoreOutcome(k)
    BY <2>0, <2>4 DEF WorkersOK, LoadsOK, Lookup, StoreLabel, FindOutcome, StoreOutcome
  <2>5. CASE StoreException(k) \/ TrackFails(k) \/ TrackAnswers(k) \/ ApplyTrack(k)
    BY <2>0, <2>5 DEF WorkersOK, StoreException, TrackFails, TrackAnswers, ApplyTrack
  <2> HIDE DEF Loaded
  <2> QED
    BY <2>1, <2>2, <2>3, <2>4, <2>5 DEF Serve
<1> QED
  BY <1>1, <1>2 DEF LoadsOK

\* The steps of the seller and of FedEx.
LEMMA OutsideType ==
    ASSUME TypeInv, SaveProfile \/ (\E p \in Parcels : FedExScans(p) \/ FedExLists(p))
                       \/ UNCHANGED vars
    PROVE  TypeInv'
<1>1. CASE SaveProfile \/ UNCHANGED vars
  BY <1>1 DEF TypeInv, RowsOK, FedExOK, ScansOK, WorkersOK, LoadsOK, SaveProfile, vars, rowVars,
     shopVars, fedexVars
<1>2. ASSUME NEW p \in Parcels, FedExScans(p) PROVE TypeInv'
  <2>1. PICK code \in Follows[LastScan(p)] : scans' = [scans EXCEPT ![p] = Append(@, code)]
    BY <1>2 DEF FedExScans
  <2>2. code \in Codes /\ scans[p] \in Seq(Codes)
    <3>1. scans[p] \in Seq(Codes)
      BY DEF TypeInv, FedExOK, ScansOK
    <3>2. LastScan(p) \in Codes \cup {"none"}
      BY <3>1 DEF LastScan
    <3>3. Follows[LastScan(p)] \in SUBSET Codes
      BY <3>2, ShipmentAssumption DEF ShipmentAssumption
    <3> QED
      BY <3>1, <3>3
  <2>3. scans' \in [Parcels -> Seq(Codes)]
    BY <2>1, <2>2 DEF TypeInv, FedExOK, ScansOK
  <2>4. Append(scans[p], code) # <<>>
    BY <2>2, AppendProperties
  <2>5. ASSUME NEW q \in behind' PROVE scans'[q] # <<>>
    <3>1. q = p \/ q \in behind
      BY <1>2, <2>5 DEF FedExScans
    <3> QED
      BY <2>1, <2>4, <3>1 DEF TypeInv, FedExOK, ScansOK
  <2>6. ScansOK'
    BY <1>2, <2>3, <2>5 DEF TypeInv, FedExOK, ScansOK, FedExScans
  <2> QED
    BY <1>2, <2>6
       DEF TypeInv, RowsOK, FedExOK, WorkersOK, LoadsOK, FedExScans, rowVars, shopVars
<1>3. ASSUME NEW p \in Parcels, FedExLists(p) PROVE TypeInv'
  BY <1>3 DEF TypeInv, RowsOK, FedExOK, ScansOK, WorkersOK, LoadsOK, FedExLists, rowVars, shopVars
<1> QED
  BY <1>1, <1>2, <1>3

LEMMA TypeInit == Init => TypeInv
<1> SUFFICES ASSUME Init PROVE TypeInv
  OBVIOUS
<1>1. 0 \in 0..MaxLabels
  BY ShipmentAssumption DEF ShipmentAssumption
<1>2. Nothing \in Tasks
  BY JobType DEF Nothing, Kinds
<1>3. "LABEL_CREATED" \in Statuses /\ "idle" \in Stages
  BY DEF Statuses, Stages
<1> QED
  <2>1. RowsOK
    BY <1>3 DEF Init, RowsOK
  <2>2. FedExOK
    BY <1>1 DEF Init, FedExOK, ScansOK
  <2>3. WorkersOK /\ LoadsOK
    BY <1>2, <1>3 DEF Init, WorkersOK, LoadsOK
  <2> QED
    BY <2>1, <2>2, <2>3 DEF TypeInv

LEMMA TypeStep == TypeInv /\ [Next]_vars => TypeInv'
<1> SUFFICES ASSUME TypeInv, [Next]_vars PROVE TypeInv'
  OBVIOUS
<1>1. ASSUME NEW k \in Workers, Accept(k) PROVE TypeInv'
  BY <1>1, AcceptType, LoadsStep DEF TypeInv
<1>2. ASSUME NEW k \in Workers, Serve(k) PROVE TypeInv'
  BY <1>2, ServeWorkers, ServeRows, LoadsStep DEF TypeInv
<1> QED
  BY <1>1, <1>2, OutsideType DEF Next

\* Whatever overlaps and fails, every row, load and scan keeps its type: in particular what
\* the poll computes is a status, and what a failure leaves is one that can be retried.
THEOREM TypeCorrect == Spec => []TypeOK
<1>1. TypeInv => TypeOK
  BY TypeParts DEF TypeInv
<1> QED
  BY <1>1, TypeInit, TypeStep, PTL DEF Spec

-----------------------------------------------------------------------------
(* The status is earned, and moves forward, while nobody is overtaken.       *)

\* A poll that has read the row, a retry that has found it retriable, and a label that is
\* issued and not yet stored write later what the row must still be right for.
Relies(k) ==
    \/ stage[k] \in {"track", "apply", "lookup", "update", "insert"}
    \/ task[k].kind \in {"retry", "pending"} /\ stage[k] \in {"origin", "label", "failById"}

\* Meanwhile no other request changes the row.  Everything else overlaps.
NoneOvertaken ==
    \A k, l \in Workers : k # l /\ Relies(l) /\ Serve(k) => UNCHANGED rowVars

\* What a poll of the row's parcel reckons with, and what is told of it.
Reckons == IF tracking = NoParcel THEN {} ELSE Believed(tracking)
Tells   == IF tracking = NoParcel THEN {} ELSE Told(tracking)

Clean(td)     == td \cap {"EXCEPTION", "CANCELLED"} = {}
Earned(s, hd) == s \in Moving \cup {"CANCELLED"} => s \in hd

\* What a request knows at its stage of the row: the poll of what it has read, and of the
\* parcel it writes about; a retry that the row may be retried; a label that it is the newest.
\* A retry has its row, and looks for none.
Knows(at, load, s, p, hd, td, n) ==
    /\ at = "track" => p # NoParcel /\ load.parcel = p /\ load.status = s
    /\ at = "apply" /\ load.status # "same" =>
          /\ Earned(load.status, hd)
          /\ Clean(td) => Rank(load.status) >= Rank(s)
    /\ at \in {"ensure", "artist", "find"} => load.kind \notin {"retry", "pending"}
    /\ load.kind \in {"retry", "pending"}
       /\ at \in {"origin", "label", "lookup", "update", "insert", "failById"} => s \in Retriable
    /\ at \in {"lookup", "update", "insert"} => p < load.parcel /\ load.parcel <= n

EarnedInv ==
    /\ tracking <= made /\ Earned(status, Reckons)
    /\ \A k \in Workers : Knows(stage[k], task[k], status, tracking, Reckons, Tells, made)

LEMMA EarnedInit == Init => EarnedInv
<1> SUFFICES ASSUME Init PROVE EarnedInv
  OBVIOUS
<1>1. \A k \in Workers : stage[k] = "idle"
  BY DEF Init
<1>2. tracking <= made /\ status \notin Moving \cup {"CANCELLED"}
  BY DEF Init, NoParcel, Moving
<1> QED
  BY <1>1, <1>2 DEF EarnedInv, Earned, Knows

\* What FedEx says of a parcel depends on that parcel alone.
LEMMA SameList ==
    ASSUME NEW p, scans'[p] = scans[p], past'[p] = past[p], newestFirst' = newestFirst,
           (p \in behind /\ p \in behind') \/ (p \notin behind /\ p \notin behind')
    PROVE  Believed(p)' = Believed(p) /\ Told(p)' = Told(p)
<1>1. Known(p)' = Known(p)
  BY DEF Known
<1>2. Listed(p)' = Listed(p)
  BY <1>1 DEF Listed
<1>3. Ordered(p)' = Ordered(p)
  BY <1>2 DEF Ordered
<1>4. Newest(p)' = Newest(p)
  BY <1>1 DEF Newest
<1> QED
  BY <1>1, <1>3, <1>4 DEF Believed, Reached, Told

\* A request changes nothing that FedEx says of the row's parcel.
LEMMA SameParcel ==
    ASSUME TypeInv, tracking <= made, NEW k \in Workers, Accept(k) \/ Serve(k),
           tracking' = tracking
    PROVE  Reckons' = Reckons /\ Tells' = Tells
<1>1. /\ UNCHANGED <<scans, behind, newestFirst>>
      /\ UNCHANGED past \/ \E list : past' = [past EXCEPT ![made + 1] = list]
  BY DEF Accept, CompleteOrder, PostShipment, RetryShipment, RetryPending, PollTracking,
     SyncTracking, ReadForSync, Serve, EnsureOrders, FindPending, Reread, ReadOrigin, ReadArtist,
     FindShipment, LabelRefused, LabelIssued, Lookup, StoreLabel, FindOutcome, StoreOutcome,
     StoreException, TrackFails, TrackAnswers, ApplyTrack, fedexVars
<1>2. CASE tracking = NoParcel
  BY <1>2 DEF Reckons, Tells
<1>3. CASE tracking # NoParcel
  <2>1. PICK p \in Parcels : p = tracking
    BY <1>3 DEF TypeInv, RowsOK
  <2>2. p # made + 1
    <3>1. made \in Nat /\ p \in Nat
      BY ShipmentAssumption DEF ShipmentAssumption, TypeInv, FedExOK, Parcels
    <3> QED
      BY <2>1, <3>1
  <2>3. past'[p] = past[p]
    BY <1>1, <2>2 DEF TypeInv, FedExOK, ScansOK
  <2>4. Believed(p)' = Believed(p) /\ Told(p)' = Told(p)
    BY <1>1, <2>3, SameList
  <2>5. Reckons = Believed(p) /\ Tells = Told(p)
    BY <1>3, <2>1 DEF Reckons, Tells
  <2>6. Reckons' = Believed(p)' /\ Tells' = Told(p)'
    BY <1>3, <2>1 DEF Reckons, Tells
  <2> QED
    BY <2>4, <2>5, <2>6
<1> QED
  BY <1>2, <1>3

\* What the other requests know stays true.
LEMMA OthersKnow ==
    ASSUME TypeInv, EarnedInv, NoneOvertaken, NEW k \in Workers, Accept(k) \/ Serve(k),
           NEW j \in Workers, j # k
    PROVE  Knows(stage'[j], task'[j], status', tracking', Reckons', Tells', made')
<1>1. stage'[j] = stage[j] /\ task'[j] = task[j]
  <2> USE DEF TypeInv, WorkersOK, Begin, Go, Carry, Finish, Leave, Persist, Failed
  <2>1. CASE Accept(k)
    BY <2>1 DEF Accept, CompleteOrder, PostShipment, RetryShipment, RetryPending, PollTracking,
       SyncTracking, ReadForSync
  <2>2. CASE EnsureOrders(k) \/ FindPending(k) \/ Reread(k) \/ ReadOrigin(k) \/ ReadArtist(k)
    BY <2>2 DEF EnsureOrders, FindPending, Reread, ReadOrigin, ReadArtist
  <2>3. CASE FindShipment(k) \/ LabelRefused(k) \/ LabelIssued(k) \/ Lookup(k) \/ StoreLabel(k)
    BY <2>3 DEF FindShipment, LabelRefused, LabelIssued, Lookup, StoreLabel
  <2>4. CASE FindOutcome(k) \/ StoreOutcome(k) \/ StoreException(k)
    BY <2>4 DEF FindOutcome, StoreOutcome, StoreException
  <2>5. CASE TrackFails(k) \/ TrackAnswers(k) \/ ApplyTrack(k)
    BY <2>5 DEF TrackFails, TrackAnswers, ApplyTrack
  <2> QED
    BY <2>1, <2>2, <2>3, <2>4, <2>5 DEF Serve
<1>2. made' = made \/ made' = made + 1
  BY DEF Accept, CompleteOrder, PostShipment, RetryShipment, RetryPending, PollTracking,
     SyncTracking, ReadForSync, Serve, EnsureOrders, FindPending, Reread, ReadOrigin, ReadArtist,
     FindShipment, LabelRefused, LabelIssued, Lookup, StoreLabel, FindOutcome, StoreOutcome,
     StoreException, TrackFails, TrackAnswers, ApplyTrack, fedexVars
<1>3. UNCHANGED rowVars \/ ~Relies(j)
  <2>1. CASE Accept(k)
    BY <2>1 DEF Accept, CompleteOrder, PostShipment, RetryShipment, RetryPending, PollTracking,
       SyncTracking, ReadForSync
  <2>2. CASE Serve(k)
    BY <2>2 DEF NoneOvertaken
  <2> QED
    BY <2>1, <2>2
<1>4. Knows(stage[j], task[j], status, tracking, Reckons, Tells, made)
  BY DEF EarnedInv
<1>5. made \in Nat /\ task[j].parcel \in Nat
  BY ShipmentAssumption DEF ShipmentAssumption, TypeInv, FedExOK, WorkersOK, Tasks, Parcels, NoParcel
<1>6. CASE UNCHANGED rowVars
  <2>1. status' = status /\ tracking' = tracking
    BY <1>6 DEF rowVars
  <2>2. Reckons' = Reckons /\ Tells' = Tells
    BY <2>1, SameParcel DEF EarnedInv
  <2> QED
    BY <1>1, <1>2, <1>4, <1>5, <2>1, <2>2 DEF Knows
<1>7. CASE ~Relies(j)
  BY <1>1, <1>2, <1>4, <1>7 DEF Knows, Relies
<1> QED
  BY <1>3, <1>6, <1>7

\* A request begins: what it reads is what there is.
LEMMA AcceptEarned ==
    ASSUME NoneOvertaken, TypeInv, EarnedInv, NEW k \in Workers, Accept(k)
    PROVE  EarnedInv'
<1>1. \A j \in Workers : j # k => Knows(stage'[j], task'[j], status', tracking', Reckons', Tells', made')
  BY OthersKnow DEF Serve
<1>2. Earned(status', Reckons') /\ tracking' <= made'
  <2>1. UNCHANGED <<status, tracking, made>>
    BY DEF Accept, CompleteOrder, PostShipment, RetryShipment, RetryPending, PollTracking,
       SyncTracking, ReadForSync, rowVars, fedexVars
  <2>2. Reckons' = Reckons
    BY <2>1, SameParcel DEF EarnedInv
  <2> QED
    BY <2>1, <2>2 DEF EarnedInv
<1>3. Knows(stage'[k], task'[k], status', tracking', Reckons', Tells', made')
  <2> USE DEF TypeInv, WorkersOK, Begin, Go, Carry, Task, Job, rowVars, Knows
  <2>1. CASE CompleteOrder(k) \/ PostShipment(k)
    BY <2>1 DEF CompleteOrder, PostShipment
  <2>2. CASE RetryShipment(k)
    BY <2>2 DEF RetryShipment
  <2>3. CASE RetryPending(k)
    BY <2>3 DEF RetryPending
  <2>4. CASE PollTracking(k) \/ SyncTracking(k)
    BY <2>4 DEF PollTracking, SyncTracking, ReadForSync
  <2> QED
    BY <2>1, <2>2, <2>3, <2>4 DEF Accept
<1> QED
  BY <1>1, <1>2, <1>3 DEF EarnedInv

\* A request that stores nothing.
LEMMA QuietEarned ==
    ASSUME NoneOvertaken, TypeInv, EarnedInv, NEW k \in Workers,
           \/ EnsureOrders(k) \/ FindPending(k) \/ Reread(k) \/ ReadOrigin(k) \/ ReadArtist(k)
           \/ FindShipment(k) \/ LabelRefused(k) \/ Lookup(k) \/ FindOutcome(k) \/ TrackFails(k)
    PROVE  EarnedInv'
<1> USE DEF Go, Carry, Finish, Leave, Persist, Failed, Task, Job, Nothing
<1>1. \A j \in Workers : j # k => Knows(stage'[j], task'[j], status', tracking', Reckons', Tells', made')
  BY OthersKnow DEF Serve
<1>2. UNCHANGED <<status, tracking, made>>
  BY DEF EnsureOrders, FindPending, Reread, ReadOrigin, ReadArtist, FindShipment, LabelRefused,
     Lookup, FindOutcome, TrackFails, rowVars, fedexVars
<1>5. Reckons' = Reckons /\ Tells' = Tells
  BY <1>2, SameParcel DEF EarnedInv, Serve
<1>3. Knows(stage[k], task[k], status, tracking, Reckons, Tells, made)
  BY DEF EarnedInv
<1>4. Knows(stage'[k], task'[k], status, tracking, Reckons, Tells, made)
  <2>1. CASE EnsureOrders(k) \/ FindPending(k) \/ Reread(k) \/ ReadOrigin(k)
    BY <1>3, <2>1 DEF TypeInv, WorkersOK, EnsureOrders, FindPending, Reread, ReadOrigin, Knows
  <2>2. CASE ReadArtist(k) \/ FindShipment(k)
    BY <1>3, <2>2 DEF TypeInv, WorkersOK, ReadArtist, FindShipment, Knows
  <2>3. CASE LabelRefused(k) \/ Lookup(k)
    BY <1>3, <2>3 DEF TypeInv, WorkersOK, LabelRefused, Lookup, Knows
  <2>4. CASE FindOutcome(k) \/ TrackFails(k)
    BY <1>3, <2>4 DEF TypeInv, WorkersOK, FindOutcome, TrackFails, Knows
  <2> QED
    BY <2>1, <2>2, <2>3, <2>4
<1> QED
  BY <1>1, <1>2, <1>4, <1>5 DEF EarnedInv

\* A label is issued: its parcel is newer than the row's.
LEMMA LabelEarned ==
    ASSUME NoneOvertaken, TypeInv, EarnedInv, NEW k \in Workers, LabelIssued(k)
    PROVE  EarnedInv'
<1>1. \A j \in Workers : j # k => Knows(stage'[j], task'[j], status', tracking', Reckons', Tells', made')
  BY OthersKnow DEF Serve
<1>2. /\ UNCHANGED <<status, tracking>> /\ made' = made + 1 /\ stage[k] = "label"
      /\ made \in Nat /\ tracking \in Nat
  <2>1. UNCHANGED <<status, tracking>> /\ made' = made + 1
    BY DEF LabelIssued, rowVars
  <2>2. stage[k] = "label"
    BY DEF LabelIssued, Failed, Persist, Finish, Go
  <2>3. made \in Nat /\ tracking \in Nat
    BY ShipmentAssumption DEF ShipmentAssumption, TypeInv, RowsOK, FedExOK, Parcels, NoParcel
  <2> QED
    BY <2>1, <2>2, <2>3
<1>3. Knows(stage[k], task[k], status, tracking, Reckons, Tells, made) /\ tracking <= made
  BY DEF EarnedInv
<1>4. Knows(stage'[k], task'[k], status, tracking, Reckons, Tells, made + 1)
  <2> USE DEF Go, Carry, Finish, Persist, Task, Job, Nothing, TypeInv, WorkersOK
  <2>1. CASE Failed(k, "label")
    BY <1>2, <1>3, <2>1 DEF Failed, Knows
  <2>2. CASE Go(k, "label", "lookup") /\ Carry(k, Task(task[k].kind, made + 1, "same", FALSE))
    BY <1>2, <1>3, <2>2 DEF Knows
  <2> QED
    BY <2>1, <2>2 DEF LabelIssued
<1>6. Reckons' = Reckons /\ Tells' = Tells
  BY <1>2, SameParcel DEF EarnedInv, Serve
<1>5. tracking <= made + 1
  BY <1>2, <1>3
<1> QED
  BY <1>1, <1>2, <1>3, <1>4, <1>5, <1>6 DEF EarnedInv

\* A row with a new label, with a failure, or an exception claims nothing.
LEMMA StoreEarned ==
    ASSUME NoneOvertaken, TypeInv, EarnedInv, NEW k \in Workers,
           StoreLabel(k) \/ StoreOutcome(k) \/ StoreException(k)
    PROVE  EarnedInv'
<1> USE DEF Go, Carry, Finish, Leave, Persist, Failed, Task, Job, Nothing
<1>1. \A j \in Workers : j # k => Knows(stage'[j], task'[j], status', tracking', Reckons', Tells', made')
  BY OthersKnow DEF Serve
<1>2. UNCHANGED made /\ made \in Nat
  BY ShipmentAssumption DEF StoreLabel, StoreOutcome, StoreException, fedexVars, TypeInv, FedExOK,
     ShipmentAssumption
<1>3. Knows(stage[k], task[k], status, tracking, Reckons, Tells, made) /\ tracking <= made
  BY DEF EarnedInv
<1>4. /\ status' = status \/ status' \in {"LABEL_CREATED", "EXCEPTION", "PENDING_ADDRESS"}
      /\ tracking' <= made
  <2>1. CASE StoreLabel(k)
    BY <1>3, <2>1 DEF StoreLabel, LabelStored, Knows, rowVars
  <2>2. CASE StoreOutcome(k)
    <3>1. task[k].status \in Retriable
      BY <2>2 DEF StoreOutcome, TypeInv, LoadsOK
    <3> QED
      BY <1>2, <1>3, <2>2, <3>1 DEF StoreOutcome, OutcomeStored, rowVars, Retriable, NoParcel
  <2>3. CASE StoreException(k)
    BY <1>3, <2>3 DEF StoreException
  <2> QED
    BY <2>1, <2>2, <2>3
<1>5. Earned(status', Reckons')
  <2>1. CASE UNCHANGED rowVars
    <3>1. status' = status /\ tracking' = tracking
      BY <2>1 DEF rowVars
    <3>2. Reckons' = Reckons
      BY <3>1, SameParcel DEF EarnedInv, Serve
    <3> QED
      BY <3>1, <3>2 DEF EarnedInv
  <2>2. CASE status' \in {"LABEL_CREATED", "EXCEPTION", "PENDING_ADDRESS"}
    BY <2>2 DEF Earned, Moving
  <2>3. UNCHANGED rowVars \/ status' \in {"LABEL_CREATED", "EXCEPTION", "PENDING_ADDRESS"}
    <3>1. stage[k] \in {"failUpdate", "failInsert"} => task[k].status \in Retriable
      BY DEF TypeInv, LoadsOK
    <3> QED
      BY <3>1 DEF StoreLabel, LabelStored, StoreOutcome, OutcomeStored, StoreException, Retriable
  <2> QED
    BY <2>1, <2>2, <2>3
<1>6. Knows(stage'[k], task'[k], status', tracking', Reckons', Tells', made)
  <2>1. CASE StoreLabel(k)
    BY <1>3, <2>1 DEF TypeInv, WorkersOK, StoreLabel, Knows, rowVars
  <2>2. CASE StoreOutcome(k)
    BY <1>3, <2>2 DEF TypeInv, WorkersOK, StoreOutcome, Knows, rowVars
  <2>3. CASE StoreException(k)
    BY <1>3, <2>3 DEF TypeInv, WorkersOK, StoreException, Knows
  <2> QED
    BY <2>1, <2>2, <2>3
<1> QED
  BY <1>1, <1>2, <1>4, <1>5, <1>6 DEF EarnedInv

\* A poll writes what the scans under the number of the row say since its cut.
LEMMA PollEarned ==
    ASSUME NoneOvertaken, TypeInv, EarnedInv, NEW k \in Workers, TrackAnswers(k) \/ ApplyTrack(k)
    PROVE  EarnedInv'
<1>1. \A j \in Workers : j # k => Knows(stage'[j], task'[j], status', tracking', Reckons', Tells', made')
  BY OthersKnow DEF Serve
<1>2. UNCHANGED <<tracking, made>>
  BY DEF TrackAnswers, ApplyTrack, rowVars, fedexVars
<1>3. /\ Knows(stage[k], task[k], status, tracking, Reckons, Tells, made) /\ tracking <= made
      /\ Earned(status, Reckons)
  BY DEF EarnedInv
<1>6. Reckons' = Reckons /\ Tells' = Tells
  BY <1>2, SameParcel DEF EarnedInv, Serve
<1>4. CASE TrackAnswers(k)
  <2>1. stage[k] = "track" /\ stage'[k] = "apply" /\ status' = status
    BY <1>4 DEF TrackAnswers, Go, rowVars, TypeInv, WorkersOK
  <2>2. /\ task[k].parcel = tracking /\ task[k].status = status /\ status \in Statuses
        /\ tracking \in Parcels /\ tracking # NoParcel
    BY <1>3, <2>1 DEF Knows, TypeInv, LoadsOK
  <2>0. ScansOK
    BY DEF TypeInv, FedExOK
  <2>3. PICK s : /\ Carry(k, Task("sync", NoParcel, s, FALSE))
                 /\ s \in {"same", "LABEL_CREATED", "EXCEPTION"} \cup (Believed(tracking) \cap Statuses)
                 /\ s # "same" /\ task[k].status # "CANCELLED" /\ Smooth(tracking) =>
                       /\ \A t \in Believed(tracking) \cap Moving : Rank(s) >= Rank(t)
                       /\ task[k].status \notin Retriable => Rank(s) >= 1
    BY <1>4, <2>0, <2>2, Answered
  <2>4. /\ Reckons = Believed(tracking) /\ Tells = Told(tracking)
        /\ Reckons \subseteq Tells
        /\ Clean(Tells) => Smooth(tracking)
    BY <2>0, <2>2, ReachedIsKnown DEF Reckons, Tells, Smooth, Clean
  <2>5. task'[k] = Task("sync", NoParcel, s, FALSE)
    BY <2>3 DEF Carry, TypeInv, WorkersOK
  <2>6. s # "same" => Earned(s, Reckons)
    BY <2>2, <2>3, <2>4 DEF Earned, Moving
  <2>7. ASSUME s # "same", Clean(Tells) PROVE Rank(s) >= Rank(status)
    <3>1. status # "CANCELLED" /\ (status \in Moving => status \in Reckons)
      BY <1>3, <2>4, <2>7 DEF Earned, Clean
    <3>2. /\ \A t \in Reckons \cap Moving : Rank(s) >= Rank(t)
          /\ status \notin Retriable => Rank(s) >= 1
      BY <2>2, <2>3, <2>4, <2>7, <3>1
    <3>3. CASE status \in Moving
      BY <3>1, <3>2, <3>3
    <3>4. CASE status = "LABEL_CREATED"
      BY <3>2, <3>4 DEF Retriable, Rank
    <3>5. CASE status \in Retriable
      <4>1. Rank(status) = 0 /\ Rank(s) \in Nat
        BY <3>5 DEF Retriable, Rank
      <4> QED
        BY <4>1
    <3> QED
      BY <2>2, <3>1, <3>3, <3>4, <3>5 DEF Statuses
  <2>8. Knows("apply", task'[k], status, tracking, Reckons, Tells, made)
    BY <2>2, <2>5, <2>6, <2>7 DEF Knows, Task
  <2> QED
    BY <1>1, <1>2, <1>3, <1>6, <2>1, <2>8 DEF EarnedInv
<1>5. CASE ApplyTrack(k)
  <2>1. /\ stage[k] = "apply" /\ stage'[k] = "idle"
        /\ status' = IF task[k].status = "same" THEN status ELSE task[k].status
    BY <1>5 DEF ApplyTrack, Finish, Go, TypeInv, WorkersOK
  <2>2. Earned(status', Reckons)
    BY <1>3, <2>1 DEF Knows
  <2>3. Knows("idle", task'[k], status', tracking, Reckons, Tells, made)
    BY DEF Knows
  <2> QED
    BY <1>1, <1>2, <1>3, <1>6, <2>1, <2>2, <2>3 DEF EarnedInv
<1> QED
  BY <1>4, <1>5

\* What is appended to the second of two sequences comes last.
LEMMA AppendLast ==
    ASSUME NEW S, NEW s \in Seq(S), NEW t \in Seq(S), NEW e \in S
    PROVE  s \o Append(t, e) = Append(s \o t, e)
<1>1. Append(t, e) \in Seq(S) /\ Len(Append(t, e)) = Len(t) + 1
  BY AppendProperties
<1>2. s \o t \in Seq(S) /\ Len(s \o t) = Len(s) + Len(t)
  BY ConcatProperties
<1>3. /\ Append(s \o t, e) \in Seq(S) /\ Len(Append(s \o t, e)) = Len(s) + Len(t) + 1
      /\ \A i \in 1..Len(s) + Len(t) : Append(s \o t, e)[i] = (s \o t)[i]
      /\ Append(s \o t, e)[Len(s) + Len(t) + 1] = e
  BY <1>2, AppendProperties
<1>4. /\ s \o Append(t, e) \in Seq(S)
      /\ Len(s \o Append(t, e)) = Len(s) + (Len(t) + 1)
      /\ \A i \in 1..Len(s) + (Len(t) + 1) : (s \o Append(t, e))[i] =
            IF i <= Len(s) THEN s[i] ELSE Append(t, e)[i - Len(s)]
  <2> DEFINE u == Append(t, e)
  <2>1. u \in Seq(S) /\ Len(u) = Len(t) + 1
    BY <1>1
  <2> HIDE DEF u
  <2>2. /\ s \o u \in Seq(S) /\ Len(s \o u) = Len(s) + Len(u)
        /\ \A i \in 1..Len(s) + Len(u) : (s \o u)[i] = IF i <= Len(s) THEN s[i] ELSE u[i - Len(s)]
    BY <2>1, ConcatProperties
  <2> QED
    BY <2>1, <2>2 DEF u
<1>5. Len(s) \in Nat /\ Len(t) \in Nat
  BY LenProperties
<1>6. ASSUME NEW i \in 1..Len(s) + (Len(t) + 1)
      PROVE  (s \o Append(t, e))[i] = Append(s \o t, e)[i]
  <2>1. CASE i <= Len(s)
    BY <1>3, <1>4, <1>5, <2>1, ConcatProperties
  <2>2. CASE i > Len(s) /\ i <= Len(s) + Len(t)
    <3>1. i - Len(s) \in 1..Len(t) /\ i \in 1..Len(s) + Len(t) /\ ~(i <= Len(s))
      BY <1>5, <2>2
    <3>2. (s \o t)[i] = t[i - Len(s)]
      BY <3>1, ConcatProperties
    <3>3. Append(t, e)[i - Len(s)] = t[i - Len(s)]
      BY <3>1, AppendProperties
    <3> QED
      BY <1>3, <1>4, <3>1, <3>2, <3>3
  <2>3. CASE i = Len(s) + Len(t) + 1
    <3>1. i - Len(s) = Len(t) + 1 /\ ~(i <= Len(s))
      BY <1>5, <2>3
    <3>2. Append(t, e)[Len(t) + 1] = e
      BY AppendProperties
    <3> QED
      BY <1>3, <1>4, <2>3, <3>1, <3>2
  <2> QED
    BY <1>5, <2>1, <2>2, <2>3
<1>7. Len(s \o Append(t, e)) = Len(Append(s \o t, e))
  BY <1>3, <1>4, <1>5
<1> QED
  BY <1>3, <1>4, <1>6, <1>7, SeqEqual

\* One more scan is one more that FedEx knows.
LEMMA KnownGrows ==
    ASSUME ScansOK, NEW q \in Parcels, NEW code \in Codes,
           scans' = [scans EXCEPT ![q] = Append(@, code)], past' = past
    PROVE  Known(q)' = Append(Known(q), [code |-> code, old |-> FALSE])
<1> DEFINE scan == [code |-> code, old |-> FALSE]
           late == [i \in DOMAIN scans[q] |-> [code |-> scans[q][i], old |-> FALSE]]
           more == [i \in DOMAIN scans'[q] |-> [code |-> scans'[q][i], old |-> FALSE]]
<1>1. past[q] \in Seq(Scan) /\ scans[q] \in Seq(Codes) /\ scan \in Scan
  BY DEF ScansOK, Scan
<1>2. scans'[q] = Append(scans[q], code)
  BY DEF ScansOK
<1>3. Len(scans[q]) \in Nat /\ DOMAIN scans[q] = 1..Len(scans[q])
  BY <1>1, LenProperties
<1>4. late \in Seq(Scan)
  <2>1. \A i \in 1..Len(scans[q]) : [code |-> scans[q][i], old |-> FALSE] \in Scan
    BY <1>1 DEF Scan
  <2> QED
    BY <1>3, <2>1
<1>5. more = Append(late, scan)
  <2> DEFINE n == Len(scans[q])
             longer == Append(scans[q], code)
  <2>1. /\ Len(longer) = n + 1 /\ DOMAIN longer = 1..n + 1 /\ longer[n + 1] = code
        /\ \A i \in 1..n : longer[i] = scans[q][i]
    BY <1>1, AppendProperties, LenProperties
  <2>2. Len(late) = n /\ \A i \in 1..n : late[i] = [code |-> scans[q][i], old |-> FALSE]
    <3>1. DOMAIN late = 1..n
      BY <1>3
    <3> QED
      BY <1>3, <1>4, <3>1, LenProperties
  <2> HIDE DEF late
  <2>3. /\ Append(late, scan) \in Seq(Scan) /\ Len(Append(late, scan)) = n + 1
        /\ Append(late, scan)[n + 1] = scan
        /\ \A i \in 1..n : Append(late, scan)[i] = late[i]
    <3>1. scan \in Scan /\ late \in Seq(Scan) /\ Len(late) = n
      BY <1>1, <1>4, <2>2
    <3> HIDE DEF scan, n, longer, more
    <3> QED
      BY ONLY <3>1, AppendProperties
  <2>4. more = [i \in 1..n + 1 |-> [code |-> longer[i], old |-> FALSE]]
    BY <1>2, <2>1
  <2>5. \A i \in 1..n + 1 : [code |-> longer[i], old |-> FALSE] = Append(late, scan)[i]
    <3>1. \A i \in 1..n + 1 : i = n + 1 \/ i \in 1..n
      BY <1>3
    <3> QED
      BY <2>1, <2>2, <2>3, <3>1
  <2> HIDE DEF longer, more, scan
  <2>6. Append(late, scan) = [i \in 1..n + 1 |-> Append(late, scan)[i]]
    BY <2>3, LenProperties
  <2> QED
    BY <2>4, <2>5, <2>6
<1>6. Known(q)' = past[q] \o more /\ Known(q) = past[q] \o late
  BY DEF Known
<1> HIDE DEF late, more, scan
<1>7. past[q] \o Append(late, scan) = Append(past[q] \o late, scan)
  <2>1. \A s, t \in Seq(Scan) : \A e \in Scan : s \o Append(t, e) = Append(s \o t, e)
    BY AppendLast
  <2> QED
    BY <1>1, <1>4, <2>1
<1> QED
  BY <1>5, <1>6, <1>7 DEF scan

\* After a scan or its listing, at least what was known before is listed.
LEMMA ListGrows ==
    ASSUME ScansOK, NEW q \in Parcels, FedExScans(q) \/ FedExLists(q)
    PROVE  /\ Listed(q)' \in Seq(Scan) /\ Fresh(Known(q)) \subseteq Fresh(Listed(q)')
           /\ Fresh(Known(q)) \subseteq Fresh(Known(q)')
<1>1. Known(q) \in Seq(Scan) /\ Len(Known(q)) \in Nat /\ DOMAIN Known(q) = 1..Len(Known(q))
  BY KnownScans, LenProperties
<1>2. CASE FedExLists(q)
  <2>1. Known(q)' = Known(q)
    BY <1>2 DEF FedExLists, Known
  <2>2. Listed(q)' = Known(q)
    BY <1>2, <2>1 DEF FedExLists, Listed
  <2> QED
    BY <1>1, <2>1, <2>2
<1>3. CASE FedExScans(q)
  <2>1. PICK code \in Follows[LastScan(q)] : scans' = [scans EXCEPT ![q] = Append(@, code)]
    BY <1>3 DEF FedExScans
  <2>2. code \in Codes
    <3>1. LastScan(q) \in Codes \cup {"none"}
      BY DEF LastScan, ScansOK
    <3>2. Follows[LastScan(q)] \in SUBSET Codes
      BY <3>1, ShipmentAssumption DEF ShipmentAssumption
    <3> QED
      BY <3>2
  <2> DEFINE scan == [code |-> code, old |-> FALSE]
             more == Append(Known(q), scan)
  <2>3. scan \in Scan
    BY <2>2 DEF Scan
  <2>4. Known(q)' = more
    BY <1>3, <2>1, <2>2, KnownGrows DEF FedExScans
  <2> HIDE DEF scan
  <2>5. /\ more \in Seq(Scan) /\ Len(more) = Len(Known(q)) + 1 /\ DOMAIN more = 1..Len(more)
        /\ \A i \in 1..Len(Known(q)) : more[i] = Known(q)[i]
    BY <1>1, <2>3, AppendProperties, LenProperties
  <2> HIDE DEF more
  <2>6. \A i \in DOMAIN Known(q) : i \in DOMAIN more /\ more[i] = Known(q)[i]
    BY <1>1, <2>5
  <2>7. Fresh(Known(q)) \subseteq Fresh(more)
    BY <2>6 DEF Fresh
  <2>8. CASE q \notin behind'
    BY <2>4, <2>5, <2>7, <2>8 DEF Listed
  <2>9. CASE q \in behind'
    <3>1. Listed(q)' = SubSeq(more, 1, Len(more) - 1)
      BY <2>4, <2>9 DEF Listed, Front
    <3>2. Len(more) - 1 = Len(Known(q))
      BY <1>1, <2>5
    <3>3. SubSeq(more, 1, Len(Known(q))) = Known(q)
      <4>1. DOMAIN SubSeq(more, 1, Len(Known(q))) = 1..Len(Known(q))
        BY <1>1
      <4>2. \A i \in 1..Len(Known(q)) : SubSeq(more, 1, Len(Known(q)))[i] = Known(q)[i]
        BY <1>1, <2>5
      <4> QED
        BY <1>1, <2>5, <4>1, <4>2
    <3> QED
      BY <1>1, <2>4, <2>7, <3>1, <3>2, <3>3
  <2> QED
    BY <2>8, <2>9
<1> QED
  BY <1>2, <1>3

\* A scan more, or one that is listed at last, takes back nothing that was reckoned with.
LEMMA BeliefGrows ==
    ASSUME ScansOK, NEW q \in Parcels, FedExScans(q) \/ FedExLists(q), NEW p \in Parcels
    PROVE  Believed(p) \subseteq Believed(p)' /\ Told(p) \subseteq Told(p)'
<1>1. CASE p # q
  <2>1. /\ scans'[p] = scans[p] /\ past'[p] = past[p] /\ newestFirst' = newestFirst
        /\ (p \in behind /\ p \in behind') \/ (p \notin behind /\ p \notin behind')
    BY <1>1 DEF FedExScans, FedExLists, ScansOK
  <2> QED
    BY <2>1, SameList
<1>2. CASE p = q
  <2>1. /\ Listed(p)' \in Seq(Scan) /\ Fresh(Known(p)) \subseteq Fresh(Listed(p)')
        /\ Fresh(Known(p)) \subseteq Fresh(Known(p)')
    BY <1>2, ListGrows
  <2>2. Fresh(Ordered(p)') = Fresh(Listed(p)')
    BY <2>1, ReversedScans DEF Ordered
  <2>3. Fresh(Ordered(p)') \subseteq Reached(p)'
    BY DEF Reached, Reckoned
  <2>4. Reached(p) \subseteq Fresh(Known(p))
    BY ReachedIsKnown
  <2>5. Believed(p) \subseteq Believed(p)'
    BY <2>1, <2>2, <2>3, <2>4 DEF Believed
  <2>6. Told(p) = {Mapped(c) : c \in Fresh(Known(p))}
    BY DEF Told, Fresh
  <2>7. Told(p)' = {Mapped(c) : c \in Fresh(Known(p)')}
    BY DEF Told, Fresh
  <2> QED
    BY <2>1, <2>5, <2>6, <2>7
<1> QED
  BY <1>1, <1>2

LEMMA ScansEarned ==
    ASSUME TypeInv, EarnedInv, NEW q \in Parcels, FedExScans(q) \/ FedExLists(q)
    PROVE  EarnedInv'
<1>1. UNCHANGED <<status, tracking, made, stage, task>>
  BY DEF FedExScans, FedExLists, rowVars
<1>2. Reckons \subseteq Reckons' /\ Tells \subseteq Tells'
  <2>1. CASE tracking = NoParcel
    BY <1>1, <2>1 DEF Reckons, Tells
  <2>2. CASE tracking # NoParcel
    <3>1. PICK p \in Parcels : p = tracking
      BY <2>2 DEF TypeInv, RowsOK
    <3>2. Reckons = Believed(p) /\ Tells = Told(p)
      BY <2>2, <3>1 DEF Reckons, Tells
    <3>3. Reckons' = Believed(p)' /\ Tells' = Told(p)'
      BY <1>1, <2>2, <3>1 DEF Reckons, Tells
    <3>4. ScansOK
      BY DEF TypeInv, FedExOK
    <3> QED
      BY <3>2, <3>3, <3>4, BeliefGrows
  <2> QED
    BY <2>1, <2>2
<1>4. \A s : Earned(s, Reckons) => Earned(s, Reckons')
  BY <1>2 DEF Earned
<1>5. Clean(Tells') => Clean(Tells)
  BY <1>2 DEF Clean
<1>6. ASSUME NEW k \in Workers PROVE Knows(stage[k], task[k], status, tracking, Reckons', Tells', made)
  <2>1. Knows(stage[k], task[k], status, tracking, Reckons, Tells, made)
    BY DEF EarnedInv
  <2> QED
    BY <1>4, <1>5, <2>1 DEF Knows
<1>7. Earned(status, Reckons') /\ tracking <= made
  BY <1>4 DEF EarnedInv
<1> QED
  BY <1>1, <1>6, <1>7 DEF EarnedInv

LEMMA EarnedStep ==
    TypeInv /\ EarnedInv /\ [Next]_vars /\ [NoneOvertaken]_vars => EarnedInv'
<1> SUFFICES ASSUME TypeInv, EarnedInv, [Next]_vars, [NoneOvertaken]_vars PROVE EarnedInv'
  OBVIOUS
<1>1. CASE SaveProfile \/ UNCHANGED vars
  <2>1. UNCHANGED <<status, tracking, scans, past, behind, newestFirst, made, stage, task>>
    BY <1>1 DEF SaveProfile, vars, rowVars, fedexVars
  <2>2. Reckons' = Reckons /\ Tells' = Tells
    <3>1. CASE tracking = NoParcel
      BY <2>1, <3>1 DEF Reckons, Tells
    <3>2. CASE tracking # NoParcel
      <4>1. PICK p \in Parcels : p = tracking
        BY <3>2 DEF TypeInv, RowsOK
      <4>2. Believed(p)' = Believed(p) /\ Told(p)' = Told(p)
        BY <2>1, SameList
      <4>3. Reckons = Believed(p) /\ Tells = Told(p)
        BY <3>2, <4>1 DEF Reckons, Tells
      <4>4. Reckons' = Believed(p)' /\ Tells' = Told(p)'
        BY <2>1, <3>2, <4>1 DEF Reckons, Tells
      <4> QED
        BY <4>2, <4>3, <4>4
    <3> QED
      BY <3>1, <3>2
  <2> QED
    BY <2>1, <2>2 DEF EarnedInv
<1>2. ASSUME NoneOvertaken, NEW k \in Workers, Accept(k) \/ Serve(k) PROVE EarnedInv'
  BY <1>2, AcceptEarned, QuietEarned, LabelEarned, StoreEarned, PollEarned DEF Serve
<1> QED
  BY <1>1, <1>2, ScansEarned DEF Next

\* While nobody who relies on the row is overtaken, requests, retries and polls never make it
\* claim progress that no scan since its cut tells under the number of its label: labels may be
\* replaced, FedEx may lose answers, list its scans late and in either order, date its latest
\* status by another scan, and remember what an earlier parcel left under the number.
THEOREM StatusIsEarnedInTurn == Spec /\ [][NoneOvertaken]_vars => []StatusIsEarned
<1>1. TypeInv /\ EarnedInv => StatusIsEarned
  <2> SUFFICES ASSUME TypeInv, EarnedInv, status \in Moving \cup {"CANCELLED"}
               PROVE  tracking # NoParcel /\ status \in Told(tracking)
    BY DEF StatusIsEarned
  <2>1. status \in Reckons
    BY DEF EarnedInv, Earned
  <2>2. tracking # NoParcel /\ status \in Believed(tracking) /\ tracking \in Parcels
    BY <2>1 DEF Reckons, TypeInv, RowsOK
  <2>3. ScansOK
    BY DEF TypeInv, FedExOK
  <2> QED
    BY <2>2, <2>3, ReachedIsKnown
<1>2. TypeInv /\ EarnedInv /\ [Next]_vars /\ [NoneOvertaken]_vars => TypeInv' /\ EarnedInv'
  BY TypeStep, EarnedStep
<1> QED
  BY <1>1, <1>2, TypeInit, EarnedInit, PTL DEF Spec

\* What a step may do to the status of a row that keeps its label.
LEMMA ForwardStep ==
    ASSUME TypeInv, EarnedInv, [Next]_vars,
           tracking # NoParcel, tracking' = tracking, Smooth(tracking)
    PROVE  Rank(status') >= Rank(status)
<1>0. \A s : Rank(s) \in Nat
  BY DEF Rank
<1>1. Clean(Tells)
  BY DEF Smooth, Clean, Tells
<1>2. ASSUME NEW k \in Workers, ApplyTrack(k) PROVE Rank(status') >= Rank(status)
  <2>1. Knows("apply", task[k], status, tracking, Reckons, Tells, made)
    BY <1>2 DEF EarnedInv, ApplyTrack, Finish, Go
  <2> QED
    BY <1>0, <1>1, <1>2, <2>1 DEF ApplyTrack, Knows
<1>3. ASSUME NEW k \in Workers, StoreException(k) PROVE Rank(status') >= Rank(status)
  <2>1. Knows("failById", task[k], status, tracking, Reckons, Tells, made) /\ task[k].kind \in {"retry", "pending"}
    BY <1>3 DEF EarnedInv, StoreException, Finish, Persist, Go
  <2>2. Rank(status) = 0
    BY <2>1 DEF Knows, Retriable, Rank
  <2> QED
    BY <1>0, <2>2
<1>4. ASSUME NEW k \in Workers, StoreLabel(k) PROVE Rank(status') >= Rank(status)
  <2>1. Knows(stage[k], task[k], status, tracking, Reckons, Tells, made)
    BY DEF EarnedInv
  <2>2. task[k].parcel \in Nat /\ tracking \in Nat
    BY DEF TypeInv, RowsOK, WorkersOK, Tasks, Parcels, NoParcel
  <2>3. stage[k] \in {"update", "insert"}
    BY <1>4 DEF StoreLabel, Leave, Finish, Failed, Persist, Go
  <2>4. tracking < task[k].parcel
    BY <2>1, <2>3 DEF Knows
  <2>5. ~LabelStored(k)
    BY <2>2, <2>4 DEF LabelStored
  <2> QED
    BY <1>0, <1>4, <2>5 DEF StoreLabel, rowVars
<1>5. ASSUME NEW k \in Workers, StoreOutcome(k) PROVE Rank(status') >= Rank(status)
  BY <1>0, <1>5 DEF StoreOutcome, OutcomeStored, rowVars
<1>6. CASE UNCHANGED status
  BY <1>0, <1>6
<1>7. ASSUME NEW k \in Workers, Accept(k) PROVE UNCHANGED status
  BY <1>7 DEF Accept, CompleteOrder, PostShipment, RetryShipment, RetryPending, PollTracking,
     SyncTracking, ReadForSync, rowVars
<1>8. ASSUME NEW k \in Workers, Serve(k),
             ~(ApplyTrack(k) \/ StoreException(k) \/ StoreLabel(k) \/ StoreOutcome(k))
      PROVE  UNCHANGED status
  BY <1>8 DEF Serve, EnsureOrders, FindPending, Reread, ReadOrigin, ReadArtist, FindShipment,
     LabelRefused, LabelIssued, Lookup, FindOutcome, TrackFails, TrackAnswers, rowVars
<1>9. CASE SaveProfile \/ (\E p \in Parcels : FedExScans(p) \/ FedExLists(p)) \/ UNCHANGED vars
  BY <1>6, <1>9 DEF SaveProfile, FedExScans, FedExLists, vars, rowVars
<1> QED
  BY <1>2, <1>3, <1>4, <1>5, <1>6, <1>7, <1>8, <1>9 DEF Next

\* While nobody who relies on the row is overtaken, the status of a parcel of which no exception
\* is told only moves forward, however FedEx orders its scans and whether its latest status lags
\* behind them or runs ahead.
THEOREM ForwardOnlyInTurn == Spec /\ [][NoneOvertaken]_vars => ForwardOnly
<1> DEFINE Forward == tracking # NoParcel /\ tracking' = tracking /\ Smooth(tracking)
                        => Rank(status') >= Rank(status)
<1>1. TypeInv /\ EarnedInv /\ [Next]_vars => [Forward]_vars
  BY ForwardStep
<1>2. TypeInv /\ EarnedInv /\ [Next]_vars /\ [NoneOvertaken]_vars => TypeInv' /\ EarnedInv'
  BY TypeStep, EarnedStep
<1> HIDE DEF Forward
<1>3. Spec /\ [][NoneOvertaken]_vars => [][Forward]_vars
  BY <1>1, <1>2, TypeInit, EarnedInit, PTL DEF Spec
<1> QED
  BY <1>3 DEF ForwardOnly, Forward
=============================================================================
