--------------------------- MODULE Platform_proofs ---------------------------
(***************************************************************************)
(* Theorems about the parts around the orders and the money.  Each part has *)
(* its invariant, proved of its own steps; Platform moves one part at a     *)
(* time, and keeps them all.                                                *)
(***************************************************************************)
EXTENDS Platform, Sequences, Places, FiniteSetTheorems, TLAPS

-----------------------------------------------------------------------------
(* What users keep: the types, and how far a list may outgrow its limit.     *)

\* A request that is about to update or delete a row holds one that exists; only the cart
\* knows quantities.
Held ==
    \A w \in Workers :
        /\ request[w].step \in {"set", "delete"} => rows[request[w].of] > 0
        /\ request[w].step = "set" => kind = "cart"
        /\ request[w].step = "insert" /\ kind # "cart" => request[w].amount = 1

RowBound(i) == kind = "cart" => rows[i] <= MaxQuantity
RowOnce(i)  == kind \notin {"cart", "likes"} => rows[i] <= 1
RowsInv     == TypeOK /\ Held /\ \A i \in Items : RowBound(i) /\ RowOnce(i)

LEMMA RowsInit == Init => RowsInv
  BY UserListsAssumption
  DEF UserListsAssumption, Init, RowsInv, TypeOK, Held, RowBound, RowOnce, Done, Requests

\* A request begins: nothing is written, and what it holds has been looked up.
LEMMA HoldKeepsRows ==
    ASSUME RowsInv, NEW w \in Workers, NEW s \in Steps, NEW i \in Items, NEW n \in 1..MaxQuantity,
           Hold(w, s, i, n),
           s \in {"set", "delete"} => rows[i] > 0,
           s = "set" => kind = "cart",
           s = "insert" /\ kind # "cart" => n = 1
    PROVE  RowsInv'
<1> USE DEF RowsInv, Hold
<1>1. TypeOK'
  BY DEF TypeOK, Requests
<1>2. Held'
  <2> SUFFICES ASSUME NEW v \in Workers
               PROVE  /\ request'[v].step \in {"set", "delete"} => rows'[request'[v].of] > 0
                      /\ request'[v].step = "set" => kind' = "cart"
                      /\ request'[v].step = "insert" /\ kind' # "cart" => request'[v].amount = 1
    BY DEF Held
  <2>1. CASE v = w
    BY <2>1 DEF TypeOK
  <2>2. CASE v # w
    <3>1. request'[v] = request[v]
      BY <2>2 DEF TypeOK
    <3> QED
      BY <3>1 DEF Held
  <2> QED
    BY <2>1, <2>2
<1>3. \A j \in Items : RowBound(j)' /\ RowOnce(j)'
  BY DEF RowBound, RowOnce
<1> QED
  BY <1>1, <1>2, <1>3

LEMMA AskKeepsRows ==
    ASSUME RowsInv, NEW w \in Workers, NEW i \in Items, Ask(w, i)  PROVE RowsInv'
<1> USE UserListsAssumption DEF UserListsAssumption, Steps
<1>0. 1 \in 1..MaxQuantity /\ rows[i] \in Nat
  BY DEF RowsInv, TypeOK
<1>1. ASSUME NEW n \in 1..MaxQuantity, AddToCart(w, i, n) PROVE RowsInv'
  <2>1. CASE rows[i] = 0 /\ Hold(w, "insert", i, n)
    BY <1>1, <2>1, HoldKeepsRows DEF AddToCart
  <2>2. CASE rows[i] > 0 /\ rows[i] + n <= MaxQuantity /\ Hold(w, "set", i, rows[i] + n)
    <3>1. rows[i] + n \in 1..MaxQuantity
      BY <2>2, <1>0
    <3> QED
      BY <1>1, <2>2, <3>1, HoldKeepsRows DEF AddToCart
  <2> QED
    BY <1>1, <2>1, <2>2 DEF AddToCart
<1>2. ASSUME NEW n \in 1..MaxQuantity, UpdateCartItem(w, i, n) PROVE RowsInv'
  BY <1>2, HoldKeepsRows DEF UpdateCartItem
<1>3. CASE AddToFavorites(w, i)      BY <1>3, <1>0, HoldKeepsRows DEF AddToFavorites
<1>4. CASE AddArtwork(w, i)          BY <1>4, <1>0, HoldKeepsRows DEF AddArtwork
<1>5. CASE CreateCollection(w, i)    BY <1>5, <1>0, HoldKeepsRows DEF CreateCollection
<1>6. CASE FollowUser(w, i)          BY <1>6, <1>0, HoldKeepsRows DEF FollowUser
<1>7. CASE LikeArtwork(w, i)         BY <1>7, <1>0, HoldKeepsRows DEF LikeArtwork
<1>8. CASE RemoveFromCart(w, i)      BY <1>8, <1>0, HoldKeepsRows DEF RemoveFromCart
<1>9. CASE RemoveFromFavorites(w, i) BY <1>9, <1>0, HoldKeepsRows DEF RemoveFromFavorites
<1>10. CASE RemoveArtwork(w, i)      BY <1>10, <1>0, HoldKeepsRows DEF RemoveArtwork
<1>11. CASE RemoveCollection(w, i)   BY <1>11, <1>0, HoldKeepsRows DEF RemoveCollection
<1>12. CASE UnfollowUser(w, i)       BY <1>12, <1>0, HoldKeepsRows DEF UnfollowUser
<1>13. CASE UnlikeArtwork(w, i)      BY <1>13, <1>0, HoldKeepsRows DEF UnlikeArtwork
<1>14. CASE Publish(w, i)            BY <1>14, <1>0, HoldKeepsRows DEF Publish
<1> QED
  BY <1>1, <1>2, <1>3, <1>4, <1>5, <1>6, <1>7, <1>8, <1>9, <1>10, <1>11, <1>12, <1>13, <1>14
  DEF Ask

\* Where rows and requests shrink, nothing new has to be shown.
LEMMA ShrinkKeepsRows ==
    ASSUME RowsInv, kind' = kind, TypeOK',
           \A i \in Items : rows'[i] <= rows[i],
           \A w \in Workers : \/ request'[w] = Done
                             \/ /\ request'[w] = request[w]
                                /\ request[w].step \in {"set", "delete"} => rows'[request[w].of] > 0
    PROVE  RowsInv'
<1>1. Held'
  BY DEF RowsInv, Held, Done
<1>2. ASSUME NEW i \in Items PROVE RowBound(i)' /\ RowOnce(i)'
  <2>1. rows[i] \in Nat /\ rows'[i] \in Nat /\ MaxQuantity \in Nat /\ rows'[i] <= rows[i]
    BY <1>2, UserListsAssumption DEF UserListsAssumption, RowsInv, TypeOK
  <2>2. RowBound(i) /\ RowOnce(i)
    BY DEF RowsInv
  <2> QED
    BY <2>1, <2>2 DEF RowBound, RowOnce
<1> QED
  BY <1>1, <1>2 DEF RowsInv

LEMMA ServeKeepsRows ==
    ASSUME RowsInv, NEW w \in Workers, Serve(w)  PROVE RowsInv'
<1> USE DEF Release, At
<1>0. request[w] \in Requests
  BY DEF Serve, InsertRow, LikeRefused, SetQuantity, DeleteRow, WriteVisibility, RowsInv, TypeOK,
         Done
<1> PICK i \in Items : i = request[w].of
  BY <1>0 DEF Requests
<1>1. i = request[w].of /\ rows[i] \in Nat /\ request[w].amount \in 1..MaxQuantity
  BY <1>0 DEF Requests, RowsInv, TypeOK
<1>2. CASE InsertRow(w)
  <2>1. TypeOK'
    BY <1>2, <1>1 DEF InsertRow, RowsInv, TypeOK
  <2>2. \A j \in Items : j # i => rows'[j] = rows[j]
    BY <1>2 DEF InsertRow, RowsInv, TypeOK
  <2>3. rows'[i] >= rows[i] /\ RowBound(i)' /\ RowOnce(i)'
    BY <1>2, <1>1, UserListsAssumption
    DEF UserListsAssumption, InsertRow, Insertable, RowsInv, TypeOK, Held, RowBound, RowOnce
  <2>4. Held'
    BY <1>2, <1>1, <2>2, <2>3 DEF InsertRow, RowsInv, TypeOK, Held, Requests, Done
  <2>5. \A j \in Items : RowBound(j)' /\ RowOnce(j)'
    BY <1>1, <1>2, <2>2, <2>3 DEF InsertRow, RowsInv, RowBound, RowOnce
  <2> QED
    BY <2>1, <2>4, <2>5 DEF RowsInv
<1>3. CASE LikeRefused(w)
  <2>1. TypeOK'
    BY <1>3 DEF LikeRefused, RowsInv, TypeOK
  <2> QED
    BY <1>3, <2>1, ShrinkKeepsRows DEF LikeRefused, RowsInv, TypeOK, Held
<1>4. CASE SetQuantity(w)
  <2>1. TypeOK'
    BY <1>4, <1>1 DEF SetQuantity, RowsInv, TypeOK
  <2>2. kind = "cart" /\ rows'[i] > 0 /\ rows'[i] <= MaxQuantity
    BY <1>4, <1>1, UserListsAssumption DEF UserListsAssumption, SetQuantity, RowsInv, TypeOK, Held
  <2>3. \A j \in Items : j # i => rows'[j] = rows[j]
    BY <1>4 DEF SetQuantity, RowsInv, TypeOK
  <2>4. Held'
    BY <1>4, <1>1, <2>2, <2>3 DEF SetQuantity, RowsInv, TypeOK, Held, Requests, Done
  <2>5. \A j \in Items : RowBound(j)' /\ RowOnce(j)'
    BY <1>4, <2>2, <2>3 DEF SetQuantity, RowsInv, RowBound, RowOnce
  <2> QED
    BY <2>1, <2>4, <2>5 DEF RowsInv
<1>5. CASE DeleteRow(w)
  <2>1. rows[i] > 0
    BY <1>5 DEF DeleteRow, RowsInv, Held
  <2>2. TypeOK'
    BY <1>5, <1>1, <2>1 DEF DeleteRow, RowsInv, TypeOK
  <2>3. \A j \in Items : rows'[j] <= rows[j] /\ (j # i => rows'[j] = rows[j])
    BY <1>5, <1>1, <2>1 DEF DeleteRow, RowsInv, TypeOK
  <2>4. CASE Release({w}, {i})
    BY <1>5, <2>2, <2>3, <2>4, ShrinkKeepsRows DEF DeleteRow, RowsInv, TypeOK, Held, Requests, Done
  <2>5. CASE kind = "likes" /\ rows[i] > 1 /\ Release({w}, {})
    <3>1. rows'[i] > 0
      BY <1>5, <1>1, <2>5 DEF DeleteRow, RowsInv, TypeOK
    <3> QED
      BY <1>5, <2>2, <2>3, <2>5, <3>1, ShrinkKeepsRows
      DEF DeleteRow, RowsInv, TypeOK, Held, Requests, Done
  <2> QED
    BY <1>5, <2>4, <2>5 DEF DeleteRow
<1>6. CASE WriteVisibility(w)
  <2>1. TypeOK'
    BY <1>6 DEF WriteVisibility, RowsInv, TypeOK
  <2> QED
    BY <1>6, <2>1, ShrinkKeepsRows DEF WriteVisibility, RowsInv, TypeOK, Held
<1> QED
  BY <1>2, <1>3, <1>4, <1>5, <1>6 DEF Serve

\* Rows that are dropped take the requests that hold them along.
LEMMA DropKeepsRows ==
    ASSUME RowsInv, NEW D, Drop(D), kind' = kind,
           item' \in [Items -> {"offered", "sold", "deleted"}],
           visibility' \in {"private", "public", "gone"}
    PROVE  RowsInv'
<1> USE DEF Drop, Release
<1>1. TypeOK'
  BY DEF RowsInv, TypeOK
<1>2. \A i \in Items : rows'[i] <= rows[i] /\ (i \notin D => rows'[i] = rows[i])
  BY DEF RowsInv, TypeOK
<1> QED
  BY <1>1, <1>2, ShrinkKeepsRows DEF RowsInv, TypeOK, Held, Requests, Done

LEMMA RowsStep == RowsInv /\ [Next]_vars => RowsInv'
<1> SUFFICES ASSUME RowsInv, [Next]_vars PROVE RowsInv'
  OBVIOUS
<1> USE DEF TypeOK
<1>1. CASE UNCHANGED vars
  BY <1>1 DEF vars, RowsInv, Held, RowBound, RowOnce
<1>2. ASSUME NEW w \in Workers, Serve(w) PROVE RowsInv'
  BY <1>2, ServeKeepsRows
<1>3. ASSUME NEW w \in Workers, NEW i \in Items, Ask(w, i) PROVE RowsInv'
  BY <1>3, AskKeepsRows
<1>4. CASE ClearCart
  BY <1>4, DropKeepsRows DEF ClearCart, RowsInv
<1>5. CASE CleanupSoldArtworks
  BY <1>5, DropKeepsRows DEF CleanupSoldArtworks, RowsInv
<1>6. CASE Unpublish
  BY <1>6 DEF Unpublish, RowsInv, Held, RowBound, RowOnce
<1>7. CASE DeleteCollection
  BY <1>7, DropKeepsRows DEF DeleteCollection, RowsInv
<1>8. ASSUME NEW i \in Items, ItemSold(i) PROVE RowsInv'
  BY <1>8 DEF ItemSold, RowsInv, Held, RowBound, RowOnce
<1>9. ASSUME NEW i \in Items, ItemDeleted(i) PROVE RowsInv'
  BY <1>9, DropKeepsRows DEF ItemDeleted, RowsInv
<1> QED
  BY <1>1, <1>2, <1>3, <1>4, <1>5, <1>6, <1>7, <1>8, <1>9 DEF Next

\* The variables of a list keep their types: no count of rows falls below zero, whatever
\* deletes overlap.
THEOREM TypeCorrect == Spec => []TypeOK
<1>1. RowsInv => TypeOK
  BY DEF RowsInv
<1> QED
  BY RowsInit, RowsStep, <1>1, PTL DEF Spec

-----------------------------------------------------------------------------
(* The limits.  The invariant behind ListsWithinLimits counts the requests   *)
(* that are going to insert with the rows that are there: each of them has   *)
(* seen the list below its limit, and they are at most all requests.         *)

Inserting      == {w \in Workers : request[w].step = "insert"}
InsertingOf(i) == {w \in Inserting : request[w].of = i}

SizeInv  == kind \in DOMAIN Limit =>
                Size + Cardinality(Inserting) < Limit[kind] + Cardinality(Workers)
LikesInv == kind = "likes" =>
                \A i \in Items : rows[i] + Cardinality(InsertingOf(i)) <= Cardinality(Workers)
LimitsInv == SizeInv /\ LikesInv

\* What is counted is finite.
LEMMA Counts ==
    /\ Size \in Nat /\ Cardinality(Workers) \in Nat
    /\ Cardinality(Inserting) \in 0..Cardinality(Workers)
    /\ \A i \in Items : Cardinality(InsertingOf(i)) \in 0..Cardinality(Workers)
    /\ \A k \in DOMAIN Limit : Limit[k] \in Nat
<1>1. IsFiniteSet(Items) /\ IsFiniteSet(Workers) /\ OnList \subseteq Items
      /\ Inserting \subseteq Workers /\ \A i \in Items : InsertingOf(i) \subseteq Workers
  BY UserListsAssumption DEF UserListsAssumption, OnList, Inserting, InsertingOf
<1>2. Size \in Nat
  BY <1>1, FS_Subset, FS_CardinalityType DEF Size
<1>3. \A S \in SUBSET Workers : Cardinality(S) \in Nat /\ Cardinality(S) <= Cardinality(Workers)
  BY <1>1, FS_Subset, FS_CardinalityType
<1>4. \A S \in SUBSET Workers : Cardinality(S) \in 0..Cardinality(Workers)
  BY <1>1, <1>3, FS_CardinalityType
<1> QED
  BY <1>1, <1>2, <1>4, FS_CardinalityType, UserListsAssumption DEF UserListsAssumption

LEMMA CountsNext ==
    /\ Size' \in Nat
    /\ Cardinality(Inserting') \in 0..Cardinality(Workers)
    /\ \A i \in Items : Cardinality(InsertingOf(i)') \in 0..Cardinality(Workers)
<1>1. IsFiniteSet(Items) /\ IsFiniteSet(Workers) /\ OnList' \subseteq Items
      /\ Inserting' \subseteq Workers /\ \A i \in Items : InsertingOf(i)' \subseteq Workers
  BY UserListsAssumption DEF UserListsAssumption, OnList, Inserting, InsertingOf
<1>2. Size' \in Nat
  BY <1>1, FS_Subset, FS_CardinalityType DEF Size
<1>3. \A S \in SUBSET Workers : Cardinality(S) \in Nat /\ Cardinality(S) <= Cardinality(Workers)
  BY <1>1, FS_Subset, FS_CardinalityType
<1>4. \A S \in SUBSET Workers : Cardinality(S) \in 0..Cardinality(Workers)
  BY <1>1, <1>3, FS_CardinalityType
<1> QED
  BY <1>1, <1>2, <1>4

LEMMA LimitsInit == Init => LimitsInv
<1> SUFFICES ASSUME Init PROVE LimitsInv
  OBVIOUS
<1>1. OnList = {} /\ Inserting = {} /\ \A i \in Items : InsertingOf(i) = {}
  BY DEF Init, OnList, Inserting, InsertingOf, Done
<1>2. Size = 0 /\ Cardinality(Inserting) = 0 /\ \A i \in Items : Cardinality(InsertingOf(i)) = 0
  BY <1>1, FS_EmptySet DEF Size
<1>3. \A k \in DOMAIN Limit : Limit[k] \in Nat \ {0}
  BY UserListsAssumption DEF UserListsAssumption
<1> QED
  BY <1>2, <1>3, Counts DEF Init, LimitsInv, SizeInv, LikesInv

\* A request that is going to insert has seen the list below its limit.
LEMMA HoldKeepsLimits ==
    ASSUME TypeOK, LimitsInv, NEW w \in Workers, NEW s \in Steps, NEW i \in Items, NEW n,
           Hold(w, s, i, n),
           s = "insert" /\ kind \in DOMAIN Limit => Size < Limit[kind],
           s = "insert" /\ kind = "likes" => rows[i] = 0
    PROVE  LimitsInv'
<1> USE DEF Hold, Idle
<1>1. Size' = Size /\ kind' = kind /\ rows' = rows /\ w \notin Inserting
  BY DEF Size, OnList, Inserting, Done
<1>2. \A v \in Workers : v # w => request'[v] = request[v]
  BY DEF TypeOK
<1>3. request'[w] = [step |-> s, of |-> i, amount |-> n]
  BY DEF TypeOK
<1>4. CASE s = "insert"
  <2>1. SizeInv'
    BY <1>1, <1>4, Counts, CountsNext DEF SizeInv
  <2>2. \A j \in Items : j # i => InsertingOf(j)' = InsertingOf(j)
    BY <1>1, <1>2, <1>3 DEF InsertingOf, Inserting
  <2>3. LikesInv'
    BY <1>1, <1>4, <2>2, Counts, CountsNext DEF LikesInv, LimitsInv
  <2> QED
    BY <2>1, <2>3 DEF LimitsInv
<1>5. CASE s # "insert"
  <2>1. Inserting' = Inserting
    BY <1>1, <1>2, <1>3, <1>5 DEF Inserting
  <2>2. \A j \in Items : InsertingOf(j)' = InsertingOf(j)
    BY <1>1, <1>2, <2>1 DEF InsertingOf
  <2> QED
    BY <1>1, <2>1, <2>2 DEF LimitsInv, SizeInv, LikesInv
<1> QED
  BY <1>4, <1>5

LEMMA AskKeepsLimits ==
    ASSUME TypeOK, LimitsInv, NEW w \in Workers, NEW i \in Items, Ask(w, i)  PROVE LimitsInv'
<1> USE DEF Steps
<1>0. kind \in DOMAIN Limit <=> kind \notin {"likes", "follows"}
  BY UserListsAssumption DEF UserListsAssumption, TypeOK
<1>1. ASSUME NEW n \in 1..MaxQuantity, AddToCart(w, i, n) PROVE LimitsInv'
  BY <1>1, HoldKeepsLimits DEF AddToCart
<1>2. ASSUME NEW n \in 1..MaxQuantity, UpdateCartItem(w, i, n) PROVE LimitsInv'
  BY <1>2, HoldKeepsLimits DEF UpdateCartItem
<1>3. CASE AddToFavorites(w, i)      BY <1>3, HoldKeepsLimits DEF AddToFavorites
<1>4. CASE AddArtwork(w, i)          BY <1>4, HoldKeepsLimits DEF AddArtwork
<1>5. CASE CreateCollection(w, i)    BY <1>5, HoldKeepsLimits DEF CreateCollection
<1>6. CASE FollowUser(w, i)          BY <1>0, <1>6, HoldKeepsLimits DEF FollowUser
<1>7. CASE LikeArtwork(w, i)         BY <1>0, <1>7, HoldKeepsLimits DEF LikeArtwork
<1>8. CASE RemoveFromCart(w, i)      BY <1>8, HoldKeepsLimits DEF RemoveFromCart
<1>9. CASE RemoveFromFavorites(w, i) BY <1>9, HoldKeepsLimits DEF RemoveFromFavorites
<1>10. CASE RemoveArtwork(w, i)      BY <1>10, HoldKeepsLimits DEF RemoveArtwork
<1>11. CASE RemoveCollection(w, i)   BY <1>11, HoldKeepsLimits DEF RemoveCollection
<1>12. CASE UnfollowUser(w, i)       BY <1>12, HoldKeepsLimits DEF UnfollowUser
<1>13. CASE UnlikeArtwork(w, i)      BY <1>13, HoldKeepsLimits DEF UnlikeArtwork
<1>14. CASE Publish(w, i)            BY <1>14, HoldKeepsLimits DEF Publish
<1> QED
  BY <1>1, <1>2, <1>3, <1>4, <1>5, <1>6, <1>7, <1>8, <1>9, <1>10, <1>11, <1>12, <1>13, <1>14
  DEF Ask

\* Where neither the list nor the requests that insert grow, the limits stay kept.
LEMMA ShrinkKeepsLimits ==
    ASSUME LimitsInv, kind' = kind, OnList' \subseteq OnList,
           TypeOK, TypeOK',
           kind = "likes" => \A i \in Items : rows'[i] <= rows[i],
           \A w \in Workers : request'[w] = Done \/ request'[w] = request[w]
    PROVE  LimitsInv'
<1>1. IsFiniteSet(Items) /\ IsFiniteSet(Workers) /\ OnList \subseteq Items /\ Inserting \subseteq Workers
  BY UserListsAssumption DEF UserListsAssumption, OnList, Inserting
<1>2. Inserting' \subseteq Inserting
      /\ \A i \in Items : InsertingOf(i)' \subseteq InsertingOf(i) /\ InsertingOf(i) \subseteq Workers
  BY DEF Inserting, InsertingOf, Done
<1>3. IsFiniteSet(OnList) /\ IsFiniteSet(Inserting) /\ \A i \in Items : IsFiniteSet(InsertingOf(i))
  BY <1>1, <1>2, FS_Subset
<1>4. Size' <= Size
  BY <1>3, FS_Subset DEF Size
<1>5. Cardinality(Inserting') <= Cardinality(Inserting)
  BY <1>2, <1>3, FS_Subset
<1>6. \A i \in Items : Cardinality(InsertingOf(i)') <= Cardinality(InsertingOf(i))
  BY <1>2, <1>3, FS_Subset
<1>7. SizeInv'
  BY <1>4, <1>5, Counts, CountsNext DEF LimitsInv, SizeInv
<1>8. LikesInv'
  <2> SUFFICES ASSUME kind = "likes", NEW i \in Items
               PROVE  rows'[i] + Cardinality(InsertingOf(i)') <= Cardinality(Workers)
    BY DEF LikesInv
  <2>1. rows[i] + Cardinality(InsertingOf(i)) <= Cardinality(Workers)
    BY DEF LimitsInv, LikesInv
  <2>2. rows[i] \in Nat /\ rows'[i] \in Nat
    BY DEF TypeOK
  <2> QED
    BY <1>6, <2>1, <2>2, Counts, CountsNext
<1> QED
  BY <1>7, <1>8 DEF LimitsInv

\* An insert turns a request that was counted into a row that is.
LEMMA InsertKeepsLimits ==
    ASSUME TypeOK, LimitsInv, NEW w \in Workers, InsertRow(w)  PROVE LimitsInv'
<1> USE DEF InsertRow, At, Release
<1>0. request[w] \in Requests
  BY DEF TypeOK, Done
<1> PICK i \in Items : i = request[w].of
  BY <1>0 DEF Requests
<1>1. IsFiniteSet(Items) /\ IsFiniteSet(Workers) /\ OnList \subseteq Items /\ Inserting \subseteq Workers
      /\ InsertingOf(i) \subseteq Workers
  BY UserListsAssumption DEF UserListsAssumption, OnList, Inserting, InsertingOf
<1>2. IsFiniteSet(OnList) /\ IsFiniteSet(Inserting) /\ IsFiniteSet(InsertingOf(i))
  BY <1>1, FS_Subset
<1>3. /\ request'[w] = Done
      /\ \A v \in Workers : v # w => request'[v] = request[v]
      /\ \A j \in Items : j # i => rows'[j] = rows[j]
  BY DEF TypeOK
<1>4. Inserting' = Inserting \ {w} /\ w \in Inserting
  BY <1>3 DEF Inserting, Done
<1>5. Cardinality(Inserting') = Cardinality(Inserting) - 1
  BY <1>2, <1>4, FS_RemoveElement
<1>6. SizeInv'
  <2>1. OnList' \subseteq OnList \cup {i}
    BY <1>3 DEF OnList
  <2>2. IsFiniteSet(OnList \cup {i}) /\ Cardinality(OnList \cup {i}) <= Size + 1
    <3>1. IsFiniteSet(OnList \cup {i})
          /\ Cardinality(OnList \cup {i}) = IF i \in OnList THEN Size ELSE Size + 1
      BY <1>2, FS_AddElement DEF Size
    <3> QED
      BY <3>1, Counts
  <2>3. Size' <= Cardinality(OnList \cup {i}) /\ Cardinality(OnList \cup {i}) \in Nat
    BY <2>1, <2>2, FS_Subset, FS_CardinalityType DEF Size
  <2> QED
    BY <1>5, <2>2, <2>3, Counts, CountsNext DEF LimitsInv, SizeInv
<1>7. LikesInv'
  <2> SUFFICES ASSUME kind = "likes", NEW j \in Items
               PROVE  rows'[j] + Cardinality(InsertingOf(j)') <= Cardinality(Workers)
    BY DEF LikesInv
  <2>1. rows[j] + Cardinality(InsertingOf(j)) <= Cardinality(Workers) /\ rows[j] \in Nat
    BY DEF LimitsInv, LikesInv, TypeOK
  <2>2. CASE j = i
    <3>1. InsertingOf(i)' = InsertingOf(i) \ {w} /\ w \in InsertingOf(i)
      BY <1>3, <1>4 DEF InsertingOf, Inserting
    <3>2. Cardinality(InsertingOf(i)') = Cardinality(InsertingOf(i)) - 1
      BY <1>2, <3>1, FS_RemoveElement
    <3>3. rows'[i] \in Nat /\ rows'[i] <= rows[i] + 1
      BY DEF TypeOK
    <3> QED
      BY <2>1, <2>2, <3>2, <3>3, Counts
  <2>3. CASE j # i
    <3>1. InsertingOf(j)' = InsertingOf(j)
      BY <1>3, <1>4, <2>3 DEF InsertingOf, Inserting
    <3> QED
      BY <1>3, <2>1, <2>3, <3>1
  <2> QED
    BY <2>2, <2>3
<1> QED
  BY <1>6, <1>7 DEF LimitsInv

LEMMA LimitsStep == RowsInv /\ LimitsInv /\ [Next]_vars => LimitsInv'
<1> SUFFICES ASSUME RowsInv, LimitsInv, [Next]_vars PROVE LimitsInv'
  OBVIOUS
<1>0. TypeOK /\ TypeOK' /\ Held
  BY RowsStep DEF RowsInv
<1> USE <1>0 DEF Release, Drop
<1>1. CASE UNCHANGED vars
  BY <1>1, ShrinkKeepsLimits DEF vars, OnList, TypeOK
<1>2. ASSUME NEW w \in Workers, Serve(w) PROVE LimitsInv'
  <2>1. CASE InsertRow(w)
    BY <2>1, InsertKeepsLimits
  <2>2. CASE LikeRefused(w)
    <3>1. \A v \in Workers : request'[v] = Done \/ request'[v] = request[v]
      BY <2>2 DEF LikeRefused
    <3> QED
      BY <2>2, <3>1, ShrinkKeepsLimits DEF LikeRefused, OnList, TypeOK
  <2>3. CASE SetQuantity(w)
    <3>1. \A v \in Workers : request'[v] = Done \/ request'[v] = request[v]
      BY <2>3 DEF SetQuantity
    <3>2. kind = "cart" /\ rows[request[w].of] > 0
      BY <2>3 DEF SetQuantity, At, Held
    <3>3. OnList' \subseteq OnList
      BY <2>3, <3>2 DEF SetQuantity, OnList, TypeOK
    <3> QED
      BY <2>3, <3>1, <3>2, <3>3, ShrinkKeepsLimits DEF SetQuantity
  <2>4. CASE DeleteRow(w)
    <3>1. \A v \in Workers : request'[v] = Done \/ request'[v] = request[v]
      BY <2>4 DEF DeleteRow
    <3>2. \A i \in Items : rows'[i] <= rows[i]
      BY <2>4 DEF DeleteRow, TypeOK, At, Held
    <3>3. OnList' \subseteq OnList
      BY <3>2 DEF OnList, TypeOK
    <3> QED
      BY <2>4, <3>1, <3>2, <3>3, ShrinkKeepsLimits DEF DeleteRow
  <2>5. CASE WriteVisibility(w)
    <3>1. \A v \in Workers : request'[v] = Done \/ request'[v] = request[v]
      BY <2>5 DEF WriteVisibility
    <3> QED
      BY <2>5, <3>1, ShrinkKeepsLimits DEF WriteVisibility, OnList, TypeOK
  <2> QED
    BY <1>2, <2>1, <2>2, <2>3, <2>4, <2>5 DEF Serve
<1>3. ASSUME NEW w \in Workers, NEW i \in Items, Ask(w, i) PROVE LimitsInv'
  BY <1>3, AskKeepsLimits
<1>4. ASSUME NEW D, Drop(D), kind' = kind PROVE LimitsInv'
  <2>1. \A v \in Workers : request'[v] = Done \/ request'[v] = request[v]
    BY <1>4
  <2>2. \A i \in Items : rows'[i] <= rows[i]
    BY <1>4 DEF TypeOK
  <2>3. OnList' \subseteq OnList
    BY <2>2 DEF OnList, TypeOK
  <2> QED
    BY <1>4, <2>1, <2>2, <2>3, ShrinkKeepsLimits
<1>5. CASE ClearCart
  BY <1>4, <1>5 DEF ClearCart
<1>6. CASE CleanupSoldArtworks
  BY <1>4, <1>6 DEF CleanupSoldArtworks
<1>7. CASE Unpublish
  BY <1>7, ShrinkKeepsLimits DEF Unpublish, OnList, TypeOK
<1>8. CASE DeleteCollection
  BY <1>4, <1>8 DEF DeleteCollection
<1>9. ASSUME NEW i \in Items, ItemSold(i) PROVE LimitsInv'
  BY <1>9, ShrinkKeepsLimits DEF ItemSold, OnList, TypeOK
<1>10. ASSUME NEW i \in Items, ItemDeleted(i) PROVE LimitsInv'
  BY <1>4, <1>10 DEF ItemDeleted
<1> QED
  BY <1>1, <1>2, <1>3, <1>5, <1>6, <1>7, <1>8, <1>9, <1>10 DEF Next

\* However many requests of one user overlap, a list outgrows its limit by at most one
\* less than their number, nobody has more rows of a liked artwork than requests
\* overlapped, and no quantity in a cart passes the maximum.
THEOREM ListsWithinLimitsAlways == Spec => []ListsWithinLimits
<1>1. RowsInv /\ LimitsInv => ListsWithinLimits
  <2> SUFFICES ASSUME RowsInv, LimitsInv PROVE ListsWithinLimits
    OBVIOUS
  <2>1. kind \in DOMAIN Limit => Size < Limit[kind] + Cardinality(Workers)
    BY Counts DEF LimitsInv, SizeInv
  <2>2. ASSUME NEW i \in Items
        PROVE  rows[i] <= (IF kind = "likes" THEN Cardinality(Workers)
                           ELSE IF kind = "cart" THEN MaxQuantity ELSE 1)
    <3>1. rows[i] \in Nat /\ RowBound(i) /\ RowOnce(i)
      BY DEF RowsInv, TypeOK
    <3>2. kind = "likes" => rows[i] + Cardinality(InsertingOf(i)) <= Cardinality(Workers)
      BY DEF LimitsInv, LikesInv
    <3> QED
      BY <3>1, <3>2, Counts DEF RowBound, RowOnce
  <2> QED
    BY <2>1, <2>2 DEF ListsWithinLimits
<1> QED
  BY RowsInit, RowsStep, LimitsInit, LimitsStep, <1>1, PTL DEF Spec

-----------------------------------------------------------------------------
(* Checkout: what is charged, and what a buyer is told is still to be paid.   *)

Meta  == [amount : Nat, fetched : Nat, locked : Nat, siblings : SUBSET Cart!Orders,
          ref : {"none", "chapa"}]
Asked == [step : Cart!Steps, of : Cart!Orders, read : Meta,
          asked : Nat]

CheckoutShape ==
    /\ now \in Nat
    /\ cache \in [rate : Nat, at : Nat]
    /\ checkoutOrder \in [Cart!Orders -> Cart!OrderStatuses]
    /\ total \in [Cart!Orders -> Nat]
    /\ meta \in [Cart!Orders -> Meta]
    /\ preparing \in Nat
    /\ outcome \in {"none", "running", "failed", "ready"}
    /\ paymentRequest \in [Workers -> Asked \cup {Cart!Done}]

\* Metadata that still says what its order was quoted, at a rate that was fresh then.
SameQuote(o, m) ==
    /\ m.amount = total[o]
    /\ ProviderOf[o] = "chapa" => m.locked - m.fetched < RateTTL

Quoted == \A o \in Cart!Orders : SameQuote(o, meta[o])

\* A payment request holds such metadata, of an order that was made; and until it has
\* asked the gateway, no later than the quote allows.
Carried ==
    \A w \in Workers : paymentRequest[w] # Cart!Done =>
        /\ checkoutOrder[paymentRequest[w].of] # "none"
        /\ SameQuote(paymentRequest[w].of, paymentRequest[w].read)
        /\ paymentRequest[w].step \in {"write", "charge"} =>
              paymentRequest[w].asked <= paymentRequest[w].read.locked + QuoteTTL

ChargesQuoted == \A c \in charges :
    /\ c.of \in Cart!Orders /\ checkoutOrder[c.of] # "none"
    /\ c.amount = total[c.of]
    /\ ProviderOf[c.of] = "chapa" => c.rateAge < RateTTL + QuoteTTL

\* Payments wait for the preparation, and then every copy of the metadata knows the
\* siblings.
Linked ==
    /\ outcome = "ready" =>
          /\ \A o \in Cart!Orders : meta[o].siblings = Cart!Orders
          /\ \A w \in Workers :
                paymentRequest[w] # Cart!Done => paymentRequest[w].read.siblings = Cart!Orders
    /\ outcome \in {"none", "running"} => \A w \in Workers : paymentRequest[w] = Cart!Done
    /\ preparing = 0 => outcome = "none"
    /\ outcome = "none" => preparing = 0 /\ \A o \in Cart!Orders : checkoutOrder[o] = "none"

QuoteInv == CheckoutShape /\ Quoted /\ Carried /\ ChargesQuoted /\ Linked

\* Orders are paid and received after the preparation, and a paid one's transaction is
\* completed.
Followed ==
    /\ completed \in SUBSET Cart!Orders
    /\ delivery \in [Cart!Orders -> {"none", "clean", "open", "closed"}]
    /\ \A o \in Cart!Orders :
          /\ checkoutOrder[o] = "PAID" => o \in completed
          /\ delivery[o] # "none" => checkoutOrder[o] # "none"
          /\ outcome \in {"none", "running"} =>
                checkoutOrder[o] \in {"none", "PENDING"} /\ delivery[o] = "none"

CheckoutInv == QuoteInv /\ Followed

-----------------------------------------------------------------------------
LEMMA CheckoutInit == ASSUME Cart!CheckoutAssumption, Cart!Init PROVE CheckoutInv
<1> USE DEF Cart!CheckoutAssumption, Cart!Init, Cart!NoMeta, Cart!NoRate, Cart!Done
<1>1. CheckoutShape
  BY DEF CheckoutShape, Meta, Cart!OrderStatuses
<1>2. Quoted
  BY DEF Quoted, SameQuote
<1>3. Carried /\ ChargesQuoted /\ Linked
  BY DEF Carried, ChargesQuoted, Linked
<1>4. Followed
  BY DEF Followed
<1> QED
  BY <1>1, <1>2, <1>3, <1>4 DEF CheckoutInv, QuoteInv

\* Steps of time and of the orders' status change no amount and no request.
LEMMA StatusKeeps ==
    ASSUME QuoteInv, now' \in Nat, outcome # "none" \/ checkoutOrder' = checkoutOrder,
           checkoutOrder' \in [Cart!Orders -> Cart!OrderStatuses],
           \A o \in Cart!Orders : checkoutOrder[o] # "none" => checkoutOrder'[o] # "none",
           UNCHANGED <<cache, total, meta, preparing, outcome, paymentRequest, charges>>
    PROVE  QuoteInv'
<1> USE DEF QuoteInv
<1>1. CheckoutShape'   BY DEF CheckoutShape
<1>2. Quoted'  BY DEF Quoted, SameQuote
<1>3. Carried'
  <2> SUFFICES ASSUME NEW w \in Workers, paymentRequest[w] # Cart!Done
               PROVE  /\ checkoutOrder'[paymentRequest[w].of] # "none"
                      /\ SameQuote(paymentRequest[w].of, paymentRequest[w].read)
                      /\ paymentRequest[w].step \in {"write", "charge"} =>
                            paymentRequest[w].asked <= paymentRequest[w].read.locked + QuoteTTL
    BY DEF Carried, SameQuote
  <2>1. paymentRequest[w].of \in Cart!Orders
    BY DEF CheckoutShape, Asked
  <2> QED
    BY <2>1 DEF Carried
<1>4. ChargesQuoted' BY DEF ChargesQuoted
<1>5. Linked'  BY DEF Linked
<1> QED
  BY <1>1, <1>2, <1>3, <1>4, <1>5

\* The preparation makes the orders while no payment is being started.
LEMMA QuoteIsFresh ==
    ASSUME Cart!CheckoutAssumption, CheckoutShape, NEW o \in Cart!Orders, NEW p \in Prices,
           NEW usd \in Cart!UsdToEtb
    PROVE  /\ usd \in [rate : Nat, at : Nat]
           /\ Cart!Quote(o, p, usd) \in Meta
           /\ ProviderOf[o] = "chapa" =>
                 Cart!Quote(o, p, usd).locked - Cart!Quote(o, p, usd).fetched < RateTTL
<1>1. usd \in [rate : Nat, at : Nat] /\ now - usd.at < RateTTL
  BY DEF Cart!CheckoutAssumption, CheckoutShape, Cart!UsdToEtb, Cart!Cached
<1>2. p \in Nat
  BY DEF Cart!CheckoutAssumption
<1>3. p * usd.rate \in Nat
  BY <1>1, <1>2
<1> QED
  BY <1>1, <1>2, <1>3 DEF CheckoutShape, Cart!Quote, Cart!NoMeta, Meta

LEMMA PrepareGroupKeeps == ASSUME Cart!CheckoutAssumption, QuoteInv, Cart!PrepareGroup
                          PROVE  QuoteInv'
<1> DEFINE o == preparing
<1> USE DEF QuoteInv, Cart!PrepareGroup, Cart!CreateOrder
<1>1. o \in Cart!Orders /\ checkoutOrder[o] = "none" /\ outcome = "running" /\ outcome' = outcome
      /\ charges' = charges /\ paymentRequest' = paymentRequest
      /\ \A w \in Workers : paymentRequest[w] = Cart!Done
  BY DEF Linked
<1>2. PICK p \in Prices, usd \in Cart!UsdToEtb :
          /\ total' = [total EXCEPT ![preparing] = Cart!Quote(preparing, p, usd).amount]
          /\ meta'  = [meta EXCEPT ![preparing] = Cart!Quote(preparing, p, usd)]
          /\ cache' = IF ProviderOf[preparing] = "chapa" THEN usd ELSE cache
  OBVIOUS
<1>3. /\ usd \in [rate : Nat, at : Nat]
      /\ Cart!Quote(preparing, p, usd) \in Meta
      /\ ProviderOf[preparing] = "chapa" =>
            Cart!Quote(preparing, p, usd).locked - Cart!Quote(preparing, p, usd).fetched < RateTTL
  BY <1>1, QuoteIsFresh
<1>4. CheckoutShape'
  BY <1>1, <1>2, <1>3 DEF CheckoutShape, Meta, Cart!OrderStatuses
<1>5. Quoted'
  BY <1>1, <1>2, <1>3 DEF Quoted, SameQuote, CheckoutShape
<1>6. Carried'
  BY <1>1 DEF Carried
<1>7. ChargesQuoted'
  BY <1>1, <1>2 DEF ChargesQuoted, CheckoutShape
<1>8. Linked'
  BY <1>1 DEF Linked, CheckoutShape
<1> QED
  BY <1>4, <1>5, <1>6, <1>7, <1>8

\* A request does one step: the metadata it writes and what it carries on say what the
\* order was quoted, whatever status it gives the order.
LEMMA PaymentKeeps ==
    ASSUME QuoteInv, NEW w \in Workers, NEW r \in Asked \cup {Cart!Done},
           paymentRequest' = [paymentRequest EXCEPT ![w] = r],
           UNCHANGED <<now, cache, total, preparing, outcome, charges>>,
           outcome \notin {"none", "running"},
           checkoutOrder' \in [Cart!Orders -> Cart!OrderStatuses],
           \A x \in Cart!Orders : checkoutOrder[x] # "none" => checkoutOrder'[x] # "none",
           NEW o \in Cart!Orders, NEW m \in Meta, meta' = [meta EXCEPT ![o] = m],
           SameQuote(o, m), outcome = "ready" => m.siblings = Cart!Orders,
           r # Cart!Done => /\ checkoutOrder[r.of] # "none" /\ SameQuote(r.of, r.read)
                            /\ r.step \in {"write", "charge"} => r.asked <= r.read.locked + QuoteTTL
                            /\ outcome = "ready" => r.read.siblings = Cart!Orders
    PROVE  QuoteInv'
<1> USE DEF QuoteInv
<1>1. CheckoutShape'
  BY DEF CheckoutShape
<1>2. Quoted'
  BY DEF CheckoutShape, Quoted, SameQuote
<1>3. \A v \in Workers : paymentRequest'[v] = IF v = w THEN r ELSE paymentRequest[v]
  BY DEF CheckoutShape
<1>4. Carried'
  <2> SUFFICES ASSUME NEW v \in Workers, paymentRequest'[v] # Cart!Done
               PROVE  /\ checkoutOrder'[paymentRequest'[v].of] # "none"
                      /\ SameQuote(paymentRequest'[v].of, paymentRequest'[v].read)
                      /\ paymentRequest'[v].step \in {"write", "charge"} =>
                            paymentRequest'[v].asked <= paymentRequest'[v].read.locked + QuoteTTL
    BY DEF Carried, SameQuote
  <2>1. CASE v = w
    BY <1>3, <2>1 DEF Asked
  <2>2. CASE v # w
    BY <1>3, <2>2 DEF Carried, CheckoutShape, Asked
  <2> QED
    BY <2>1, <2>2
<1>5. ChargesQuoted'
  BY DEF ChargesQuoted
<1>6. Linked'
  BY <1>3 DEF Linked, CheckoutShape
<1> QED
  BY <1>1, <1>2, <1>4, <1>5, <1>6

\* The same, where the order stays as it is.
LEMMA StepKeeps ==
    ASSUME QuoteInv, NEW w \in Workers, NEW r \in Asked \cup {Cart!Done},
           Cart!Step(w, r), charges' = charges,
           outcome \notin {"none", "running"},
           NEW o \in Cart!Orders, NEW m \in Meta, meta' = [meta EXCEPT ![o] = m],
           SameQuote(o, m), outcome = "ready" => m.siblings = Cart!Orders,
           r # Cart!Done => /\ checkoutOrder[r.of] # "none" /\ SameQuote(r.of, r.read)
                            /\ r.step \in {"write", "charge"} => r.asked <= r.read.locked + QuoteTTL
                            /\ outcome = "ready" => r.read.siblings = Cart!Orders
    PROVE  QuoteInv'
<1>1. /\ paymentRequest' = [paymentRequest EXCEPT ![w] = r]
      /\ UNCHANGED <<now, cache, total, preparing, outcome, charges>>
      /\ checkoutOrder' = checkoutOrder
  BY DEF Cart!Step, Cart!orderVars, Cart!prepVars
<1>2. checkoutOrder' \in [Cart!Orders -> Cart!OrderStatuses]
  BY <1>1 DEF QuoteInv, CheckoutShape
<1> QED
  BY <1>1, <1>2, PaymentKeeps

\* Where the metadata stays as it is, it is as if it were written back.
LEMMA CarryKeeps ==
    ASSUME QuoteInv, NEW w \in Workers, NEW r \in Asked \cup {Cart!Done},
           Cart!Step(w, r), charges' = charges,
           outcome \notin {"none", "running"}, meta' = meta, NEW o \in Cart!Orders,
           r # Cart!Done => /\ checkoutOrder[r.of] # "none" /\ SameQuote(r.of, r.read)
                            /\ r.step \in {"write", "charge"} => r.asked <= r.read.locked + QuoteTTL
                            /\ outcome = "ready" => r.read.siblings = Cart!Orders
    PROVE  QuoteInv'
<1>1. meta[o] \in Meta /\ meta' = [meta EXCEPT ![o] = meta[o]]
  BY DEF QuoteInv, CheckoutShape
<1>2. SameQuote(o, meta[o]) /\ (outcome = "ready" => meta[o].siblings = Cart!Orders)
  BY DEF QuoteInv, Quoted, Linked
<1> QED
  BY <1>1, <1>2, StepKeeps

\* A handler that reads carries what its order was quoted.
LEMMA ReadingKeeps ==
    ASSUME Cart!CheckoutAssumption, QuoteInv, NEW w \in Workers, NEW o \in Cart!Orders,
           NEW step \in Cart!Steps, NEW asked \in Nat, Cart!Reading(w, o, step, asked),
           outcome \notin {"none", "running"}, checkoutOrder[o] # "none",
           step \in {"write", "charge"} => asked <= meta[o].locked + QuoteTTL
    PROVE  QuoteInv'
<1> DEFINE r == [step |-> step, of |-> o, read |-> meta[o], asked |-> asked]
<1>1. r \in Asked /\ r # Cart!Done /\ Cart!Step(w, r) /\ meta' = meta /\ charges' = charges
  BY DEF Cart!Reading, QuoteInv, CheckoutShape, Asked, Cart!Done, Cart!Steps
<1>2. SameQuote(o, meta[o]) /\ (outcome = "ready" => meta[o].siblings = Cart!Orders)
  BY DEF QuoteInv, Quoted, Linked
<1> HIDE DEF r
<1>3. r.step = step /\ r.of = o /\ r.read = meta[o] /\ r.asked = asked
  BY DEF r
<1> QED
  BY <1>1, <1>2, <1>3, CarryKeeps

\* A handler that writes an order back, with the metadata it carries or without.
LEMMA WritingKeeps ==
    ASSUME QuoteInv, NEW w \in Workers, paymentRequest[w] # Cart!Done,
           NEW status \in Cart!OrderStatuses \ {"none"}, Cart!Writing(w, status),
           meta' \in {meta, [meta EXCEPT ![paymentRequest[w].of] = paymentRequest[w].read]}
    PROVE  QuoteInv'
<1> DEFINE q == paymentRequest[w]
<1>1. /\ q.of \in Cart!Orders /\ q.read \in Meta /\ SameQuote(q.of, q.read)
      /\ checkoutOrder[q.of] # "none" /\ outcome \notin {"none", "running"}
      /\ outcome = "ready" => q.read.siblings = Cart!Orders
  BY DEF QuoteInv, CheckoutShape, Asked, Carried, Linked
<1>2. /\ paymentRequest' = [paymentRequest EXCEPT ![w] = Cart!Done]
      /\ UNCHANGED <<now, cache, total, preparing, outcome, charges>>
      /\ checkoutOrder' = [checkoutOrder EXCEPT ![q.of] = status]
  BY DEF Cart!Writing, Cart!prepVars
<1>3. checkoutOrder' \in [Cart!Orders -> Cart!OrderStatuses]
      /\ \A x \in Cart!Orders : checkoutOrder[x] # "none" => checkoutOrder'[x] # "none"
  BY <1>1, <1>2 DEF QuoteInv, CheckoutShape
<1>4. CASE meta' = meta
  <2>1. meta[q.of] \in Meta /\ meta' = [meta EXCEPT ![q.of] = meta[q.of]]
    BY <1>1, <1>4 DEF QuoteInv, CheckoutShape
  <2>2. SameQuote(q.of, meta[q.of]) /\ (outcome = "ready" => meta[q.of].siblings = Cart!Orders)
    BY <1>1 DEF QuoteInv, Quoted, Linked
  <2> HIDE DEF q
  <2> QED
    BY <1>1, <1>2, <1>3, <2>1, <2>2, PaymentKeeps
<1>5. CASE meta' = [meta EXCEPT ![q.of] = q.read]
  <2> HIDE DEF q
  <2> QED
    BY <1>1, <1>2, <1>3, <1>5, PaymentKeeps
<1> QED
  BY <1>4, <1>5

LEMMA ServeKeeps ==
    ASSUME Cart!CheckoutAssumption, QuoteInv, Followed, NEW w \in Workers, Cart!Serve(w)
    PROVE  QuoteInv'
<1> DEFINE q == paymentRequest[w]
<1>1. ASSUME NEW o \in Cart!Orders,
             Cart!Initialize(w, o) \/ Cart!BeginComplete(w, o) \/ Cart!BeginReceipt(w, o)
                \/ Cart!BeginSettlement(w, o)
      PROVE  QuoteInv'
  <2>0. now \in Nat /\ 0 \in Nat
    BY DEF QuoteInv, CheckoutShape
  <2>1. CASE Cart!Initialize(w, o)
    <3>1. /\ outcome \notin {"none", "running"} /\ checkoutOrder[o] # "none"
          /\ now <= meta[o].locked + QuoteTTL
      BY <2>1 DEF Cart!Initialize, Cart!Known, Cart!Usable, QuoteInv, Linked
    <3> QED
      BY <2>0, <2>1, <3>1, ReadingKeeps DEF Cart!Initialize, Cart!Steps
  <2>2. CASE Cart!BeginComplete(w, o)
    <3>1. outcome \notin {"none", "running"} /\ checkoutOrder[o] # "none"
      BY <2>2 DEF Cart!BeginComplete, Cart!Known, QuoteInv, Linked
    <3> QED
      BY <2>0, <2>2, <3>1, ReadingKeeps DEF Cart!BeginComplete, Cart!Steps
  <2>3. CASE Cart!BeginReceipt(w, o)
    <3>1. outcome \notin {"none", "running"} /\ checkoutOrder[o] # "none"
      BY <2>3 DEF Cart!BeginReceipt, Followed
    <3> QED
      BY <2>0, <2>3, <3>1, ReadingKeeps DEF Cart!BeginReceipt, Cart!Steps
  <2>4. CASE Cart!BeginSettlement(w, o)
    <3>1. outcome \notin {"none", "running"} /\ checkoutOrder[o] # "none"
      BY <2>4 DEF Cart!BeginSettlement, Followed
    <3> QED
      BY <2>0, <2>4, <3>1, ReadingKeeps DEF Cart!BeginSettlement, Cart!Steps
  <2> QED
    BY <1>1, <2>1, <2>2, <2>3, <2>4
<1>2. ASSUME q # Cart!Done PROVE
        /\ q \in Asked /\ q.of \in Cart!Orders /\ q.read \in Meta
        /\ outcome \notin {"none", "running"}
        /\ checkoutOrder[q.of] # "none"
        /\ SameQuote(q.of, q.read)
        /\ q.step \in {"write", "charge"} => q.asked <= q.read.locked + QuoteTTL
        /\ outcome = "ready" => q.read.siblings = Cart!Orders
  BY <1>2 DEF QuoteInv, CheckoutShape, Asked, Carried, Linked
<1>3. CASE Cart!WriteQuote(w)
  <2> DEFINE r == [q EXCEPT !.step = "charge"]
  <2>1. q # Cart!Done /\ q.step = "write"
    BY <1>3 DEF Cart!WriteQuote, Cart!Done
  <2>2. r \in Asked /\ r # Cart!Done /\ r.of = q.of /\ r.read = q.read
        /\ r.asked = q.asked /\ Cart!Step(w, r)
    BY <1>2, <1>3, <2>1 DEF Cart!WriteQuote, Asked, Cart!Done, Cart!Steps
  <2> QED
    BY <1>2, <1>3, <2>1, <2>2, StepKeeps DEF Cart!WriteQuote
<1>4. CASE Cart!ChargeRefused(w)
  BY <1>2, <1>4, CarryKeeps DEF Cart!ChargeRefused, Cart!Done
<1>5. CASE Cart!LookUpReference(w)
  <2> DEFINE r == [q EXCEPT !.step = "reference", !.read = meta[q.of]]
  <2>1. q # Cart!Done /\ meta' = meta /\ charges' = charges
    BY <1>5 DEF Cart!LookUpReference, Cart!Done
  <2>2. meta[q.of] \in Meta /\ SameQuote(q.of, meta[q.of])
        /\ (outcome = "ready" => meta[q.of].siblings = Cart!Orders)
    BY <1>2, <2>1 DEF QuoteInv, CheckoutShape, Quoted, Linked
  <2>3. r \in Asked /\ r # Cart!Done /\ r.of = q.of /\ r.read = meta[q.of]
        /\ r.step = "reference"
    BY <1>2, <2>1, <2>2 DEF Asked, Cart!Done, Cart!Steps
  <2>4. CASE Cart!Step(w, r)
    BY <1>2, <2>1, <2>2, <2>3, <2>4, CarryKeeps
  <2>5. CASE Cart!Step(w, Cart!Done)
    BY <1>2, <2>1, <2>5, CarryKeeps
  <2> QED
    BY <1>5, <2>4, <2>5 DEF Cart!LookUpReference
<1>6. CASE Cart!WriteReference(w)
  <2> DEFINE m == [q.read EXCEPT !.ref = "chapa"]
  <2>1. q # Cart!Done
    BY <1>6 DEF Cart!WriteReference, Cart!Done
  <2>2. m \in Meta /\ m.amount = q.read.amount /\ m.locked = q.read.locked
        /\ m.fetched = q.read.fetched /\ m.siblings = q.read.siblings
    BY <1>2, <2>1 DEF Meta
  <2>3. SameQuote(q.of, m)
    BY <1>2, <2>1, <2>2 DEF SameQuote
  <2> QED
    BY <1>2, <1>6, <2>1, <2>2, <2>3, StepKeeps DEF Cart!WriteReference
<1>7. CASE Cart!StartCharge(w)
  <2> DEFINE c == [of |-> q.of, amount |-> q.read.amount,
                   rateAge |-> q.asked - q.read.fetched]
  <2>1. q # Cart!Done /\ q.step = "charge" /\ charges' = charges \cup {c} /\ meta' = meta
    BY <1>7 DEF Cart!StartCharge, Cart!Done
  <2>2. PICK r \in Asked \cup {Cart!Done} :
            Cart!Step(w, r) /\ (r # Cart!Done => /\ r.step = "lookup" /\ r.of = q.of
                                                 /\ r.read = q.read)
    <3>1. [q EXCEPT !.step = "lookup"] \in Asked
      BY <1>2, <2>1 DEF Asked, Cart!Steps
    <3> QED
      BY <1>2, <1>7, <2>1, <3>1 DEF Cart!StartCharge, Asked
  <2>3. /\ c.of \in Cart!Orders /\ checkoutOrder[c.of] # "none" /\ c.amount = total[c.of]
        /\ ProviderOf[c.of] = "chapa" => c.rateAge < RateTTL + QuoteTTL
    <3>1. /\ q.asked \in Nat /\ q.read.fetched \in Nat
          /\ q.read.locked \in Nat /\ RateTTL \in Nat /\ QuoteTTL \in Nat
      BY <1>2, <2>1 DEF Asked, Meta, Cart!CheckoutAssumption
    <3> QED
      BY <1>2, <2>1, <3>1 DEF SameQuote
  <2>4. \A v \in Workers : paymentRequest'[v] = IF v = w THEN r ELSE paymentRequest[v]
    BY <2>2 DEF Cart!Step, QuoteInv, CheckoutShape
  <2>5. UNCHANGED <<now, cache, checkoutOrder, total, preparing, outcome>>
    BY <2>2 DEF Cart!Step, Cart!orderVars, Cart!prepVars
  <2>6. CheckoutShape'
    BY <2>1, <2>2, <2>5 DEF Cart!Step, QuoteInv, CheckoutShape
  <2>7. Quoted'
    BY <2>1, <2>5 DEF QuoteInv, Quoted, SameQuote
  <2>8. Carried'
    BY <1>2, <2>1, <2>2, <2>4, <2>5 DEF QuoteInv, Carried, SameQuote
  <2>9. ChargesQuoted'
    BY <2>1, <2>3, <2>5 DEF QuoteInv, ChargesQuoted
  <2>10. Linked'
    BY <1>2, <2>1, <2>2, <2>4, <2>5 DEF QuoteInv, Linked
  <2> QED
    BY <2>6, <2>7, <2>8, <2>9, <2>10 DEF QuoteInv
<1>8. CASE Cart!FinishComplete(w)
  <2>1. q # Cart!Done /\ meta' = [meta EXCEPT ![q.of] = q.read] /\ Cart!Writing(w, "PAID")
    BY <1>8 DEF Cart!FinishComplete, Cart!Done
  <2> QED
    BY <2>1, WritingKeeps DEF Cart!OrderStatuses
<1>9. CASE Cart!FinishReceipt(w)
  <2>1. q # Cart!Done
    BY <1>9 DEF Cart!FinishReceipt, Cart!Done
  <2>2. CASE Cart!Writing(w, "COMPLETED") /\ meta' = meta
    BY <2>1, <2>2, WritingKeeps DEF Cart!OrderStatuses
  <2>3. CASE Cart!Writing(w, "DISPUTED") /\ meta' = [meta EXCEPT ![q.of] = q.read]
    BY <2>1, <2>3, WritingKeeps DEF Cart!OrderStatuses
  <2>4. CASE Cart!Step(w, Cart!Done) /\ meta' = meta /\ charges' = charges
    BY <1>2, <2>1, <2>4, CarryKeeps
  <2> QED
    BY <1>9, <2>2, <2>3, <2>4 DEF Cart!FinishReceipt
<1>10. CASE Cart!FinishSettlement(w)
  <2>1. q # Cart!Done /\ meta' = [meta EXCEPT ![q.of] = q.read]
    BY <1>10 DEF Cart!FinishSettlement, Cart!Done
  <2>2. PICK status \in {"COMPLETED", "REFUNDED"} : Cart!Writing(w, status)
    BY <1>10 DEF Cart!FinishSettlement
  <2> QED
    BY <2>1, <2>2, WritingKeeps DEF Cart!OrderStatuses
<1> QED
  BY <1>1, <1>3, <1>4, <1>5, <1>6, <1>7, <1>8, <1>9, <1>10 DEF Cart!Serve

LEMMA QuotesStep ==
    ASSUME Cart!CheckoutAssumption, QuoteInv, Followed, [Cart!Next]_(Cart!vars) PROVE QuoteInv'
<1> USE DEF Cart!orderVars, Cart!prepVars
<1>0. CheckoutShape
  BY DEF QuoteInv
<1>1. CASE UNCHANGED Cart!vars
  BY <1>0, <1>1, StatusKeeps DEF Cart!vars, CheckoutShape
<1>2. CASE Cart!Tick
  BY <1>0, <1>2, StatusKeeps DEF Cart!Tick, CheckoutShape
<1>3. CASE Cart!StartPrepare
  <2>1. CheckoutShape' /\ Quoted' /\ Carried' /\ ChargesQuoted'
    BY <1>3
    DEF Cart!StartPrepare, QuoteInv, CheckoutShape, Quoted, Carried, ChargesQuoted, SameQuote
  <2>2. Linked'
    BY <1>3 DEF Cart!StartPrepare, QuoteInv, Linked
  <2> QED
    BY <2>1, <2>2 DEF QuoteInv
<1>4. CASE Cart!PrepareGroup
  BY <1>4, PrepareGroupKeeps
<1>5. CASE Cart!PrepareFails
  <2>1. CheckoutShape' /\ Quoted' /\ Carried' /\ ChargesQuoted'
    BY <1>5
    DEF Cart!PrepareFails, QuoteInv, CheckoutShape, Quoted, Carried, ChargesQuoted, SameQuote
  <2>2. Linked'
    BY <1>5 DEF Cart!PrepareFails, QuoteInv, Linked, Cart!Orders
  <2> QED
    BY <2>1, <2>2 DEF QuoteInv
<1>6. CASE Cart!LinkSiblings
  <2>0. \A w \in Workers : paymentRequest'[w] = Cart!Done
    BY <1>6 DEF Cart!LinkSiblings, QuoteInv, Linked
  <2>1. \A o \in Cart!Orders : meta'[o] = [meta[o] EXCEPT !.siblings = Cart!Orders]
    BY <1>6 DEF Cart!LinkSiblings
  <2>2. \A o \in Cart!Orders : meta'[o] \in Meta /\ meta'[o].siblings = Cart!Orders
            /\ meta'[o].amount = meta[o].amount
            /\ meta'[o].locked = meta[o].locked /\ meta'[o].fetched = meta[o].fetched
    <3> SUFFICES ASSUME NEW o \in Cart!Orders
                 PROVE  /\ meta'[o] \in Meta /\ meta'[o].siblings = Cart!Orders
                        /\ meta'[o].amount = meta[o].amount
                        /\ meta'[o].locked = meta[o].locked /\ meta'[o].fetched = meta[o].fetched
      OBVIOUS
    <3>1. meta[o] \in Meta /\ Cart!Orders \in SUBSET Cart!Orders
      BY <1>0 DEF CheckoutShape
    <3> QED
      BY <2>1, <3>1 DEF Meta
  <2>3. CheckoutShape'
    BY <1>0, <1>6, <2>2 DEF Cart!LinkSiblings, CheckoutShape
  <2>4. Quoted'
    BY <1>6, <2>2 DEF Cart!LinkSiblings, QuoteInv, Quoted, SameQuote
  <2>5. Carried' /\ ChargesQuoted'
    BY <1>6, <2>0 DEF Cart!LinkSiblings, QuoteInv, Carried, ChargesQuoted
  <2>6. Linked'
    BY <1>6, <2>0, <2>2
    DEF Cart!LinkSiblings, QuoteInv, Linked, Cart!Orders, Cart!CheckoutAssumption
  <2> QED
    BY <2>3, <2>4, <2>5, <2>6 DEF QuoteInv
<1>7. ASSUME NEW o \in Cart!Orders, Cart!CancelOrder(o) PROVE QuoteInv'
  <2>1. checkoutOrder' = [checkoutOrder EXCEPT ![o] = "CANCELLED"] /\ checkoutOrder[o] = "PENDING"
        /\ UNCHANGED <<now, cache, total, meta, preparing, outcome, paymentRequest, charges>>
    BY <1>7 DEF Cart!CancelOrder
  <2>2. outcome # "none"
    BY <2>1 DEF QuoteInv, Linked
  <2> QED
    BY <1>0, <2>1, <2>2, StatusKeeps DEF CheckoutShape, Cart!OrderStatuses
<1>8. ASSUME NEW w \in Workers, Cart!Serve(w) PROVE QuoteInv'
  BY <1>8, ServeKeeps
<1> QED
  BY <1>1, <1>2, <1>3, <1>4, <1>5, <1>6, <1>7, <1>8 DEF Cart!Next

LEMMA FollowedStep ==
    ASSUME CheckoutInv, [Cart!Next]_(Cart!vars) PROVE Followed'
<1> USE DEF Cart!orderVars, Cart!prepVars
<1>0. /\ checkoutOrder \in [Cart!Orders -> Cart!OrderStatuses]
      /\ \A w \in Workers : paymentRequest[w] # Cart!Done =>
            /\ paymentRequest[w].of \in Cart!Orders /\ outcome \notin {"none", "running"}
            /\ checkoutOrder[paymentRequest[w].of] # "none"
      /\ preparing = 0 => outcome = "none"
      /\ \A o \in Cart!Orders : outcome = "none" => checkoutOrder[o] = "none"
  BY DEF CheckoutInv, QuoteInv, CheckoutShape, Linked, Carried, Asked
<1>f. Followed
  BY DEF CheckoutInv
<1> USE <1>0, <1>f DEF Followed
<1>1. CASE UNCHANGED Cart!vars
  BY <1>1 DEF Cart!vars
<1>2. CASE Cart!Tick \/ Cart!PrepareFails \/ Cart!LinkSiblings \/ Cart!StartPrepare
  BY <1>2 DEF Cart!Tick, Cart!PrepareFails, Cart!LinkSiblings, Cart!StartPrepare
<1>3. CASE Cart!PrepareGroup
  BY <1>3 DEF Cart!PrepareGroup, Cart!CreateOrder
<1>4. ASSUME NEW o \in Cart!Orders, Cart!CancelOrder(o) PROVE Followed'
  <2>1. outcome # "none"
    BY <1>4 DEF Cart!CancelOrder
  <2> QED
    BY <1>4, <2>1 DEF Cart!CancelOrder
<1>5. ASSUME NEW w \in Workers, Cart!Serve(w) PROVE Followed'
  <2> DEFINE q == paymentRequest[w]
  <2>1. ASSUME NEW o \in Cart!Orders,
               Cart!Initialize(w, o) \/ Cart!BeginComplete(w, o) \/ Cart!BeginReceipt(w, o)
                  \/ Cart!BeginSettlement(w, o)
        PROVE  Followed'
    BY <2>1 DEF Cart!Initialize, Cart!BeginComplete, Cart!BeginReceipt, Cart!BeginSettlement,
                Cart!Reading, Cart!Step
  <2>2. CASE Cart!WriteQuote(w) \/ Cart!StartCharge(w) \/ Cart!ChargeRefused(w)
             \/ Cart!LookUpReference(w) \/ Cart!WriteReference(w)
    BY <2>2 DEF Cart!WriteQuote, Cart!StartCharge, Cart!ChargeRefused, Cart!LookUpReference,
                Cart!WriteReference, Cart!Step
  <2>3. CASE Cart!FinishComplete(w)
    <3>1. q # Cart!Done
      BY <2>3 DEF Cart!FinishComplete, Cart!Done
    <3> QED
      BY <2>3, <3>1 DEF Cart!FinishComplete, Cart!Writing
  <2>4. CASE Cart!FinishReceipt(w)
    <3>1. q # Cart!Done
      BY <2>4 DEF Cart!FinishReceipt, Cart!Done
    <3> QED
      BY <2>4, <3>1 DEF Cart!FinishReceipt, Cart!Writing, Cart!Step
  <2>5. CASE Cart!FinishSettlement(w)
    <3>1. q # Cart!Done
      BY <2>5 DEF Cart!FinishSettlement, Cart!Done
    <3> QED
      BY <2>5, <3>1 DEF Cart!FinishSettlement, Cart!Writing
  <2> QED
    BY <1>5, <2>1, <2>2, <2>3, <2>4, <2>5 DEF Cart!Serve
<1> QED
  BY <1>1, <1>2, <1>3, <1>4, <1>5 DEF Cart!Next

LEMMA CheckoutStep ==
    ASSUME Cart!CheckoutAssumption, CheckoutInv, [Cart!Next]_(Cart!vars) PROVE CheckoutInv'
BY QuotesStep, FollowedStep DEF CheckoutInv

-----------------------------------------------------------------------------
\* What a gateway asks of a buyer is the total locked when the order was made, and never
\* at a rate older than cache and quote may grow together.
THEOREM ChargedAsQuotedAlways ==
    Cart!CheckoutAssumption => (Cart!Spec => []Cart!ChargedAsQuoted)
<1> SUFFICES ASSUME Cart!CheckoutAssumption PROVE Cart!Spec => []Cart!ChargedAsQuoted
  OBVIOUS
<1>1. Cart!Init => CheckoutInv
  BY CheckoutInit
<1>2. CheckoutInv /\ [Cart!Next]_(Cart!vars) => CheckoutInv'
  BY CheckoutStep
<1>3. CheckoutInv => Cart!ChargedAsQuoted
  BY DEF CheckoutInv, QuoteInv, ChargesQuoted, Cart!ChargedAsQuoted
<1> QED
  BY <1>1, <1>2, <1>3, PTL DEF Cart!Spec

\* Whatever payments are being started, and whatever completions, receipts and settlements
\* write back the metadata they read earlier, a buyer whose checkout was prepared is told
\* that exactly the unpaid orders remain, and nothing only when all transactions are
\* completed.
THEOREM NothingRemainsAlways ==
    Cart!CheckoutAssumption => (Cart!Spec => []Cart!NothingRemainsMeansAllPaid)
<1> SUFFICES ASSUME Cart!CheckoutAssumption PROVE Cart!Spec => []Cart!NothingRemainsMeansAllPaid
  OBVIOUS
<1>1. Cart!Init => CheckoutInv
  BY CheckoutInit
<1>2. CheckoutInv /\ [Cart!Next]_(Cart!vars) => CheckoutInv'
  BY CheckoutStep
<1>3. CheckoutInv => Cart!NothingRemainsMeansAllPaid
  <2> SUFFICES ASSUME CheckoutInv, outcome = "ready", NEW o \in Cart!Orders
               PROVE  /\ Cart!RemainingOrders(o) = {p \in Cart!Orders : checkoutOrder[p] # "PAID"}
                      /\ Cart!RemainingOrders(o) = {} => Cart!Orders \subseteq completed
    BY DEF Cart!NothingRemainsMeansAllPaid
  <2>1. meta[o].siblings = Cart!Orders
    BY DEF CheckoutInv, QuoteInv, Linked
  <2>2. Cart!RemainingOrders(o) = {p \in Cart!Orders : checkoutOrder[p] # "PAID"}
    BY <2>1 DEF Cart!RemainingOrders
  <2>3. \A p \in Cart!Orders : checkoutOrder[p] = "PAID" => p \in completed
    BY DEF CheckoutInv, Followed
  <2> QED
    BY <2>2, <2>3
<1> QED
  BY <1>1, <1>2, <1>3, PTL DEF Cart!Spec

-----------------------------------------------------------------------------
(* Where a seller is paid.                                                   *)

\* The rows, the copy and what a request carries hold accounts entered since the provider
\* was disconnected; the copy may lag behind while it is about to be written again.
AccountsHeld ==
    /\ \A p \in Setup!Providers : capability[p] # Setup!NoAccount => capability[p] \in entered[p]
    /\ setupRequest.do \notin {"list", "sync"} =>
          \A p \in Setup!Providers :
              preference.account[p] # Setup!NoAccount => preference.account[p] \in entered[p]
    /\ setupRequest.do = "sync" =>
          \A p \in Setup!Providers :
              setupRequest.found[p] # Setup!NoAccount => setupRequest.found[p] \in entered[p]
    /\ setupRequest.do = "mirror" => setupRequest.account \in entered[setupRequest.provider]

SetupInv == Setup!TypeOK /\ AccountsHeld

\* What a request looks like at each of its statements.
LEMMA SetupRequests ==
    ASSUME Setup!TypeOK
    PROVE  /\ setupRequest.do \in {"balance", "delete"} => setupRequest.provider \in Setup!Providers
           /\ setupRequest.do = "sync" =>
                 setupRequest.found \in [Setup!Providers -> Setup!AccountOrNone]
           /\ setupRequest.do = "mirror" =>
                 setupRequest.provider \in Setup!Providers /\ setupRequest.account \in Accounts
BY DEF Setup!TypeOK, Setup!Requests, Setup!Rest

LEMMA SetupInit == ASSUME Setup!Init PROVE SetupInv
BY DEF Setup!Init, SetupInv, Setup!TypeOK, AccountsHeld, Setup!Requests, Setup!Rest,
       Setup!AccountOrNone

LEMMA SetupStep ==
    ASSUME Setup!PayoutSetupAssumption, SetupInv, [Setup!Next]_(Setup!vars)
    PROVE  SetupInv'
<1> USE DEF SetupInv
<1>1. CASE Setup!CheckBalance
  <2>1. setupRequest.do = "balance" /\ setupRequest.provider \in Setup!Providers
    BY <1>1, SetupRequests DEF Setup!CheckBalance, Setup!Goes
  <2>2. setupRequest \in [do : {"balance"}, provider : Setup!Providers]
    BY <1>1, <2>1 DEF Setup!TypeOK, Setup!Requests, Setup!Rest
  <2>3. setupRequest' \in [do : {"delete"}, provider : Setup!Providers] \cup {Setup!Rest}
    BY <1>1, <2>2 DEF Setup!CheckBalance, Setup!Goes
  <2> QED BY <1>1, <2>1, <2>3
    DEF Setup!CheckBalance, Setup!TypeOK, AccountsHeld, Setup!Requests, Setup!Rest
<1>2. CASE Setup!DeleteCapability
  <2>1. setupRequest.provider \in Setup!Providers
    BY <1>2, SetupRequests DEF Setup!DeleteCapability, Setup!Goes
  <2> QED BY <1>2, <2>1
    DEF Setup!DeleteCapability, Setup!Goes, Setup!TypeOK, AccountsHeld, Setup!Requests, Setup!Rest,
        Setup!AccountOrNone
<1>3. CASE Setup!ListCapabilities
  BY <1>3
  DEF Setup!ListCapabilities, Setup!Goes, Setup!TypeOK, AccountsHeld, Setup!Requests, Setup!Rest,
      Setup!AccountOrNone
<1>4. CASE Setup!SyncLegacyPreference
  <2>1. setupRequest.do = "sync" /\ setupRequest.found \in [Setup!Providers -> Setup!AccountOrNone]
    BY <1>4, SetupRequests DEF Setup!SyncLegacyPreference, Setup!Goes
  <2>2. /\ preference'.account = setupRequest.found
        /\ preference' \in [method : Setup!Providers \cup {Setup!NoAccount},
                          account : [Setup!Providers -> Setup!AccountOrNone]]
    BY <1>4, <2>1 DEF Setup!SyncLegacyPreference, Setup!Copied, Setup!Providers
  <2> QED BY <1>4, <2>1, <2>2
    DEF Setup!SyncLegacyPreference, Setup!Goes, Setup!TypeOK, AccountsHeld, Setup!Requests,
        Setup!Rest
<1>5. CASE Setup!MirrorCapability
  <2>1. /\ setupRequest.do = "mirror"
        /\ setupRequest.provider \in Setup!Providers /\ setupRequest.account \in Accounts
    BY <1>5, SetupRequests DEF Setup!MirrorCapability, Setup!Goes
  <2> QED BY <1>5, <2>1
    DEF Setup!MirrorCapability, Setup!Goes, Setup!TypeOK, AccountsHeld, Setup!Requests, Setup!Rest,
        Setup!AccountOrNone
<1>6. ASSUME NEW p \in Setup!Providers, Setup!DisconnectSellerPayout(p) PROVE SetupInv'
  BY <1>6
  DEF Setup!DisconnectSellerPayout, Setup!Asks, Setup!TypeOK, AccountsHeld, Setup!Requests,
      Setup!Rest
<1>7. ASSUME NEW p \in Setup!Providers, Setup!EndOrder(p) \/ Setup!Withdraw(p) PROVE SetupInv'
  BY <1>7 DEF Setup!EndOrder, Setup!Withdraw, Setup!TypeOK, AccountsHeld
<1>8. ASSUME NEW p \in Setup!Providers, NEW a \in Accounts, Setup!ConnectSellerPayout(p, a)
      PROVE  SetupInv'
  BY <1>8
  DEF Setup!ConnectSellerPayout, Setup!Enter, Setup!Asks, Setup!TypeOK, AccountsHeld,
      Setup!Requests, Setup!Rest, Setup!AccountOrNone
<1>9. ASSUME NEW p \in Setup!Providers, NEW a \in Accounts, Setup!UpdatePaymentMethod(p, a)
      PROVE  SetupInv'
  <2>1. /\ preference'.account = [preference.account EXCEPT ![p] = a]
        /\ preference' \in [method : Setup!Providers \cup {Setup!NoAccount},
                          account : [Setup!Providers -> Setup!AccountOrNone]]
    BY <1>9 DEF Setup!UpdatePaymentMethod, Setup!TypeOK, Setup!AccountOrNone
  <2>2. /\ entered' \in [Setup!Providers -> SUBSET Accounts]
        /\ \A q \in Setup!Providers : entered[q] \subseteq entered'[q]
    BY <1>9 DEF Setup!UpdatePaymentMethod, Setup!Enter, Setup!TypeOK
  <2>3. a \in entered'[p]
    BY <1>9 DEF Setup!UpdatePaymentMethod, Setup!Enter, Setup!TypeOK
  <2> QED BY <1>9, <2>1, <2>2, <2>3
          DEF Setup!UpdatePaymentMethod, Setup!Asks, Setup!TypeOK, AccountsHeld, Setup!Requests,
                 Setup!Rest, Setup!AccountOrNone
<1>10. ASSUME NEW m \in Setup!Providers,
              NEW given \in [Setup!Providers -> Accounts \cup {Setup!NoAccount, Setup!Kept}],
              Setup!UpdatePaymentMethodPreference(m, given)
       PROVE  SetupInv'
  <2> DEFINE account == [p \in Setup!Providers |->
                           IF given[p] = Setup!Kept THEN preference.account[p] ELSE given[p]]
  <2>1. account \in [Setup!Providers -> Setup!AccountOrNone]
    BY DEF Setup!TypeOK, Setup!AccountOrNone
  <2>2. /\ preference' = [method |-> m, account |-> account]
        /\ setupRequest' = IF account[m] = Setup!NoAccount THEN Setup!Rest
                      ELSE [do |-> "mirror", provider |-> m, account |-> account[m]]
        /\ setupRequest = Setup!Rest
    BY <1>10 DEF Setup!UpdatePaymentMethodPreference, Setup!Asks
  <2>3. /\ entered' \in [Setup!Providers -> SUBSET Accounts]
        /\ \A p \in Setup!Providers : entered[p] \subseteq entered'[p]
    BY <1>10 DEF Setup!UpdatePaymentMethodPreference, Setup!TypeOK
  <2>4. \A p \in Setup!Providers : account[p] # Setup!NoAccount => account[p] \in entered'[p]
    <3> TAKE p \in Setup!Providers
    <3>1. CASE given[p] = Setup!Kept
      BY <2>2, <2>3, <3>1 DEF AccountsHeld, Setup!Rest
    <3>2. CASE given[p] # Setup!Kept
      BY <1>10, <3>2 DEF Setup!UpdatePaymentMethodPreference
    <3> QED BY <3>1, <3>2
  <2>5. setupRequest' \in Setup!Requests
    BY <2>1, <2>2 DEF Setup!Requests, Setup!AccountOrNone
  <2>6. Setup!TypeOK'
    BY <1>10, <2>1, <2>2, <2>3, <2>5 DEF Setup!UpdatePaymentMethodPreference, Setup!TypeOK
  <2>7. AccountsHeld'
    BY <1>10, <2>1, <2>2, <2>3, <2>4
    DEF Setup!UpdatePaymentMethodPreference, Setup!TypeOK, AccountsHeld, Setup!Rest
  <2> QED BY <2>6, <2>7
<1>11. ASSUME NEW p \in Setup!Providers, NEW c \in Setup!Countries, Setup!PlaceOrder(c, p)
       PROVE  SetupInv'
  BY <1>11 DEF Setup!PlaceOrder, Setup!TypeOK, AccountsHeld
<1>12. CASE UNCHANGED Setup!vars
  BY <1>12 DEF Setup!vars, Setup!TypeOK, AccountsHeld
<1> QED BY <1>1, <1>2, <1>3, <1>4, <1>5, <1>6, <1>7, <1>8, <1>9, <1>10, <1>11, <1>12 DEF Setup!Next

\* Rows, copies and requests keep their form: CheckoutCapabilityService and the two pages.
THEOREM SetupTypeCorrect == Setup!PayoutSetupAssumption => (Setup!Spec => []Setup!TypeOK)
<1> SUFFICES ASSUME Setup!PayoutSetupAssumption PROVE Setup!Spec => []Setup!TypeOK OBVIOUS
<1>1. Setup!Init => SetupInv BY SetupInit
<1>2. SetupInv /\ [Setup!Next]_(Setup!vars) => SetupInv' BY SetupStep
<1>3. SetupInv => Setup!TypeOK BY DEF SetupInv
<1> QED BY <1>1, <1>2, <1>3, PTL DEF Setup!Spec

\* What checkout offers is paid out to an account the seller entered for that provider and
\* has not disconnected since: the three pages and the copy between them.
THEOREM OfferedAsEnteredAlways ==
    Setup!PayoutSetupAssumption => (Setup!Spec => []Setup!OfferedAsEntered)
<1> SUFFICES ASSUME Setup!PayoutSetupAssumption PROVE Setup!Spec => []Setup!OfferedAsEntered OBVIOUS
<1>1. Setup!Init => SetupInv BY SetupInit
<1>2. SetupInv /\ [Setup!Next]_(Setup!vars) => SetupInv' BY SetupStep
<1>3. SetupInv => Setup!OfferedAsEntered
  BY DEF SetupInv, AccountsHeld, Setup!OfferedAsEntered, Setup!AvailableMethods, Setup!Connected
<1> QED BY <1>1, <1>2, <1>3, PTL DEF Setup!Spec

-----------------------------------------------------------------------------
(* The catalogue: what is public was let through.                            *)

Shelf == {"APPROVED", "SOLD", "DISPUTED"}

ShopShape ==
    /\ artworkStatus \in [Artworks -> Shop!ArtworkStatus \cup {"none", "deleted"}]
    /\ isApproved \in [Artworks -> BOOLEAN]
    /\ letThrough \subseteq Artworks
    /\ bought \in [ShopOrders -> SUBSET Artworks]

\* What an order has bought was let through, whatever happened to it since: payments, disputes
\* and refunds write the status of nothing else.  What is on sale has the flag.
OnceLetThrough ==
    /\ \A a \in Artworks : artworkStatus[a] \in Shelf => a \in letThrough
    /\ \A o \in ShopOrders : bought[o] \subseteq letThrough
FlagFollows == \A a \in Artworks : artworkStatus[a] = "APPROVED" => isApproved[a]

ShopInv == ShopShape /\ OnceLetThrough /\ FlagFollows

LEMMA ShopInit == Shop!ListsInit => ShopInv
BY DEF Shop!ListsInit, Shop!Init, ShopInv, ShopShape, OnceLetThrough, FlagFollows, Shelf

\* What the artist, and whoever sets a status, does.
LEMMA DeleteKeeps == ASSUME ShopInv, NEW as, Shop!Delete(as) PROVE ShopInv'
<1> USE DEF Shop!Delete, ShopInv
<1>1. ShopShape'
  BY DEF ShopShape
<1>2. OnceLetThrough' /\ FlagFollows'
  BY DEF ShopShape, OnceLetThrough, FlagFollows, Shelf
<1> QED
  BY <1>1, <1>2

LEMMA OfferKeeps == ASSUME ShopInv, NEW a \in Artworks, Shop!Offer(a) PROVE ShopInv'
<1> USE DEF ShopInv, ShopShape, OnceLetThrough, FlagFollows, Shelf
<1>1. CASE Shop!Create(a)
  BY <1>1 DEF Shop!Create, Shop!ArtworkStatus
<1>2. CASE Shop!RemoveArtwork(a)
  BY <1>2, DeleteKeeps DEF Shop!RemoveArtwork
<1>3. ASSUME NEW s \in Shop!ArtworkStatus, Shop!UpdateStatus(a, s) PROVE ShopInv'
  BY <1>3 DEF Shop!UpdateStatus, Shop!ArtworkStatus
<1>4. CASE Shop!AddComment(a) \/ Shop!DeleteComment(a)
  BY <1>4 DEF Shop!AddComment, Shop!DeleteComment
<1> QED
  BY <1>1, <1>2, <1>3, <1>4 DEF Shop!Offer

\* What an order does: it places artworks that are on sale and writes those it has bought.
LEMMA SellKeeps ==
    ASSUME Shop!CatalogueAssumption, ShopInv, NEW o \in ShopOrders, Shop!Sell(o)
    PROVE  ShopInv'
<1> USE DEF ShopInv, ShopShape, OnceLetThrough, FlagFollows, Shelf, Shop!Move, Shop!Write,
            Shop!ArtworkStatus
<1>1. CASE Shop!CreateOrder(o)
  BY <1>1 DEF Shop!CreateOrder, Shop!CatalogueAssumption
<1>2. CASE Shop!CancelOrder(o)
  BY <1>2 DEF Shop!CancelOrder
<1>3. CASE Shop!CompleteOrder(o) \/ Shop!MarkArtworksSold(o)
  BY <1>3 DEF Shop!CompleteOrder, Shop!MarkArtworksSold
<1>4. CASE Shop!ConfirmReceipt(o)
  BY <1>4 DEF Shop!ConfirmReceipt, Shop!Confirm
<1>5. CASE Shop!OpenDispute(o)
  BY <1>5 DEF Shop!OpenDispute, Shop!Confirm
<1>6. CASE Shop!SettleForSeller(o)
  BY <1>6 DEF Shop!SettleForSeller, Shop!Resolve
<1>7. CASE Shop!Refund(o)
  BY <1>7 DEF Shop!Refund, Shop!Resolve
<1> QED
  BY <1>1, <1>2, <1>3, <1>4, <1>5, <1>6, <1>7 DEF Shop!Sell

LEMMA ShopStep ==
    ASSUME Shop!CatalogueAssumption, ShopInv, [Shop!ListsNext]_(Shop!listVars)
    PROVE  ShopInv'
<1>1. CASE UNCHANGED Shop!vars
  BY <1>1 DEF Shop!vars, ShopInv, ShopShape, OnceLetThrough, FlagFollows
<1>2. CASE Shop!Next
  BY <1>2, OfferKeeps, SellKeeps DEF Shop!Next
<1>3. ASSUME NEW x \in Artists, Shop!RemoveUser(x) PROVE ShopInv'
  BY <1>3, DeleteKeeps DEF Shop!RemoveUser
<1> QED
  BY <1>1, <1>2, <1>3
  DEF Shop!ListsNext, Shop!listVars, Shop!UpdateUser, Shop!DeactivateAccount,
      Shop!ReactivateAccount, Shop!UpdateArtwork

\* Nothing is public, sold or in dispute that the status endpoint has never made public,
\* through any history of status changes, orders, disputes, refunds and removals.
THEOREM PublicWasLetThroughAlways ==
    Shop!CatalogueAssumption => (Shop!ListsSpec => []Shop!PublicWasLetThrough)
<1> SUFFICES ASSUME Shop!CatalogueAssumption PROVE Shop!ListsSpec => []Shop!PublicWasLetThrough
  OBVIOUS
<1>1. Shop!ListsInit => ShopInv
  BY ShopInit
<1>2. ShopInv /\ [Shop!ListsNext]_(Shop!listVars) => ShopInv'
  BY ShopStep
<1>3. ShopInv => Shop!PublicWasLetThrough
  BY DEF ShopInv, ShopShape, OnceLetThrough, Shelf, Shop!PublicWasLetThrough, Shop!FindAll
<1> QED
  BY <1>1, <1>2, <1>3, PTL DEF Shop!ListsSpec

\* The lists that ask for the flag miss nothing that is on sale: the status APPROVED and
\* the flag are written apart, by five services.
THEOREM FlagFollowsAlways == Shop!CatalogueAssumption => (Shop!ListsSpec => []FlagFollows)
<1> SUFFICES ASSUME Shop!CatalogueAssumption PROVE Shop!ListsSpec => []FlagFollows
  OBVIOUS
<1>1. Shop!ListsInit => ShopInv
  BY ShopInit
<1>2. ShopInv /\ [Shop!ListsNext]_(Shop!listVars) => ShopInv'
  BY ShopStep
<1>3. ShopInv => FlagFollows
  BY DEF ShopInv
<1> QED
  BY <1>1, <1>2, <1>3, PTL DEF Shop!ListsSpec

\* The catalogue counts with the same finite sets.
LEMMA ShopCardinality == \A S : Shop!Cardinality(S) = Cardinality(S)
  BY DEF Shop!Cardinality, Cardinality, Shop!IsFiniteSet, IsFiniteSet

LEMMA ShopFinite == \A S : Shop!IsFiniteSet(S) <=> IsFiniteSet(S)
  BY DEF Shop!IsFiniteSet, IsFiniteSet

\* Two artworks do not take the same place, whatever their scores.
LEMMA PlacesDiffer ==
    ASSUME NEW those \in SUBSET Nat, IsFiniteSet(those), NEW score, \A x \in those : score[x] \in Int,
           NEW a \in those, NEW b \in those, Shop!Before(score, b, a)
    PROVE  /\ Shop!Place(those, score, a) \in Nat /\ Shop!Place(those, score, b) \in Nat
           /\ Shop!Place(those, score, b) < Shop!Place(those, score, a)
<1> DEFINE A == {c \in those : Shop!Before(score, c, a)}  B == {c \in those : Shop!Before(score, c, b)}
<1>1. IsFiniteSet(A) /\ IsFiniteSet(B) /\ Cardinality(A) \in Nat /\ Cardinality(B) \in Nat
  BY FS_Subset, FS_CardinalityType
<1>2. \A c \in those : c \in Int /\ score[c] \in Int
  OBVIOUS
<1>3. b \in A /\ b \notin B /\ \A c \in B : c \in A
  <2>1. ~Shop!Before(score, b, b)
    BY <1>2 DEF Shop!Before
  <2>2. ASSUME NEW c \in those, Shop!Before(score, c, b) PROVE Shop!Before(score, c, a)
    <3>1. score[a] \in Int /\ score[b] \in Int /\ score[c] \in Int /\ a \in Int /\ b \in Int /\ c \in Int
      BY <1>2
    <3>2. score[b] > score[a] \/ (score[b] = score[a] /\ b > a)
      BY DEF Shop!Before
    <3>3. score[c] > score[b] \/ (score[c] = score[b] /\ c > b)
      BY <2>2 DEF Shop!Before
    <3> QED
      BY <3>1, <3>2, <3>3 DEF Shop!Before
  <2> QED
    BY <2>1, <2>2
<1>4. Shop!Place(those, score, a) = Cardinality(A) + 1 /\ Shop!Place(those, score, b) = Cardinality(B) + 1
  <2>1. Shop!Place(those, score, a) = Shop!Cardinality(A) + 1
        /\ Shop!Place(those, score, b) = Shop!Cardinality(B) + 1
    BY DEF Shop!Place
  <2> HIDE DEF A, B
  <2> QED
    BY <2>1, ShopCardinality
<1> HIDE DEF A, B
<1>5. Cardinality(B \cup {b}) = Cardinality(B) + 1
  BY <1>1, <1>3, FS_AddElement
<1>6. Cardinality(B \cup {b}) <= Cardinality(A)
  BY <1>1, <1>3, FS_Subset
<1> QED
  BY <1>1, <1>4, <1>5, <1>6

\* A ranked list leaves nothing out.
LEMMA RankedHasAll ==
    ASSUME NEW those \in SUBSET Nat, IsFiniteSet(those), NEW score, \A x \in those : score[x] \in Int,
           NEW a \in those
    PROVE  Shop!IsIn(Shop!Ranked(those, score), a)
<1> DEFINE p == Shop!Place(those, score, a)  A == {c \in those : Shop!Before(score, c, a)}
<1>1. IsFiniteSet(A) /\ Cardinality(A) \in Nat /\ Cardinality(those) \in Nat
  BY FS_Subset, FS_CardinalityType
<1>2. a \notin A /\ A \subseteq those
  <2>1. score[a] \in Int /\ a \in Int
    OBVIOUS
  <2>2. ~Shop!Before(score, a, a)
    BY <2>1 DEF Shop!Before
  <2> QED
    BY <2>2
<1>3. p = Cardinality(A) + 1
  <2>1. p = Shop!Cardinality(A) + 1
    BY DEF Shop!Place
  <2> HIDE DEF A, p
  <2> QED
    BY <2>1, ShopCardinality
<1>4. p \in 1..Cardinality(those)
  <2> HIDE DEF A, p
  <2>1. Cardinality(A \cup {a}) = Cardinality(A) + 1
    BY <1>1, <1>2, FS_AddElement
  <2>2. Cardinality(A \cup {a}) <= Cardinality(those)
    BY <1>2, FS_Subset
  <2> QED
    BY <1>1, <1>3, <2>1, <2>2
<1>5. ASSUME NEW b \in those, Shop!Place(those, score, b) = p PROVE b = a
  <2>1. ~Shop!Before(score, a, b) /\ ~Shop!Before(score, b, a)
    <3> SUFFICES ASSUME Shop!Before(score, a, b) \/ Shop!Before(score, b, a) PROVE FALSE
      OBVIOUS
    <3>1. CASE Shop!Before(score, a, b)
      <4>1. Shop!Place(those, score, a) < Shop!Place(those, score, b)
        BY <3>1, PlacesDiffer
      <4>2. Shop!Place(those, score, a) \in Nat
        BY <3>1, PlacesDiffer
      <4> QED
        BY <1>5, <4>1, <4>2
    <3>2. CASE Shop!Before(score, b, a)
      <4>1. Shop!Place(those, score, b) < Shop!Place(those, score, a)
        BY <3>2, PlacesDiffer
      <4>2. Shop!Place(those, score, a) \in Nat
        BY <3>2, PlacesDiffer
      <4> QED
        BY <1>5, <4>1, <4>2
    <3> QED
      BY <3>1, <3>2
  <2>2. score[a] \in Int /\ score[b] \in Int /\ a \in Nat /\ b \in Nat
    OBVIOUS
  <2> QED
    BY <2>1, <2>2 DEF Shop!Before
<1>6. (CHOOSE b \in those : Shop!Place(those, score, b) = p) = a
  <2> HIDE DEF p
  <2>1. Shop!Place(those, score, a) = p
    BY DEF p
  <2> QED
    BY <1>5, <2>1
<1>7. DOMAIN Shop!Ranked(those, score) = 1..Cardinality(those) /\ Shop!Ranked(those, score)[p] = a
  <2>1. Shop!Cardinality(those) = Cardinality(those)
    BY ShopCardinality
  <2> HIDE DEF p
  <2> QED
    BY <1>4, <1>6, <2>1 DEF Shop!Ranked
<1> QED
  BY <1>4, <1>7, Zenon DEF Shop!IsIn

\* What is there has an artist who is.
Owned ==
    /\ comments \in [Artworks -> Nat]
    /\ removed \subseteq Artists
    /\ \A a \in Artworks : artworkStatus[a] \in Shop!ArtworkStatus => ArtistOf[a] \notin removed

FoundInv == ShopInv /\ Owned

\* Nothing is there at first.
LEMMA OwnedInit == Shop!ListsInit => Owned
  BY DEF Shop!ListsInit, Shop!Init, Owned, Shop!ArtworkStatus

\* The comments stay counted.
LEMMA CommentsCounted ==
    ASSUME comments \in [Artworks -> Nat], Shop!Next
    PROVE  comments' \in [Artworks -> Nat]
<1>1. ASSUME NEW a \in Artworks, Shop!Offer(a) PROVE comments' \in [Artworks -> Nat]
  <2>1. CASE Shop!Create(a)
    BY <2>1 DEF Shop!Create
  <2>2. CASE Shop!RemoveArtwork(a)
    BY <2>2 DEF Shop!RemoveArtwork, Shop!Delete
  <2>3. CASE \E s \in Shop!ArtworkStatus : Shop!UpdateStatus(a, s)
    BY <2>3 DEF Shop!UpdateStatus
  <2>4. CASE Shop!AddComment(a)
    <3>1. comments' = [comments EXCEPT ![a] = @ + 1]
      BY <2>4 DEF Shop!AddComment
    <3> QED
      BY <3>1
  <2>5. CASE Shop!DeleteComment(a)
    BY <2>5 DEF Shop!DeleteComment
  <2> QED
    BY <1>1, <2>1, <2>2, <2>3, <2>4, <2>5 DEF Shop!Offer
<1>2. ASSUME NEW o \in ShopOrders, Shop!Sell(o) PROVE comments' = comments
  BY <1>2
  DEF Shop!Sell, Shop!CreateOrder, Shop!CancelOrder, Shop!CompleteOrder, Shop!MarkArtworksSold,
      Shop!ConfirmReceipt, Shop!OpenDispute, Shop!SettleForSeller, Shop!Refund, Shop!Move, Shop!Confirm, Shop!Resolve
<1> QED
  BY <1>1, <1>2 DEF Shop!Next

\* An artist who is removed takes the artworks along.
LEMMA OwnedStep ==
    ASSUME ShopShape, Owned, [Shop!ListsNext]_(Shop!listVars)
    PROVE  Owned'
<1>1. CASE UNCHANGED <<artworkStatus, comments, removed>>
  BY <1>1 DEF Owned
<1>2. CASE /\ Shop!Next /\ removed' = removed
           /\ \A a \in Artworks : ArtistOf[a] \in removed => artworkStatus'[a] = artworkStatus[a]
  <2>1. comments' \in [Artworks -> Nat]
    BY <1>2, CommentsCounted DEF Owned
  <2> QED
    BY <1>2, <2>1 DEF Owned
<1>3. ASSUME NEW x \in Artists, Shop!RemoveUser(x) PROVE Owned'
  <2> DEFINE D == {a \in Shop!Existing : ArtistOf[a] = x}
  <2>1. removed' = removed \cup {x} /\ Shop!Delete(D)
    BY <1>3 DEF Shop!RemoveUser
  <2>2. comments' = [a \in Artworks |-> IF a \in D THEN 0 ELSE comments[a]]
        /\ artworkStatus' = [a \in Artworks |-> IF a \in D THEN "deleted" ELSE artworkStatus[a]]
    BY <2>1 DEF Shop!Delete
  <2>3. comments' \in [Artworks -> Nat]
    BY <2>2 DEF Owned
  <2>4. ASSUME NEW a \in Artworks, artworkStatus'[a] \in Shop!ArtworkStatus
        PROVE  ArtistOf[a] \notin removed'
    <3>1. a \notin D /\ artworkStatus[a] \in Shop!ArtworkStatus
      BY <2>2, <2>4 DEF Shop!ArtworkStatus
    <3> QED
      BY <2>1, <3>1 DEF Owned, Shop!Existing
  <2> QED
    BY <2>1, <2>3, <2>4 DEF Owned
<1> QED
  BY <1>1, <1>2, <1>3
  DEF Shop!ListsNext, Shop!listVars, Shop!vars, Shop!accountVars, Shop!UpdateUser,
      Shop!DeactivateAccount, Shop!ReactivateAccount, Shop!UpdateArtwork

\* The lists that rank what they show.
LEMMA RankedFound ==
    ASSUME Shop!CatalogueAssumption, FoundInv, NEW a \in Artworks, artworkStatus[a] = "APPROVED"
    PROVE  /\ Shop!IsIn(Shop!FeedArtworks({ArtistOf[a]}), a)
           /\ Shop!IsIn(Shop!TrendingArtworks, a)
<1>1. Artworks \in SUBSET Nat /\ IsFiniteSet(Artworks) /\ isApproved[a]
  <2>1. Artworks \subseteq Nat /\ Shop!IsFiniteSet(Artworks)
    BY DEF Shop!CatalogueAssumption
  <2>2. IsFiniteSet(Artworks)
    BY ONLY <2>1, ShopFinite
  <2> QED
    BY <2>1, <2>2 DEF FoundInv, ShopInv, FlagFollows
<1>2. Shop!IsIn(Shop!FeedArtworks({ArtistOf[a]}), a)
  <2> DEFINE those == {b \in Artworks : ArtistOf[b] \in {ArtistOf[a]} /\ artworkStatus[b] = "APPROVED"
                                     /\ isApproved[b]}
             score == [b \in Artworks |-> b]
  <2>1. those \in SUBSET Nat /\ IsFiniteSet(those) /\ a \in those
    BY <1>1, FS_Subset
  <2>3. ASSUME NEW b \in those PROVE score[b] \in Int
    BY <1>1
  <2>2. Shop!FeedArtworks({ArtistOf[a]}) = Shop!Ranked(those, score)
    BY DEF Shop!FeedArtworks
  <2> HIDE DEF those, score
  <2> QED
    BY <2>1, <2>2, <2>3, RankedHasAll
<1>3. Shop!IsIn(Shop!TrendingArtworks, a)
  <2> DEFINE those == {b \in Artworks : isApproved[b] /\ artworkStatus[b] \in {"APPROVED", "SOLD"}}
             score == [b \in Artworks |-> Shop!EngagementScore(b)]
  <2>1. those \in SUBSET Nat /\ IsFiniteSet(those) /\ a \in those
    BY <1>1, FS_Subset
  <2>2. ASSUME NEW b \in those PROVE score[b] \in Int
    <3>1. b \in Artworks /\ Views[b] \in Nat /\ Likes[b] \in Nat /\ FavoritesOf[b] \in Nat
          /\ comments[b] \in Nat
      BY DEF Shop!CatalogueAssumption, FoundInv, Owned
    <3>2. Shop!RecencyBonus(b) \in {15, 12, 10}
      BY DEF Shop!RecencyBonus
    <3>3. Shop!EngagementScore(b) \in Int
      BY <3>1, <3>2 DEF Shop!EngagementScore, Shop!Engagement
    <3> QED
      BY <3>1, <3>3
  <2>3. Shop!TrendingArtworks = Shop!Ranked(those, score)
    BY DEF Shop!TrendingArtworks
  <2> HIDE DEF those, score
  <2> QED
    BY <2>1, <2>2, <2>3, RankedHasAll
<1> QED
  BY <1>2, <1>3

\* What is on sale is in the lists.
LEMMA FoundIsFound == ASSUME Shop!CatalogueAssumption, FoundInv PROVE Shop!OnSaleIsFound
<1> SUFFICES ASSUME NEW a \in Artworks, artworkStatus[a] = "APPROVED", NEW x, x = ArtistOf[a]
             PROVE  /\ a \in Shop!FindAll \cap Shop!OpenToAll \cap Shop!Shown
                    /\ Shop!IsIn(Shop!FeedArtworks({x}), a) /\ Shop!IsIn(Shop!TrendingArtworks, a)
                    /\ x \in Shop!TrendingArtists
                    /\ x \notin banned =>
                        /\ x \in Shop!AllArtists
                        /\ \A t \in TalentsOf[x] : /\ x \in Shop!ArtistsByTalentType(t)
                                                   /\ x \in Shop!AllArtistsByTalentType(t)
                        /\ x \in Online => x \in Shop!OnlineArtists
                        /\ \A y \in Artists \ {x} :
                              categoriesOf[a] \cap Shop!CategoriesOnSale(y) # {}
                                  => x \in Shop!SimilarArtists(y)
  BY DEF Shop!OnSaleIsFound
<1>1. isApproved[a] /\ x \in Artists /\ x \notin removed
  BY DEF FoundInv, ShopInv, FlagFollows, Owned, Shop!ArtworkStatus, Shop!CatalogueAssumption
<1>2. a \in Shop!FindAll \cap Shop!OpenToAll \cap Shop!Shown /\ x \in Shop!TrendingArtists
  BY <1>1 DEF Shop!FindAll, Shop!OpenToAll, Shop!Shown, Shop!Existing, Shop!ArtworkStatus,
              Shop!TrendingArtists
<1>3. a \in Shop!OnSale(x)
  BY DEF Shop!OnSale
<1>4. ASSUME x \notin banned PROVE x \in Shop!Sellers /\ x \in Shop!Listed
  BY <1>1, <1>3, <1>4 DEF Shop!Sellers, Shop!Listed, Shop!Users
<1>5. ASSUME x \notin banned, NEW y \in Artists \ {x},
             categoriesOf[a] \cap Shop!CategoriesOnSale(y) # {}
      PROVE  x \in Shop!SimilarArtists(y)
  <2>1. categoriesOf[a] \subseteq Shop!CategoriesOnSale(x)
    BY <1>3 DEF Shop!CategoriesOnSale
  <2> QED
    BY <1>4, <1>5, <2>1 DEF Shop!SimilarArtists
<1>6. x \notin banned =>
          /\ x \in Shop!AllArtists
          /\ \A t \in TalentsOf[x] : /\ x \in Shop!ArtistsByTalentType(t)
                                     /\ x \in Shop!AllArtistsByTalentType(t)
          /\ x \in Online => x \in Shop!OnlineArtists
  BY <1>4 DEF Shop!AllArtists, Shop!ArtistsByTalentType, Shop!AllArtistsByTalentType,
              Shop!OnlineArtists
<1> QED
  BY <1>2, <1>5, <1>6, RankedFound

\* What is on sale is found in the places that ask for the status, in those that ask for the
\* flag, in the ranked lists, and its artist in every list that asks for something on sale.
THEOREM OnSaleIsFoundAlways ==
    Shop!CatalogueAssumption => (Shop!ListsSpec => []Shop!OnSaleIsFound)
<1> SUFFICES ASSUME Shop!CatalogueAssumption PROVE Shop!ListsSpec => []Shop!OnSaleIsFound
  OBVIOUS
<1>1. Shop!ListsInit => FoundInv
  BY ShopInit, OwnedInit DEF FoundInv
<1>2. FoundInv /\ [Shop!ListsNext]_(Shop!listVars) => FoundInv'
  BY ShopStep, OwnedStep DEF FoundInv, ShopInv
<1>3. FoundInv => Shop!OnSaleIsFound
  BY FoundIsFound
<1> QED
  BY <1>1, <1>2, <1>3, PTL DEF Shop!ListsSpec

-----------------------------------------------------------------------------
(* A blog post: its date, and its counters.                                  *)

OneDecision == \A s, t \in Staff : s = t
OwnRequests == \A v, w \in Workers : UserOf[v] = UserOf[w] => v = w

Decisions ==
    {Post!Done} \cup [step : {"status"}, to : {"APPROVED", "REJECTED"}]
    \cup [step : {"publish"}, to : BOOLEAN, redate : BOOLEAN]

\* A decision that leaves the date alone leaves the post as published as it is.
DateInv ==
    /\ published \in BOOLEAN /\ (published <=> dated)
    /\ decision \in [Staff -> Decisions]
    /\ \A s \in Staff : decision[s].step = "publish" /\ ~decision[s].redate =>
                           (decision[s].to <=> published)
    /\ postStatus = "none" => \A s \in Staff : decision[s] = Post!Done

LEMMA DateInit == Post!Init => DateInv
<1> SUFFICES ASSUME Post!Init PROVE DateInv
  OBVIOUS
<1>1. decision \in [Staff -> Decisions] /\ \A s \in Staff : decision[s] = Post!Done
  BY DEF Post!Init, Decisions
<1>2. published = FALSE /\ dated = FALSE
  BY DEF Post!Init
<1>3. published \in BOOLEAN /\ (published <=> dated)
  BY <1>2
<1>4. \A s \in Staff : decision[s].step # "publish"
  BY <1>1 DEF Post!Done
<1> QED
  BY <1>1, <1>3, <1>4 DEF DateInv

LEMMA DecideKeepsDate ==
    ASSUME DateInv, NEW s \in Staff, NEW d \in Decisions, Post!Decide(s, d),
           d.step = "publish" /\ ~d.redate => (d.to <=> published)
    PROVE  DateInv'
<1>1. /\ UNCHANGED <<published, dated, postStatus>> /\ postStatus # "none"
      /\ decision' = [decision EXCEPT ![s] = d]
  BY DEF Post!Decide, Post!postVars, Post!Exists
<1>2. decision' \in [Staff -> Decisions]
  BY <1>1 DEF DateInv
<1>3. \A t \in Staff : decision'[t] = IF t = s THEN d ELSE decision[t]
  BY <1>1 DEF DateInv
<1> QED
  BY <1>1, <1>2, <1>3 DEF DateInv

LEMMA WriteDecisionKeepsDate ==
    ASSUME DateInv, OneDecision, NEW s \in Staff, Post!WriteDecision(s)
    PROVE  DateInv'
<1> DEFINE d == decision[s]
<1>1. d # Post!Done /\ decision' = [decision EXCEPT ![s] = Post!Done] /\ d \in Decisions
  BY DEF Post!WriteDecision, DateInv
<1>2. \A t \in Staff : decision'[t] = Post!Done
  BY <1>1 DEF DateInv, OneDecision
<1>3. decision' \in [Staff -> Decisions]
  BY <1>1 DEF DateInv, Decisions
<1>4. CASE published' = published /\ dated' = dated
  BY <1>2, <1>3, <1>4 DEF DateInv, Post!Done
<1>5. CASE ~(published' = published /\ dated' = dated)
  <2>1. /\ d.step # "status"
        /\ published' = d.to
        /\ dated' = IF ~d.redate THEN dated ELSE d.to
    BY <1>5, Zenon DEF Post!WriteDecision, Post!postVars
  <2>2. d \in [step : {"publish"}, to : BOOLEAN, redate : BOOLEAN]
    BY <1>1, <2>1 DEF Decisions
  <2>3. d.to \in BOOLEAN /\ d.step = "publish" /\ d.redate \in BOOLEAN
    BY <2>2
  <2>4. published' <=> dated'
    BY <2>1, <2>3 DEF DateInv
  <2>5. published' \in BOOLEAN
    BY <2>1, <2>3
  <2> QED
    BY <1>2, <1>3, <2>4, <2>5 DEF DateInv, Post!Done
<1> QED
  BY <1>4, <1>5

LEMMA DateStep ==
    ASSUME DateInv, OneDecision, [Post!Next]_(Post!vars)
    PROVE  DateInv'
<1>1. CASE UNCHANGED <<published, dated, decision, postStatus>>
  BY <1>1 DEF DateInv
<1>2. ASSUME NEW p \in BOOLEAN, Post!Create(p) PROVE DateInv'
  <2>1. /\ decision' = decision /\ \A s \in Staff : decision[s] = Post!Done
        /\ published' = p /\ dated' = p /\ postStatus' = "PENDING"
    BY <1>2 DEF Post!Create, DateInv
  <2> QED
    BY <2>1 DEF DateInv, Post!Done
<1>3. CASE Post!Remove
  BY <1>3 DEF Post!Remove, DateInv, Decisions, Post!Done
<1>4. ASSUME NEW s \in Staff, Post!Moderate(s) PROVE DateInv'
  <2>1. CASE Post!Approve(s)
    <3>1. [step |-> "status", to |-> "APPROVED"] \in Decisions
      BY DEF Decisions
    <3> QED BY <2>1, <3>1, DecideKeepsDate DEF Post!Approve
  <2>2. CASE Post!Reject(s)
    <3>1. [step |-> "status", to |-> "REJECTED"] \in Decisions
      BY DEF Decisions
    <3> QED BY <2>2, <3>1, DecideKeepsDate DEF Post!Reject
  <2>3. CASE Post!Publish(s)
    <3>1. [step |-> "publish", to |-> TRUE, redate |-> TRUE] \in Decisions
      BY DEF Decisions
    <3> QED BY <2>3, <3>1, DecideKeepsDate DEF Post!Publish
  <2>4. CASE Post!Unpublish(s)
    <3>1. [step |-> "publish", to |-> FALSE, redate |-> TRUE] \in Decisions
      BY DEF Decisions
    <3> QED BY <2>4, <3>1, DecideKeepsDate DEF Post!Unpublish
  <2>5. ASSUME NEW p \in BOOLEAN, Post!Update(s, p) PROVE DateInv'
    <3> DEFINE d == [step |-> "publish", to |-> p, redate |-> p # published]
    <3>1. d \in Decisions
      BY DEF Decisions, DateInv
    <3>2. ~d.redate => (d.to <=> published)
      BY DEF DateInv
    <3>3. Post!Decide(s, d)
      BY <2>5 DEF Post!Update
    <3> HIDE DEF d
    <3> QED BY <3>1, <3>2, <3>3, DecideKeepsDate
  <2>6. CASE Post!WriteDecision(s)
    BY <2>6, WriteDecisionKeepsDate
  <2> QED
    BY <1>4, <2>1, <2>2, <2>3, <2>4, <2>5, <2>6 DEF Post!Moderate
<1>5. CASE UNCHANGED Post!vars \/ (\E c \in CommentIds : Post!RemoveComment(c))
  BY <1>1, <1>5 DEF Post!vars, Post!postVars, Post!RemoveComment
<1>6. ASSUME NEW w \in Workers, Post!Read(w) \/ Post!Serve(w) PROVE DateInv'
  BY <1>1, <1>6 DEF Post!Read, Post!Vote, Post!Share, Post!Comment, Post!Ask, Post!postVars,
     Post!Serve, Post!WriteVote, Post!CountVote, Post!WriteShare, Post!CountShare, Post!WriteComment
<1> QED
  BY <1>2, <1>3, <1>4, <1>5, <1>6 DEF Post!Next

\* A published post has a date and no other has, while decisions on it do not overlap.
THEOREM PublishedHasADateInTurn == OneDecision => (Post!Spec => []Post!PublishedHasADate)
<1> SUFFICES ASSUME OneDecision PROVE Post!Spec => []Post!PublishedHasADate
  OBVIOUS
<1>1. Post!Init => DateInv
  BY DateInit
<1>2. DateInv /\ [Post!Next]_(Post!vars) => DateInv'
  BY DateStep
<1>3. DateInv => Post!PublishedHasADate
  BY DEF DateInv, Post!PublishedHasADate
<1> QED
  BY <1>1, <1>2, <1>3, PTL DEF Post!Spec

\* The post counts with the same finite sets.
LEMMA SameFinite == \A S : Post!IsFiniteSet(S) <=> IsFiniteSet(S)
BY DEF Post!IsFiniteSet, IsFiniteSet

LEMMA SameCardinality == \A S : Post!Cardinality(S) = Cardinality(S)
BY DEF Post!Cardinality, Cardinality, Post!IsFiniteSet, IsFiniteSet

\* Moving one element in or out of a set moves its size by one.
LEMMA OneMoves ==
    ASSUME NEW S, IsFiniteSet(S), NEW P \in SUBSET S, NEW Q \in SUBSET S, NEW u \in S,
           \A x \in S : x # u => (x \in P <=> x \in Q)
    PROVE  /\ Cardinality(P) \in Nat /\ Cardinality(Q) \in Nat
           /\ Cardinality(Q) = Cardinality(P) + Post!One(u \in Q) - Post!One(u \in P)
<1>1. IsFiniteSet(P) /\ IsFiniteSet(Q) /\ Cardinality(P) \in Nat /\ Cardinality(Q) \in Nat
  BY FS_Subset, FS_CardinalityType
<1>2. P \ {u} = Q \ {u}
  OBVIOUS
<1>3. /\ Cardinality(P \ {u}) = IF u \in P THEN Cardinality(P) - 1 ELSE Cardinality(P)
      /\ Cardinality(Q \ {u}) = IF u \in Q THEN Cardinality(Q) - 1 ELSE Cardinality(Q)
  BY <1>1, FS_RemoveElement
<1> QED
  BY <1>1, <1>2, <1>3 DEF Post!One

\* The vote the counters stand for, of given rows and requests.
CountedIn(v, r, u) ==
    LET ws == {w \in Workers : UserOf[w] = u /\ r[w].step = "count"}
    IN  IF ws = {} THEN v[u] ELSE r[CHOOSE w \in ws : TRUE].old

LEMMA CountedBusy ==
    ASSUME OwnRequests, NEW v, NEW r, NEW w \in Workers, r[w].step = "count"
    PROVE  CountedIn(v, r, UserOf[w]) = r[w].old
<1> DEFINE ws == {x \in Workers : UserOf[x] = UserOf[w] /\ r[x].step = "count"}
<1>1. ws = {w}
  BY DEF OwnRequests
<1>2. (CHOOSE x \in {w} : TRUE) = w
  OBVIOUS
<1> QED
  BY <1>1, <1>2 DEF CountedIn

LEMMA CountedIdle ==
    ASSUME NEW v, NEW r, NEW u, \A w \in Workers : UserOf[w] = u => r[w].step # "count"
    PROVE  CountedIn(v, r, u) = v[u]
<1>1. {w \in Workers : UserOf[w] = u /\ r[w].step = "count"} = {}
  OBVIOUS
<1> QED
  BY <1>1 DEF CountedIn

\* It depends on the reader's own row and requests.
LEMMA CountedOwn ==
    ASSUME OwnRequests, NEW v, NEW r, NEW v2, NEW r2, NEW u, v2[u] = v[u],
           \A w \in Workers : UserOf[w] = u => r2[w] = r[w]
    PROVE  CountedIn(v2, r2, u) = CountedIn(v, r, u)
<1>1. CASE \E w \in Workers : UserOf[w] = u /\ r[w].step = "count"
  <2>1. PICK w \in Workers : UserOf[w] = u /\ r[w].step = "count"
    BY <1>1
  <2>2. CountedIn(v, r, UserOf[w]) = r[w].old
    BY <2>1, CountedBusy
  <2>3. CountedIn(v2, r2, UserOf[w]) = r2[w].old
    BY <2>1, CountedBusy
  <2> QED
    BY <2>1, <2>2, <2>3
<1>2. CASE \A w \in Workers : UserOf[w] = u => r[w].step # "count"
  <2>1. CountedIn(v, r, u) = v[u]
    BY <1>2, CountedIdle
  <2>2. CountedIn(v2, r2, u) = v2[u]
    BY <1>2, CountedIdle
  <2> QED
    BY <2>1, <2>2
<1> QED
  BY <1>1, <1>2

Votes == {"LIKE", "DISLIKE", "none"}
Voters(v, r, t) == {u \in Members : CountedIn(v, r, u) = t}
Sharing(r)      == {w \in Workers : r[w].step = "countShare"}

\* What a request has read of its reader's row is still there when it writes, and what it
\* has written when it counts.
CountInv ==
    /\ vote \in [Members -> Votes]
    /\ postRequest \in [Workers -> Post!VoteRequests \cup Post!OtherRequests]
    /\ likes \in Int /\ dislikes \in Int /\ shareRows \in Int /\ shares \in Int
    /\ \A w \in Workers : /\ postRequest[w].step = "row" => postRequest[w].old = vote[UserOf[w]]
                          /\ postRequest[w].step = "count" => postRequest[w].new = vote[UserOf[w]]
    /\ likes    = Cardinality(Voters(vote, postRequest, "LIKE"))
    /\ dislikes = Cardinality(Voters(vote, postRequest, "DISLIKE"))
    /\ shareRows = shares + Cardinality(Sharing(postRequest))

LEMMA CountedAgrees == \A u : Post!Counted(u) = CountedIn(vote, postRequest, u)
BY DEF Post!Counted, Post!Uncounted, CountedIn

\* Nothing is counted while nothing is asked for and no row is there.
LEMMA NothingCounted ==
    ASSUME NEW v, NEW r, v = [u \in Members |-> "none"], r = [w \in Workers |-> Post!Done]
    PROVE  Voters(v, r, "LIKE") = {} /\ Voters(v, r, "DISLIKE") = {} /\ Sharing(r) = {}
<1>1. \A w \in Workers : r[w].step = "done"
  BY DEF Post!Done
<1>2. \A u \in Members : CountedIn(v, r, u) = "none"
  BY <1>1, CountedIdle
<1> QED
  BY <1>1, <1>2 DEF Voters, Sharing

LEMMA CountInit == Post!Init => CountInv
<1> SUFFICES ASSUME Post!Init PROVE CountInv
  OBVIOUS
<1>1. Voters(vote, postRequest, "LIKE") = {} /\ Voters(vote, postRequest, "DISLIKE") = {}
      /\ Sharing(postRequest) = {}
  BY NothingCounted DEF Post!Init
<1> QED
  BY <1>1, FS_EmptySet DEF Post!Init, CountInv, Votes, Post!OtherRequests, Post!Done

\* A step of one reader's request moves what is counted of that reader, and of nobody else.
LEMMA ReaderMoves ==
    ASSUME Post!BlogPostAssumption, OwnRequests, CountInv, NEW w \in Workers,
           NEW q \in Post!VoteRequests \cup Post!OtherRequests,
           postRequest' = [postRequest EXCEPT ![w] = q],
           NEW x \in Votes, vote' = [vote EXCEPT ![UserOf[w]] = x],
           q.step = "row" => q.old = x, q.step = "count" => q.new = x,
           NEW old, old = CountedIn(vote, postRequest, UserOf[w]),
           NEW new, new = CountedIn(vote', postRequest', UserOf[w]),
           likes'    = likes + Post!One(new = "LIKE") - Post!One(old = "LIKE"),
           dislikes' = dislikes + Post!One(new = "DISLIKE") - Post!One(old = "DISLIKE"),
           shareRows' \in Int, shares' \in Int,
           shareRows' - shares' = shareRows - shares + Post!One(q.step = "countShare")
                                     - Post!One(postRequest[w].step = "countShare")
    PROVE  CountInv'
<1> DEFINE u == UserOf[w]
<1>a. /\ IsFiniteSet(Members) /\ IsFiniteSet(Workers) /\ UserOf \in [Workers -> Members]
  BY SameFinite DEF Post!BlogPostAssumption
<1>b. /\ vote \in [Members -> Votes]
      /\ postRequest \in [Workers -> Post!VoteRequests \cup Post!OtherRequests]
  BY DEF CountInv
<1>c. \A v \in Workers : v # w => UserOf[v] # u
  BY DEF OwnRequests
<1>d. /\ u \in Members
      /\ vote' \in [Members -> Votes] /\ vote'[u] = x
      /\ \A y \in Members : y # u => vote'[y] = vote[y]
  BY <1>a, <1>b
<1>e. /\ postRequest' \in [Workers -> Post!VoteRequests \cup Post!OtherRequests]
      /\ postRequest'[w] = q
      /\ \A v \in Workers : v # w => postRequest'[v] = postRequest[v]
  <2> DEFINE R == Post!VoteRequests \cup Post!OtherRequests
  <2>1. q \in R /\ postRequest \in [Workers -> R]
    BY <1>b
  <2> HIDE DEF R
  <2>2. /\ postRequest' \in [Workers -> R]
        /\ postRequest'[w] = q
        /\ \A v \in Workers : v # w => postRequest'[v] = postRequest[v]
    BY <2>1
  <2> QED
    BY <2>2 DEF R
<1>1. /\ u \in Members /\ IsFiniteSet(Members) /\ IsFiniteSet(Workers)
      /\ vote' \in [Members -> Votes] /\ vote'[u] = x
      /\ postRequest' \in [Workers -> Post!VoteRequests \cup Post!OtherRequests]
      /\ postRequest'[w] = q
      /\ \A v \in Workers : v # w => postRequest'[v] = postRequest[v] /\ UserOf[v] # u
      /\ \A y \in Members : y # u => vote'[y] = vote[y]
  BY <1>a, <1>c, <1>d, <1>e
<1>2. ASSUME NEW y \in Members, y # u
      PROVE  CountedIn(vote', postRequest', y) = CountedIn(vote, postRequest, y)
  <2>1. vote'[y] = vote[y]
    BY <1>d, <1>2
  <2>2. \A v \in Workers : UserOf[v] = y => postRequest'[v] = postRequest[v]
    BY <1>e, <1>2
  <2> DEFINE V == vote'
             R == postRequest'
  <2> HIDE DEF V, R
  <2>3. V[y] = vote[y] /\ \A v \in Workers : UserOf[v] = y => R[v] = postRequest[v]
    BY <2>1, <2>2 DEF V, R
  <2>4. CountedIn(V, R, y) = CountedIn(vote, postRequest, y)
    BY <2>3, CountedOwn
  <2> QED
    BY <2>4 DEF V, R
<1>f. \A y \in Members : y # u =>
          CountedIn(vote', postRequest', y) = CountedIn(vote, postRequest, y)
  BY <1>2
<1>3. ASSUME NEW t
      PROVE  /\ Cardinality(Voters(vote', postRequest', t)) \in Nat
             /\ Cardinality(Voters(vote, postRequest, t)) \in Nat
             /\ Cardinality(Voters(vote', postRequest', t))
                  = Cardinality(Voters(vote, postRequest, t))
                      + Post!One(new = t) - Post!One(old = t)
  <2> DEFINE P == Voters(vote, postRequest, t)
             Q == Voters(vote', postRequest', t)
  <2>1. P \in SUBSET Members /\ Q \in SUBSET Members
    BY DEF Voters
  <2>2. (u \in Q <=> new = t) /\ (u \in P <=> old = t)
    BY <1>d DEF Voters
  <2>3. \A y \in Members : y # u => (y \in P <=> y \in Q)
    BY <1>f DEF Voters
  <2> HIDE DEF P, Q
  <2>4. /\ Cardinality(P) \in Nat /\ Cardinality(Q) \in Nat
        /\ Cardinality(Q) = Cardinality(P) + Post!One(u \in Q) - Post!One(u \in P)
    BY <1>1, <2>1, <2>3, OneMoves
  <2>5. Post!One(u \in Q) = Post!One(new = t) /\ Post!One(u \in P) = Post!One(old = t)
    BY <2>2 DEF Post!One
  <2> QED
    BY <2>4, <2>5 DEF P, Q
<1>4. /\ Cardinality(Sharing(postRequest')) \in Nat /\ Cardinality(Sharing(postRequest)) \in Nat
      /\ Cardinality(Sharing(postRequest'))
           = Cardinality(Sharing(postRequest)) + Post!One(q.step = "countShare")
               - Post!One(postRequest[w].step = "countShare")
  <2> DEFINE P == Sharing(postRequest)
             Q == Sharing(postRequest')
  <2>1. P \in SUBSET Workers /\ Q \in SUBSET Workers
    BY DEF Sharing
  <2>2. /\ w \in Q <=> q.step = "countShare"
        /\ w \in P <=> postRequest[w].step = "countShare"
    BY <1>e DEF Sharing
  <2>3. \A y \in Workers : y # w => (y \in P <=> y \in Q)
    BY <1>e DEF Sharing
  <2> HIDE DEF P, Q
  <2>4. /\ Cardinality(P) \in Nat /\ Cardinality(Q) \in Nat
        /\ Cardinality(Q) = Cardinality(P) + Post!One(w \in Q) - Post!One(w \in P)
    BY <1>a, <2>1, <2>3, OneMoves
  <2>5. /\ Post!One(w \in Q) = Post!One(q.step = "countShare")
        /\ Post!One(w \in P) = Post!One(postRequest[w].step = "countShare")
    BY <2>2 DEF Post!One
  <2> QED
    BY <2>4, <2>5 DEF P, Q
<1>5. \A b : Post!One(b) \in {0, 1}
  BY DEF Post!One
<1>6. likes' = Cardinality(Voters(vote', postRequest', "LIKE"))
      /\ dislikes' = Cardinality(Voters(vote', postRequest', "DISLIKE"))
  BY <1>3 DEF CountInv
<1>7. shareRows' = shares' + Cardinality(Sharing(postRequest'))
  BY <1>4, <1>5 DEF CountInv
<1>8. \A v \in Workers :
          /\ postRequest'[v].step = "row" => postRequest'[v].old = vote'[UserOf[v]]
          /\ postRequest'[v].step = "count" => postRequest'[v].new = vote'[UserOf[v]]
  BY <1>1 DEF CountInv, Post!BlogPostAssumption
<1>9. likes' \in Int /\ dislikes' \in Int
  BY <1>3, <1>6
<1> QED
  BY <1>1, <1>6, <1>7, <1>8, <1>9 DEF CountInv

LEMMA CountedNow ==
    ASSUME OwnRequests, NEW v, NEW r, NEW w \in Workers
    PROVE  CountedIn(v, r, UserOf[w]) = IF r[w].step = "count" THEN r[w].old ELSE v[UserOf[w]]
<1>1. CASE r[w].step = "count"
  BY <1>1, CountedBusy
<1>2. CASE r[w].step # "count"
  <2>1. \A x \in Workers : UserOf[x] = UserOf[w] => r[x].step # "count"
    BY <1>2 DEF OwnRequests
  <2> QED
    BY <1>2, <2>1, CountedIdle
<1> QED
  BY <1>1, <1>2

\* The same move, with what is counted before and after spelled out.
LEMMA RequestMoves ==
    ASSUME Post!BlogPostAssumption, OwnRequests, CountInv, NEW w \in Workers,
           NEW q \in Post!VoteRequests \cup Post!OtherRequests,
           postRequest' = [postRequest EXCEPT ![w] = q],
           NEW x \in Votes, vote' = [vote EXCEPT ![UserOf[w]] = x],
           q.step = "row" => q.old = x, q.step = "count" => q.new = x,
           NEW old, old = IF postRequest[w].step = "count" THEN postRequest[w].old
                          ELSE vote[UserOf[w]],
           NEW new, new = IF q.step = "count" THEN q.old ELSE x,
           likes'    = likes + Post!One(new = "LIKE") - Post!One(old = "LIKE"),
           dislikes' = dislikes + Post!One(new = "DISLIKE") - Post!One(old = "DISLIKE"),
           shareRows' \in Int, shares' \in Int,
           shareRows' - shares' = shareRows - shares + Post!One(q.step = "countShare")
                                     - Post!One(postRequest[w].step = "countShare")
    PROVE  CountInv'
<1> DEFINE V == vote'
           R == postRequest'
<1>1. V[UserOf[w]] = x /\ R[w] = q
  BY DEF CountInv, Post!BlogPostAssumption
<1> HIDE DEF V, R
<1>2. CountedIn(V, R, UserOf[w]) = new
  BY <1>1, CountedNow
<1>3. CountedIn(vote', postRequest', UserOf[w]) = new
  BY <1>2 DEF V, R
<1>4. CountedIn(vote, postRequest, UserOf[w]) = old
  BY CountedNow
<1> QED
  BY <1>3, <1>4, ReaderMoves

\* A step that leaves the votes, the counters and what is counted of a request.
LEMMA RequestKeeps ==
    ASSUME Post!BlogPostAssumption, OwnRequests, CountInv, NEW w \in Workers,
           NEW q \in Post!VoteRequests \cup Post!OtherRequests,
           postRequest' = [postRequest EXCEPT ![w] = q],
           postRequest[w].step # "count", q.step # "count",
           q.step = "row" => q.old = vote[UserOf[w]],
           UNCHANGED <<vote, likes, dislikes>>,
           shareRows' \in Int, shares' \in Int,
           shareRows' - shares' = shareRows - shares + Post!One(q.step = "countShare")
                                     - Post!One(postRequest[w].step = "countShare")
    PROVE  CountInv'
<1>1. PICK x : x = vote[UserOf[w]]
  OBVIOUS
<1>2. x \in Votes /\ likes \in Int /\ dislikes \in Int
  BY <1>1 DEF CountInv, Post!BlogPostAssumption
<1>3. vote' = [vote EXCEPT ![UserOf[w]] = x]
  BY <1>1 DEF CountInv, Post!BlogPostAssumption
<1>4. \A t : Post!One(x = t) \in {0, 1}
  BY DEF Post!One
<1>5. PICK o, n : o = x /\ n = x
  OBVIOUS
<1>6. /\ likes' = likes + Post!One(n = "LIKE") - Post!One(o = "LIKE")
      /\ dislikes' = dislikes + Post!One(n = "DISLIKE") - Post!One(o = "DISLIKE")
  <2>1. Post!One(n = "LIKE") \in {0, 1} /\ Post!One(n = "DISLIKE") \in {0, 1}
    BY <1>4, <1>5
  <2>2. likes' = likes /\ dislikes' = dislikes
    OBVIOUS
  <2>3. o = n
    BY <1>5
  <2>4. /\ likes = likes + Post!One(n = "LIKE") - Post!One(n = "LIKE")
        /\ dislikes = dislikes + Post!One(n = "DISLIKE") - Post!One(n = "DISLIKE")
    BY ONLY <1>2, <2>1
  <2> QED
    BY ONLY <2>2, <2>3, <2>4
<1>7. o = IF postRequest[w].step = "count" THEN postRequest[w].old ELSE vote[UserOf[w]]
  BY <1>1, <1>5
<1>8. n = IF q.step = "count" THEN q.old ELSE x
  BY <1>5
<1>9. (q.step = "row" => q.old = x) /\ (q.step = "count" => q.new = x)
  BY <1>1
<1> QED
  BY ONLY Post!BlogPostAssumption, OwnRequests, CountInv,
          q \in Post!VoteRequests \cup Post!OtherRequests, w \in Workers,
          postRequest' = [postRequest EXCEPT ![w] = q], shareRows' \in Int, shares' \in Int,
          shareRows' - shares' = shareRows - shares + Post!One(q.step = "countShare")
                                     - Post!One(postRequest[w].step = "countShare"),
          <1>2, <1>3, <1>6, <1>7, <1>8, <1>9, RequestMoves

\* The requests by their steps.
LEMMA RequestKinds ==
    ASSUME CountInv, NEW w \in Workers
    PROVE  /\ postRequest[w] \in Post!VoteRequests \cup Post!OtherRequests
           /\ postRequest[w].step \in {"row", "count"} =>
                 /\ postRequest[w] = [step |-> postRequest[w].step, old |-> postRequest[w].old,
                                      new |-> postRequest[w].new]
                 /\ postRequest[w].old \in Votes /\ postRequest[w].new \in Votes
<1>1. postRequest[w] \in Post!VoteRequests \cup Post!OtherRequests
  BY DEF CountInv
<1>2. CASE postRequest[w] \in Post!VoteRequests
  BY <1>1, <1>2 DEF Post!VoteRequests, Post!Types, Votes
<1>3. CASE postRequest[w] \in Post!OtherRequests
  BY <1>1, <1>3 DEF Post!OtherRequests, Post!Done
<1> QED
  BY <1>1, <1>2, <1>3

LEMMA AskCounts ==
    ASSUME Post!BlogPostAssumption, OwnRequests, CountInv, NEW w \in Workers,
           NEW q \in Post!VoteRequests \cup Post!OtherRequests, Post!Ask(w, q),
           q.step \notin {"count", "countShare"}, q.step = "row" => q.old = vote[UserOf[w]]
    PROVE  CountInv'
<1>1. /\ postRequest' = [postRequest EXCEPT ![w] = q] /\ postRequest[w] = Post!Done
      /\ UNCHANGED <<vote, likes, dislikes>>
      /\ shareRows' = shareRows /\ shares' = shares /\ shareRows \in Int /\ shares \in Int
  BY DEF Post!Ask, Post!voteVars, Post!shareVars, CountInv
<1>2. postRequest[w].step \notin {"count", "countShare"}
  BY <1>1 DEF Post!Done
<1>3. Post!One(q.step = "countShare") = 0 /\ Post!One(postRequest[w].step = "countShare") = 0
  BY <1>2 DEF Post!One
<1>4. shareRows' - shares' = shareRows - shares + Post!One(q.step = "countShare")
                                - Post!One(postRequest[w].step = "countShare")
  BY <1>1, <1>3
<1> QED
  BY <1>1, <1>2, <1>4, RequestKeeps

LEMMA ReadCounts ==
    ASSUME Post!BlogPostAssumption, OwnRequests, CountInv, NEW w \in Workers, Post!Read(w)
    PROVE  CountInv'
<1>1. ASSUME NEW t \in Post!Types, Post!Vote(w, t) PROVE CountInv'
  <2> DEFINE q == [step |-> "row", old |-> vote[UserOf[w]],
                   new |-> IF vote[UserOf[w]] = t THEN "none" ELSE t]
  <2>1. vote[UserOf[w]] \in Votes
    BY DEF CountInv, Post!BlogPostAssumption
  <2>2. q \in Post!VoteRequests /\ q.step = "row" /\ q.old = vote[UserOf[w]]
    BY <2>1 DEF Post!VoteRequests, Post!Types, Votes
  <2>3. Post!Ask(w, q)
    BY <1>1 DEF Post!Vote
  <2> HIDE DEF q
  <2> QED
    BY <2>2, <2>3, AskCounts
<1>2. CASE Post!Share(w)
  <2> DEFINE q == [step |-> "share"]
  <2>1. q \in Post!OtherRequests /\ q.step = "share" /\ Post!Ask(w, q)
    BY <1>2 DEF Post!Share, Post!OtherRequests
  <2> HIDE DEF q
  <2> QED
    BY <2>1, AskCounts
<1>3. ASSUME NEW c \in CommentIds, NEW p \in CommentIds \cup {"top"}, Post!Comment(w, c, p)
      PROVE  CountInv'
  <2> DEFINE q == [step |-> "comment", of |-> c, under |-> p]
  <2>1. q \in Post!OtherRequests /\ q.step = "comment"
    BY DEF Post!OtherRequests
  <2>2. Post!Ask(w, q)
    BY <1>3 DEF Post!Comment
  <2> HIDE DEF q
  <2> QED
    BY <2>1, <2>2, AskCounts
<1> QED
  BY <1>1, <1>2, <1>3 DEF Post!Read

LEMMA WriteVoteCounts ==
    ASSUME Post!BlogPostAssumption, OwnRequests, CountInv, NEW w \in Workers, Post!WriteVote(w)
    PROVE  CountInv'
<1>1. PICK r, x, q : /\ r = postRequest[w] /\ x = r.new
                     /\ q = [step |-> "count", old |-> r.old, new |-> r.new]
  OBVIOUS
<1>2. r.step = "row" /\ r.old \in Votes /\ x \in Votes /\ r.old = vote[UserOf[w]]
      /\ r = [step |-> "row", old |-> r.old, new |-> r.new]
  <2>1. postRequest[w].step = "row"
    BY DEF Post!WriteVote
  <2> QED
    BY <1>1, <2>1, RequestKinds DEF CountInv
<1>3. [r EXCEPT !.step = "count"] = q
  BY <1>1, <1>2
<1>4. Post!RowAccepts(r.old, vote[UserOf[w]])
  BY <1>2 DEF Post!RowAccepts
<1>5. /\ vote' = [vote EXCEPT ![UserOf[w]] = x]
      /\ postRequest' = [postRequest EXCEPT ![w] = q]
      /\ likes' = likes /\ dislikes' = dislikes /\ shareRows' = shareRows /\ shares' = shares
  BY <1>1, <1>3, <1>4 DEF Post!WriteVote, Post!shareVars
<1>6. /\ q \in Post!VoteRequests \cup Post!OtherRequests
      /\ q.step = "count" /\ q.new = x /\ q.old = r.old
  BY <1>1, <1>2 DEF Post!VoteRequests, Post!Types, Votes
<1>7. /\ likes \in Int /\ dislikes \in Int /\ shareRows \in Int /\ shares \in Int
  BY DEF CountInv
<1>8. PICK o, n : o = r.old /\ n = r.old
  OBVIOUS
<1>9. /\ o = IF postRequest[w].step = "count" THEN postRequest[w].old ELSE vote[UserOf[w]]
      /\ n = IF q.step = "count" THEN q.old ELSE x
  BY <1>1, <1>2, <1>6, <1>8
<1>10. /\ likes' = likes + Post!One(n = "LIKE") - Post!One(o = "LIKE")
       /\ dislikes' = dislikes + Post!One(n = "DISLIKE") - Post!One(o = "DISLIKE")
  <2>1. o = n
    BY <1>8
  <2>2. Post!One(n = "LIKE") \in {0, 1} /\ Post!One(n = "DISLIKE") \in {0, 1}
    BY DEF Post!One
  <2>3. /\ likes = likes + Post!One(n = "LIKE") - Post!One(n = "LIKE")
        /\ dislikes = dislikes + Post!One(n = "DISLIKE") - Post!One(n = "DISLIKE")
    BY ONLY <1>7, <2>2
  <2> QED
    BY ONLY <1>5, <2>1, <2>3
<1>11. Post!One(q.step = "countShare") = 0 /\ Post!One(postRequest[w].step = "countShare") = 0
  BY <1>1, <1>2, <1>6 DEF Post!One
<1>12. shareRows' \in Int /\ shares' \in Int
       /\ shareRows' - shares' = shareRows - shares + Post!One(q.step = "countShare")
                                    - Post!One(postRequest[w].step = "countShare")
  BY <1>5, <1>7, <1>11
<1>13. (q.step = "row" => q.old = x) /\ (q.step = "count" => q.new = x)
  BY <1>6
<1>14. /\ x \in Votes /\ q \in Post!VoteRequests \cup Post!OtherRequests
       /\ vote' = [vote EXCEPT ![UserOf[w]] = x]
       /\ postRequest' = [postRequest EXCEPT ![w] = q]
  BY ONLY <1>2, <1>5, <1>6
<1> QED
  BY ONLY Post!BlogPostAssumption, OwnRequests, CountInv, w \in Workers,
          <1>14, <1>9, <1>10, <1>12, <1>13, RequestMoves

LEMMA CountVoteCounts ==
    ASSUME Post!BlogPostAssumption, OwnRequests, CountInv, NEW w \in Workers, Post!CountVote(w)
    PROVE  CountInv'
<1>1. PICK r, x, q : r = postRequest[w] /\ x = r.new /\ q = Post!Done
  OBVIOUS
<1>2. r.step = "count" /\ r.old \in Votes /\ x \in Votes /\ x = vote[UserOf[w]]
  <2>1. postRequest[w].step = "count"
    BY DEF Post!CountVote
  <2> QED
    BY <1>1, <2>1, RequestKinds DEF CountInv
<1>3. /\ postRequest' = [postRequest EXCEPT ![w] = q]
      /\ vote' = vote /\ shareRows' = shareRows /\ shares' = shares
      /\ likes' = likes + Post!One(x = "LIKE") - Post!One(r.old = "LIKE")
      /\ dislikes' = dislikes + Post!One(x = "DISLIKE") - Post!One(r.old = "DISLIKE")
  BY <1>1 DEF Post!CountVote, Post!shareVars
<1>4. vote' = [vote EXCEPT ![UserOf[w]] = x]
  BY <1>2, <1>3 DEF CountInv
<1>5. q \in Post!VoteRequests \cup Post!OtherRequests /\ q.step = "done"
  BY <1>1 DEF Post!Done, Post!OtherRequests
<1>6. PICK o : o = r.old
  OBVIOUS
<1>7. /\ o = IF postRequest[w].step = "count" THEN postRequest[w].old ELSE vote[UserOf[w]]
      /\ x = IF q.step = "count" THEN q.old ELSE x
  BY <1>1, <1>2, <1>5, <1>6
<1>8. /\ likes' = likes + Post!One(x = "LIKE") - Post!One(o = "LIKE")
      /\ dislikes' = dislikes + Post!One(x = "DISLIKE") - Post!One(o = "DISLIKE")
  BY ONLY <1>3, <1>6
<1>9. Post!One(q.step = "countShare") = 0 /\ Post!One(postRequest[w].step = "countShare") = 0
  BY <1>1, <1>2, <1>5 DEF Post!One
<1>10. shareRows' \in Int /\ shares' \in Int
       /\ shareRows' - shares' = shareRows - shares + Post!One(q.step = "countShare")
                                    - Post!One(postRequest[w].step = "countShare")
  BY <1>3, <1>9 DEF CountInv
<1>11. (q.step = "row" => q.old = x) /\ (q.step = "count" => q.new = x)
  BY <1>5
<1>12. /\ x \in Votes /\ q \in Post!VoteRequests \cup Post!OtherRequests
       /\ postRequest' = [postRequest EXCEPT ![w] = q]
  BY ONLY <1>2, <1>3, <1>5
<1> QED
  BY ONLY Post!BlogPostAssumption, OwnRequests, CountInv, w \in Workers,
          <1>12, <1>4, <1>7, <1>8, <1>10, <1>11, RequestMoves

LEMMA ServeCounts ==
    ASSUME Post!BlogPostAssumption, OwnRequests, CountInv, NEW w \in Workers, Post!Serve(w)
    PROVE  CountInv'
<1> DEFINE r == postRequest[w]
<1>0. /\ likes \in Int /\ dislikes \in Int /\ shareRows \in Int /\ shares \in Int
      /\ Post!Done \in Post!OtherRequests /\ Post!Done.step = "done"
  BY DEF CountInv, Post!OtherRequests, Post!Done
<1>1. CASE Post!WriteShare(w)
  <2> DEFINE q == [step |-> "countShare"]
  <2>1. /\ q \in Post!OtherRequests /\ q.step = "countShare" /\ r.step = "share"
        /\ postRequest' = [postRequest EXCEPT ![w] = q]
        /\ UNCHANGED <<vote, likes, dislikes>> /\ shareRows' = shareRows + 1 /\ shares' = shares
    BY <1>1 DEF Post!WriteShare, Post!OtherRequests, Post!voteVars
  <2> HIDE DEF q
  <2>2. Post!One(q.step = "countShare") = 1 /\ Post!One(r.step = "countShare") = 0
    BY <2>1 DEF Post!One
  <2>3. /\ shareRows' \in Int /\ shares' \in Int
        /\ shareRows' - shares' = shareRows - shares + Post!One(q.step = "countShare")
                                     - Post!One(r.step = "countShare")
    BY <1>0, <2>1, <2>2
  <2> QED
    BY <2>1, <2>3, RequestKeeps
<1>2. CASE Post!CountShare(w)
  <2> DEFINE q == Post!Done
  <2>1. /\ q \in Post!OtherRequests /\ q.step = "done" /\ r.step = "countShare"
        /\ postRequest' = [postRequest EXCEPT ![w] = q]
        /\ UNCHANGED <<vote, likes, dislikes>> /\ shareRows' = shareRows /\ shares' = shares + 1
    BY <1>0, <1>2 DEF Post!CountShare, Post!voteVars
  <2> HIDE DEF q
  <2>2. Post!One(q.step = "countShare") = 0 /\ Post!One(r.step = "countShare") = 1
    BY <2>1 DEF Post!One
  <2>3. /\ shareRows' \in Int /\ shares' \in Int
        /\ shareRows' - shares' = shareRows - shares + Post!One(q.step = "countShare")
                                     - Post!One(r.step = "countShare")
    BY <1>0, <2>1, <2>2
  <2> QED
    BY <2>1, <2>3, RequestKeeps
<1>3. CASE Post!WriteComment(w)
  <2> DEFINE q == Post!Done
  <2>1. /\ q \in Post!OtherRequests /\ q.step = "done" /\ r.step = "comment"
        /\ postRequest' = [postRequest EXCEPT ![w] = q]
        /\ UNCHANGED <<vote, likes, dislikes>> /\ shareRows' = shareRows /\ shares' = shares
    BY <1>0, <1>3 DEF Post!WriteComment, Post!voteVars, Post!shareVars
  <2> HIDE DEF q
  <2>2. Post!One(q.step = "countShare") = 0 /\ Post!One(r.step = "countShare") = 0
    BY <2>1 DEF Post!One
  <2>3. /\ shareRows' \in Int /\ shares' \in Int
        /\ shareRows' - shares' = shareRows - shares + Post!One(q.step = "countShare")
                                     - Post!One(r.step = "countShare")
    BY <1>0, <2>1, <2>2
  <2> QED
    BY <2>1, <2>3, RequestKeeps
<1> QED
  BY <1>1, <1>2, <1>3, WriteVoteCounts, CountVoteCounts DEF Post!Serve

LEMMA CountStep ==
    ASSUME Post!BlogPostAssumption, OwnRequests, CountInv, [Post!Next]_(Post!vars)
    PROVE  CountInv'
<1>1. CASE UNCHANGED <<vote, postRequest, likes, dislikes, shareRows, shares>>
  <2>1. /\ vote' = vote /\ postRequest' = postRequest /\ likes' = likes
        /\ dislikes' = dislikes /\ shareRows' = shareRows /\ shares' = shares
    BY <1>1
  <2> QED
    BY <2>1 DEF CountInv
<1>2. CASE Post!Remove
  <2>1. /\ vote' = [u \in Members |-> "none"] /\ postRequest' = [w \in Workers |-> Post!Done]
        /\ likes' = 0 /\ dislikes' = 0 /\ shareRows' = 0 /\ shares' = 0
    BY <1>2 DEF Post!Remove
  <2>2. /\ Voters(vote', postRequest', "LIKE") = {} /\ Voters(vote', postRequest', "DISLIKE") = {}
        /\ Sharing(postRequest') = {}
    BY <2>1, NothingCounted
  <2>3. \A w \in Workers : postRequest'[w].step = "done"
    BY <2>1 DEF Post!Done
  <2>4. vote' \in [Members -> Votes]
    BY <2>1 DEF Votes
  <2>5. postRequest' \in [Workers -> Post!VoteRequests \cup Post!OtherRequests]
    <3>1. Post!Done \in Post!VoteRequests \cup Post!OtherRequests
      BY DEF Post!OtherRequests
    <3> QED
      BY <2>1, <3>1
  <2>6. Cardinality({}) = 0
    BY FS_EmptySet
  <2>7. /\ likes' = Cardinality(Voters(vote', postRequest', "LIKE"))
        /\ dislikes' = Cardinality(Voters(vote', postRequest', "DISLIKE"))
        /\ shareRows' = shares' + Cardinality(Sharing(postRequest'))
        /\ likes' \in Int /\ dislikes' \in Int /\ shareRows' \in Int /\ shares' \in Int
    BY <2>1, <2>2, <2>6
  <2>8. \A w \in Workers : /\ postRequest'[w].step = "row" => postRequest'[w].old = vote'[UserOf[w]]
                           /\ postRequest'[w].step = "count" => postRequest'[w].new = vote'[UserOf[w]]
    BY <2>3
  <2> QED
    BY <2>4, <2>5, <2>7, <2>8 DEF CountInv
<1>3. ASSUME NEW w \in Workers, Post!Read(w) \/ Post!Serve(w) PROVE CountInv'
  BY <1>3, ReadCounts, ServeCounts
<1>4. CASE \/ UNCHANGED Post!vars
           \/ \E p \in BOOLEAN : Post!Create(p)
           \/ \E s \in Staff : Post!Moderate(s)
           \/ \E c \in CommentIds : Post!RemoveComment(c)
  BY <1>1, <1>4 DEF Post!vars, Post!voteVars, Post!shareVars, Post!Create, Post!Moderate,
     Post!Approve, Post!Reject, Post!Publish, Post!Unpublish, Post!Update, Post!Decide,
     Post!WriteDecision, Post!RemoveComment
<1> QED
  BY <1>2, <1>3, <1>4 DEF Post!Next

\* The counters of a post are its rows, up to the statements still to come, while every
\* reader waits for an answer before the next request.
THEOREM CountersFollowTheRowsInTurn ==
    Post!BlogPostAssumption /\ OwnRequests => (Post!Spec => []Post!CountersFollowTheRows)
<1> SUFFICES ASSUME Post!BlogPostAssumption, OwnRequests
             PROVE  Post!Spec => []Post!CountersFollowTheRows
  OBVIOUS
<1>1. Post!Init => CountInv
  BY CountInit
<1>2. CountInv /\ [Post!Next]_(Post!vars) => CountInv'
  BY CountStep
<1>3. CountInv => Post!CountersFollowTheRows
  <2>1. \A t : {u \in Members : Post!Counted(u) = t} = Voters(vote, postRequest, t)
    BY CountedAgrees DEF Voters
  <2> QED
    BY <2>1, SameCardinality DEF CountInv, Sharing, Post!CountersFollowTheRows
<1> QED
  BY <1>1, <1>2, <1>3, PTL DEF Post!Spec

-----------------------------------------------------------------------------
(* The settings: the copies of a value agree.                                *)

LEMMA SpreadAt ==
    ASSUME NEW over, NEW under
    PROVE  /\ DOMAIN Desk!Spread(over, under) = DOMAIN over \cup DOMAIN under
           /\ \A f \in DOMAIN over : Desk!Spread(over, under)[f] = over[f]
           /\ \A f \in DOMAIN under :
                 f \notin DOMAIN over => Desk!Spread(over, under)[f] = under[f]
BY DEF Desk!Spread

\* The fields of a document, and what the pages and the updates have for a missing one.
LEMMA DefaultsAgree ==
    ASSUME doc \in Desk!Documents
    PROVE  /\ \A f \in DOMAIN Desk!PageDefaults[doc] :
                 f \in DOMAIN Desk!Seeds[doc] /\ Desk!PageDefaults[doc][f] = Desk!Seeds[doc][f]
           /\ DOMAIN Desk!UpdateDefaults[doc] \subseteq DOMAIN Desk!Seeds[doc]
           /\ doc = "payment" =>
                 /\ {"minWithdrawalAmount", "maxWithdrawalAmount"} \subseteq DOMAIN Desk!Seeds[doc]
                 /\ {"minWithdrawalAmountPaypal", "maxWithdrawalAmountPaypal"}
                       \cap DOMAIN Desk!UpdateDefaults[doc] = {}
                 /\ \A f \in {"minWithdrawalAmount", "maxWithdrawalAmount",
                              "minWithdrawalAmountPaypal", "maxWithdrawalAmountPaypal"} :
                       Desk!Seeds[doc][f] = Desk!WithdrawalDefaults[f]
<1> DEFINE extra == [holdingPeriodDays |-> 7, platformCommissionRate |-> 10]
           pay   == Desk!Spread(extra, Desk!WithdrawalDefaults)
<1>1. /\ DOMAIN pay = {"holdingPeriodDays", "platformCommissionRate"} \cup DOMAIN Desk!WithdrawalDefaults
      /\ \A f \in DOMAIN Desk!WithdrawalDefaults :
            f \notin {"holdingPeriodDays", "platformCommissionRate"}
               => pay[f] = Desk!WithdrawalDefaults[f]
  <2>1. DOMAIN extra = {"holdingPeriodDays", "platformCommissionRate"}
    OBVIOUS
  <2> HIDE DEF extra
  <2>2. /\ DOMAIN pay = DOMAIN extra \cup DOMAIN Desk!WithdrawalDefaults
        /\ \A f \in DOMAIN Desk!WithdrawalDefaults :
              f \notin DOMAIN extra => pay[f] = Desk!WithdrawalDefaults[f]
    BY SpreadAt
  <2> HIDE DEF pay
  <2> QED
    BY <2>1, <2>2
<1>2. DOMAIN Desk!WithdrawalDefaults =
         {"minWithdrawalAmount", "minWithdrawalAmountPaypal", "minWithdrawalAmountChapa",
          "maxWithdrawalAmount", "maxWithdrawalAmountPaypal", "maxWithdrawalAmountChapa",
          "paymentTimeoutMinutes"}
  BY DEF Desk!WithdrawalDefaults
<1>3. /\ Desk!Seeds = [platform |-> [platformCommissionRate |-> 10], payment |-> pay,
                       order |-> Desk!OrderDefaults, collection |-> Desk!CollectionDefaults]
  BY DEF Desk!Seeds
<1> HIDE DEF pay
<1>4. /\ Desk!Seeds["payment"] = pay
      /\ Desk!PageDefaults["payment"] = Desk!WithdrawalDefaults
      /\ \A d \in {"platform", "order", "collection"} : Desk!PageDefaults[d] = Desk!Seeds[d]
      /\ DOMAIN Desk!PageDefaults = {"platform", "payment", "order", "collection"}
  BY <1>3 DEF Desk!PageDefaults
<1>5. /\ DOMAIN Desk!UpdateDefaults["payment"] =
            {"minWithdrawalAmount", "maxWithdrawalAmount", "paymentTimeoutMinutes"}
      /\ \A d \in {"platform", "order", "collection"} :
            Desk!UpdateDefaults[d] = Desk!PageDefaults[d]
  BY <1>4 DEF Desk!UpdateDefaults
<1>6. CASE doc = "payment"
  BY <1>1, <1>2, <1>4, <1>5, <1>6
<1>7. CASE doc # "payment"
  BY <1>4, <1>5, <1>7 DEF Desk!Documents
<1> QED
  BY <1>6, <1>7

\* The pairs of a legacy amount and PayPal's.
Follows(value) ==
    doc = "payment" =>
        /\ ("minWithdrawalAmountPaypal" \in DOMAIN value /\ value["minWithdrawalAmountPaypal"] # 0)
              => value["minWithdrawalAmount"] = value["minWithdrawalAmountPaypal"]
        /\ ("maxWithdrawalAmountPaypal" \in DOMAIN value /\ value["maxWithdrawalAmountPaypal"] # 0)
              => value["maxWithdrawalAmount"] = value["maxWithdrawalAmountPaypal"]

Fits(value) == DOMAIN value \subseteq DOMAIN Desk!Seeds[doc] /\ Follows(value)

\* An update keeps PayPal's amount in what it has read under the legacy one.
LEMMA UpdatedFits ==
    ASSUME doc \in Desk!Documents, NEW dto, DOMAIN dto \subseteq DOMAIN Desk!PageDefaults[doc],
           NEW current, Fits(current)
    PROVE  Fits(Desk!Updated(dto, current))
<1> DEFINE legacy == Desk!LegacyAmounts(dto, current)
           under  == Desk!Spread(dto, current)
           value  == Desk!Spread(legacy, under)
<1>0. Desk!Updated(dto, current) = value
  BY DEF Desk!Updated
<1>1. /\ DOMAIN under = DOMAIN dto \cup DOMAIN current
      /\ \A f \in DOMAIN dto : under[f] = dto[f]
      /\ \A f \in DOMAIN current : f \notin DOMAIN dto => under[f] = current[f]
  BY SpreadAt
<1>2. CASE doc # "payment"
  <2>1. DOMAIN legacy = {}
    BY <1>2 DEF Desk!LegacyAmounts, Desk!Missing
  <2> HIDE DEF legacy, under
  <2>2. DOMAIN value = DOMAIN legacy \cup DOMAIN under
    BY SpreadAt
  <2> HIDE DEF value
  <2> QED
    BY <1>0, <1>1, <1>2, <2>1, <2>2, DefaultsAgree DEF Fits, Follows
<1>3. CASE doc = "payment"
  <2>1. /\ DOMAIN legacy = {"minWithdrawalAmount", "maxWithdrawalAmount"}
        /\ legacy["minWithdrawalAmount"] =
              Desk!OrElse(dto, "minWithdrawalAmountPaypal", current.minWithdrawalAmount)
        /\ legacy["maxWithdrawalAmount"] =
              Desk!OrElse(dto, "maxWithdrawalAmountPaypal", current.maxWithdrawalAmount)
    BY <1>3 DEF Desk!LegacyAmounts
  <2> HIDE DEF legacy, under
  <2>2. /\ DOMAIN value = DOMAIN legacy \cup DOMAIN under
        /\ \A f \in DOMAIN legacy : value[f] = legacy[f]
        /\ \A f \in DOMAIN under : f \notin DOMAIN legacy => value[f] = under[f]
    BY SpreadAt
  <2> HIDE DEF value
  <2>3. ASSUME NEW f \in {"minWithdrawalAmountPaypal", "maxWithdrawalAmountPaypal"},
               NEW l \in {"minWithdrawalAmount", "maxWithdrawalAmount"},
               legacy[l] = Desk!OrElse(dto, f, current[l]),
               (f \in DOMAIN current /\ current[f] # 0) => current[l] = current[f],
               f \in DOMAIN value, value[f] # 0
        PROVE  value[l] = value[f]
    <3>1. value[l] = legacy[l] /\ value[f] = under[f] /\ f \in DOMAIN under
      BY <2>1, <2>2, <2>3
    <3>2. CASE f \in DOMAIN dto
      BY <1>1, <2>3, <3>1, <3>2 DEF Desk!OrElse
    <3>3. CASE f \notin DOMAIN dto
      BY <1>1, <2>3, <3>1, <3>3 DEF Desk!OrElse
    <3> QED
      BY <3>2, <3>3
  <2>4. Follows(value)
    BY <1>3, <2>1, <2>3 DEF Fits, Follows
  <2>5. DOMAIN value \subseteq DOMAIN Desk!Seeds[doc]
    BY <1>1, <1>3, <2>1, <2>2, DefaultsAgree DEF Fits
  <2> QED
    BY <1>0, <2>4, <2>5 DEF Fits
<1> QED
  BY <1>2, <1>3

\* A document that fits agrees with what is shown of it.
DeskInv ==
    /\ doc \in Desk!Documents
    /\ Fits(stored)
    /\ DOMAIN update = Admins
    /\ \A a \in Admins : update[a] # Desk!Done => Fits(update[a].value)

LEMMA DeskInit == Desk!Init => DeskInv
BY DEF Desk!Init, DeskInv, Fits, Follows, Desk!Missing

LEMMA DeskStep == DeskInv /\ [Desk!Next]_(Desk!vars) => DeskInv'
<1> SUFFICES ASSUME DeskInv, [Desk!Next]_(Desk!vars) PROVE DeskInv'
  OBVIOUS
<1>1. CASE UNCHANGED <<doc, stored, update>>
  BY <1>1 DEF DeskInv, Fits, Follows
<1>2. CASE Desk!InitializeDefaultSettings
  <2>1. doc' = doc /\ update' = update /\ stored' = Desk!Seeds[doc]
    BY <1>2 DEF Desk!InitializeDefaultSettings
  <2>2. Follows(Desk!Seeds[doc])
    BY DefaultsAgree DEF DeskInv, Follows, Desk!WithdrawalDefaults
  <2> QED
    BY <2>1, <2>2 DEF DeskInv, Fits, Follows
<1>3. ASSUME NEW a \in Admins, Desk!Update(a) PROVE DeskInv'
  <2>1. PICK dto \in Desk!Dtos :
           update' = [update EXCEPT ![a] =
              [step |-> "write",
               value |-> Desk!Updated(dto, Desk!Or(stored, Desk!UpdateDefaults))]]
    BY <1>3 DEF Desk!Update
  <2>2. DOMAIN dto \subseteq DOMAIN Desk!PageDefaults[doc]
    BY DEF Desk!Dtos
  <2>3. Fits(Desk!Or(stored, Desk!UpdateDefaults))
    BY DefaultsAgree DEF DeskInv, Desk!Or, Fits, Follows
  <2> DEFINE new == Desk!Updated(dto, Desk!Or(stored, Desk!UpdateDefaults))
  <2>4. Fits(new)
    BY <2>2, <2>3, UpdatedFits DEF DeskInv
  <2> HIDE DEF new
  <2>5. update' = [update EXCEPT ![a] = [step |-> "write", value |-> new]]
    BY <2>1 DEF new
  <2>6. UNCHANGED <<doc, stored>>
    BY <1>3 DEF Desk!Update
  <2>7. DOMAIN update' = Admins
    BY <2>5 DEF DeskInv
  <2>8. ASSUME NEW b \in Admins, update'[b] # Desk!Done PROVE Fits(update'[b].value)
    BY <2>4, <2>5, <2>8 DEF DeskInv
  <2> QED
    BY <2>6, <2>7, <2>8 DEF DeskInv, Fits, Follows
<1>4. ASSUME NEW a \in Admins, Desk!SetSetting(a) PROVE DeskInv'
  <2>1. /\ update[a] # Desk!Done /\ stored' = update[a].value /\ doc' = doc
        /\ update' = [update EXCEPT ![a] = Desk!Done]
    BY <1>4 DEF Desk!SetSetting
  <2>2. Fits(update[a].value)
    BY <2>1 DEF DeskInv
  <2>3. Fits(stored') /\ DOMAIN update' = Admins
    BY <2>1, <2>2 DEF DeskInv
  <2>4. \A b \in Admins : update'[b] # Desk!Done => Fits(update'[b].value)
    BY <2>1 DEF DeskInv
  <2> QED
    BY <2>1, <2>3, <2>4 DEF DeskInv, Fits, Follows
<1>5. CASE Desk!Grow \/ Desk!CancelExpiredOrders \/ Desk!AutoCancelPendingOrders
  BY <1>1, <1>5 DEF Desk!Grow, Desk!CancelExpiredOrders, Desk!AutoCancelPendingOrders, Desk!Cancel
<1>6. CASE UNCHANGED Desk!vars
  BY <1>1, <1>6 DEF Desk!vars
<1> QED
  BY <1>2, <1>3, <1>4, <1>5, <1>6 DEF Desk!Next

\* What the settings pages show is what the services use, and the legacy amounts are
\* PayPal's, whatever updates give and however they overlap.
THEOREM CopiesAgreeAlways == Desk!Spec => []Desk!CopiesAgree
<1>1. DeskInv => Desk!UsedIsShown
  <2> SUFFICES ASSUME DeskInv, NEW f \in DOMAIN Desk!GetSettings, Desk!GetSettings[f] # 0
               PROVE  Desk!SettingsValues[f] = Desk!GetSettings[f]
    BY DEF Desk!UsedIsShown
  <2>1. f \in DOMAIN Desk!Seeds[doc]
    BY DefaultsAgree DEF DeskInv, Fits, Desk!GetSettings, Desk!Or
  <2>2. Desk!SettingsValues[f] = Desk!Value(f)
    BY <2>1 DEF Desk!SettingsValues, Desk!ValueDefaults
  <2>3. CASE stored = Desk!Missing
    <3>1. f \notin DOMAIN stored /\ Desk!GetSettings = Desk!PageDefaults[doc]
      BY <2>3 DEF Desk!Missing, Desk!GetSettings, Desk!Or
    <3>2. f \in DOMAIN Desk!PageDefaults[doc]
      BY <3>1
    <3>3. Desk!PageDefaults[doc][f] = Desk!Seeds[doc][f]
      BY <3>2, DefaultsAgree DEF DeskInv
    <3> QED
      BY <2>2, <3>1, <3>3 DEF Desk!Value, Desk!ValueDefaults
  <2>4. CASE stored # Desk!Missing
    BY <2>2, <2>4 DEF Desk!GetSettings, Desk!Or, Desk!Value
  <2> QED
    BY <2>3, <2>4
<1>2. DeskInv => Desk!LegacyFollowsPayPal
  BY DEF DeskInv, Fits, Follows, Desk!LegacyFollowsPayPal
<1>3. DeskInv => Desk!CopiesAgree
  BY <1>1, <1>2 DEF Desk!CopiesAgree
<1> QED
  BY <1>3, DeskInit, DeskStep, PTL DEF Desk!Spec

-----------------------------------------------------------------------------
(* The paged lists: what a reader of a changing list misses.                 *)

\* The list counts with the same finite sets.
LEMMA PageCardinality == \A S : Page!Cardinality(S) = Cardinality(S)
  BY DEF Page!Cardinality, Cardinality, Page!IsFiniteSet, IsFiniteSet

\* The rows on the list, and the order they are read in; of two rows that tie the newer one
\* comes first, if it may.
On(l, q, rs) == {i \in DOMAIN rs : Page!Matches(l, q, rs[i])}

RankOf(q, rs, i) == IF q.sort.ranked THEN rs[i].rank ELSE 0
Comes(q, rs, j, i, newer) ==
    \/ RankOf(q, rs, j) > RankOf(q, rs, i)
    \/ RankOf(q, rs, j) = RankOf(q, rs, i) /\ (IF newer THEN j > i ELSE i > j)
Pairs(q, rs, newer) ==
    {p \in (DOMAIN rs) \X (DOMAIN rs) : Comes(q, rs, p[1], p[2], newer)}
Order(q, rs) == Pairs(q, rs, TRUE \in q.sort.newer)

\* One page of a list.
OnPage(L, R, n) == {i \in L : /\ (n - 1) * PageSize <= Cardinality(Ahead(L, R, i))
                              /\ Cardinality(Ahead(L, R, i)) < n * PageSize}

\* The reader at page p has missed no more than has moved.
MissedIsMoved(L, R, p, W, S, m) == Cardinality(Missed(L, R, W, S, p * PageSize)) <= m
\* The number of pages was counted on this list, but for what came since.
CountIsRecent(L, h, c, s) == h = "counted" => Cardinality(L) <= c * PageSize + s
EndIsSeen(p, h, c, W, S, m, s) ==
    p > 0 /\ h = "none" /\ p >= c => Cardinality(W \ S) <= m + s

PageShape ==
    /\ list \in Page!Lists /\ query \in Page!Queries(list)
    /\ tableRows \in Seq(Page!Rows \cup {Page!Gone})
    /\ page \in Nat /\ pages \in Nat /\ moved \in Nat /\ slipped \in Nat
    /\ half \in {"none", "read", "counted"}
    /\ IsFiniteSet(wanted)
    /\ page = 0 /\ half = "none" => wanted = {} /\ seen = {} /\ tied = {} /\ moved = 0
    /\ half = "read" => page > 0

PageInv ==
    /\ PageShape
    /\ MissedIsMoved(On(list, query, tableRows), Order(query, tableRows), page,
                     wanted \ tied, seen, moved)
    /\ CountIsRecent(On(list, query, tableRows), half, pages, slipped)
    /\ EndIsSeen(page, half, pages, wanted \ tied, seen, moved, slipped)

\* No list has rows that were deleted, and each is sorted in ways the model knows.
Sorted(l) == "none" \notin l.tables /\ \A s \in l.sorts : s.newer \subseteq BOOLEAN

LEMMA ListsAreSorted == \A l \in Page!Lists : Sorted(l)
<1>0. /\ Page!Newest.newer \subseteq BOOLEAN /\ Page!Oldest.newer \subseteq BOOLEAN
      /\ Page!ByRank.newer \subseteq BOOLEAN
  <2>1. Page!Newest.newer = {TRUE} /\ Page!Oldest.newer = {FALSE} /\ Page!ByRank.newer = BOOLEAN
    BY DEF Page!Newest, Page!Oldest, Page!ByRank
  <2>2. {TRUE} \subseteq BOOLEAN /\ {FALSE} \subseteq BOOLEAN
    BY Zenon
  <2> QED
    BY <2>1, <2>2, Zenon
<1>1. ASSUME NEW t, NEW o, NEW f, "none" \notin t
      PROVE  Sorted(Page!List(t, o, f)) /\ Sorted(Page!AtOnce(Page!List(t, o, f)))
  BY <1>0, <1>1 DEF Page!List, Page!AtOnce, Sorted
<1>2. Sorted(Page!Transactions) /\ Sorted(Page!BuyerTransactions)
  BY <1>1 DEF Page!Transactions, Page!BuyerTransactions, Page!Payments
<1>3. Sorted(Page!UserTransactions) /\ Sorted(Page!AllUserTransactions)
  BY <1>0 DEF Page!UserTransactions, Page!AllUserTransactions, Page!BuyerTransactions,
              Page!Payments, Page!List, Page!AtOnce, Sorted
<1>4. /\ Sorted(Page!Withdrawals) /\ Sorted(Page!WithdrawalHistory) /\ Sorted(Page!AllOrders)
      /\ Sorted(Page!Commissions) /\ Sorted(Page!Disputes)
  BY <1>1 DEF Page!Withdrawals, Page!WithdrawalHistory, Page!AllOrders, Page!Commissions,
              Page!Disputes
<1>5. /\ Sorted(Page!UserArtworks) /\ Sorted(Page!Comments) /\ Sorted(Page!UploadedArtworks)
      /\ Sorted(Page!PostComments) /\ Sorted(Page!ActiveUsers) /\ Sorted(Page!AllUsers)
      /\ Sorted(Page!AllArtists)
  BY <1>1 DEF Page!UserArtworks, Page!Comments, Page!UploadedArtworks, Page!PostComments,
              Page!ActiveUsers, Page!AllUsers, Page!AllArtists
<1>6. /\ Sorted(Page!CartItems) /\ Sorted(Page!Favorites) /\ Sorted(Page!Followers)
      /\ Sorted(Page!Following) /\ Sorted(Page!UserCollections)
  BY <1>1 DEF Page!CartItems, Page!Favorites, Page!Followers, Page!Following,
              Page!UserCollections
<1>7. Sorted(Page!AllArtworks)
  BY <1>0 DEF Page!AllArtworks, Page!List, Sorted
<1>8. Sorted(Page!Posts)
  BY DEF Page!Posts, Page!List, Page!ByRank, Sorted
<1>9. Sorted(Page!Collections)
  BY <1>0 DEF Page!Collections, Page!List, Sorted
<1> QED
  BY <1>2, <1>3, <1>4, <1>5, <1>6, <1>7, <1>8, <1>9, Zenon DEF Page!Lists

\* The rows on a list are rows with a rank.
LEMMA OnIsRanked ==
    ASSUME Page!ListingsAssumption, NEW l \in Page!Lists, NEW q,
           NEW rs \in Seq(Page!Rows \cup {Page!Gone})
    PROVE  /\ IsFiniteSet(On(l, q, rs)) /\ On(l, q, rs) \subseteq Nat
           /\ \A i \in On(l, q, rs) : i \in DOMAIN rs /\ RankOf(q, rs, i) \in Nat
<1>1. DOMAIN rs = 1..Len(rs) /\ Len(rs) \in Nat
  OBVIOUS
<1>2. IsFiniteSet(1..Len(rs)) /\ On(l, q, rs) \subseteq 1..Len(rs)
  BY <1>1, FS_Interval DEF On
<1>3. IsFiniteSet(On(l, q, rs))
  BY <1>2, FS_Subset
<1>4. ASSUME NEW i \in On(l, q, rs)
      PROVE  i \in DOMAIN rs /\ RankOf(q, rs, i) \in Nat
  <2>1. i \in DOMAIN rs /\ rs[i].table \in l.tables
    BY DEF On, Page!Matches
  <2>2. rs[i] # Page!Gone
    BY <2>1, ListsAreSorted DEF Page!Gone, Sorted
  <2>3. rs[i] \in Page!Rows
    BY <2>1, <2>2
  <2>4. rs[i].rank \in Nat
    BY <2>3 DEF Page!Rows, Page!ListingsAssumption
  <2> QED
    BY <2>1, <2>4 DEF RankOf
<1> QED
  BY <1>1, <1>2, <1>3, <1>4

\* The pairs order the rows on the list.
LEMMA OnIsOrdered ==
    ASSUME Page!ListingsAssumption, NEW l \in Page!Lists, NEW q,
           NEW rs \in Seq(Page!Rows \cup {Page!Gone})
    PROVE  IsOrder(On(l, q, rs), Order(q, rs))
<1> DEFINE L == On(l, q, rs)  newer == TRUE \in q.sort.newer  rank(i) == RankOf(q, rs, i)
<1>1. IsFiniteSet(L) /\ \A i \in L : i \in Nat /\ i \in DOMAIN rs /\ rank(i) \in Nat
  BY OnIsRanked
<1>2. \A i \in L, j \in L : <<j, i>> \in Order(q, rs) <=> Comes(q, rs, j, i, newer)
  BY <1>1 DEF Order, Pairs
<1>3. /\ newer => \A i \in L, j \in L : <<j, i>> \in Order(q, rs) <=>
                  rank(j) > rank(i) \/ (rank(j) = rank(i) /\ j > i)
      /\ ~newer => \A i \in L, j \in L : <<j, i>> \in Order(q, rs) <=>
                  rank(j) > rank(i) \/ (rank(j) = rank(i) /\ i > j)
  <2>1. CASE newer
    BY <1>2, <2>1 DEF Comes
  <2>2. CASE ~newer
    BY <1>2, <2>2 DEF Comes
  <2> QED
    BY <2>1, <2>2
<1> HIDE DEF L, newer, rank
<1>4. ASSUME NEW i \in L PROVE <<i, i>> \notin Order(q, rs)
  <2>1. CASE newer
    BY <1>1, <1>3, <2>1
  <2>2. CASE ~newer
    BY <1>1, <1>3, <2>2
  <2> QED
    BY <2>1, <2>2
<1>5. \A i \in L, j \in L : i # j => <<i, j>> \in Order(q, rs) \/ <<j, i>> \in Order(q, rs)
  <2> TAKE i \in L, j \in L
  <2>1. CASE newer
    BY <1>1, <1>3, <2>1
  <2>2. CASE ~newer
    BY <1>1, <1>3, <2>2
  <2> QED
    BY <2>1, <2>2
<1>6. ASSUME NEW i \in L, NEW j \in L, NEW k \in L,
             <<i, j>> \in Order(q, rs), <<j, k>> \in Order(q, rs)
      PROVE  <<i, k>> \in Order(q, rs)
  <2>1. CASE newer
    BY <1>1, <1>3, <1>6, <2>1
  <2>2. CASE ~newer
    BY <1>1, <1>3, <1>6, <2>2
  <2> QED
    BY <2>1, <2>2
<1> QED
  BY <1>1, <1>4, <1>5, <1>6 DEF IsOrder, L

LEMMA ShapeIsOrdered ==
    ASSUME Page!ListingsAssumption, PageShape
    PROVE  /\ IsOrder(On(list, query, tableRows), Order(query, tableRows))
           /\ IsFiniteSet(On(list, query, tableRows))
           /\ Cardinality(On(list, query, tableRows)) \in Nat
<1>1. IsOrder(On(list, query, tableRows), Order(query, tableRows))
  BY OnIsOrdered DEF PageShape
<1> QED
  BY <1>1, FS_CardinalityType DEF IsOrder

\* The names of the part.
LEMMA PageOn == \A rs : Page!OnList(rs) = On(list, query, rs)
  BY DEF Page!OnList, On

\* Whichever of two rows that tie is shown first, a row that ties with none is on the same
\* page.
LEMMA PageShows ==
    ASSUME PageShape, NEW newer \in query.sort.newer, NEW n,
           NEW i, i \notin Page!Ties,
           i \in OnPage(On(list, query, tableRows), Order(query, tableRows), n)
    PROVE  i \in Page!Page(n, newer)
<1> DEFINE L == On(list, query, tableRows)  first == TRUE \in query.sort.newer
           rank(j) == RankOf(query, tableRows, j)
<1>1. newer \in BOOLEAN /\ query.sort.newer \subseteq BOOLEAN
  <2>1. query.sort \in list.sorts
    BY DEF PageShape, Page!Queries
  <2>2. query.sort.newer \subseteq BOOLEAN
    BY <2>1, ListsAreSorted DEF PageShape, Sorted
  <2> QED
    BY <2>2
<1>2. i \in L /\ Page!OnList(tableRows) = L /\ \A j \in L : j \in DOMAIN tableRows
  BY PageOn DEF OnPage, On
<1>3. \A j \in L : <<j, i>> \in Order(query, tableRows) <=> Comes(query, tableRows, j, i, first)
  BY <1>2 DEF Order, Pairs
<1>4. \A j \in L : Page!Ahead(j, i, newer) <=> Comes(query, tableRows, j, i, newer)
  BY DEF Page!Ahead, Page!Rank, Comes, RankOf
<1>5. \A j \in L : Comes(query, tableRows, j, i, newer) <=> Comes(query, tableRows, j, i, first)
  <2>0. (newer <=> newer = TRUE) /\ (~newer <=> newer = FALSE)
    BY <1>1, Zenon
  <2>1. CASE newer /\ first
    BY <2>1 DEF Comes
  <2>2. CASE ~newer /\ ~first
    BY <2>2 DEF Comes
  <2>3. ~(newer /\ ~first)
    BY <2>0, Zenon
  <2>4. CASE ~newer /\ first
    <3>1. newer = FALSE /\ TRUE \in query.sort.newer /\ query.sort.newer \subseteq BOOLEAN
      BY <1>1, <2>0, <2>4, Zenon
    <3>2. query.sort.newer = BOOLEAN
      BY <3>1
    <3>3. \A j \in L \ {i} : rank(j) # rank(i)
      BY <1>2, <3>2 DEF Page!Ties, Page!Rank, RankOf
    <3>4. ~(i > i)
      <4>1. i \in Nat
        BY <1>2 DEF PageShape
      <4> QED
        BY <4>1
    <3>5. \A j \in L : rank(j) = rank(i) => ~(j > i) /\ ~(i > j)
      <4>1. \A j \in L : rank(j) = rank(i) => j = i
        BY <3>3
      <4> QED
        BY <3>4, <4>1
    <3> QED
      BY <2>4, <3>5 DEF Comes
  <2> QED
    BY <2>1, <2>2, <2>3, <2>4, Zenon
<1>6. {j \in L : Page!Ahead(j, i, newer)} = Ahead(L, Order(query, tableRows), i)
  BY <1>3, <1>4, <1>5 DEF Ahead
<1>7. Page!Place(i, newer) = Cardinality(Ahead(L, Order(query, tableRows), i))
  BY <1>2, <1>6, PageCardinality DEF Page!Place
<1> QED
  BY <1>2, <1>7 DEF Page!Page, OnPage

\* So many pages hold so many rows.
LEMMA PagesHold ==
    ASSUME NEW c \in Nat, NEW n \in Nat \ {0}
    PROVE  (c + n - 1) \div n \in Nat /\ c <= ((c + n - 1) \div n) * n
<1> DEFINE a == c + n - 1  d == a \div n
<1>1. a \in Nat /\ n > 0
  OBVIOUS
<1>2. d \in Int /\ a = n * d + (a % n) /\ a % n \in 0..n-1
  <2> HIDE DEF a
  <2> QED
    BY <1>1
<1>3. n * d >= c /\ n * d = d * n
  BY <1>2
<1>4. d >= 0
  <2> HIDE DEF a
  <2> QED BY <1>1
<1> QED
  BY <1>2, <1>3, <1>4

\* The rows of one page and those of the pages before it are those of the pages up to it.
LEMMA PageAfterPages ==
    ASSUME NEW L, IsFiniteSet(L), NEW R, NEW p \in Nat, PageSize \in Nat \ {0}
    PROVE  First(L, R, (p + 1) * PageSize)
           \subseteq First(L, R, p * PageSize) \cup OnPage(L, R, p + 1)
<1>1. p * PageSize \in Nat /\ (p + 1) * PageSize \in Nat /\ (p + 1) - 1 = p
  OBVIOUS
<1> SUFFICES ASSUME NEW i \in First(L, R, (p + 1) * PageSize), i \notin First(L, R, p * PageSize)
             PROVE  i \in OnPage(L, R, p + 1)
  OBVIOUS
<1>2. i \in L /\ Cardinality(Ahead(L, R, i)) < (p + 1) * PageSize
      /\ ~(Cardinality(Ahead(L, R, i)) < p * PageSize)
  BY DEF First
<1>3. Cardinality(Ahead(L, R, i)) \in Nat
  BY AheadFinite
<1> QED
  BY <1>1, <1>2, <1>3 DEF OnPage

\* One row comes, leaves, moves or does none of these; what left or moved is counted, unless
\* nobody reads.
LEMMA ChangeKeepsMissed ==
    ASSUME PageSize \in Nat, NEW L, NEW R, IsOrder(L, R), NEW K, NEW Q, IsOrder(K, Q),
           NEW x, L \ {x} = K \ {x}, Agree(L \ {x}, R, Q), NEW W, IsFiniteSet(W), NEW S,
           NEW p \in Nat, NEW m \in Nat, NEW k \in Nat,
           W = {} \/ x \notin L \/ (K = L /\ Agree(L, R, Q)) \/ m + 1 <= k, m <= k,
           MissedIsMoved(L, R, p, W, S, m)
    PROVE  MissedIsMoved(K, Q, p, W, S, k)
<1> DEFINE n == p * PageSize  A == Missed(L, R, W, S, n)  B == Missed(K, Q, W, S, n)
<1>0. n \in Nat
  OBVIOUS
<1> HIDE DEF n
<1>1. Cardinality(A) <= m
  BY DEF MissedIsMoved, n
<1>2. Cardinality(A) \in Nat /\ Cardinality(B) \in Nat /\ IsFiniteSet(A)
  BY MissedFinite
<1>3. Cardinality(B) <= Cardinality(A) + 1 /\ (x \notin L => B \subseteq A)
  BY <1>0, MissedMoved
<1>4. W = {} => B \subseteq A
  BY DEF Missed
<1>5. K = L /\ Agree(L, R, Q) => B = A
  <2> SUFFICES ASSUME K = L, Agree(L, R, Q) PROVE B = A
    OBVIOUS
  <2>1. First(L, R, n) = First(L, Q, n)
    BY SameFirst
  <2> QED
    BY <2>1 DEF Missed
<1> HIDE DEF A, B
<1>6. CASE B \subseteq A
  <2>1. Cardinality(B) <= Cardinality(A)
    BY <1>2, <1>6, FS_Subset
  <2>2. Cardinality(B) <= k
    BY <1>1, <1>2, <2>1
  <2> QED
    BY <2>2 DEF MissedIsMoved, B, n
<1>7. CASE m + 1 <= k
  <2>1. Cardinality(B) <= k
    BY <1>1, <1>2, <1>3, <1>7
  <2> QED
    BY <2>1 DEF MissedIsMoved, B, n
<1> QED
  BY <1>3, <1>4, <1>5, <1>6, <1>7

LEMMA ChangeKeepsCount ==
    ASSUME PageSize \in Nat, NEW L, IsFiniteSet(L), NEW K, IsFiniteSet(K), NEW h, NEW c \in Nat,
           NEW s \in Nat, NEW t \in Nat, h = "counted" => t = s + Cardinality(K \ L),
           CountIsRecent(L, h, c, s)
    PROVE  CountIsRecent(K, h, c, t)
<1> SUFFICES ASSUME h = "counted" PROVE Cardinality(K) <= c * PageSize + t
  BY DEF CountIsRecent
<1>1. Cardinality(L) <= c * PageSize + s /\ t = s + Cardinality(K \ L)
  BY DEF CountIsRecent
<1>2. IsFiniteSet(K \ L) /\ IsFiniteSet(K \cap L)
  BY FS_Subset
<1>3. Cardinality(K \ L) = Cardinality(K) - Cardinality(K \cap L)
  BY <1>2, FS_Difference
<1>4. Cardinality(K \cap L) <= Cardinality(L)
  BY <1>2, FS_Subset
<1>5. Cardinality(K) \in Nat /\ Cardinality(L) \in Nat /\ Cardinality(K \cap L) \in Nat
      /\ c * PageSize \in Nat
  BY <1>2, FS_CardinalityType
<1> QED
  BY <1>1, <1>3, <1>4, <1>5

\* The next page is seen, but for rows that tie.
LEMMA ReadKeepsMissed ==
    ASSUME PageSize \in Nat \ {0}, NEW L, NEW R, IsOrder(L, R), NEW W, IsFiniteSet(W), NEW S,
           NEW V \in SUBSET W, NEW U, S \subseteq U,
           NEW p \in Nat, NEW m \in Nat, MissedIsMoved(L, R, p, W, S, m),
           OnPage(L, R, p + 1) \cap V \subseteq U
    PROVE  MissedIsMoved(L, R, p + 1, V, U, m)
<1> DEFINE A == Missed(L, R, W, S, p * PageSize)
           B == Missed(L, R, V, U, (p + 1) * PageSize)
<1>1. B \subseteq A
  <2>1. First(L, R, (p + 1) * PageSize)
        \subseteq First(L, R, p * PageSize) \cup OnPage(L, R, p + 1)
    BY PageAfterPages DEF IsOrder
  <2> QED
    BY <2>1 DEF Missed
<1>2. IsFiniteSet(A) /\ Cardinality(A) \in Nat /\ Cardinality(B) \in Nat
  <2>1. IsFiniteSet(V)
    BY FS_Subset
  <2> QED
    BY <2>1, MissedFinite
<1>3. Cardinality(A) <= m
  BY DEF MissedIsMoved
<1> HIDE DEF A, B
<1>4. Cardinality(B) <= Cardinality(A)
  BY <1>1, <1>2, FS_Subset
<1>5. Cardinality(B) <= m
  BY <1>2, <1>3, <1>4
<1> QED
  BY <1>5 DEF MissedIsMoved, B

\* A reader who starts wants what is on the list, and has missed none of it.
LEMMA StartMissesNothing ==
    ASSUME PageSize \in Nat, NEW L, NEW R, IsFiniteSet(L), NEW W, NEW m \in Nat, W \subseteq L
    PROVE  MissedIsMoved(L, R, 0, W, {}, m)
<1>1. Missed(L, R, W, {}, 0) = {}
  <2> SUFFICES ASSUME NEW i \in L, i \in First(L, R, 0) PROVE FALSE
    BY DEF Missed
  <2> QED
    BY AheadFinite DEF First
<1>2. 0 * PageSize = 0
  OBVIOUS
<1>3. Cardinality(Missed(L, R, W, {}, 0)) = 0
  BY <1>1, FS_EmptySet, Zenon
<1> QED
  BY <1>2, <1>3 DEF MissedIsMoved

\* After the last page: what was wanted and not seen is missed, or came too late.
LEMMA LastPageLeaves ==
    ASSUME PageSize \in Nat, NEW L, NEW R, IsOrder(L, R), NEW W, IsFiniteSet(W), NEW S,
           NEW p \in Nat, NEW c \in Nat, NEW m \in Nat, NEW s \in Nat,
           p >= c, Cardinality(L) <= c * PageSize + s, MissedIsMoved(L, R, p, W, S, m)
    PROVE  Cardinality(W \ S) <= m + s
<1> DEFINE n == p * PageSize  A == Missed(L, R, W, S, n)  Rest == L \ First(L, R, n)
<1>0. IsFiniteSet(L)
  BY DEF IsOrder
<1>1. n \in Nat /\ c * PageSize <= n /\ c * PageSize \in Nat
  OBVIOUS
<1>2. Cardinality(L) \in Nat
  BY <1>0, FS_CardinalityType
<1>3. Cardinality(Rest) <= s
  <2> HIDE DEF n
  <2>1. Cardinality(L) <= n + s
    BY <1>1, <1>2
  <2> QED
    BY <1>1, <2>1, AfterTheFirst
<1>4. Cardinality(A) <= m
  BY DEF MissedIsMoved
<1>5. IsFiniteSet(A) /\ IsFiniteSet(Rest) /\ Cardinality(A) \in Nat /\ Cardinality(Rest) \in Nat
      /\ Cardinality(W \ S) \in Nat
  BY <1>0, MissedFinite, FS_Subset, FS_CardinalityType
<1>6. W \ S \subseteq A \cup Rest
  BY DEF Missed
<1> HIDE DEF A, Rest
<1>7. IsFiniteSet(A \cup Rest) /\ Cardinality(A \cup Rest) <= Cardinality(A) + Cardinality(Rest)
      /\ Cardinality(A \cup Rest) \in Nat
  <2>1. IsFiniteSet(A \cap Rest) /\ Cardinality(A \cap Rest) \in Nat
    BY <1>5, FS_Subset, FS_CardinalityType
  <2>2. IsFiniteSet(A \cup Rest)
        /\ Cardinality(A \cup Rest) = Cardinality(A) + Cardinality(Rest) - Cardinality(A \cap Rest)
    BY <1>5, FS_Union, Zenon
  <2> QED
    BY <1>5, <2>1, <2>2, FS_CardinalityType
<1>8. Cardinality(W \ S) <= Cardinality(A \cup Rest)
  BY <1>6, <1>7, FS_Subset
<1> QED
  BY <1>3, <1>4, <1>5, <1>7, <1>8

\* Nobody reads yet.
LEMMA PageInit == Page!Init => PageInv
<1> SUFFICES ASSUME Page!Init PROVE PageInv
  OBVIOUS
<1>1. PageShape
  BY FS_EmptySet DEF Page!Init, PageShape
<1>2. /\ (wanted \ tied) \ seen = {}
      /\ Missed(On(list, query, tableRows), Order(query, tableRows), wanted \ tied, seen,
                page * PageSize) = {}
  BY DEF Page!Init, Missed
<1>3. /\ Cardinality((wanted \ tied) \ seen) = 0
      /\ Cardinality(Missed(On(list, query, tableRows), Order(query, tableRows), wanted \ tied,
                            seen, page * PageSize)) = 0
  BY <1>2, FS_EmptySet, Zenon
<1> QED
  BY <1>1, <1>3 DEF Page!Init, PageInv, MissedIsMoved, CountIsRecent, EndIsSeen

\* Nothing is written but row x, and the rows that left the list or their place in it.
OneRow(rs, x) ==
    \A j : j # x => /\ j \in DOMAIN tableRows <=> j \in DOMAIN rs
                    /\ j \in DOMAIN tableRows => rs[j] = tableRows[j]
Left(rs) == {i \in On(list, query, tableRows) :
                i \in On(list, query, rs) => RankOf(query, rs, i) # RankOf(query, tableRows, i)}

LEMMA OneRowMoves ==
    ASSUME NEW rs, NEW x, OneRow(rs, x)
    PROVE  LET L == On(list, query, tableRows)  R == Order(query, tableRows)
               K == On(list, query, rs)         Q == Order(query, rs)
           IN  /\ L \ {x} = K \ {x} /\ Agree(L \ {x}, R, Q) /\ Left(rs) \subseteq {x}
               /\ x \in L /\ x \notin Left(rs) => K = L /\ Agree(L, R, Q)
<1> DEFINE L == On(list, query, tableRows)  R == Order(query, tableRows)
           K == On(list, query, rs)         Q == Order(query, rs)
           first == TRUE \in query.sort.newer
<1>1. L \ {x} = K \ {x} /\ \A j \in L \ {x} : rs[j] = tableRows[j]
  BY DEF OneRow, On
<1>2. \A j \in L \ {x} : RankOf(query, rs, j) = RankOf(query, tableRows, j)
  BY <1>1 DEF RankOf
<1>3. \A i \in L, j \in L : <<i, j>> \in R <=> Comes(query, tableRows, i, j, first)
  BY DEF Order, Pairs, On
<1>4. \A i \in K, j \in K : <<i, j>> \in Q <=> Comes(query, rs, i, j, first)
  BY DEF Order, Pairs, On
<1>5. Left(rs) \subseteq {x}
  BY <1>1, <1>2 DEF Left
<1>6. ASSUME x \in L, x \notin Left(rs)
      PROVE  K = L /\ RankOf(query, rs, x) = RankOf(query, tableRows, x)
  <2>1. x \in K /\ RankOf(query, rs, x) = RankOf(query, tableRows, x)
    BY <1>6 DEF Left
  <2> QED
    BY <1>1, <1>6, <2>1
<1>c. ASSUME NEW i, NEW j, RankOf(query, rs, i) = RankOf(query, tableRows, i),
             RankOf(query, rs, j) = RankOf(query, tableRows, j)
      PROVE  Comes(query, tableRows, i, j, first) <=> Comes(query, rs, i, j, first)
  <2>1. CASE first
    BY <1>c, <2>1 DEF Comes
  <2>2. CASE ~first
    BY <1>c, <2>2 DEF Comes
  <2> QED
    BY <2>1, <2>2
<1> HIDE DEF L, K, R, Q, first
<1>7. Agree(L \ {x}, R, Q)
  <2>1. ASSUME NEW i \in L \ {x}, NEW j \in L \ {x}
        PROVE  <<i, j>> \in R <=> <<i, j>> \in Q
    <3>1. i \in K /\ j \in K
      BY <1>1
    <3>2. Comes(query, tableRows, i, j, first) <=> Comes(query, rs, i, j, first)
      BY <1>2, <1>c
    <3> QED
      BY <1>3, <1>4, <3>1, <3>2
  <2> QED
    BY <2>1, Zenon DEF Agree
<1>8. ASSUME x \in L, x \notin Left(rs) PROVE K = L /\ Agree(L, R, Q)
  <2>1. K = L /\ \A j \in L : RankOf(query, rs, j) = RankOf(query, tableRows, j)
    BY <1>2, <1>6, <1>8
  <2> QED
    BY <1>3, <1>4, <1>c, <2>1 DEF Agree
<1> QED
  BY <1>1, <1>5, <1>7, <1>8 DEF L, K, R, Q

\* What a write counts.
LEMMA WriteCounts ==
    ASSUME NEW rs, Page!Write(rs)
    PROVE  LET L == On(list, query, tableRows)  K == On(list, query, rs)
           IN  /\ moved' = IF (page > 0 \/ half # "none") /\ moved < MaxChanges
                           THEN moved + Cardinality(Left(rs)) ELSE moved
               /\ slipped' = IF half = "counted" THEN slipped + Cardinality(K \ L) ELSE slipped
               /\ tableRows' = rs /\ list' = list /\ query' = query
               /\ page' = page /\ half' = half /\ pages' = pages
               /\ wanted' = wanted /\ seen' = seen /\ tied' = tied
<1>1. Left(rs) = {i \in Page!OnList(tableRows) :
                     i \in Page!OnList(rs) => Page!Rank(rs, i) # Page!Rank(tableRows, i)}
  BY PageOn DEF Left, RankOf, Page!Rank
<1> QED
  BY <1>1, PageOn, PageCardinality DEF Page!Write, Page!Started

\* The lists' rows are written; the reader stays where it is.
LEMMA WriteKeepsPages ==
    ASSUME Page!ListingsAssumption, PageInv, NEW rs \in Seq(Page!Rows \cup {Page!Gone}),
           Page!Write(rs), NEW x, OneRow(rs, x),
           moved < MaxChanges \/ x \notin On(list, query, tableRows)
    PROVE  PageInv'
<1> DEFINE L == On(list, query, tableRows)  R == Order(query, tableRows)
           K == On(list, query, rs)         Q == Order(query, rs)
           W == wanted \ tied
<1>0. PageShape
  BY DEF PageInv
<1>1. IsOrder(L, R) /\ IsOrder(K, Q) /\ IsFiniteSet(L) /\ IsFiniteSet(K)
  BY <1>0, OnIsOrdered, OnIsRanked DEF PageShape
<1>2. /\ tableRows' = rs /\ list' = list /\ query' = query /\ page' = page /\ half' = half
      /\ pages' = pages /\ wanted' = wanted /\ seen' = seen /\ tied' = tied
      /\ moved' = IF (page > 0 \/ half # "none") /\ moved < MaxChanges
                  THEN moved + Cardinality(Left(rs)) ELSE moved
      /\ slipped' = IF half = "counted" THEN slipped + Cardinality(K \ L) ELSE slipped
  BY WriteCounts
<1>3. On(list, query, tableRows)' = K /\ Order(query, tableRows)' = Q
  BY <1>2 DEF On, Order, Pairs, Comes, RankOf
<1>4. /\ PageSize \in Nat /\ page \in Nat /\ pages \in Nat /\ moved \in Nat /\ slipped \in Nat
      /\ IsFiniteSet(wanted) /\ half \in {"none", "read", "counted"}
  BY <1>0 DEF Page!ListingsAssumption, PageShape
<1>5. IsFiniteSet(W) /\ Cardinality(W \ seen) \in Nat
  BY <1>4, FS_Subset, FS_CardinalityType
<1>6. /\ L \ {x} = K \ {x} /\ Agree(L \ {x}, R, Q) /\ Left(rs) \subseteq {x}
      /\ x \in L /\ x \notin Left(rs) => K = L /\ Agree(L, R, Q)
  BY OneRowMoves
<1>7. /\ Cardinality(Left(rs)) \in Nat /\ Cardinality(K \ L) \in Nat
      /\ x \in Left(rs) => Cardinality(Left(rs)) = 1
  <2>1. IsFiniteSet(Left(rs)) /\ IsFiniteSet(K \ L)
    BY <1>1, FS_Subset DEF Left
  <2>2. x \in Left(rs) => Left(rs) = {x}
    BY <1>6
  <2> QED
    BY <2>1, <2>2, FS_CardinalityType, FS_Singleton
<1>8. MissedIsMoved(L, R, page, W, seen, moved) /\ CountIsRecent(L, half, pages, slipped)
      /\ EndIsSeen(page, half, pages, W, seen, moved, slipped)
  BY DEF PageInv
<1>9. moved < MaxChanges \/ x \notin L
  OBVIOUS
<1>10. page = 0 /\ half = "none" => W = {}
  BY <1>0 DEF PageShape
<1> HIDE DEF L, K, R, Q, W
<1>11. moved' \in Nat /\ moved <= moved' /\ slipped' \in Nat /\ slipped <= slipped'
  BY <1>2, <1>4, <1>7
<1>12. PageShape'
  <2>1. rs \in Seq(Page!Rows \cup {Page!Gone})
    OBVIOUS
  <2> QED
    BY <1>0, <1>2, <1>4, <1>11, <2>1 DEF PageShape
<1>13. MissedIsMoved(K, Q, page, W, seen, moved')
  <2>1. W = {} \/ x \notin L \/ (K = L /\ Agree(L, R, Q)) \/ moved + 1 <= moved'
    <3> SUFFICES ASSUME W # {}, x \in Left(rs) PROVE moved + 1 <= moved' \/ x \notin L
      BY <1>6
    <3>1. page > 0 \/ half # "none"
      BY <1>4, <1>10
    <3> QED
      BY <1>2, <1>4, <1>7, <1>9, <3>1
  <2> QED
    BY <1>1, <1>4, <1>5, <1>6, <1>8, <1>11, <2>1, ChangeKeepsMissed
<1>14. CountIsRecent(K, half, pages, slipped')
  <2>1. half = "counted" => slipped' = slipped + Cardinality(K \ L)
    BY <1>2
  <2> QED
    BY <1>1, <1>4, <1>8, <1>11, <2>1, ChangeKeepsCount
<1>15. EndIsSeen(page, half, pages, W, seen, moved', slipped')
  <2>1. ASSUME NEW d \in Nat, d <= moved + slipped PROVE d <= moved' + slipped'
    <3> DEFINE m == moved'  s == slipped'
    <3>1. m \in Nat /\ moved <= m /\ s \in Nat /\ slipped <= s
      BY <1>11
    <3> HIDE DEF m, s
    <3>2. d <= m + s
      BY <1>4, <2>1, <3>1
    <3> QED
      BY <3>2 DEF m, s
  <2> QED
    BY <1>5, <1>8, <2>1 DEF EndIsSeen
<1>16. (wanted \ tied)' = W
  BY <1>2 DEF W
<1> QED
  BY <1>2, <1>3, <1>12, <1>13, <1>14, <1>15, <1>16 DEF PageInv

\* A new row is the last, and was on no list.
LEMMA LastIsOne ==
    ASSUME PageShape, NEW r
    PROVE  /\ OneRow(Append(tableRows, r), Len(tableRows) + 1)
           /\ Len(tableRows) + 1 \notin On(list, query, tableRows)
<1>1. Len(tableRows) \in Nat /\ DOMAIN tableRows = 1..Len(tableRows)
  BY DEF PageShape
<1>2. /\ DOMAIN Append(tableRows, r) = 1..Len(tableRows) + 1
      /\ \A j \in 1..Len(tableRows) : Append(tableRows, r)[j] = tableRows[j]
  BY DEF PageShape
<1>3. \A j : j # Len(tableRows) + 1 =>
          (j \in 1..Len(tableRows) <=> j \in 1..Len(tableRows) + 1)
  BY <1>1
<1>4. Len(tableRows) + 1 \notin 1..Len(tableRows)
  BY <1>1
<1> QED
  BY <1>1, <1>2, <1>3, <1>4 DEF OneRow, On

LEMMA ExceptIsOne ==
    ASSUME NEW i \in DOMAIN tableRows, NEW r
    PROVE  OneRow([tableRows EXCEPT ![i] = r], i)
  BY DEF OneRow

\* The reader turns to the next page.
LEMMA TurnKeeps ==
    ASSUME Page!ListingsAssumption, PageInv, NEW n, Page!TurnsTo(n)
    PROVE  /\ n = page + 1 /\ half = "none" /\ slipped' = 0 /\ moved' = moved
           /\ tableRows' = tableRows /\ list' = list /\ query' = query
           /\ IsFiniteSet(wanted')
           /\ MissedIsMoved(On(list, query, tableRows), Order(query, tableRows), page,
                            wanted' \ tied, seen, moved)
<1>1. n = page + 1 /\ half = "none" /\ slipped' = 0 /\ moved' = moved
      /\ tableRows' = tableRows /\ list' = list /\ query' = query
  BY DEF Page!TurnsTo
<1>2. CASE Page!Started
  <2>1. wanted' = wanted
    BY <1>2 DEF Page!TurnsTo
  <2> QED
    BY <1>1, <2>1 DEF PageInv, PageShape
<1>3. CASE ~Page!Started
  <2>1. wanted' = On(list, query, tableRows)
    BY <1>3, PageOn DEF Page!TurnsTo
  <2>2. page = 0 /\ seen = {} /\ tied = {}
    BY <1>1, <1>3 DEF Page!Started, PageInv, PageShape
  <2>3. IsFiniteSet(On(list, query, tableRows))
    BY ShapeIsOrdered DEF PageInv
  <2>4. PageSize \in Nat /\ moved \in Nat
    BY DEF Page!ListingsAssumption, PageInv, PageShape
  <2>5. wanted' \ tied \subseteq On(list, query, tableRows)
    BY <2>1
  <2>6. MissedIsMoved(On(list, query, tableRows), Order(query, tableRows), 0, wanted' \ tied,
                      {}, moved)
    BY <2>3, <2>4, <2>5, StartMissesNothing
  <2> QED
    BY <1>1, <2>1, <2>2, <2>3, <2>6
<1> QED
  BY <1>2, <1>3

LEMMA PagesNowHold ==
    ASSUME Page!ListingsAssumption, PageInv
    PROVE  /\ Page!PagesNow \in Nat
           /\ Cardinality(On(list, query, tableRows)) <= Page!PagesNow * PageSize
<1>1. Cardinality(On(list, query, tableRows)) \in Nat
  BY ShapeIsOrdered DEF PageInv
<1>2. Page!PagesNow = (Cardinality(On(list, query, tableRows)) + PageSize - 1) \div PageSize
  BY PageOn, PageCardinality DEF Page!PagesNow
<1>3. PageSize \in Nat \ {0}
  BY DEF Page!ListingsAssumption
<1> QED
  BY <1>1, <1>2, <1>3, PagesHold

\* The reader is given a page.
LEMMA ReadShows ==
    ASSUME Page!ListingsAssumption, PageInv, NEW W, IsFiniteSet(W),
           MissedIsMoved(On(list, query, tableRows), Order(query, tableRows), page,
                         W \ tied, seen, moved),
           Page!Read(page + 1)
    PROVE  /\ page' = page + 1
           /\ MissedIsMoved(On(list, query, tableRows), Order(query, tableRows), page',
                            W \ tied', seen', moved)
<1> DEFINE L == On(list, query, tableRows)  R == Order(query, tableRows)
<1>1. PICK newer \in query.sort.newer : seen' = seen \cup Page!Page(page + 1, newer)
  BY DEF Page!Read
<1>2. page' = page + 1 /\ tied' = tied \cup Page!Ties
  BY DEF Page!Read
<1>3. \A i \in OnPage(L, R, page + 1) : i \notin Page!Ties => i \in seen'
  BY <1>1, PageShows DEF PageInv
<1>4. IsOrder(L, R) /\ page \in Nat /\ moved \in Nat /\ PageSize \in Nat \ {0}
  BY ShapeIsOrdered DEF PageInv, PageShape, Page!ListingsAssumption
<1>5. MissedIsMoved(L, R, page, W \ tied, seen, moved)
  OBVIOUS
<1> HIDE DEF L, R
<1>6. /\ IsFiniteSet(W \ tied) /\ W \ tied' \in SUBSET (W \ tied) /\ seen \subseteq seen'
      /\ OnPage(L, R, page + 1) \cap (W \ tied') \subseteq seen'
  BY <1>1, <1>2, <1>3, FS_Subset
<1>7. MissedIsMoved(L, R, page + 1, W \ tied', seen', moved)
  BY <1>4, <1>5, <1>6, ReadKeepsMissed
<1> QED
  BY <1>2, <1>7 DEF L, R

\* The reader asks for a page, for the number of pages, or for both.
LEMMA ReaderKeepsPages ==
    ASSUME Page!ListingsAssumption, PageInv,
           \/ Page!ReadAtOnce \/ Page!ReadFirst \/ Page!CountFirst
           \/ Page!ReadSecond \/ Page!CountSecond
    PROVE  PageInv'
<1> DEFINE L == On(list, query, tableRows)  R == Order(query, tableRows)
<1>0. PageShape
  BY DEF PageInv
<1>1. /\ page \in Nat /\ pages \in Nat /\ moved \in Nat /\ slipped \in Nat
      /\ IsFiniteSet(wanted) /\ PageSize \in Nat \ {0} /\ PageSize \in Nat
      /\ IsOrder(L, R)
  BY <1>0, ShapeIsOrdered DEF Page!ListingsAssumption, PageShape
<1>2. MissedIsMoved(L, R, page, wanted \ tied, seen, moved)
      /\ CountIsRecent(L, half, pages, slipped)
  BY DEF PageInv
<1>3. /\ Page!PagesNow \in Nat /\ Cardinality(L) <= Page!PagesNow * PageSize
      /\ Cardinality(L) \in Nat
  BY <1>0, PagesNowHold, ShapeIsOrdered
<1>4. ASSUME NEW n, Page!TurnsTo(n)
      PROVE  /\ n = page + 1 /\ half = "none" /\ slipped' = 0 /\ moved' = moved
             /\ tableRows' = tableRows /\ list' = list /\ query' = query /\ IsFiniteSet(wanted')
             /\ MissedIsMoved(L, R, page, wanted' \ tied, seen, moved)
  BY <1>4, TurnKeeps
<1>5. ASSUME NEW W, IsFiniteSet(W), MissedIsMoved(L, R, page, W \ tied, seen, moved),
             Page!Read(page + 1)
      PROVE  page' = page + 1 /\ MissedIsMoved(L, R, page', W \ tied', seen', moved)
  BY <1>5, ReadShows
<1>6. ASSUME tableRows' = tableRows, list' = list, query' = query, IsFiniteSet(wanted'),
             page' \in Nat, pages' \in Nat, moved' = moved, slipped' \in Nat,
             half' \in {"none", "read", "counted"},
             page' > 0 \/ half' = "counted",
             MissedIsMoved(L, R, page', wanted' \ tied', seen', moved),
             CountIsRecent(L, half', pages', slipped'),
             half' = "none" => Cardinality(L) <= pages' * PageSize + slipped'
      PROVE  PageInv'
  <2>1. On(list, query, tableRows)' = L /\ Order(query, tableRows)' = R
    BY <1>6 DEF On, Order, Pairs, Comes, RankOf
  <2>2. PageShape'
    BY <1>0, <1>1, <1>6 DEF PageShape
  <2>3. IsFiniteSet(wanted' \ tied')
    BY <1>6, FS_Subset
  <2> HIDE DEF L, R
  <2>4. half' = "none" /\ page' >= pages'
        => Cardinality((wanted' \ tied') \ seen') <= moved' + slipped'
    BY <1>1, <1>6, <2>3, LastPageLeaves
  <2>5. EndIsSeen(page', half', pages', wanted' \ tied', seen', moved', slipped')
    BY <2>4 DEF EndIsSeen
  <2> QED
    BY <1>6, <2>1, <2>2, <2>5 DEF PageInv
<1> HIDE DEF L, R
<1>7. CASE Page!ReadAtOnce
  <2>1. Page!TurnsTo(page + 1) /\ Page!Read(page + 1) /\ pages' = Page!PagesNow /\ half' = half
    BY <1>7 DEF Page!ReadAtOnce, Page!Count
  <2>2. /\ half = "none" /\ slipped' = 0 /\ moved' = moved
        /\ tableRows' = tableRows /\ list' = list /\ query' = query /\ IsFiniteSet(wanted')
        /\ MissedIsMoved(L, R, page, wanted' \ tied, seen, moved)
    BY <1>4, <2>1
  <2>3. page' = page + 1 /\ MissedIsMoved(L, R, page', wanted' \ tied', seen', moved)
    BY <1>5, <2>1, <2>2
  <2>4. CountIsRecent(L, half', pages', slipped')
    BY <2>1, <2>2 DEF CountIsRecent
  <2>5. Cardinality(L) <= pages' * PageSize + slipped'
    BY <1>1, <1>3, <2>1, <2>2
  <2> QED
    BY <1>1, <1>3, <1>6, <2>1, <2>2, <2>3, <2>4, <2>5
<1>8. CASE Page!ReadFirst
  <2>1. Page!TurnsTo(page + 1) /\ Page!Read(page + 1) /\ pages' = pages /\ half' = "read"
    BY <1>8 DEF Page!ReadFirst
  <2>2. /\ slipped' = 0 /\ moved' = moved
        /\ tableRows' = tableRows /\ list' = list /\ query' = query /\ IsFiniteSet(wanted')
        /\ MissedIsMoved(L, R, page, wanted' \ tied, seen, moved)
    BY <1>4, <2>1
  <2>3. page' = page + 1 /\ MissedIsMoved(L, R, page', wanted' \ tied', seen', moved)
    BY <1>5, <2>1, <2>2
  <2>4. CountIsRecent(L, half', pages', slipped')
    BY <2>1 DEF CountIsRecent
  <2> QED
    BY <1>1, <1>6, <2>1, <2>2, <2>3, <2>4
<1>9. CASE Page!CountFirst
  <2>1. /\ Page!TurnsTo(page + 1) /\ pages' = Page!PagesNow /\ half' = "counted"
        /\ page' = page /\ seen' = seen /\ tied' = tied
    BY <1>9 DEF Page!CountFirst, Page!Count
  <2>2. /\ slipped' = 0 /\ moved' = moved
        /\ tableRows' = tableRows /\ list' = list /\ query' = query /\ IsFiniteSet(wanted')
        /\ MissedIsMoved(L, R, page, wanted' \ tied, seen, moved)
    BY <1>4, <2>1
  <2>3. CountIsRecent(L, half', pages', slipped')
    BY <1>1, <1>3, <2>1, <2>2 DEF CountIsRecent
  <2> QED
    BY <1>1, <1>3, <1>6, <2>1, <2>2, <2>3
<1>10. CASE Page!ReadSecond
  <2>1. /\ half = "counted" /\ half' = "none" /\ slipped' = slipped /\ moved' = moved
        /\ tableRows' = tableRows /\ list' = list /\ query' = query /\ wanted' = wanted
        /\ Page!Read(page + 1) /\ pages' = pages
    BY <1>10 DEF Page!ReadSecond
  <2>2. page' = page + 1 /\ MissedIsMoved(L, R, page', wanted \ tied', seen', moved)
    BY <1>1, <1>2, <1>5, <2>1
  <2>3. CountIsRecent(L, half', pages', slipped')
    BY <2>1 DEF CountIsRecent
  <2>4. Cardinality(L) <= pages' * PageSize + slipped'
    BY <1>2, <2>1 DEF CountIsRecent
  <2> QED
    BY <1>1, <1>6, <2>1, <2>2, <2>3, <2>4
<1>11. CASE Page!CountSecond
  <2>1. /\ half = "read" /\ half' = "none" /\ slipped' = slipped /\ moved' = moved
        /\ tableRows' = tableRows /\ list' = list /\ query' = query /\ wanted' = wanted
        /\ page' = page /\ seen' = seen /\ tied' = tied /\ pages' = Page!PagesNow
    BY <1>11 DEF Page!CountSecond, Page!Count
  <2>2. page > 0
    BY <1>0, <2>1 DEF PageShape
  <2>3. CountIsRecent(L, half', pages', slipped')
    BY <2>1 DEF CountIsRecent
  <2>4. Cardinality(L) <= pages' * PageSize + slipped'
    BY <1>1, <1>3, <2>1
  <2> QED
    BY <1>1, <1>2, <1>3, <1>6, <2>1, <2>2, <2>3, <2>4
<1> QED
  BY <1>7, <1>8, <1>9, <1>10, <1>11

\* An edit or a decision writes one row.
LEMMA ChangeIsOne ==
    ASSUME Page!ListingsAssumption, PageShape, NEW i \in Page!Live, Page!ChangeRow(i)
    PROVE  \E rs \in Seq(Page!Rows \cup {Page!Gone}) :
              /\ Page!Write(rs) /\ OneRow(rs, i) /\ moved < MaxChanges
              /\ DOMAIN rs = DOMAIN tableRows
<1>1. PICK s \in Statuses, k \in IF query.sort.ranked THEN Ranks ELSE {tableRows[i].rank} :
         Page!Write([tableRows EXCEPT ![i].status = s, ![i].rank = k])
  BY DEF Page!ChangeRow
<1>2. i \in DOMAIN tableRows /\ tableRows[i] \in Page!Rows
      /\ tableRows \in Seq(Page!Rows \cup {Page!Gone})
  BY DEF Page!Live, PageShape
<1>3. k \in Ranks
  BY <1>2 DEF Page!Rows
<1> DEFINE r == [tableRows[i] EXCEPT !.status = s, !.rank = k]
<1>4. r \in Page!Rows
  BY <1>2, <1>3 DEF Page!Rows
<1>5. [tableRows EXCEPT ![i].status = s, ![i].rank = k] = [tableRows EXCEPT ![i] = r]
  BY <1>2
<1> HIDE DEF r
<1>6. /\ [tableRows EXCEPT ![i] = r] \in Seq(Page!Rows \cup {Page!Gone})
      /\ DOMAIN [tableRows EXCEPT ![i] = r] = DOMAIN tableRows
  BY <1>2, <1>4
<1>7. Page!Write([tableRows EXCEPT ![i] = r])
  BY <1>1, <1>5, Zenon
<1>8. moved < MaxChanges
  BY DEF Page!ChangeRow, Page!MayMove
<1> QED
  BY <1>2, <1>6, <1>7, <1>8, ExceptIsOne

LEMMA DeleteIsOne ==
    ASSUME PageShape, NEW i \in Page!Live, Page!DeleteRow(i)
    PROVE  \E rs \in Seq(Page!Rows \cup {Page!Gone}) :
              /\ Page!Write(rs) /\ OneRow(rs, i) /\ moved < MaxChanges
              /\ DOMAIN rs = DOMAIN tableRows
<1>1. Page!Write([tableRows EXCEPT ![i] = Page!Gone]) /\ moved < MaxChanges
  BY DEF Page!DeleteRow, Page!MayMove
<1>2. i \in DOMAIN tableRows /\ tableRows \in Seq(Page!Rows \cup {Page!Gone})
  BY DEF Page!Live, PageShape
<1>3. /\ [tableRows EXCEPT ![i] = Page!Gone] \in Seq(Page!Rows \cup {Page!Gone})
      /\ DOMAIN [tableRows EXCEPT ![i] = Page!Gone] = DOMAIN tableRows
  BY <1>2
<1> QED
  BY <1>1, <1>2, <1>3, ExceptIsOne

LEMMA PageStep ==
    ASSUME Page!ListingsAssumption, PageInv, [Page!Next]_(Page!vars)
    PROVE  PageInv'
<1>0. PageShape /\ tableRows \in Seq(Page!Rows \cup {Page!Gone})
  BY DEF PageInv, PageShape
<1>1. CASE UNCHANGED Page!vars
  BY <1>1 DEF Page!vars, Page!readerVars, PageInv, PageShape, On, Order, Pairs, Comes, RankOf
<1>2. CASE Page!CreateRow
  <2>1. PICK r \in NewRows : Page!Write(Append(tableRows, r))
    BY <1>2 DEF Page!CreateRow
  <2>2. r \in Page!Rows
    BY DEF Page!ListingsAssumption
  <2>3. Append(tableRows, r) \in Seq(Page!Rows \cup {Page!Gone})
    BY <1>0, <2>2
  <2> QED
    BY <1>0, <2>1, <2>3, LastIsOne, WriteKeepsPages
<1>3. ASSUME NEW i \in Page!Live, Page!ChangeRow(i) \/ Page!DeleteRow(i) PROVE PageInv'
  <2>1. PICK rs \in Seq(Page!Rows \cup {Page!Gone}) :
           Page!Write(rs) /\ OneRow(rs, i) /\ moved < MaxChanges
    BY <1>0, <1>3, ChangeIsOne, DeleteIsOne
  <2> QED
    BY <2>1, WriteKeepsPages
<1> QED
  BY <1>1, <1>2, <1>3, ReaderKeepsPages DEF Page!Next

\* A reader who turns all pages of a changing list misses no more of its rows than have
\* left it or their place in it meanwhile, and than came between the two statements of the
\* last page; but for rows that share a place.
THEOREM PagesMissOnlyWhatMovedAlways ==
    Page!ListingsAssumption => (Page!Spec => []Page!PagesMissOnlyWhatMoved)
<1> SUFFICES ASSUME Page!ListingsAssumption PROVE Page!Spec => []Page!PagesMissOnlyWhatMoved
  OBVIOUS
<1>1. Page!Init => PageInv
  BY PageInit
<1>2. PageInv /\ [Page!Next]_(Page!vars) => PageInv'
  BY PageStep
<1>3. PageInv => Page!PagesMissOnlyWhatMoved
  <2>1. wanted \ (seen \cup tied) = (wanted \ tied) \ seen
    OBVIOUS
  <2>2. EndIsSeen(page, half, pages, wanted \ tied, seen, moved, slipped)
        => Page!PagesMissOnlyWhatMoved
    BY <2>1, PageCardinality DEF EndIsSeen, Page!PagesMissOnlyWhatMoved, Page!Finished
  <2> QED
    BY <2>2 DEF PageInv
<1> QED
  BY <1>1, <1>2, <1>3, PTL DEF Page!Spec

-----------------------------------------------------------------------------
(* The lists of the catalogue: a ranking exists, and its best are shown.     *)

\* A finite set has an element whose score is the lowest.
LEMMA LowestExists ==
    ASSUME NEW S, IsFiniteSet(S), NEW score, \A x \in S : score[x] \in Int
    PROVE  \A T \in SUBSET S : T # {} => \E m \in T : \A x \in T : score[m] <= score[x]
<1> DEFINE G == {T \in SUBSET S : T # {} => \E m \in T : \A x \in T : score[m] <= score[x]}
<1>1. ASSUME NEW T \in SUBSET S, \A U \in SUBSET T : U # T => U \in G
      PROVE  T \in G
  <2> SUFFICES ASSUME T # {} PROVE \E m \in T : \A x \in T : score[m] <= score[x]
    OBVIOUS
  <2>1. PICK y \in T : TRUE
    OBVIOUS
  <2>2. CASE T \ {y} = {}
    BY <2>1, <2>2
  <2>3. CASE T \ {y} # {}
    <3>1. T \ {y} \in SUBSET T /\ T \ {y} # T
      BY <2>1
    <3>2. PICK l \in T \ {y} : \A x \in T \ {y} : score[l] <= score[x]
      BY <1>1, <2>3, <3>1
    <3>3. score[y] \in Int /\ score[l] \in Int /\ \A x \in T : score[x] \in Int
      OBVIOUS
    <3>4. CASE score[l] <= score[y]
      BY <3>2, <3>3, <3>4
    <3>5. CASE score[y] <= score[l]
      BY <3>2, <3>3, <3>5
    <3>6. score[l] <= score[y] \/ score[y] <= score[l]
      BY <3>3
    <3> QED
      BY <3>4, <3>5, <3>6
  <2> QED
    BY <2>2, <2>3
<1> HIDE DEF G
<1>2. \A T \in SUBSET S : T \in G
  BY <1>1, SubsetInduction
<1> QED
  BY <1>2 DEF G

\* A finite set can be ranked by any score: the element with the lowest one goes last.
LEMMA RankingExists ==
    ASSUME NEW S, IsFiniteSet(S), NEW score, \A x \in S : score[x] \in Int
    PROVE  \A T \in SUBSET S : \E r \in [1..Cardinality(T) -> T] : Shop!InOrder(r, score)
<1> DEFINE G == {T \in SUBSET S : \E r \in [1..Cardinality(T) -> T] : Shop!InOrder(r, score)}
<1>1. ASSUME NEW T \in SUBSET S, \A U \in SUBSET T : U # T => U \in G
      PROVE  T \in G
  <2> SUFFICES \E r \in [1..Cardinality(T) -> T] : Shop!InOrder(r, score)
    OBVIOUS
  <2>1. CASE T = {}
    <3>1. Cardinality(T) = 0
      BY <2>1, FS_EmptySet
    <3>2. PICK r \in [1..0 -> T] : TRUE
      <4>1. [i \in 1..0 |-> i] \in [1..0 -> T]
        OBVIOUS
      <4> QED
        BY <4>1
    <3>3. Shop!InOrder(r, score)
      BY <3>2 DEF Shop!InOrder
    <3> QED
      BY <3>1, <3>2, <3>3
  <2>2. CASE T # {}
    <3>1. PICK m \in T : \A x \in T : score[m] <= score[x]
      BY <2>2, LowestExists
    <3> DEFINE U == T \ {m}  n == Cardinality(U)
    <3>2. U \in SUBSET T /\ U # T /\ IsFiniteSet(T)
      BY FS_Subset
    <3>3. n \in Nat /\ Cardinality(T) = n + 1
      <4>1. IsFiniteSet(U) /\ Cardinality(T) \in Nat /\ n \in Nat
        BY <3>2, FS_Subset, FS_CardinalityType
      <4>2. n = Cardinality(T) - 1
        BY <3>2, FS_RemoveElement
      <4> QED
        BY <4>1, <4>2
    <3>4. PICK q \in [1..n -> U] : Shop!InOrder(q, score)
      BY <1>1, <3>2
    <3> DEFINE r == [i \in 1..(n + 1) |-> IF i = n + 1 THEN m ELSE q[i]]
    <3> HIDE DEF n
    <3>5. \A i \in 1..(n + 1) : i # n + 1 => i \in 1..n
      BY <3>3
    <3>6. \A i \in 1..n : q[i] \in T /\ q[i] # m
      BY <3>4
    <3>7. r \in [1..Cardinality(T) -> T]
      BY <3>3, <3>5, <3>6
    <3>8. ASSUME NEW i \in 1..(n + 1), NEW j \in 1..(n + 1), i < j
          PROVE  r[i] # r[j] /\ score[r[i]] >= score[r[j]]
      <4>1. i \in 1..n /\ r[i] = q[i]
        BY <3>3, <3>8
      <4>2. CASE j = n + 1
        <5>1. r[j] = m
          BY <4>2
        <5>2. q[i] \in T /\ score[q[i]] \in Int /\ score[m] \in Int /\ score[m] <= score[q[i]]
          BY <3>1, <3>6, <4>1
        <5> QED
          BY <3>6, <4>1, <5>1, <5>2
      <4>3. CASE j # n + 1
        <5>1. j \in 1..n /\ r[j] = q[j]
          BY <3>5, <4>3
        <5> QED
          BY <3>4, <3>8, <4>1, <5>1 DEF Shop!InOrder
      <4> QED
        BY <4>2, <4>3
    <3>9. DOMAIN r = 1..(n + 1)
      OBVIOUS
    <3> HIDE DEF r
    <3>10. Shop!InOrder(r, score)
      BY <3>8, <3>9 DEF Shop!InOrder
    <3> QED
      BY <3>7, <3>10
  <2> QED
    BY <2>1, <2>2
<1> HIDE DEF G
<1>2. \A T \in SUBSET S : T \in G
  BY <1>1, SubsetInduction
<1> QED
  BY <1>2 DEF G

\* A list that is ranked and cut: as long as the limit and the set allow, each once, a higher
\* score earlier, and whoever is left out scores no more than anyone on it.
Best(ranked, xs, score, n) ==
    /\ ranked \in Seq(xs)
    /\ Len(ranked) = IF Cardinality(xs) < n THEN Cardinality(xs) ELSE n
    /\ Shop!InOrder(ranked, score)
    /\ \A y \in xs : (\A i \in DOMAIN ranked : ranked[i] # y)
                        => \A i \in DOMAIN ranked : score[ranked[i]] >= score[y]

\* What a list shows is as long as its limit and what is ranked allow, shows nothing twice and
\* nothing before what has a higher score, and leaves out nothing better than it shows.
THEOREM TopIsBest ==
    ASSUME NEW xs, IsFiniteSet(xs), NEW score, \A x \in xs : score[x] \in Int, NEW n \in Nat
    PROVE  Best(Shop!Top(xs, score, n), xs, score, n)
<1> DEFINE c == Cardinality(xs)
           r == CHOOSE q \in [1..c -> xs] : Shop!InOrder(q, score)
           m == IF c < n THEN c ELSE n
           t == SubSeq(r, 1, m)
<1>1. c \in Nat
  BY FS_CardinalityType
<1>2. r \in [1..c -> xs] /\ Shop!InOrder(r, score)
  BY RankingExists
<1>3. Shop!Top(xs, score, n) = t
  BY ShopCardinality DEF Shop!Top
<1> HIDE DEF c, r
<1>4. m \in Nat /\ m <= c
  BY <1>1
<1> HIDE DEF m
<1>5. t \in Seq(xs) /\ Len(t) = m /\ DOMAIN t = 1..m /\ \A i \in 1..m : t[i] = r[i]
  BY <1>1, <1>2, <1>4
<1> HIDE DEF t
<1>6. Shop!InOrder(t, score)
  BY <1>1, <1>2, <1>4, <1>5 DEF Shop!InOrder
<1>7. ASSUME NEW y \in xs, \A i \in 1..m : t[i] # y, NEW i \in 1..m
      PROVE  score[t[i]] >= score[y]
  <2>1. r \in Injection(1..c, xs)
    <3>1. ASSUME NEW a \in 1..c, NEW b \in 1..c, a # b PROVE r[a] # r[b]
      <4>1. a < b \/ b < a
        BY <1>1, <3>1
      <4> QED
        BY <1>2, <4>1 DEF Shop!InOrder
    <3>2. \A a, b \in 1..c : r[a] = r[b] => a = b
      BY <3>1
    <3> QED
      BY <1>2, <3>2 DEF Injection, IsInjective
  <2>2. r \in Surjection(1..c, xs)
    <3>1. IsFiniteSet(1..c) /\ Cardinality(1..c) = c
      BY <1>1, FS_Interval
    <3> QED
      BY <2>1, <3>1, FS_Injection DEF c
  <2>3. PICK k \in 1..c : r[k] = y
    BY <2>2 DEF Surjection
  <2>4. i < k
    BY <1>1, <1>4, <1>5, <1>7, <2>3
  <2> QED
    BY <1>1, <1>2, <1>4, <1>5, <2>3, <2>4 DEF Shop!InOrder
<1> QED
  BY <1>3, <1>5, <1>6, <1>7 DEF Best, m, c

-----------------------------------------------------------------------------
(* The types of the catalogue and of what its lists show.                    *)

\* The catalogue sums as the lemmas on sums do.
LEMMA ShopSums == \A f, S : Shop!MapThenSumSet(LAMBDA x : f[x], S) = SumOf(f, S)
  BY DEF SumOf, Shop!MapThenSumSet, MapThenSumSet, MapThenFoldSet, Shop!MapThenFoldSet

\* Comments are added while all artworks together have fewer than the bound.
LEMMA CommentsBounded ==
    ASSUME Shop!CatalogueAssumption, comments \in [Artworks -> 0..MaxComments], Shop!Next
    PROVE  comments' \in [Artworks -> 0..MaxComments]
<1>1. MaxComments \in Nat /\ IsFiniteSet(Artworks)
  BY ShopFinite DEF Shop!CatalogueAssumption
<1>2. ASSUME NEW a \in Artworks, Shop!Offer(a) PROVE comments' \in [Artworks -> 0..MaxComments]
  <2>1. CASE Shop!Create(a)
    BY <2>1 DEF Shop!Create
  <2>2. CASE Shop!RemoveArtwork(a)
    BY <1>1, <2>2 DEF Shop!RemoveArtwork, Shop!Delete
  <2>3. CASE \E s \in Shop!ArtworkStatus : Shop!UpdateStatus(a, s)
    BY <2>3 DEF Shop!UpdateStatus
  <2>4. CASE Shop!AddComment(a)
    <3>1. comments' = [comments EXCEPT ![a] = @ + 1] /\ SumOf(comments, Artworks) < MaxComments
      BY <2>4, ShopSums DEF Shop!AddComment
    <3>2. \A b \in Artworks : comments[b] \in Nat
      BY <1>1
    <3>3. comments[a] <= SumOf(comments, Artworks) /\ SumOf(comments, Artworks) \in Nat
      <4>1. comments[a] <= SumOf(comments, Artworks)
        BY <1>1, <3>2, SumBound
      <4>2. SumOf(comments, Artworks) \in Nat
        BY <1>1, <3>2, SumType
      <4> QED
        BY <4>1, <4>2
    <3>4. comments[a] + 1 \in 0..MaxComments
      BY <1>1, <3>1, <3>2, <3>3
    <3> QED
      BY <3>1, <3>4
  <2>5. CASE Shop!DeleteComment(a)
    BY <1>1, <2>5 DEF Shop!DeleteComment
  <2> QED
    BY <1>2, <2>1, <2>2, <2>3, <2>4, <2>5 DEF Shop!Offer
<1>3. ASSUME NEW o \in ShopOrders, Shop!Sell(o) PROVE comments' = comments
  BY <1>3
  DEF Shop!Sell, Shop!CreateOrder, Shop!CancelOrder, Shop!CompleteOrder, Shop!MarkArtworksSold,
      Shop!ConfirmReceipt, Shop!OpenDispute, Shop!SettleForSeller, Shop!Refund, Shop!Move, Shop!Confirm, Shop!Resolve
<1> QED
  BY <1>2, <1>3 DEF Shop!Next

\* A dispute is about one artwork of its order, for as long as it is open.
OneDisputed(o) ==
    /\ about[o] \subseteq bought[o] /\ bought[o] \subseteq ItemsOf[o]
    /\ about[o] # {} <=> receipt[o] = "DISPUTED"
    /\ \A a, b \in about[o] : a = b

OrdersTyped ==
    /\ order \in [ShopOrders -> Shop!OrderStatus \cup {"none"}]
    /\ selling \in SUBSET ShopOrders
    /\ receipt \in [ShopOrders -> {"NONE", "CONFIRMED", "DISPUTED", "ORPHANED", "RESOLVED"}]
    /\ about \in [ShopOrders -> SUBSET Artworks]
    /\ \A o \in ShopOrders : OneDisputed(o)

PeopleTyped ==
    /\ banned \subseteq Artists \ removed /\ removed \subseteq Artists
    /\ DOMAIN categoriesOf = Artworks
    /\ \A a \in Artworks : categoriesOf[a] \subseteq CategoriesOf[a]

ShopTypes ==
    ShopShape /\ comments \in [Artworks -> 0..MaxComments] /\ OrdersTyped /\ PeopleTyped

LEMMA TypesInit == Shop!ListsAssumption /\ Shop!ListsInit => ShopTypes
  BY DEF Shop!ListsAssumption, Shop!CatalogueAssumption, Shop!ListsInit, Shop!Init, ShopTypes,
         ShopShape, OrdersTyped, OneDisputed, PeopleTyped

\* What goes with deleted artworks: the dispute about one of them.
LEMMA DeleteKeepsTypes ==
    ASSUME ShopTypes, NEW as, Shop!Delete(as)  PROVE OrdersTyped'
<1> USE DEF ShopTypes, ShopShape, OrdersTyped, OneDisputed
<1>1. /\ order' = order /\ selling' = selling /\ bought' = [o \in ShopOrders |-> bought[o] \ as]
      /\ about' = [o \in ShopOrders |-> about[o] \ as]
      /\ receipt' = [o \in ShopOrders |-> IF about[o] \cap as # {} THEN "ORPHANED" ELSE receipt[o]]
  BY DEF Shop!Delete
<1>2. ASSUME NEW o \in ShopOrders PROVE OneDisputed(o)'
  <2>1. CASE about[o] \cap as # {}
    <3>1. \A a \in about[o] : a \in as
      <4>1. \A a, b \in about[o] : a = b
        OBVIOUS
      <4> QED
        BY ONLY <2>1, <4>1
    <3>2. about'[o] = {} /\ receipt'[o] = "ORPHANED" /\ bought'[o] \subseteq ItemsOf[o]
      BY <1>1, <2>1, <3>1
    <3> QED
      BY ONLY <3>2 DEF OneDisputed
  <2>2. CASE about[o] \cap as = {}
    <3>1. about'[o] = about[o] /\ receipt'[o] = receipt[o] /\ bought'[o] = bought[o] \ as
      BY <1>1, <2>2
    <3> QED
      BY <2>2, <3>1
  <2> QED
    BY <2>1, <2>2
<1>3. /\ receipt' \in [ShopOrders -> {"NONE", "CONFIRMED", "DISPUTED", "ORPHANED", "RESOLVED"}]
      /\ about' \in [ShopOrders -> SUBSET Artworks]
  BY <1>1
<1> QED
  BY <1>1, <1>2, <1>3

\* A dispute that opens is about the first of the items, if any is left.
LEMMA OpenKeepsTypes ==
    ASSUME Shop!CatalogueAssumption, ShopTypes, NEW o \in ShopOrders, Shop!OpenDispute(o)
    PROVE  OrdersTyped'
<1> DEFINE first == {a \in bought[o] : \A b \in bought[o] : a <= b}
           to == IF bought[o] = {} THEN "ORPHANED" ELSE "DISPUTED"
<1>1. /\ receipt' = [receipt EXCEPT ![o] = to] /\ receipt[o] = "NONE"
      /\ order' = [order EXCEPT ![o] = "DISPUTED"]
      /\ about' = [about EXCEPT ![o] = first] /\ bought' = bought /\ selling' = selling
  BY DEF Shop!OpenDispute, Shop!Confirm, Shop!Move
<1>2. bought[o] \subseteq Nat /\ bought[o] \subseteq Artworks
  BY DEF Shop!CatalogueAssumption, ShopTypes, ShopShape
<1>3. \A a, b \in first : a = b
  BY <1>2
<1>4. first # {} <=> bought[o] # {}
  <2>1. ASSUME bought[o] # {} PROVE first # {}
    <3> DEFINE number == [a \in Artworks |-> a]
    <3>1. IsFiniteSet(Artworks) /\ \A a \in Artworks : number[a] \in Int
      BY ShopFinite DEF Shop!CatalogueAssumption
    <3>2. \A a \in bought[o] : number[a] = a
      BY <1>2
    <3> HIDE DEF number
    <3>3. PICK a \in bought[o] : \A b \in bought[o] : number[a] <= number[b]
      BY <1>2, <2>1, <3>1, LowestExists
    <3> QED
      BY <3>2, <3>3
  <2> QED
    BY <2>1
<1>5. first \subseteq bought[o]
  OBVIOUS
<1> HIDE DEF first
<1>6. ASSUME NEW p \in ShopOrders PROVE OneDisputed(p)'
  <2>1. CASE p = o
    BY <1>1, <1>3, <1>4, <1>5, <2>1 DEF ShopTypes, OrdersTyped, OneDisputed
  <2>2. CASE p # o
    BY <1>1, <2>2 DEF ShopTypes, OrdersTyped, OneDisputed
  <2> QED
    BY <2>1, <2>2
<1>7. /\ order' \in [ShopOrders -> Shop!OrderStatus \cup {"none"}]
      /\ selling' \in SUBSET ShopOrders
      /\ receipt' \in [ShopOrders -> {"NONE", "CONFIRMED", "DISPUTED", "ORPHANED", "RESOLVED"}]
      /\ about' \in [ShopOrders -> SUBSET Artworks]
  BY <1>1, <1>2, <1>5 DEF ShopTypes, OrdersTyped, Shop!OrderStatus
<1> QED
  BY <1>6, <1>7 DEF OrdersTyped

\* The other steps of an order.
LEMMA SellKeepsTypes ==
    ASSUME Shop!CatalogueAssumption, ShopTypes, NEW o \in ShopOrders, Shop!Sell(o)
    PROVE  OrdersTyped'
<1> USE DEF ShopTypes, ShopShape, OrdersTyped, OneDisputed, Shop!Move, Shop!Write,
            Shop!OrderStatus
<1>1. CASE Shop!CreateOrder(o)
  BY <1>1 DEF Shop!CreateOrder, Shop!CatalogueAssumption
<1>2. CASE Shop!CancelOrder(o)
  BY <1>2 DEF Shop!CancelOrder
<1>3. CASE Shop!CompleteOrder(o) \/ Shop!MarkArtworksSold(o)
  BY <1>3 DEF Shop!CompleteOrder, Shop!MarkArtworksSold
<1>4. CASE Shop!ConfirmReceipt(o)
  BY <1>4 DEF Shop!ConfirmReceipt, Shop!Confirm
<1>5. CASE Shop!OpenDispute(o)
  BY <1>5, OpenKeepsTypes
<1>6. CASE Shop!SettleForSeller(o)
  BY <1>6 DEF Shop!SettleForSeller, Shop!Resolve
<1>7. CASE Shop!Refund(o)
  BY <1>7 DEF Shop!Refund, Shop!Resolve
<1> QED
  BY <1>1, <1>2, <1>3, <1>4, <1>5, <1>6, <1>7 DEF Shop!Sell

LEMMA TypesStep ==
    ASSUME Shop!CatalogueAssumption, ShopInv, ShopTypes, [Shop!ListsNext]_(Shop!listVars)
    PROVE  ShopTypes'
<1>0. ShopShape'
  BY ShopStep DEF ShopInv
<1>1. CASE Shop!Next /\ UNCHANGED <<banned, removed, categoriesOf>>
  <2>1. comments' \in [Artworks -> 0..MaxComments]
    BY <1>1, CommentsBounded DEF ShopTypes
  <2>2. PeopleTyped'
    BY <1>1 DEF ShopTypes, PeopleTyped
  <2>3. ASSUME NEW a \in Artworks, Shop!Offer(a) PROVE OrdersTyped'
    <3>1. CASE Shop!RemoveArtwork(a)
      BY <3>1, DeleteKeepsTypes DEF Shop!RemoveArtwork
    <3>2. CASE ~Shop!RemoveArtwork(a)
      <4>1. UNCHANGED <<order, selling, receipt, about, bought>>
        BY <2>3, <3>2 DEF Shop!Offer, Shop!Create, Shop!UpdateStatus, Shop!AddComment, Shop!DeleteComment
      <4> QED
        BY <4>1 DEF ShopTypes, OrdersTyped, OneDisputed
    <3> QED
      BY <3>1, <3>2
  <2>4. OrdersTyped'
    BY <1>1, <2>3, SellKeepsTypes DEF Shop!Next
  <2> QED
    BY <1>0, <2>1, <2>2, <2>4 DEF ShopTypes
<1>2. ASSUME NEW x \in Artists, Shop!RemoveUser(x) PROVE ShopTypes'
  <2> DEFINE D == {a \in Shop!Existing : ArtistOf[a] = x}
  <2>1. /\ removed' = removed \cup {x} /\ banned' = banned \ {x} /\ Shop!Delete(D)
        /\ categoriesOf' = categoriesOf
    BY <1>2 DEF Shop!RemoveUser
  <2>2. OrdersTyped'
    BY <2>1, DeleteKeepsTypes
  <2>3. comments' \in [Artworks -> 0..MaxComments]
    <3>1. comments' = [a \in Artworks |-> IF a \in D THEN 0 ELSE comments[a]]
      BY <2>1 DEF Shop!Delete
    <3> HIDE DEF D
    <3> QED
      BY <3>1 DEF ShopTypes, Shop!CatalogueAssumption
  <2>4. PeopleTyped'
    BY <2>1 DEF ShopTypes, PeopleTyped
  <2> QED
    BY <1>0, <2>2, <2>3, <2>4 DEF ShopTypes
<1>3. ASSUME NEW x \in Artists, NEW ban \in BOOLEAN, Shop!UpdateUser(x, ban) PROVE ShopTypes'
  <2>1. /\ UNCHANGED <<order, selling, receipt, about, bought, comments, removed, categoriesOf>>
        /\ x \notin removed
        /\ banned' \in {banned \cup {x}, banned \ {x}}
    BY <1>3 DEF Shop!UpdateUser, Shop!vars, Shop!Users
  <2> QED
    BY <1>0, <2>1 DEF ShopTypes, OrdersTyped, OneDisputed, PeopleTyped
<1>4. ASSUME NEW a \in Artworks, NEW cs \in {{}, CategoriesOf[a]}, Shop!UpdateArtwork(a, cs)
      PROVE  ShopTypes'
  <2>1. /\ UNCHANGED <<order, selling, receipt, about, bought, comments, removed, banned>>
        /\ categoriesOf' = [categoriesOf EXCEPT ![a] = cs]
    BY <1>4 DEF Shop!UpdateArtwork, Shop!vars, Shop!accountVars
  <2> QED
    BY <1>0, <2>1 DEF ShopTypes, OrdersTyped, OneDisputed, PeopleTyped
<1>5. CASE UNCHANGED Shop!listVars
  BY <1>0, <1>5
  DEF Shop!listVars, Shop!vars, Shop!accountVars, ShopTypes, OrdersTyped, OneDisputed, PeopleTyped
<1>6. \A a, cs : Shop!UpdateArtwork(a, cs) => a \in Artworks
  BY DEF Shop!UpdateArtwork, Shop!Existing
<1> QED
  BY <1>1, <1>2, <1>3, <1>4, <1>5, <1>6
  DEF Shop!ListsNext, Shop!DeactivateAccount, Shop!ReactivateAccount, Shop!accountVars

\* What a cut ranking shows comes out of what is ranked.
LEMMA TopShows ==
    ASSUME NEW xs, IsFiniteSet(xs), NEW score, \A x \in xs : score[x] \in Int, NEW n \in Nat
    PROVE  Shop!Top(xs, score, n) \in Seq(xs)
<1>1. Best(Shop!Top(xs, score, n), xs, score, n)
  BY TopIsBest
<1> QED
  BY <1>1 DEF Best

\* The scores are numbers.
LEMMA ScoresCount ==
    ASSUME Shop!ListsAssumption, ShopTypes
    PROVE  /\ \A x \in Artists : Shop!Sales[x] \in Nat /\ Shop!ViewsOf[x] \in Nat
           /\ \A a \in Artworks : Shop!Engagement[a] \in Nat
           /\ \A c \in Shop!Collections : Shop!CollectionScore[c] \in Nat
<1>1. /\ IsFiniteSet(Artworks) /\ IsFiniteSet(ShopOrders)
      /\ \A a \in Artworks : Price[a] \in Nat /\ Views[a] \in Nat /\ Likes[a] \in Nat
                             /\ FavoritesOf[a] \in Nat
      /\ MaxComments \in Nat
  BY ShopFinite DEF Shop!ListsAssumption, Shop!CatalogueAssumption
<1>2. ASSUME NEW x \in Artists PROVE Shop!Sales[x] \in Nat
  <2> DEFINE paid == [o \in ShopOrders |->
                         Shop!MapThenSumSet(LAMBDA a : Price[a], bought[o] \cap Shop!OnSale(x))]
             P == {o \in ShopOrders : order[o] = "PAID"}
  <2>1. Shop!Sales[x] = Shop!MapThenSumSet(LAMBDA o : paid[o], P)
    <3>1. Shop!Sales[x] = Shop!SalesOf(Shop!OnSale(x))
      BY <1>2 DEF Shop!Sales
    <3> QED
      BY <3>1, Zenon DEF Shop!SalesOf
  <2>2. ASSUME NEW o \in ShopOrders PROVE paid[o] \in Nat
    <3>1. bought[o] \cap Shop!OnSale(x) \in SUBSET Artworks
      BY DEF Shop!OnSale
    <3>2. paid[o] = SumOf(Price, bought[o] \cap Shop!OnSale(x))
      BY ShopSums
    <3> QED
      BY <1>1, <3>1, <3>2, SumType
  <2> HIDE DEF paid
  <2>3. Shop!Sales[x] = SumOf(paid, P)
    BY <2>1, ShopSums
  <2>4. P \in SUBSET ShopOrders
    OBVIOUS
  <2> QED
    BY <1>1, <2>2, <2>3, <2>4, SumType
<1>3. ASSUME NEW x \in Artists PROVE Shop!ViewsOf[x] \in Nat
  <2>1. Shop!ViewsOf[x] = SumOf(Views, Shop!OnSale(x)) /\ Shop!OnSale(x) \in SUBSET Artworks
    BY ShopSums DEF Shop!ViewsOf, Shop!OnSale
  <2> QED
    BY <1>1, <2>1, SumType
<1>4. ASSUME NEW a \in Artworks PROVE Shop!Engagement[a] \in Nat
  <2>1. comments[a] \in Nat
    BY <1>1 DEF ShopTypes
  <2>2. Shop!Engagement[a] = 2 * Views[a] + 6 * Likes[a] + 4 * comments[a] + 5 * FavoritesOf[a]
    BY DEF Shop!Engagement
  <2> QED
    BY <1>1, <2>1, <2>2
<1>5. ASSUME NEW c \in Shop!Collections PROVE Shop!CollectionScore[c] \in Nat
  <2> DEFINE inIt == {a \in Shop!Existing : c \in CollectionsOf[a]}
  <2>1. Shop!CollectionScore[c] = SumOf(Shop!Engagement, inIt) /\ inIt \in SUBSET Artworks
    BY ShopSums DEF Shop!CollectionScore, Shop!Existing
  <2> HIDE DEF inIt
  <2> QED
    BY <1>1, <1>4, <2>1, SumType
<1> QED
  BY <1>2, <1>3, <1>4, <1>5

\* Artworks that share a group with another one.
LEMMA AlikeShows ==
    ASSUME Shop!ListsAssumption, NEW a \in Artworks, NEW groups,
           \A b \in Artworks : IsFiniteSet(groups[b])
    PROVE  Shop!Alike(a, groups) \in Seq(Shop!Shown \ {a})
<1> DEFINE shared == [b \in Artworks |-> Shop!Cardinality(groups[a] \cap groups[b])]
           near == {b \in Shop!Shown \ {a} : shared[b] > 0}
<1>1. IsFiniteSet(Artworks) /\ ListLimit \in Nat
  BY ShopFinite DEF Shop!ListsAssumption, Shop!CatalogueAssumption
<1>2. \A b \in Artworks : shared[b] \in Int
  <2>1. ASSUME NEW b \in Artworks PROVE shared[b] \in Int
    <3>1. IsFiniteSet(groups[a] \cap groups[b])
      BY FS_Intersection
    <3>2. Cardinality(groups[a] \cap groups[b]) \in Nat
      BY <3>1, FS_CardinalityType
    <3>3. shared[b] = Cardinality(groups[a] \cap groups[b])
      BY ShopCardinality
    <3> QED
      BY <3>2, <3>3
  <2> QED
    BY <2>1
<1>3. Shop!Alike(a, groups) = Shop!Top(near, shared, ListLimit)
  BY DEF Shop!Alike
<1> HIDE DEF shared
<1>4. near \in SUBSET Artworks /\ near \subseteq Shop!Shown \ {a}
  BY DEF Shop!Shown
<1> HIDE DEF near
<1>5. IsFiniteSet(near)
  BY <1>1, <1>4, FS_Subset
<1>6. Shop!Top(near, shared, ListLimit) \in Seq(near)
  BY <1>1, <1>2, <1>4, <1>5, TopShows
<1>7. Shop!Alike(a, groups) \in Seq(near)
  BY <1>3, <1>6
<1> QED
  BY <1>4, <1>7

LEMMA TypesAreShown == ASSUME Shop!ListsAssumption, ShopTypes PROVE Shop!ListsTypeOK
<1>1. /\ IsFiniteSet(Artworks) /\ IsFiniteSet(Artists) /\ ListLimit \in Nat
      /\ \A x \in Artists : Heat[x] \in Int
      /\ \A a \in Artworks : IsFiniteSet(CategoriesOf[a]) /\ IsFiniteSet(CollectionsOf[a])
  BY ShopFinite DEF Shop!ListsAssumption, Shop!CatalogueAssumption
<1>2. Shop!TypeOK
  BY DEF ShopTypes, ShopShape, OrdersTyped, OneDisputed, Shop!TypeOK
<1>3. Shop!Sellers \subseteq Artists
  BY DEF Shop!Sellers, Shop!Listed, Shop!Users
<1>4. ASSUME NEW S \in SUBSET Shop!Sellers, NEW score, \A x \in Artists : score[x] \in Int
      PROVE  Shop!Top(S, score, ListLimit) \in Seq(S)
  <2>1. IsFiniteSet(S)
    BY <1>1, <1>3, FS_Subset
  <2> QED
    BY <1>1, <1>3, <1>4, <2>1, TopShows
<1>5. Shop!MostViewedArtists \in Seq(Shop!Sellers)
  <2> DEFINE S == {x \in Shop!Sellers : Shop!ViewsOf[x] > 0}
  <2>1. Shop!Top(S, Shop!ViewsOf, ListLimit) \in Seq(S)
    BY <1>4, ScoresCount
  <2>2. Shop!MostViewedArtists \in Seq(S)
    BY <2>1, Zenon DEF Shop!MostViewedArtists
  <2>3. S \subseteq Shop!Sellers
    OBVIOUS
  <2> HIDE DEF S
  <2> QED
    BY <2>2, <2>3
<1>6. Shop!TopSellingArtists \in Seq(Shop!Sellers)
  <2> DEFINE S == {x \in Shop!Sellers : Shop!Sales[x] > 0}
  <2>1. Shop!Top(S, Shop!Sales, ListLimit) \in Seq(S)
    BY <1>4, ScoresCount
  <2>2. Shop!TopSellingArtists \in Seq(S)
    BY <2>1 DEF Shop!TopSellingArtists
  <2>3. S \subseteq Shop!Sellers
    OBVIOUS
  <2> HIDE DEF S
  <2> QED
    BY <2>2, <2>3
<1>7. ASSUME NEW t PROVE Shop!HotArtists(t) \in Seq(Shop!ArtistsByTalentType(t))
  <2> DEFINE S == {x \in Shop!Sellers : Heat[x] > 0 /\ t \in TalentsOf[x]}
  <2>1. Shop!Top(S, Heat, ListLimit) \in Seq(S)
    BY <1>1, <1>4
  <2>2. Shop!HotArtists(t) \in Seq(S)
    BY <2>1 DEF Shop!HotArtists
  <2>3. S \subseteq Shop!ArtistsByTalentType(t)
    BY DEF Shop!ArtistsByTalentType
  <2> HIDE DEF S
  <2> QED
    BY <2>2, <2>3
<1>8. ASSUME NEW a \in Artworks
      PROVE  {Shop!SimilarArtworks(a), Shop!SimilarArtworksByCategory(a)} \subseteq Seq(Shop!Shown \ {a})
  <2>1. \A b \in Artworks : IsFiniteSet(categoriesOf[b])
    BY <1>1, FS_Subset DEF ShopTypes, PeopleTyped
  <2> QED
    BY <1>1, <2>1, AlikeShows DEF Shop!SimilarArtworks, Shop!SimilarArtworksByCategory
<1>9. Shop!HotCollections \in Seq(Shop!Collections)
  <2>1. IsFiniteSet(Shop!Collections)
    <3> DEFINE cs == {CollectionsOf[a] : a \in Shop!Existing}
    <3>1. IsFiniteSet(Shop!Existing) /\ Shop!Existing \subseteq Artworks
      BY <1>1, FS_Subset DEF Shop!Existing
    <3>2. IsFiniteSet(cs)
      <4> DEFINE f == [a \in Shop!Existing |-> CollectionsOf[a]]
      <4>1. f \in Surjection(Shop!Existing, cs)
        BY DEF Surjection
      <4> QED
        BY <3>1, <4>1, FS_Surjection
    <3> QED
      BY <1>1, <3>1, <3>2, FS_UNION DEF Shop!Collections
  <2>2. ListLimit \in Nat /\ \A c \in Shop!Collections : Shop!CollectionScore[c] \in Int
    BY <1>1, ScoresCount
  <2>3. Shop!Top(Shop!Collections, Shop!CollectionScore, ListLimit) \in Seq(Shop!Collections)
    BY <2>1, <2>2, TopShows
  <2> QED
    BY <2>3, Zenon DEF Shop!HotCollections
<1> QED
  BY <1>2, <1>5, <1>6, <1>7, <1>8, <1>9 DEF ShopTypes, PeopleTyped, Shop!ListsTypeOK, Shop!Users

\* The catalogue and what its lists show have their types: whatever ranks or matches artworks
\* and artists shows some of those it ranks.
THEOREM ListsTypeCorrect ==
    Shop!ListsAssumption => (Shop!ListsSpec => []Shop!ListsTypeOK)
<1> SUFFICES ASSUME Shop!ListsAssumption PROVE Shop!ListsSpec => []Shop!ListsTypeOK
  OBVIOUS
<1>1. Shop!CatalogueAssumption
  BY DEF Shop!ListsAssumption
<1>2. Shop!ListsInit => ShopInv /\ ShopTypes
  BY ShopInit, TypesInit
<1>3. ShopInv /\ ShopTypes /\ [Shop!ListsNext]_(Shop!listVars) => (ShopInv /\ ShopTypes)'
  BY <1>1, ShopStep, TypesStep
<1>4. ShopTypes => Shop!ListsTypeOK
  BY TypesAreShown
<1> QED
  BY <1>2, <1>3, <1>4, PTL DEF Shop!ListsSpec

-----------------------------------------------------------------------------
(* The types of a checkout: every amount is a price at a rate that was       *)
(* answered, and no rate is from the future.                                 *)

Requested ==
    [step : Cart!Steps, of : Cart!Orders, read : Cart!Metas, asked : Cart!Times]

\* A request that is about to charge holds an amount, and a rate that is older than its start.
CartTypes ==
    /\ Cart!TypeOK
    /\ cache.at <= now /\ (cache = Cart!NoRate \/ cache.rate \in Rates)
    /\ \A o \in Cart!Orders : meta[o].fetched <= now
    /\ \A w \in Workers : paymentRequest[w] # Cart!Done =>
          /\ paymentRequest[w].read.fetched <= now
          /\ paymentRequest[w].step \in {"write", "charge"} =>
                /\ paymentRequest[w].read.fetched <= paymentRequest[w].asked
                /\ paymentRequest[w].read.amount > 0

LEMMA CartTypesInit == Cart!CheckoutAssumption /\ Cart!Init => CartTypes
  BY DEF Cart!CheckoutAssumption, Cart!Init, CartTypes, Cart!TypeOK, Cart!Times, Cart!Metas,
         Cart!OrderStatuses, Cart!NoRate, Cart!NoMeta, Cart!Done

\* A quote is a price at a rate that was answered by now.
LEMMA QuoteTyped ==
    ASSUME Cart!CheckoutAssumption, CartTypes, NEW o \in Cart!Orders, NEW p \in Prices,
           NEW usd \in Cart!UsdToEtb
    PROVE  /\ usd \in [rate : Rates, at : Cart!Times] /\ usd.at <= now
           /\ Cart!Quote(o, p, usd) \in Cart!Metas /\ Cart!Quote(o, p, usd).fetched <= now
<1> USE DEF Cart!CheckoutAssumption
<1>1. now \in Cart!Times /\ now \in Nat /\ cache \in [rate : Rates \cup {0}, at : Cart!Times]
      /\ Cart!Times \subseteq Nat
  BY DEF CartTypes, Cart!TypeOK, Cart!Times
<1>2. usd \in [rate : Rates, at : Cart!Times] /\ usd.at <= now
  <2>1. CASE Cart!Cached
    BY <1>1, <2>1 DEF CartTypes, Cart!UsdToEtb, Cart!Cached
  <2>2. CASE ~Cart!Cached
    BY <1>1, <2>2 DEF Cart!UsdToEtb
  <2> QED
    BY <2>1, <2>2
<1>3. p \in Cart!Money /\ p * usd.rate \in Cart!Money
  <2>1. p = p * 1 /\ 1 \in Rates \cup {1}
    OBVIOUS
  <2>2. usd.rate \in Rates \cup {1}
    BY <1>2
  <2>3. p \in Cart!Money
    BY <2>1 DEF Cart!Money
  <2>4. p * usd.rate \in Cart!Money
    <3>1. \E a \in Prices, r \in Rates \cup {1} : p * usd.rate = a * r
      BY <2>2, Zenon
    <3> HIDE DEF Cart!CheckoutAssumption
    <3> QED
      BY ONLY <3>1, SMT DEF Cart!Money
  <2> QED
    BY <2>3, <2>4
<1>4. CASE ProviderOf[o] = "paypal"
  <2>1. Cart!Quote(o, p, usd) = [Cart!NoMeta EXCEPT !.amount = p, !.fetched = now, !.locked = now]
    BY <1>4 DEF Cart!Quote
  <2>2. Cart!Quote(o, p, usd) = [amount |-> p, fetched |-> now, locked |-> now,
                                 siblings |-> {}, ref |-> "none"]
    BY <2>1 DEF Cart!NoMeta
  <2>3. {} \in SUBSET Cart!Orders
    OBVIOUS
  <2> QED
    BY <1>1, <1>2, <1>3, <2>2, <2>3 DEF Cart!Metas
<1>5. CASE ProviderOf[o] # "paypal"
  <2>1. Cart!Quote(o, p, usd)
           = [Cart!NoMeta EXCEPT !.amount = p * usd.rate, !.fetched = usd.at, !.locked = now]
    BY <1>5 DEF Cart!Quote
  <2>2. usd.at \in Cart!Times
    BY <1>2
  <2> QED
    BY <1>1, <1>2, <1>3, <2>1, <2>2 DEF Cart!NoMeta, Cart!Metas
<1> QED
  BY <1>2, <1>4, <1>5

\* One request goes on, with orders and metadata that have their types, and no metadata from
\* the future.
CheckoutTyped ==
    /\ checkoutOrder \in [Cart!Orders -> Cart!OrderStatuses]
    /\ completed \in SUBSET Cart!Orders
    /\ delivery \in [Cart!Orders -> {"none", "clean", "open", "closed"}]

Advanced(w, r) ==
    /\ paymentRequest' = [paymentRequest EXCEPT ![w] = r]
    /\ UNCHANGED <<now, cache, total, preparing, outcome>>

LEMMA RequestKeepsTypes ==
    ASSUME Cart!CheckoutAssumption, CartTypes, NEW w \in Workers, NEW r \in Requested \cup {Cart!Done},
           Advanced(w, r), CheckoutTyped', NEW m \in [Cart!Orders -> Cart!Metas], meta' = m,
           \A o \in Cart!Orders : m[o].fetched <= now,
           charges' \subseteq [of : Cart!Orders, amount : Cart!Money, rateAge : Cart!Times],
           r # Cart!Done =>
               /\ r.read.fetched <= now
               /\ r.step \in {"write", "charge"} => r.read.fetched <= r.asked /\ r.read.amount > 0
    PROVE  CartTypes'
<1>1. UNCHANGED <<now, cache, total, preparing, outcome>>
      /\ paymentRequest' = [paymentRequest EXCEPT ![w] = r]
  BY DEF Advanced
<1>2. paymentRequest \in [Workers -> {Cart!Done} \cup Requested]
  BY DEF CartTypes, Cart!TypeOK, Requested
<1>3. paymentRequest' \in [Workers -> {Cart!Done} \cup Requested]
  BY <1>1, <1>2
<1>4. Cart!TypeOK'
  BY <1>1, <1>3 DEF CartTypes, Cart!TypeOK, Requested, CheckoutTyped
<1>5. \A v \in Workers : paymentRequest'[v] = IF v = w THEN r ELSE paymentRequest[v]
  BY <1>1, <1>2
<1> QED
  BY <1>1, <1>4, <1>5 DEF CartTypes

\* A request that has gone on without writing, and one that has written.
LEMMA StepAdvances ==
    ASSUME CartTypes, NEW w, NEW r, Cart!Step(w, r)
    PROVE  Advanced(w, r) /\ CheckoutTyped'
  BY DEF Cart!Step, Cart!orderVars, Cart!prepVars, Advanced, CheckoutTyped, CartTypes, Cart!TypeOK

LEMMA WritingAdvances ==
    ASSUME CartTypes, NEW w \in Workers, NEW s \in Cart!OrderStatuses, Cart!Writing(w, s),
           completed' \in SUBSET Cart!Orders,
           delivery' \in [Cart!Orders -> {"none", "clean", "open", "closed"}]
    PROVE  Advanced(w, Cart!Done) /\ CheckoutTyped' /\ charges' = charges
  BY DEF Cart!Writing, Cart!prepVars, Advanced, CheckoutTyped, CartTypes, Cart!TypeOK

LEMMA ReadingKeepsTypes ==
    ASSUME Cart!CheckoutAssumption, CartTypes, NEW w \in Workers, NEW o \in Cart!Orders,
           NEW step \in Cart!Steps, NEW asked \in Cart!Times, Cart!Reading(w, o, step, asked),
           step \in {"write", "charge"} => meta[o].fetched <= asked /\ meta[o].amount > 0
    PROVE  CartTypes'
<1> DEFINE r == [step |-> step, of |-> o, read |-> meta[o], asked |-> asked]
<1>1. /\ charges \subseteq [of : Cart!Orders, amount : Cart!Money, rateAge : Cart!Times]
      /\ meta \in [Cart!Orders -> Cart!Metas] /\ \A p \in Cart!Orders : meta[p].fetched <= now
  BY DEF CartTypes, Cart!TypeOK
<1>2. r \in Requested /\ meta' = meta /\ charges' = charges /\ Cart!Step(w, r)
  BY <1>1 DEF Cart!Reading, Requested
<1>3. r.step = step /\ r.read = meta[o] /\ r.asked = asked
  OBVIOUS
<1> HIDE DEF r
<1>4. Advanced(w, r) /\ CheckoutTyped'
  BY <1>2, StepAdvances
<1> QED
  BY <1>1, <1>2, <1>3, <1>4, RequestKeepsTypes

LEMMA CartServeKeepsTypes ==
    ASSUME Cart!CheckoutAssumption, CartTypes, NEW w \in Workers, Cart!Serve(w)
    PROVE  CartTypes'
<1> DEFINE q == paymentRequest[w]
           known == [of : Cart!Orders, amount : Cart!Money, rateAge : Cart!Times]
           received == [Cart!Orders -> {"none", "clean", "open", "closed"}]
           rewritten == [meta EXCEPT ![q.of] = q.read]
<1>0. /\ charges \subseteq known /\ meta \in [Cart!Orders -> Cart!Metas]
      /\ \A o \in Cart!Orders : meta[o].fetched <= now
      /\ now \in Cart!Times /\ 0 \in Cart!Times
      /\ completed \in SUBSET Cart!Orders /\ delivery \in received
  BY DEF CartTypes, Cart!TypeOK, Cart!Times, Cart!CheckoutAssumption
<1>1. ASSUME NEW o \in Cart!Orders,
             \/ Cart!Initialize(w, o) \/ Cart!BeginComplete(w, o)
             \/ Cart!BeginReceipt(w, o) \/ Cart!BeginSettlement(w, o)
      PROVE  CartTypes'
  <2>1. CASE Cart!Initialize(w, o)
    <3>1. Cart!Reading(w, o, "write", now) /\ meta[o].amount > 0
      BY <2>1 DEF Cart!Initialize, Cart!Usable
    <3> QED
      BY <1>0, <3>1, ReadingKeepsTypes DEF Cart!Steps
  <2>2. CASE ~Cart!Initialize(w, o)
    <3>1. PICK s \in {"complete", "receipt", "settlement"} : Cart!Reading(w, o, s, 0)
      BY <1>1, <2>2 DEF Cart!BeginComplete, Cart!BeginReceipt, Cart!BeginSettlement
    <3> QED
      BY <1>0, <3>1, ReadingKeepsTypes DEF Cart!Steps
  <2> QED
    BY <2>1, <2>2
<1>2. ASSUME q.step # "done"
      PROVE  /\ q \in Requested /\ q.of \in Cart!Orders /\ q.read \in Cart!Metas
             /\ q.read.fetched <= now /\ q # Cart!Done
             /\ q.step \in {"write", "charge"} => q.read.fetched <= q.asked /\ q.read.amount > 0
  BY <1>2 DEF CartTypes, Cart!TypeOK, Requested, Cart!Done
<1>3. Cart!Done \in Requested \cup {Cart!Done}
  OBVIOUS
<1>4. CASE Cart!WriteQuote(w)
  <2> DEFINE r == [q EXCEPT !.step = "charge"]
  <2>1. q.step = "write" /\ meta' = rewritten /\ charges' = charges /\ Cart!Step(w, r)
    BY <1>4 DEF Cart!WriteQuote
  <2>2. r \in Requested /\ r.read = q.read /\ r.asked = q.asked
    BY <1>2, <2>1 DEF Requested, Cart!Steps
  <2>3. rewritten \in [Cart!Orders -> Cart!Metas] /\ \A o \in Cart!Orders : rewritten[o].fetched <= now
    BY <1>0, <1>2, <2>1
  <2> HIDE DEF r, rewritten
  <2> QED
    BY <1>0, <1>2, <2>1, <2>2, <2>3, RequestKeepsTypes, StepAdvances
<1>5. CASE Cart!StartCharge(w)
  <2> DEFINE c == [of |-> q.of, amount |-> q.read.amount, rateAge |-> q.asked - q.read.fetched]
             r == IF ProviderOf[q.of] = "chapa" THEN [q EXCEPT !.step = "lookup"] ELSE Cart!Done
  <2>1. q.step = "charge" /\ meta' = meta /\ charges' = charges \cup {c} /\ Cart!Step(w, r)
    BY <1>5 DEF Cart!StartCharge
  <2>2. q.asked \in Cart!Times /\ q.read.fetched \in Cart!Times /\ q.read.amount \in Cart!Money
    BY <1>2, <2>1 DEF Requested, Cart!Metas
  <2>3. c \in known
    BY <1>2, <2>1, <2>2 DEF Cart!Times, Cart!CheckoutAssumption
  <2>4. r \in Requested \cup {Cart!Done}
        /\ (r # Cart!Done => r.read = q.read /\ r.step = "lookup")
    BY <1>2, <2>1 DEF Requested, Cart!Steps
  <2> HIDE DEF c, r
  <2> QED
    BY <1>0, <1>2, <2>1, <2>3, <2>4, RequestKeepsTypes, StepAdvances
<1>6. CASE Cart!ChargeRefused(w)
  BY <1>0, <1>3, <1>6, RequestKeepsTypes, StepAdvances DEF Cart!ChargeRefused
<1>7. CASE Cart!LookUpReference(w)
  <2> DEFINE r == [q EXCEPT !.step = "reference", !.read = meta[q.of]]
  <2>1. q.step = "lookup" /\ meta' = meta /\ charges' = charges
        /\ (Cart!Step(w, r) \/ Cart!Step(w, Cart!Done))
    BY <1>7 DEF Cart!LookUpReference
  <2>2. r \in Requested /\ r.read = meta[q.of] /\ r.step = "reference"
    BY <1>0, <1>2, <2>1 DEF Requested, Cart!Steps
  <2> HIDE DEF r
  <2> QED
    BY <1>0, <1>2, <1>3, <2>1, <2>2, RequestKeepsTypes, StepAdvances
<1>8. CASE Cart!WriteReference(w)
  <2> DEFINE n == [q.read EXCEPT !.ref = "chapa"]  m == [meta EXCEPT ![q.of] = n]
  <2>1. q.step = "reference" /\ meta' = m /\ charges' = charges /\ Cart!Step(w, Cart!Done)
    BY <1>8 DEF Cart!WriteReference
  <2>2. n \in Cart!Metas /\ n.fetched = q.read.fetched
    BY <1>2, <2>1 DEF Cart!Metas
  <2> HIDE DEF n
  <2>3. m \in [Cart!Orders -> Cart!Metas] /\ \A o \in Cart!Orders : m[o].fetched <= now
    BY <1>0, <1>2, <2>1, <2>2
  <2> HIDE DEF m
  <2> QED
    BY <1>0, <1>3, <2>1, <2>3, RequestKeepsTypes, StepAdvances
<1>9. ASSUME q.step \in {"complete", "receipt", "settlement"}, meta' = rewritten \/ meta' = meta,
             NEW s \in Cart!OrderStatuses, Cart!Writing(w, s),
             completed' \in SUBSET Cart!Orders, delivery' \in received
      PROVE  CartTypes'
  <2>1. rewritten \in [Cart!Orders -> Cart!Metas] /\ \A o \in Cart!Orders : rewritten[o].fetched <= now
    BY <1>0, <1>2, <1>9
  <2>2. Advanced(w, Cart!Done) /\ CheckoutTyped' /\ charges' = charges
    BY <1>9, WritingAdvances
  <2> HIDE DEF rewritten
  <2> QED
    BY <1>0, <1>3, <1>9, <2>1, <2>2, RequestKeepsTypes
<1>10. CASE Cart!FinishComplete(w)
  <2>1. /\ q.step = "complete" /\ meta' = rewritten /\ completed' = completed \cup {q.of}
        /\ Cart!Writing(w, "PAID") /\ delivery' = delivery
    BY <1>10 DEF Cart!FinishComplete
  <2> HIDE DEF rewritten
  <2> QED
    BY <1>0, <1>2, <1>9, <2>1 DEF Cart!OrderStatuses
<1>11. CASE Cart!FinishReceipt(w)
  <2>1. q.step = "receipt" /\ completed' = completed
    BY <1>11 DEF Cart!FinishReceipt
  <2>2. ASSUME NEW d \in {"clean", "open"}, delivery' = [delivery EXCEPT ![q.of] = d],
               NEW s \in {"COMPLETED", "DISPUTED"}, Cart!Writing(w, s),
               meta' = rewritten \/ meta' = meta
        PROVE  CartTypes'
    <3>1. delivery' \in received /\ s \in Cart!OrderStatuses
      BY <1>0, <2>2 DEF Cart!OrderStatuses
    <3> HIDE DEF rewritten
    <3> QED
      BY <1>0, <1>9, <2>1, <2>2, <3>1
  <2>3. ASSUME Cart!Step(w, Cart!Done), meta' = meta, charges' = charges PROVE CartTypes'
    BY <1>0, <1>3, <2>3, RequestKeepsTypes, StepAdvances
  <2>4. \/ /\ delivery' = [delivery EXCEPT ![q.of] = "clean"]
           /\ Cart!Writing(w, "COMPLETED")
           /\ meta' = meta
        \/ /\ delivery' = [delivery EXCEPT ![q.of] = "open"]
           /\ meta' = rewritten
           /\ Cart!Writing(w, "DISPUTED")
        \/ /\ Cart!Step(w, Cart!Done)
           /\ meta' = meta /\ charges' = charges
    BY <1>11 DEF Cart!FinishReceipt
  <2> HIDE DEF rewritten
  <2> QED
    BY <2>2, <2>3, <2>4
<1>12. CASE Cart!FinishSettlement(w)
  <2>1. /\ q.step = "settlement" /\ meta' = rewritten /\ completed' = completed
        /\ delivery' = [delivery EXCEPT ![q.of] = "closed"]
    BY <1>12 DEF Cart!FinishSettlement
  <2>2. PICK s \in {"COMPLETED", "REFUNDED"} : Cart!Writing(w, s)
    BY <1>12 DEF Cart!FinishSettlement
  <2>3. delivery' \in received /\ s \in Cart!OrderStatuses
    BY <1>0, <2>1 DEF Cart!OrderStatuses
  <2> HIDE DEF rewritten
  <2> QED
    BY <1>0, <1>9, <2>1, <2>2, <2>3
<1> QED
  BY <1>1, <1>4, <1>5, <1>6, <1>7, <1>8, <1>10, <1>11, <1>12 DEF Cart!Serve

\* Preparing the orders.
LEMMA PrepareKeepsTypes ==
    ASSUME Cart!CheckoutAssumption, CartTypes, Cart!PrepareGroup
    PROVE  CartTypes'
<1>1. PICK p \in Prices, usd \in Cart!UsdToEtb :
          /\ total' = [total EXCEPT ![preparing] = Cart!Quote(preparing, p, usd).amount]
          /\ meta'  = [meta EXCEPT ![preparing] = Cart!Quote(preparing, p, usd)]
          /\ cache' = IF ProviderOf[preparing] = "chapa" THEN usd ELSE cache
  BY DEF Cart!PrepareGroup, Cart!CreateOrder
<1>2. /\ preparing \in Cart!Orders /\ preparing' = preparing + 1 /\ outcome' = outcome
      /\ checkoutOrder' = [checkoutOrder EXCEPT ![preparing] = "PENDING"]
      /\ UNCHANGED <<now, completed, delivery, paymentRequest, charges>>
  BY DEF Cart!PrepareGroup, Cart!CreateOrder
<1> DEFINE m == Cart!Quote(preparing, p, usd)
<1>3. /\ usd \in [rate : Rates, at : Cart!Times] /\ usd.at <= now
      /\ m \in Cart!Metas /\ m.fetched <= now
  BY <1>2, QuoteTyped
<1> HIDE DEF m
<1>4. m.amount \in Cart!Money \cup {0}
  BY <1>3 DEF Cart!Metas
<1>5. cache' \in [rate : Rates \cup {0}, at : Cart!Times]
      /\ cache'.at <= now /\ (cache' = Cart!NoRate \/ cache'.rate \in Rates)
  BY <1>1, <1>3 DEF CartTypes, Cart!TypeOK
<1>6. preparing' \in 0..(Groups + 1)
  BY <1>2 DEF Cart!Orders, Cart!CheckoutAssumption
<1>7. meta' = [meta EXCEPT ![preparing] = m] /\ total' = [total EXCEPT ![preparing] = m.amount]
  BY <1>1 DEF m
<1>8. Cart!TypeOK'
  BY <1>2, <1>3, <1>4, <1>5, <1>6, <1>7 DEF CartTypes, Cart!TypeOK, Cart!OrderStatuses
<1>9. \A o \in Cart!Orders : meta'[o].fetched <= now'
  BY <1>2, <1>3, <1>7 DEF CartTypes, Cart!TypeOK
<1> QED
  BY <1>2, <1>5, <1>8, <1>9 DEF CartTypes

LEMMA CartTypesStep ==
    ASSUME Cart!CheckoutAssumption, CartTypes, [Cart!Next]_(Cart!vars) PROVE CartTypes'
<1> USE DEF Cart!orderVars, Cart!prepVars
<1>1. CASE UNCHANGED Cart!vars
  BY <1>1 DEF Cart!vars, CartTypes, Cart!TypeOK
<1>2. CASE Cart!Tick
  <2>1. now' = now + 1 /\ now' \in Cart!Times /\ now \in Nat
        /\ UNCHANGED <<cache, checkoutOrder, total, completed, delivery, meta, preparing, outcome,
                       paymentRequest, charges>>
    BY <1>2 DEF Cart!Tick, CartTypes, Cart!TypeOK, Cart!Times, Cart!CheckoutAssumption
  <2>2. Cart!TypeOK'
    BY <2>1 DEF CartTypes, Cart!TypeOK
  <2>3. \A t \in Cart!Times : t \in Nat /\ (t <= now => t <= now')
    BY <2>1 DEF Cart!Times
  <2>4. cache.at \in Cart!Times /\ \A o \in Cart!Orders : meta[o].fetched \in Cart!Times
    BY DEF CartTypes, Cart!TypeOK, Cart!Metas
  <2>5. \A w \in Workers : paymentRequest[w] # Cart!Done => paymentRequest[w].read.fetched \in Cart!Times
    BY DEF CartTypes, Cart!TypeOK, Cart!Metas
  <2> QED
    BY <2>1, <2>2, <2>3, <2>4, <2>5 DEF CartTypes
<1>3. CASE Cart!StartPrepare
  BY <1>3 DEF Cart!StartPrepare, CartTypes, Cart!TypeOK, Cart!CheckoutAssumption
<1>4. CASE Cart!PrepareGroup
  BY <1>4, PrepareKeepsTypes
<1>5. CASE Cart!PrepareFails
  BY <1>5 DEF Cart!PrepareFails, CartTypes, Cart!TypeOK
<1>6. CASE Cart!LinkSiblings
  <2>1. meta' = [o \in Cart!Orders |-> [meta[o] EXCEPT !.siblings = Cart!Orders]]
        /\ outcome' = "ready"
        /\ UNCHANGED <<now, cache, checkoutOrder, total, completed, delivery, preparing,
                       paymentRequest, charges>>
    BY <1>6 DEF Cart!LinkSiblings
  <2>2. ASSUME NEW o \in Cart!Orders
        PROVE  meta'[o] \in Cart!Metas /\ meta'[o].fetched = meta[o].fetched
    <3>1. meta[o] \in Cart!Metas /\ Cart!Orders \in SUBSET Cart!Orders
      BY DEF CartTypes, Cart!TypeOK
    <3> QED
      BY <2>1, <3>1 DEF Cart!Metas
  <2>3. meta' \in [Cart!Orders -> Cart!Metas]
    BY <2>1, <2>2
  <2> QED
    BY <2>1, <2>2, <2>3 DEF CartTypes, Cart!TypeOK
<1>7. ASSUME NEW o \in Cart!Orders, Cart!CancelOrder(o) PROVE CartTypes'
  BY <1>7 DEF Cart!CancelOrder, CartTypes, Cart!TypeOK, Cart!OrderStatuses
<1>8. ASSUME NEW w \in Workers, Cart!Serve(w) PROVE CartTypes'
  BY <1>8, CartServeKeepsTypes
<1> QED
  BY <1>1, <1>2, <1>3, <1>4, <1>5, <1>6, <1>7, <1>8 DEF Cart!Next

\* Whatever requests overlap, an amount is a price at a rate that was answered, and no quote
\* is from the future.
THEOREM CartTypeCorrect ==
    Cart!CheckoutAssumption => (Cart!Spec => []Cart!TypeOK)
<1> SUFFICES ASSUME Cart!CheckoutAssumption PROVE Cart!Spec => []Cart!TypeOK
  OBVIOUS
<1>1. Cart!Init => CartTypes
  BY CartTypesInit
<1>2. CartTypes /\ [Cart!Next]_(Cart!vars) => CartTypes'
  BY CartTypesStep
<1>3. CartTypes => Cart!TypeOK
  BY DEF CartTypes
<1> QED
  BY <1>1, <1>2, <1>3, PTL DEF Cart!Spec

-----------------------------------------------------------------------------
(* The types of the settings: an update of the payment document finds the    *)
(* legacy amounts in what it has read.                                       *)

LegacyFields == {"minWithdrawalAmount", "maxWithdrawalAmount"}

Valued(value) ==
    /\ \A f \in DOMAIN value : value[f] \in Nat
    /\ doc = "payment" /\ value # Desk!Missing => LegacyFields \subseteq DOMAIN value

LEMMA NoFieldsIsMissing ==
    ASSUME NEW value, value = Desk!Missing PROVE DOMAIN value = {}
  BY DEF Desk!Missing

LEMMA SpreadNat ==
    ASSUME NEW over, NEW under,
           \A f \in DOMAIN over : over[f] \in Nat, \A f \in DOMAIN under : under[f] \in Nat
    PROVE  /\ DOMAIN Desk!Spread(over, under) = DOMAIN over \cup DOMAIN under
           /\ \A f \in DOMAIN Desk!Spread(over, under) : Desk!Spread(over, under)[f] \in Nat
  BY DEF Desk!Spread

LEMMA DefaultsValued ==
    ASSUME doc \in Desk!Documents
    PROVE  Valued(Desk!Seeds[doc]) /\ Valued(Desk!UpdateDefaults[doc])
<1> DEFINE extra == [holdingPeriodDays |-> 7, platformCommissionRate |-> 10]
           pay   == Desk!Spread(extra, Desk!WithdrawalDefaults)
           upd   == [minWithdrawalAmount |-> 10, maxWithdrawalAmount |-> 0,
                     paymentTimeoutMinutes |-> 30]
           comm  == [platformCommissionRate |-> 10]
<1>1. /\ \A f \in DOMAIN extra : extra[f] \in Nat
      /\ \A f \in DOMAIN Desk!WithdrawalDefaults : Desk!WithdrawalDefaults[f] \in Nat
      /\ LegacyFields \subseteq DOMAIN Desk!WithdrawalDefaults
  BY DEF Desk!WithdrawalDefaults, LegacyFields
<1>2. /\ \A f \in DOMAIN upd : upd[f] \in Nat
      /\ \A f \in DOMAIN comm : comm[f] \in Nat
      /\ LegacyFields \subseteq DOMAIN upd
  BY DEF LegacyFields
<1>3. /\ \A f \in DOMAIN Desk!OrderDefaults : Desk!OrderDefaults[f] \in Nat
      /\ \A f \in DOMAIN Desk!CollectionDefaults : Desk!CollectionDefaults[f] \in Nat
  BY DEF Desk!OrderDefaults, Desk!CollectionDefaults
<1> HIDE DEF extra
<1>4. /\ DOMAIN pay = DOMAIN extra \cup DOMAIN Desk!WithdrawalDefaults
      /\ \A f \in DOMAIN pay : pay[f] \in Nat
  BY <1>1, SpreadNat
<1>5. /\ Desk!Seeds = [platform |-> comm, payment |-> pay,
                       order |-> Desk!OrderDefaults, collection |-> Desk!CollectionDefaults]
  BY DEF Desk!Seeds, extra
<1> HIDE DEF pay, comm
<1> HIDE DEF upd
<1>6. /\ Desk!UpdateDefaults["payment"] = upd /\ Desk!UpdateDefaults["platform"] = comm
      /\ Desk!UpdateDefaults["order"] = Desk!OrderDefaults
      /\ Desk!UpdateDefaults["collection"] = Desk!CollectionDefaults
  <2>1. Desk!PageDefaults = [platform |-> comm, payment |-> Desk!WithdrawalDefaults,
                             order |-> Desk!OrderDefaults, collection |-> Desk!CollectionDefaults]
    BY <1>5 DEF Desk!PageDefaults
  <2>2. Desk!UpdateDefaults = [Desk!PageDefaults EXCEPT !["payment"] = upd]
    BY DEF Desk!UpdateDefaults, upd
  <2> QED
    BY <2>1, <2>2
<1>7. LegacyFields \subseteq DOMAIN pay
  BY <1>1, <1>4
<1> QED
  BY <1>2, <1>3, <1>4, <1>5, <1>6, <1>7 DEF Valued, Desk!Documents

LEMMA UpdatedValued ==
    ASSUME Desk!SettingsAssumption, NEW dto, \A f \in DOMAIN dto : dto[f] \in Given,
           NEW current, Valued(current), doc = "payment" => LegacyFields \subseteq DOMAIN current
    PROVE  Valued(Desk!Updated(dto, current))
<1> DEFINE legacy == Desk!LegacyAmounts(dto, current)
           under  == Desk!Spread(dto, current)
           value  == Desk!Spread(legacy, under)
<1>0. Desk!Updated(dto, current) = value
  BY DEF Desk!Updated
<1>1. \A f \in DOMAIN dto : dto[f] \in Nat
  BY DEF Desk!SettingsAssumption
<1>2. \A f \in DOMAIN under : under[f] \in Nat
  BY <1>1, SpreadNat DEF Valued
<1>3. /\ \A f \in DOMAIN legacy : legacy[f] \in Nat
      /\ doc = "payment" => DOMAIN legacy = LegacyFields
  <2>1. CASE doc # "payment"
    BY <2>1 DEF Desk!LegacyAmounts, Desk!Missing
  <2>2. CASE doc = "payment"
    <3>1. /\ DOMAIN legacy = LegacyFields
          /\ legacy["minWithdrawalAmount"] =
                Desk!OrElse(dto, "minWithdrawalAmountPaypal", current.minWithdrawalAmount)
          /\ legacy["maxWithdrawalAmount"] =
                Desk!OrElse(dto, "maxWithdrawalAmountPaypal", current.maxWithdrawalAmount)
      BY <2>2 DEF Desk!LegacyAmounts, LegacyFields
    <3>2. current["minWithdrawalAmount"] \in Nat /\ current["maxWithdrawalAmount"] \in Nat
      BY <2>2 DEF Valued, LegacyFields
    <3>3. \A l \in LegacyFields : legacy[l] \in Nat
      BY <1>1, <3>1, <3>2 DEF Desk!OrElse, LegacyFields
    <3> QED
      BY <3>1, <3>3
  <2> QED
    BY <2>1, <2>2
<1> HIDE DEF legacy, under
<1>4. /\ DOMAIN value = DOMAIN legacy \cup DOMAIN under
      /\ \A f \in DOMAIN value : value[f] \in Nat
  BY <1>2, <1>3, SpreadNat
<1> HIDE DEF value
<1> QED
  BY <1>0, <1>3, <1>4 DEF Valued

DeskTypes ==
    /\ Valued(stored)
    /\ \A a \in Admins : update[a] # Desk!Done => Valued(update[a].value)
    /\ age \in Ages \cup {0}
    /\ pendingOrder \in {"PENDING", "CANCELLED"}

LEMMA DeskTypesInit == Desk!Init => DeskTypes
  BY DEF Desk!Init, DeskTypes, Valued, Desk!Missing

LEMMA DeskTypesStep ==
    ASSUME Desk!SettingsAssumption, DeskInv, DeskTypes, [Desk!Next]_(Desk!vars)
    PROVE  DeskTypes'
<1>1. CASE UNCHANGED <<doc, stored, update>> /\ age' \in Ages \cup {0}
           /\ pendingOrder' \in {"PENDING", "CANCELLED"}
  BY <1>1 DEF DeskTypes, Valued
<1>2. CASE Desk!InitializeDefaultSettings
  <2>1. /\ UNCHANGED <<doc, update, age, pendingOrder>> /\ stored' = Desk!Seeds[doc]
    BY <1>2 DEF Desk!InitializeDefaultSettings, Desk!orderVars
  <2>2. Valued(Desk!Seeds[doc])
    BY DefaultsValued DEF DeskInv
  <2> QED
    BY <2>1, <2>2 DEF DeskTypes, Valued
<1>3. ASSUME NEW a \in Admins, Desk!Update(a) PROVE DeskTypes'
  <2>1. PICK dto \in Desk!Dtos :
           update' = [update EXCEPT ![a] =
              [step |-> "write",
               value |-> Desk!Updated(dto, Desk!Or(stored, Desk!UpdateDefaults))]]
    BY <1>3 DEF Desk!Update
  <2>2. \A f \in DOMAIN dto : dto[f] \in Given
    BY DEF Desk!Dtos
  <2> DEFINE current == Desk!Or(stored, Desk!UpdateDefaults)
  <2>3. Valued(current) /\ (doc = "payment" => LegacyFields \subseteq DOMAIN current)
    <3>1. CASE stored = Desk!Missing
      <4>1. current = Desk!UpdateDefaults[doc]
        BY <3>1 DEF Desk!Or
      <4>2. doc = "payment" => LegacyFields \subseteq DOMAIN Desk!UpdateDefaults[doc]
        BY DEF Desk!UpdateDefaults, Desk!PageDefaults, Desk!Seeds, LegacyFields
      <4> QED
        BY <4>1, <4>2, DefaultsValued DEF DeskInv
    <3>2. CASE stored # Desk!Missing
      BY <3>2 DEF Desk!Or, DeskTypes, Valued
    <3> QED
      BY <3>1, <3>2
  <2> DEFINE new == Desk!Updated(dto, current)
  <2> HIDE DEF current
  <2>4. Valued(new)
    BY <2>2, <2>3, UpdatedValued
  <2> HIDE DEF new
  <2>5. update' = [update EXCEPT ![a] = [step |-> "write", value |-> new]]
    BY <2>1 DEF new, current
  <2>6. UNCHANGED <<doc, stored, age, pendingOrder>>
    BY <1>3 DEF Desk!Update, Desk!orderVars
  <2>7. ASSUME NEW b \in Admins, update'[b] # Desk!Done PROVE Valued(update'[b].value)
    BY <2>4, <2>5, <2>7 DEF DeskInv, DeskTypes
  <2> QED
    BY <2>6, <2>7 DEF DeskTypes, Valued
<1>4. ASSUME NEW a \in Admins, Desk!SetSetting(a) PROVE DeskTypes'
  <2>1. /\ update[a] # Desk!Done /\ stored' = update[a].value
        /\ UNCHANGED <<doc, age, pendingOrder>>
        /\ update' = [update EXCEPT ![a] = Desk!Done]
    BY <1>4 DEF Desk!SetSetting, Desk!orderVars
  <2>2. Valued(stored')
    BY <2>1 DEF DeskTypes
  <2>3. ASSUME NEW b \in Admins, update'[b] # Desk!Done PROVE Valued(update'[b].value)
    BY <2>1, <2>3 DEF DeskInv, DeskTypes
  <2> QED
    BY <2>1, <2>2, <2>3 DEF DeskTypes, Valued
<1>5. CASE Desk!Grow \/ Desk!CancelExpiredOrders \/ Desk!AutoCancelPendingOrders
  BY <1>1, <1>5 DEF Desk!Grow, Desk!CancelExpiredOrders, Desk!AutoCancelPendingOrders, Desk!Cancel,
                    DeskTypes
<1>6. CASE UNCHANGED Desk!vars
  BY <1>1, <1>6 DEF Desk!vars, Desk!orderVars, DeskTypes
<1> QED
  BY <1>2, <1>3, <1>4, <1>5, <1>6 DEF Desk!Next

\* Whatever updates overlap, a document has fields it is documented to have, with amounts,
\* and what an update computes from it is one again: none reads a field that is not there.
THEOREM SettingsTypeCorrect ==
    Desk!SettingsAssumption => (Desk!Spec => []Desk!TypeOK)
<1> SUFFICES ASSUME Desk!SettingsAssumption PROVE Desk!Spec => []Desk!TypeOK
  OBVIOUS
<1>1. Desk!Init => DeskInv /\ DeskTypes
  BY DeskInit, DeskTypesInit
<1>2. DeskInv /\ DeskTypes /\ [Desk!Next]_(Desk!vars) => (DeskInv /\ DeskTypes)'
  BY DeskStep, DeskTypesStep
<1>3. DeskInv /\ DeskTypes => Desk!TypeOK
  BY DEF DeskInv, DeskTypes, Fits, Valued, Desk!TypeOK, Desk!Documented
<1> QED
  BY <1>1, <1>2, <1>3, PTL DEF Desk!Spec

-----------------------------------------------------------------------------
(* The types of the paged lists: no row that was shown or wanted is beyond   *)
(* the rows, and what is counted as moved stays within its bound.            *)

PageTypes ==
    /\ wanted \cup seen \cup tied \subseteq DOMAIN tableRows
    /\ moved \in 0..MaxChanges

LEMMA PageTypesInit == Page!ListingsAssumption /\ Page!Init => PageTypes
  BY DEF Page!ListingsAssumption, Page!Init, PageTypes

\* One row written moves at most one row.
LEMMA WriteKeepsPageTypes ==
    ASSUME Page!ListingsAssumption, PageTypes, NEW rs, DOMAIN tableRows \subseteq DOMAIN rs,
           Page!Write(rs), NEW x, OneRow(rs, x)
    PROVE  PageTypes'
<1>1. /\ tableRows' = rs /\ wanted' = wanted /\ seen' = seen /\ tied' = tied
      /\ moved' = moved \/ (moved < MaxChanges /\ moved' = moved + Cardinality(Left(rs)))
  BY WriteCounts
<1>2. Left(rs) = {} \/ Left(rs) = {x}
  <2>1. Left(rs) \subseteq {x}
    BY OneRowMoves
  <2> QED
    BY <2>1
<1>3. Cardinality(Left(rs)) \in {0, 1}
  BY <1>2, FS_EmptySet, FS_Singleton, Zenon
<1>4. moved' \in 0..MaxChanges
  BY <1>1, <1>3 DEF PageTypes, Page!ListingsAssumption
<1> QED
  BY <1>1, <1>4 DEF PageTypes

LEMMA ReaderKeepsPageTypes ==
    ASSUME PageTypes,
           \/ Page!ReadAtOnce \/ Page!ReadFirst \/ Page!CountFirst
           \/ Page!ReadSecond \/ Page!CountSecond
    PROVE  PageTypes'
<1>1. /\ tableRows' = tableRows /\ moved' = moved
      /\ wanted' = wanted \/ wanted' = Page!OnList(tableRows)
      /\ seen' = seen \/ \E newer \in query.sort.newer : seen' = seen \cup Page!Page(page + 1, newer)
      /\ tied' = tied \/ tied' = tied \cup Page!Ties
  BY DEF Page!ReadAtOnce, Page!ReadFirst, Page!CountFirst, Page!ReadSecond, Page!CountSecond,
         Page!TurnsTo, Page!Read, Page!Count
<1>2. Page!OnList(tableRows) \subseteq DOMAIN tableRows /\ Page!Ties \subseteq DOMAIN tableRows
      /\ \A newer : Page!Page(page + 1, newer) \subseteq DOMAIN tableRows
  BY DEF Page!OnList, Page!Page, Page!Ties
<1> QED
  BY <1>1, <1>2 DEF PageTypes

LEMMA PageTypesStep ==
    ASSUME Page!ListingsAssumption, PageInv, PageTypes, [Page!Next]_(Page!vars)
    PROVE  PageTypes'
<1>0. PageShape /\ tableRows \in Seq(Page!Rows \cup {Page!Gone})
  BY DEF PageInv, PageShape
<1>1. CASE UNCHANGED Page!vars
  BY <1>1 DEF Page!vars, Page!readerVars, PageTypes
<1>2. CASE Page!CreateRow
  <2>1. PICK r \in NewRows : Page!Write(Append(tableRows, r))
    BY <1>2 DEF Page!CreateRow
  <2>2. DOMAIN tableRows \subseteq DOMAIN Append(tableRows, r)
    BY <1>0
  <2> QED
    BY <1>0, <2>1, <2>2, LastIsOne, WriteKeepsPageTypes
<1>3. ASSUME NEW i \in Page!Live, Page!ChangeRow(i) \/ Page!DeleteRow(i) PROVE PageTypes'
  <2>1. PICK rs \in Seq(Page!Rows \cup {Page!Gone}) :
           Page!Write(rs) /\ OneRow(rs, i) /\ DOMAIN rs = DOMAIN tableRows
    BY <1>0, <1>3, ChangeIsOne, DeleteIsOne
  <2> QED
    BY <2>1, WriteKeepsPageTypes
<1> QED
  BY <1>1, <1>2, <1>3, ReaderKeepsPageTypes DEF Page!Next

\* The reader never wants and is never shown a row that is not in the table, and a change
\* moves at most one row off a list.
THEOREM PagesTypeCorrect ==
    Page!ListingsAssumption => (Page!Spec => []Page!TypeOK)
<1> SUFFICES ASSUME Page!ListingsAssumption PROVE Page!Spec => []Page!TypeOK
  OBVIOUS
<1>1. Page!Init => PageInv /\ PageTypes
  BY PageInit, PageTypesInit
<1>2. PageInv /\ PageTypes /\ [Page!Next]_(Page!vars) => (PageInv /\ PageTypes)'
  BY PageStep, PageTypesStep
<1>3. PageInv /\ PageTypes => Page!TypeOK
  <2> SUFFICES ASSUME PageInv, PageTypes PROVE Page!TypeOK
    OBVIOUS
  <2>1. tableRows \in Seq(NewRows \cup Page!Rows \cup {Page!Gone})
    <3>1. Page!Rows \cup {Page!Gone} = NewRows \cup Page!Rows \cup {Page!Gone}
      BY DEF Page!ListingsAssumption
    <3>2. tableRows \in Seq(Page!Rows \cup {Page!Gone})
      BY DEF PageInv, PageShape
    <3> QED
      BY <3>1, <3>2, Zenon
  <2> QED
    BY <2>1 DEF PageInv, PageShape, PageTypes, Page!TypeOK
<1> QED
  BY <1>1, <1>2, <1>3, PTL DEF Page!Spec

-----------------------------------------------------------------------------
(* The types of a post.                                                      *)

\* What decides on the post, what shares it and what is said under it, one by one.
PostTyped    == /\ postStatus \in {"none", "PENDING", "APPROVED", "REJECTED"}
                /\ published \in BOOLEAN /\ dated \in BOOLEAN
                /\ decision \in [Staff -> Decisions]
SharesTyped  == shareRows \in 0..MaxShares /\ shares \in Nat
RepliesTyped == parent \in [CommentIds -> CommentIds \cup {"top", "none"}]
PostTypes    == PostTyped /\ SharesTyped /\ RepliesTyped

LEMMA DecideKeepsTypes ==
    ASSUME PostTyped, NEW s \in Staff, NEW d \in Decisions, Post!Decide(s, d)
    PROVE  PostTyped'
<1>1. UNCHANGED <<postStatus, published, dated>> /\ decision' = [decision EXCEPT ![s] = d]
  BY DEF Post!Decide, Post!postVars
<1>2. decision' \in [Staff -> Decisions]
  BY <1>1 DEF PostTyped
<1> QED
  BY <1>1, <1>2 DEF PostTyped

LEMMA ModerateKeepsTypes ==
    ASSUME PostTyped, NEW s \in Staff, Post!Moderate(s)
    PROVE  PostTyped'
<1>1. ASSUME NEW t \in {"APPROVED", "REJECTED"}, Post!Decide(s, [step |-> "status", to |-> t])
      PROVE  PostTyped'
  <2>1. [step |-> "status", to |-> t] \in Decisions
    BY DEF Decisions
  <2> QED
    BY <1>1, <2>1, DecideKeepsTypes
<1>2. ASSUME NEW p \in BOOLEAN, NEW q \in BOOLEAN,
             Post!Decide(s, [step |-> "publish", to |-> p, redate |-> q])
      PROVE  PostTyped'
  <2>1. [step |-> "publish", to |-> p, redate |-> q] \in Decisions
    BY DEF Decisions
  <2> QED
    BY <1>2, <2>1, DecideKeepsTypes
<1>3. CASE Post!WriteDecision(s)
  <2> DEFINE d == decision[s]
  <2>1. d \in Decisions /\ d # Post!Done /\ decision' = [decision EXCEPT ![s] = Post!Done]
    BY <1>3 DEF Post!WriteDecision, PostTyped
  <2>2. decision' \in [Staff -> Decisions]
    BY <2>1 DEF PostTyped, Decisions
  <2>3. CASE d.step = "status"
    <3>1. d \in [step : {"status"}, to : {"APPROVED", "REJECTED"}]
      BY <2>1, <2>3 DEF Decisions
    <3>2. published' = published /\ dated' = dated /\ postStatus' \in {postStatus, d.to}
      BY <1>3, <2>3 DEF Post!WriteDecision, Post!postVars
    <3> QED
      BY <2>2, <3>1, <3>2 DEF PostTyped
  <2>4. CASE d.step # "status"
    <3>1. d \in [step : {"publish"}, to : BOOLEAN, redate : BOOLEAN]
      BY <2>1, <2>4 DEF Decisions
    <3>2. postStatus' = postStatus /\ published' \in {published, d.to} /\ dated' \in {dated, d.to}
      BY <1>3, <2>4, Zenon DEF Post!WriteDecision, Post!postVars
    <3>3. d.to \in BOOLEAN
      BY <3>1
    <3>4. published' \in BOOLEAN /\ dated' \in BOOLEAN
      BY <3>2, <3>3 DEF PostTyped
    <3> QED
      BY <2>2, <3>2, <3>4 DEF PostTyped
  <2> QED
    BY <2>3, <2>4
<1>4. ASSUME NEW p \in BOOLEAN, Post!Update(s, p) PROVE PostTyped'
  <2>1. (p # published) \in BOOLEAN
    OBVIOUS
  <2> QED
    BY <1>2, <1>4, <2>1 DEF Post!Update
<1> QED
  BY <1>1, <1>2, <1>3, <1>4 DEF Post!Moderate, Post!Approve, Post!Reject, Post!Publish, Post!Unpublish

LEMMA PostTypesInit == Post!BlogPostAssumption /\ Post!Init => PostTypes
<1> SUFFICES ASSUME Post!BlogPostAssumption, Post!Init PROVE PostTypes
  OBVIOUS
<1>1. Post!Done \in Decisions /\ decision = [s \in Staff |-> Post!Done]
  BY DEF Post!Init, Decisions
<1>2. decision \in [Staff -> Decisions]
  BY <1>1
<1>3. PostTyped
  BY <1>2 DEF Post!Init, PostTyped
<1>4. SharesTyped /\ RepliesTyped
  BY DEF Post!BlogPostAssumption, Post!Init, SharesTyped, RepliesTyped
<1> QED
  BY <1>3, <1>4 DEF PostTypes

LEMMA PostTypesStep ==
    ASSUME Post!BlogPostAssumption, CountInv, PostTypes, [Post!Next]_(Post!vars)
    PROVE  PostTypes'
<1>0. /\ PostTyped /\ SharesTyped /\ RepliesTyped
      /\ PostTyped' /\ SharesTyped' /\ RepliesTyped' => PostTypes'
      /\ MaxShares \in Nat
  BY DEF Post!BlogPostAssumption, PostTypes
<1>a. UNCHANGED <<postStatus, published, dated, decision>> => PostTyped'
  BY <1>0 DEF PostTyped
<1>b. UNCHANGED <<shareRows, shares>> => SharesTyped'
  BY <1>0 DEF SharesTyped
<1>c. UNCHANGED parent => RepliesTyped'
  BY <1>0 DEF RepliesTyped
<1> USE DEF Post!postVars, Post!voteVars, Post!shareVars
<1>1. CASE UNCHANGED Post!vars
  BY <1>0, <1>a, <1>b, <1>c, <1>1 DEF Post!vars
<1>2. ASSUME NEW p \in BOOLEAN, Post!Create(p) PROVE PostTypes'
  <2>1. PostTyped'
    BY <1>0, <1>2 DEF Post!Create, PostTyped
  <2> QED
    BY <1>0, <1>b, <1>c, <1>2, <2>1 DEF Post!Create
<1>3. ASSUME NEW s \in Staff, Post!Moderate(s) PROVE PostTypes'
  <2>1. PostTyped'
    BY <1>0, <1>3, ModerateKeepsTypes
  <2>2. UNCHANGED <<shareRows, shares, parent>>
    BY <1>3 DEF Post!Moderate, Post!Approve, Post!Reject, Post!Publish, Post!Unpublish, Post!Update,
       Post!Decide, Post!WriteDecision
  <2> QED
    BY <1>0, <1>b, <1>c, <2>1, <2>2
<1>4. ASSUME NEW w \in Workers, Post!Read(w) PROVE PostTypes'
  BY <1>0, <1>a, <1>b, <1>c, <1>4 DEF Post!Read, Post!Vote, Post!Share, Post!Comment, Post!Ask
<1>5. ASSUME NEW w \in Workers, Post!Serve(w) PROVE PostTypes'
  <2>1. CASE Post!WriteVote(w) \/ Post!CountVote(w)
    BY <1>0, <1>a, <1>b, <1>c, <2>1 DEF Post!WriteVote, Post!CountVote
  <2>2. CASE Post!WriteShare(w) \/ Post!CountShare(w)
    <3>1. SharesTyped'
      BY <1>0, <2>2 DEF Post!WriteShare, Post!CountShare, SharesTyped
    <3> QED
      BY <1>0, <1>a, <1>c, <2>2, <3>1 DEF Post!WriteShare, Post!CountShare
  <2>3. CASE Post!WriteComment(w)
    <3> DEFINE r == postRequest[w]
    <3>1. r.step = "comment" /\ r \in Post!VoteRequests \cup Post!OtherRequests
      BY <2>3 DEF Post!WriteComment, CountInv
    <3>2. r \in [step : {"comment"}, of : CommentIds, under : CommentIds \cup {"top"}]
      BY <3>1 DEF Post!VoteRequests, Post!OtherRequests, Post!Done
    <3>3. r.of \in CommentIds /\ r.under \in CommentIds \cup {"top"}
      BY <3>2
    <3>4. parent' = parent \/ parent' = [parent EXCEPT ![r.of] = r.under]
      BY <2>3 DEF Post!WriteComment
    <3>5. RepliesTyped'
      BY <1>0, <3>3, <3>4 DEF RepliesTyped
    <3> QED
      BY <1>0, <1>a, <1>b, <2>3, <3>5 DEF Post!WriteComment
  <2> QED
    BY <1>5, <2>1, <2>2, <2>3 DEF Post!Serve
<1>6. ASSUME NEW c \in CommentIds, Post!RemoveComment(c) PROVE PostTypes'
  <2>1. RepliesTyped'
    BY <1>0, <1>6 DEF Post!RemoveComment, RepliesTyped
  <2> QED
    BY <1>0, <1>a, <1>b, <1>6, <2>1 DEF Post!RemoveComment
<1>7. CASE Post!Remove
  <2>1. PostTyped'
    BY <1>7 DEF Post!Remove, PostTyped, Decisions
  <2>2. SharesTyped' /\ RepliesTyped'
    BY <1>0, <1>7 DEF Post!Remove, SharesTyped, RepliesTyped
  <2> QED
    BY <1>0, <2>1, <2>2
<1> QED
  BY <1>1, <1>2, <1>3, <1>4, <1>5, <1>6, <1>7 DEF Post!Next

\* A post has its type, and the counters of its votes are no negative numbers, while every
\* reader waits for an answer before the next request.
THEOREM PostTypeCorrect ==
    Post!BlogPostAssumption /\ OwnRequests => (Post!Spec => []Post!TypeOK)
<1> SUFFICES ASSUME Post!BlogPostAssumption, OwnRequests PROVE Post!Spec => []Post!TypeOK
  OBVIOUS
<1>1. Post!Init => CountInv /\ PostTypes
  BY CountInit, PostTypesInit
<1>2. CountInv /\ PostTypes /\ [Post!Next]_(Post!vars) => (CountInv /\ PostTypes)'
  BY CountStep, PostTypesStep
<1>3. CountInv /\ PostTypes => Post!TypeOK
  <2> SUFFICES ASSUME CountInv, PostTypes PROVE Post!TypeOK
    OBVIOUS
  <2>1. ASSUME NEW t PROVE Cardinality(Voters(vote, postRequest, t)) \in Nat
    <3>1. IsFiniteSet(Members) /\ Voters(vote, postRequest, t) \subseteq Members
      BY DEF Voters, Post!BlogPostAssumption, Post!IsFiniteSet, IsFiniteSet
    <3> QED
      BY <3>1, FS_Subset, FS_CardinalityType
  <2>2. likes \in Nat /\ dislikes \in Nat
    BY <2>1 DEF CountInv
  <2> QED
    BY <2>2 DEF CountInv, Votes, PostTypes, PostTyped, SharesTyped, RepliesTyped, Post!Types, Post!TypeOK
<1> QED
  BY <1>1, <1>2, <1>3, PTL DEF Post!Spec

-----------------------------------------------------------------------------
(* The platform: one part moves, the others stay as they are.                *)

\* A step of the platform is a step of one part and leaves the others alone.
LEMMA EachPartMoves ==
    [PlatformNext]_platformVars =>
        /\ [Next]_vars                       /\ [Post!Next]_(Post!vars)
        /\ [Shop!ListsNext]_(Shop!listVars)  /\ [Cart!Next]_(Cart!vars)
        /\ [Setup!Next]_(Setup!vars)         /\ [Desk!Next]_(Desk!vars)
        /\ [Page!Next]_(Page!vars)
<1> SUFFICES ASSUME [PlatformNext]_platformVars
             PROVE  /\ [Next]_vars                       /\ [Post!Next]_(Post!vars)
                    /\ [Shop!ListsNext]_(Shop!listVars)  /\ [Cart!Next]_(Cart!vars)
                    /\ [Setup!Next]_(Setup!vars)         /\ [Desk!Next]_(Desk!vars)
                    /\ [Page!Next]_(Page!vars)
  OBVIOUS
<1>1. UNCHANGED postVars => UNCHANGED Post!vars
  BY DEF postVars, Post!vars, Post!postVars, Post!voteVars, Post!shareVars
<1>2. UNCHANGED shopVars => UNCHANGED Shop!listVars
  BY DEF shopVars, Shop!listVars, Shop!vars, Shop!accountVars
<1>3. UNCHANGED checkoutVars => UNCHANGED Cart!vars
  BY DEF checkoutVars, Cart!vars, Cart!prepVars, Cart!orderVars
<1>4. UNCHANGED setupVars => UNCHANGED Setup!vars
  BY DEF setupVars, Setup!vars
<1>5. UNCHANGED deskVars => UNCHANGED Desk!vars
  BY DEF deskVars, Desk!vars, Desk!orderVars
<1>6. UNCHANGED pageVars => UNCHANGED Page!vars
  BY DEF pageVars, Page!vars, Page!readerVars
<1> QED
  BY <1>1, <1>2, <1>3, <1>4, <1>5, <1>6 DEF PlatformNext, platformVars

\* What the platform does is a behaviour of each part.
THEOREM PlatformMovesItsParts ==
    PlatformSpec => /\ Spec /\ Post!Spec /\ Shop!ListsSpec /\ Cart!Spec
                    /\ Setup!Spec /\ Desk!Spec /\ Page!Spec
<1>1. PlatformInit => /\ Init /\ Post!Init /\ Shop!ListsInit /\ Cart!Init
                      /\ Setup!Init /\ Desk!Init /\ Page!Init
  BY DEF PlatformInit
<1> QED
  BY <1>1, EachPartMoves, PTL
  DEF PlatformSpec, Spec, Post!Spec, Shop!ListsSpec, Cart!Spec, Setup!Spec, Desk!Spec, Page!Spec
\* And so the platform keeps what its parts do.  No list of a user outgrows its limit by as
\* much as the requests that overlap.
THEOREM PlatformListsWithinLimits == PlatformSpec => []ListsWithinLimits
BY PlatformMovesItsParts, ListsWithinLimitsAlways, PTL

\* The counters of a post are its rows, while every reader waits for an answer before the next
\* request.
THEOREM PlatformCountersFollowTheRows ==
    Post!BlogPostAssumption /\ OwnRequests => (PlatformSpec => []CountersFollowTheRows)
<1> SUFFICES ASSUME Post!BlogPostAssumption, OwnRequests
             PROVE  PlatformSpec => []CountersFollowTheRows
  OBVIOUS
<1>1. Post!Spec => []Post!CountersFollowTheRows
  BY CountersFollowTheRowsInTurn
<1>2. Post!CountersFollowTheRows => CountersFollowTheRows
  BY DEF CountersFollowTheRows
<1> QED
  BY <1>1, <1>2, PlatformMovesItsParts, PTL

\* A published post has a date and no other has, while decisions on it do not overlap.
THEOREM PlatformPublishedHasADate == OneDecision => (PlatformSpec => []PublishedHasADate)
<1> SUFFICES ASSUME OneDecision PROVE PlatformSpec => []PublishedHasADate
  OBVIOUS
<1>1. Post!Spec => []Post!PublishedHasADate
  BY PublishedHasADateInTurn
<1>2. Post!PublishedHasADate => PublishedHasADate
  BY DEF PublishedHasADate
<1> QED
  BY <1>1, <1>2, PlatformMovesItsParts, PTL

\* No artwork is public, sold or in dispute that the status endpoint has never made public.
THEOREM PlatformPublicWasLetThrough ==
    Shop!CatalogueAssumption => (PlatformSpec => []PublicWasLetThrough)
<1> SUFFICES ASSUME Shop!CatalogueAssumption PROVE PlatformSpec => []PublicWasLetThrough
  OBVIOUS
<1>1. Shop!ListsSpec => []Shop!PublicWasLetThrough
  BY PublicWasLetThroughAlways
<1>2. Shop!PublicWasLetThrough => PublicWasLetThrough
  BY DEF PublicWasLetThrough
<1> QED
  BY <1>1, <1>2, PlatformMovesItsParts, PTL

\* What an order accepts is found.
THEOREM PlatformOnSaleIsFound ==
    Shop!CatalogueAssumption => (PlatformSpec => []OnSaleIsFound)
<1> SUFFICES ASSUME Shop!CatalogueAssumption PROVE PlatformSpec => []OnSaleIsFound
  OBVIOUS
<1>1. Shop!ListsSpec => []Shop!OnSaleIsFound
  BY OnSaleIsFoundAlways
<1>2. Shop!OnSaleIsFound => OnSaleIsFound
  BY DEF OnSaleIsFound
<1> QED
  BY <1>1, <1>2, PlatformMovesItsParts, PTL

\* A gateway asks for the total locked with the order, at a rate that is not too old.
THEOREM PlatformChargedAsQuoted ==
    Cart!CheckoutAssumption => (PlatformSpec => []ChargedAsQuoted)
<1> SUFFICES ASSUME Cart!CheckoutAssumption PROVE PlatformSpec => []ChargedAsQuoted
  OBVIOUS
<1>1. Cart!Spec => []Cart!ChargedAsQuoted
  BY ChargedAsQuotedAlways
<1>2. Cart!ChargedAsQuoted => ChargedAsQuoted
  BY DEF ChargedAsQuoted
<1> QED
  BY <1>1, <1>2, PlatformMovesItsParts, PTL

\* A buyer who is told that nothing remains has paid every order of the checkout.
THEOREM PlatformNothingRemains ==
    Cart!CheckoutAssumption => (PlatformSpec => []NothingRemainsMeansAllPaid)
<1> SUFFICES ASSUME Cart!CheckoutAssumption PROVE PlatformSpec => []NothingRemainsMeansAllPaid
  OBVIOUS
<1>1. Cart!Spec => []Cart!NothingRemainsMeansAllPaid
  BY NothingRemainsAlways
<1>2. Cart!NothingRemainsMeansAllPaid => NothingRemainsMeansAllPaid
  BY DEF NothingRemainsMeansAllPaid
<1> QED
  BY <1>1, <1>2, PlatformMovesItsParts, PTL

\* The payout accounts offered to a seller are those the seller has entered.
THEOREM PlatformOfferedAsEntered ==
    Setup!PayoutSetupAssumption => (PlatformSpec => []OfferedAsEntered)
<1> SUFFICES ASSUME Setup!PayoutSetupAssumption PROVE PlatformSpec => []OfferedAsEntered
  OBVIOUS
<1>1. Setup!Spec => []Setup!OfferedAsEntered
  BY OfferedAsEnteredAlways
<1>2. Setup!OfferedAsEntered => OfferedAsEntered
  BY DEF OfferedAsEntered
<1> QED
  BY <1>1, <1>2, PlatformMovesItsParts, PTL

\* The settings shown are the settings in use, and the copies of an amount agree.
THEOREM PlatformCopiesAgree == PlatformSpec => []CopiesAgree
<1>1. Desk!CopiesAgree => CopiesAgree
  BY DEF CopiesAgree
<1> QED
  BY <1>1, CopiesAgreeAlways, PlatformMovesItsParts, PTL

\* A reader of a changing list misses no more than has left it.
THEOREM PlatformPagesMissOnlyWhatMoved ==
    Page!ListingsAssumption => (PlatformSpec => []PagesMissOnlyWhatMoved)
<1> SUFFICES ASSUME Page!ListingsAssumption PROVE PlatformSpec => []PagesMissOnlyWhatMoved
  OBVIOUS
<1>1. Page!Spec => []Page!PagesMissOnlyWhatMoved
  BY PagesMissOnlyWhatMovedAlways
<1>2. Page!PagesMissOnlyWhatMoved => PagesMissOnlyWhatMoved
  BY DEF PagesMissOnlyWhatMoved
<1> QED
  BY <1>1, <1>2, PlatformMovesItsParts, PTL

\* Every part keeps its types: settings, posts, lists, quotes and pages are read by requests that
\* began before they were last written, and are still what those requests expect.
THEOREM PlatformTypeCorrect ==
    /\ Post!BlogPostAssumption /\ OwnRequests
    /\ Shop!ListsAssumption /\ Cart!CheckoutAssumption /\ Setup!PayoutSetupAssumption
    /\ Desk!SettingsAssumption /\ Page!ListingsAssumption
    => (PlatformSpec => []PlatformTypeOK)
<1> SUFFICES ASSUME Post!BlogPostAssumption, OwnRequests, Shop!ListsAssumption,
                    Cart!CheckoutAssumption, Setup!PayoutSetupAssumption,
                    Desk!SettingsAssumption, Page!ListingsAssumption
             PROVE  PlatformSpec => []PlatformTypeOK
  OBVIOUS
<1>1. (Spec => []TypeOK) /\ (Post!Spec => []Post!TypeOK)
  BY TypeCorrect, PostTypeCorrect
<1>2. (Shop!ListsSpec => []Shop!ListsTypeOK) /\ (Cart!Spec => []Cart!TypeOK)
  BY ListsTypeCorrect, CartTypeCorrect
<1>3. (Setup!Spec => []Setup!TypeOK) /\ (Desk!Spec => []Desk!TypeOK)
  BY SetupTypeCorrect, SettingsTypeCorrect
<1>4. Page!Spec => []Page!TypeOK
  BY PagesTypeCorrect
<1>5. PlatformInit => scene \in Scenes
  BY DEF PlatformInit
<1>6. scene \in Scenes /\ [PlatformNext]_platformVars => (scene \in Scenes)'
  BY DEF PlatformNext, platformVars
<1>7. /\ scene \in Scenes /\ TypeOK /\ Post!TypeOK /\ Shop!ListsTypeOK /\ Cart!TypeOK
      /\ Setup!TypeOK /\ Desk!TypeOK /\ Page!TypeOK
      => PlatformTypeOK
  BY DEF PlatformTypeOK
<1> QED
  BY <1>1, <1>2, <1>3, <1>4, <1>5, <1>6, <1>7, PlatformMovesItsParts, PTL DEF PlatformSpec
=============================================================================
