------------------------------ MODULE UserLists ------------------------------
(***************************************************************************)
(* The lists a user keeps: the cart, favourites, the artworks of a          *)
(* collection, the collections themselves, likes of artworks and followed   *)
(* users.  Every service looks the row up, counts where there is a limit,   *)
(* and then creates, updates or deletes the row in another statement, so    *)
(* requests of one user (two tabs, a double click) overlap.                 *)
(*                                                                          *)
(* The lists do not meet each other: a behaviour is about one list, whose   *)
(* kind is chosen at the start.  Its items are artworks, or the ids of      *)
(* collections or users.                                                    *)
(***************************************************************************)
EXTENDS Naturals, FiniteSets

CONSTANTS Items,        \* what may be on the list
          Workers,      \* requests served at the same time
          Limit,        \* the limit of each kind of list that has one
          MaxQuantity,  \* MAX_QUANTITY_PER_ITEM
          MinToPublish  \* minArtworksForPublish

Kinds == {"cart", "favorites", "collection", "collections", "likes", "follows"}

UserListsAssumption ==
    /\ IsFiniteSet(Items) /\ IsFiniteSet(Workers)
    /\ Limit \in [Kinds \ {"likes", "follows"} -> Nat \ {0}]
    /\ MaxQuantity \in Nat \ {0}
    /\ MinToPublish \in Nat

ASSUME UserListsAssumption

VARIABLES
    kind,        \* which list this is
    rows,        \* quantity of an item's cart row, number of its rows in the other lists
    item,        \* what became of an item elsewhere: an artwork may be sold or deleted
    visibility,  \* Collection.visibility, or "gone"
    request      \* the await each request is at, with what it has read

vars == <<kind, rows, item, visibility, request>>

Steps    == {"insert", "set", "delete", "publish"}
Requests == [step : Steps, of : Items, amount : 1..MaxQuantity]
Done     == [step |-> "done"]

Init ==
    /\ kind \in Kinds
    /\ rows = [i \in Items |-> 0]
    /\ item = [i \in Items |-> "offered"]
    /\ visibility = "private"
    /\ request = [w \in Workers |-> Done]

Idle(w)      == request[w] = Done
At(w, step)  == request[w].step = step
Exists(i)    == item[i] # "deleted"

\* The items on the list, and how many rows it counts.
OnList == {i \in Items : rows[i] > 0}
Size   == Cardinality(OnList)

Hold(w, step, i, n) ==
    /\ Idle(w)
    /\ request' = [request EXCEPT ![w] = [step |-> step, of |-> i, amount |-> n]]
    /\ UNCHANGED <<kind, rows, item, visibility>>

\* Updates and deletes name a row by the id read before: when rows are gone, the requests
\* that hold one of them end with an error.  `freed' are the requests that are served.
Release(freed, gone) ==
    request' = [w \in Workers |->
        IF w \in freed \/ (request[w] # Done /\ request[w].of \in gone
                           /\ request[w].step \in {"set", "delete"})
        THEN Done ELSE request[w]]

-----------------------------------------------------------------------------
(* Adding: look up, count, and decide.                                       *)

\* Mutant of AddToCart: the count is not looked at.
Mut_AddUncounted(w, i, n) ==
    /\ kind = "cart"
    /\ item[i] = "offered"
    /\ \/ rows[i] = 0 /\ Hold(w, "insert", i, n)
       \/ rows[i] > 0 /\ rows[i] + n <= MaxQuantity /\ Hold(w, "set", i, rows[i] + n)

\* addToCart: the artwork exists and is not sold (nor the buyer's own); the limit refuses
\* a larger quantity of an item that is in the cart, too.
AddToCart(w, i, n) ==
    /\ kind = "cart"
    /\ item[i] = "offered"
    /\ Size < Limit["cart"]
    /\ \/ rows[i] = 0 /\ Hold(w, "insert", i, n)
       \/ rows[i] > 0 /\ rows[i] + n <= MaxQuantity /\ Hold(w, "set", i, rows[i] + n)

\* updateCartItem: the new quantity is between 1 and the maximum.
UpdateCartItem(w, i, n) == kind = "cart" /\ rows[i] > 0 /\ Hold(w, "set", i, n)

AddToFavorites(w, i) ==
    /\ kind = "favorites"
    /\ Exists(i)
    /\ Size < Limit["favorites"]
    /\ rows[i] = 0
    /\ Hold(w, "insert", i, 1)

AddArtwork(w, i) ==
    /\ kind = "collection"
    /\ visibility # "gone"
    /\ Exists(i)
    /\ Size < Limit["collection"]
    /\ rows[i] = 0
    /\ Hold(w, "insert", i, 1)

\* The id of a new collection is nobody else's.
CreateCollection(w, i) ==
    /\ kind = "collections"
    /\ Size < Limit["collections"]
    /\ rows[i] = 0
    /\ \A v \in Workers : ~(At(v, "insert") /\ request[v].of = i)
    /\ Hold(w, "insert", i, 1)

FollowUser(w, i) == kind = "follows" /\ Exists(i) /\ rows[i] = 0 /\ Hold(w, "insert", i, 1)

LikeArtwork(w, i) == kind = "likes" /\ Exists(i) /\ rows[i] = 0 /\ Hold(w, "insert", i, 1)

\* Only likes have no unique key.  An insert fails on a duplicate, and when the artwork,
\* the user or the collection it refers to is gone.
Insertable(i) ==
    /\ Exists(i)
    /\ kind # "likes" => rows[i] = 0
    /\ kind = "collection" => visibility # "gone"

InsertRow(w) ==
    /\ At(w, "insert")
    /\ LET i == request[w].of IN
       rows' = [rows EXCEPT ![i] = IF ~Insertable(i) THEN @
                                   ELSE IF kind = "likes" THEN @ + 1 ELSE request[w].amount]
    /\ Release({w}, {})
    /\ UNCHANGED <<kind, item, visibility>>

\* likeArtwork names the artwork twice, by id and by connect, which the database client
\* may refuse.
LikeRefused(w) ==
    /\ kind = "likes"
    /\ At(w, "insert")
    /\ Release({w}, {})
    /\ UNCHANGED <<kind, rows, item, visibility>>

SetQuantity(w) ==
    /\ At(w, "set")
    /\ rows' = [rows EXCEPT ![request[w].of] = request[w].amount]
    /\ Release({w}, {})
    /\ UNCHANGED <<kind, item, visibility>>

-----------------------------------------------------------------------------
(* Taking off: look up, then delete by id.                                   *)

RemoveFromCart(w, i)      == kind = "cart" /\ rows[i] > 0 /\ Hold(w, "delete", i, 1)
RemoveFromFavorites(w, i) == kind = "favorites" /\ rows[i] > 0 /\ Hold(w, "delete", i, 1)
RemoveArtwork(w, i)       == kind = "collection" /\ rows[i] > 0 /\ Hold(w, "delete", i, 1)
RemoveCollection(w, i)    == kind = "collections" /\ rows[i] > 0 /\ Hold(w, "delete", i, 1)
UnfollowUser(w, i)        == kind = "follows" /\ rows[i] > 0 /\ Hold(w, "delete", i, 1)
UnlikeArtwork(w, i)       == kind = "likes" /\ rows[i] > 0 /\ Hold(w, "delete", i, 1)

\* Of several likes a request deletes the one it found, unless another deleted it first.
DeleteRow(w) ==
    /\ At(w, "delete")
    /\ LET i == request[w].of IN
       /\ rows' = [rows EXCEPT ![i] = IF kind = "likes" THEN @ - 1 ELSE 0]
       /\ \/ Release({w}, {i})
          \/ kind = "likes" /\ rows[i] > 1 /\ Release({w}, {})
    /\ UNCHANGED <<kind, item, visibility>>

Drop(dropped) ==
    /\ rows' = [i \in Items |-> IF i \in dropped THEN 0 ELSE rows[i]]
    /\ Release({}, dropped)

ClearCart == kind = "cart" /\ Drop(Items) /\ UNCHANGED <<kind, item, visibility>>

\* cleanupSoldArtworks, at every look at the cart and its summary.
CleanupSoldArtworks ==
    /\ kind = "cart"
    /\ Drop({i \in Items : item[i] = "sold"})
    /\ UNCHANGED <<kind, item, visibility>>

-----------------------------------------------------------------------------
(* A collection is public, private or deleted.                               *)

Publish(w, i) ==
    /\ kind = "collection" /\ visibility # "gone"
    /\ Size >= MinToPublish
    /\ Hold(w, "publish", i, 1)

\* publish, and an update that sets the visibility, write what they decided; a deleted
\* collection stays deleted.
WriteVisibility(w) ==
    /\ At(w, "publish")
    /\ visibility' = IF visibility = "gone" THEN "gone" ELSE "public"
    /\ Release({w}, {})
    /\ UNCHANGED <<kind, rows, item>>

Unpublish ==
    /\ kind = "collection" /\ visibility = "public"
    /\ visibility' = "private"
    /\ UNCHANGED <<kind, rows, item, request>>

\* Deleting a collection deletes its rows with it.
DeleteCollection ==
    /\ kind = "collection" /\ visibility # "gone"
    /\ visibility' = "gone"
    /\ Drop(Items)
    /\ UNCHANGED <<kind, item>>

-----------------------------------------------------------------------------
(* Elsewhere artworks are sold, offered again and deleted; the rows of a     *)
(* deleted artwork or user are deleted with it.                              *)

Artwork(i) == kind \in {"cart", "favorites", "collection", "likes"}

ItemSold(i) ==
    /\ Artwork(i)
    /\ \/ item[i] = "offered" /\ item' = [item EXCEPT ![i] = "sold"]
       \/ item[i] = "sold" /\ item' = [item EXCEPT ![i] = "offered"]
    /\ UNCHANGED <<kind, rows, visibility, request>>

ItemDeleted(i) ==
    /\ kind # "collections"
    /\ Exists(i)
    /\ item' = [item EXCEPT ![i] = "deleted"]
    /\ Drop({i})
    /\ UNCHANGED <<kind, visibility>>

-----------------------------------------------------------------------------
Ask(w, i) ==
    \/ \E n \in 1..MaxQuantity : AddToCart(w, i, n) \/ UpdateCartItem(w, i, n)
    \/ AddToFavorites(w, i) \/ AddArtwork(w, i) \/ CreateCollection(w, i)
    \/ FollowUser(w, i) \/ LikeArtwork(w, i)
    \/ RemoveFromCart(w, i) \/ RemoveFromFavorites(w, i) \/ RemoveArtwork(w, i)
    \/ RemoveCollection(w, i) \/ UnfollowUser(w, i) \/ UnlikeArtwork(w, i)
    \/ Publish(w, i)

Serve(w) ==
    InsertRow(w) \/ LikeRefused(w) \/ SetQuantity(w) \/ DeleteRow(w) \/ WriteVisibility(w)

Next ==
    \/ \E w \in Workers : Serve(w) \/ \E i \in Items : Ask(w, i)
    \/ ClearCart \/ CleanupSoldArtworks \/ Unpublish \/ DeleteCollection
    \/ \E i \in Items : ItemSold(i) \/ ItemDeleted(i)

Spec == Init /\ [][Next]_vars
-----------------------------------------------------------------------------
(* Properties.                                                               *)

TypeOK ==
    /\ kind \in Kinds
    /\ rows \in [Items -> Nat]
    /\ item \in [Items -> {"offered", "sold", "deleted"}]
    /\ visibility \in {"private", "public", "gone"}
    /\ request \in [Workers -> Requests \cup {Done}]

\* No limit is checked in the statement that writes: requests that overlap count the same
\* rows.  Still a list never outgrows its limit by more than the requests that overlapped,
\* one less than the server serves at a time; and although likes have no unique key, and
\* a cart's quantity is a sum of one read before, nobody has more likes of an artwork
\* than requests overlapped, or more of an artwork in the cart than is allowed.
ListsWithinLimits ==
    /\ kind \in DOMAIN Limit => Size < Limit[kind] + Cardinality(Workers)
    /\ \A i \in Items : rows[i] <= (IF kind = "likes" THEN Cardinality(Workers)
                                     ELSE IF kind = "cart" THEN MaxQuantity ELSE 1)
=============================================================================
