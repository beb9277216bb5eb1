------------------------------ MODULE Catalogue ------------------------------
(***************************************************************************)
(* The catalogue: an artwork from its submission to its sale and back, and  *)
(* the public places it is shown in.  Artwork.status is written by the      *)
(* artwork service and, by id and without looking at it, by payments,       *)
(* receipts, settlements and refunds; Artwork.isApproved is written by some *)
(* of them only.                                                            *)
(*                                                                          *)
(* An artwork's number is its place in the order of creation.               *)
(***************************************************************************)
EXTENDS Integers, FiniteSets, FiniteSetsExt

CONSTANTS Artworks,     \* a set of numbers
          Artists,
          ArtistOf,     \* Artwork.userId
          Orders, ItemsOf,
          Views, Likes, Favorites,  \* interactions of each artwork
          AgeInDays,
          MaxComments   \* bound on the comments of all the artworks

CatalogueAssumption ==
    /\ Artworks \subseteq Nat /\ IsFiniteSet(Artworks)
    /\ ArtistOf \in [Artworks -> Artists]
    /\ ItemsOf \in [Orders -> SUBSET Artworks]
    /\ \A f \in {Views, Likes, Favorites, AgeInDays} : f \in [Artworks -> Nat]
    /\ MaxComments \in Nat

VARIABLES
    status,      \* Artwork.status; "none" before the submission, "deleted" at the end
    isApproved,  \* Artwork.isApproved
    letThrough,  \* history: the artworks that the status endpoint has made public, for
                 \* whichever user called it
    order,       \* Order.status; "none" before it is placed
    selling,     \* the orders completeOrder has paid without having sold their artworks yet
    receipt,     \* the delivery confirmation of an order and the dispute it may open
    about,       \* Dispute.artworkId, as a set
    bought,      \* the OrderItem rows of each order
    comments     \* Comment rows of each artwork

vars == <<status, isApproved, letThrough, order, selling, receipt, about, bought, comments>>

ArtworkStatus == {"PENDING", "APPROVED", "REJECTED", "SOLD", "WITHDRAWN", "DISPUTED"}
OrderStatus   == {"PENDING", "CANCELLED", "PAID", "COMPLETED", "DISPUTED", "REFUNDED"}

Init ==
    /\ status = [a \in Artworks |-> "none"]
    /\ isApproved = [a \in Artworks |-> FALSE]
    /\ letThrough = {}
    /\ order = [o \in Orders |-> "none"]
    /\ selling = {}
    /\ receipt = [o \in Orders |-> "NONE"]
    /\ about = [o \in Orders |-> {}]
    /\ bought = [o \in Orders |-> {}]
    /\ comments = [a \in Artworks |-> 0]

Existing == {a \in Artworks : status[a] \in ArtworkStatus}

-----------------------------------------------------------------------------
(* The artist, and who moderates.                                            *)

\* create; the artist's shipping address has been checked before.
Create(a) ==
    /\ status[a] = "none"
    /\ \A b \in Artworks : b < a => status[b] # "none"
    /\ status' = [status EXCEPT ![a] = "PENDING"]
    /\ UNCHANGED <<isApproved, letThrough, order, selling, receipt, about, bought, comments>>

\* Mutant of Delete: a dispute outlives the artwork it is about.
Mut_DeleteKeepsDispute(as) ==
    /\ status' = [a \in Artworks |-> IF a \in as THEN "deleted" ELSE status[a]]
    /\ isApproved' = [a \in Artworks |-> isApproved[a] /\ a \notin as]
    /\ bought' = [o \in Orders |-> bought[o] \ as]
    /\ comments' = [a \in Artworks |-> IF a \in as THEN 0 ELSE comments[a]]
    /\ UNCHANGED <<letThrough, order, selling, receipt, about>>

\* The rows that go with artworks: comments, the items of orders, and the dispute that is
\* about one of them; the order and the confirmation of its delivery stay.
Delete(as) ==
    /\ status' = [a \in Artworks |-> IF a \in as THEN "deleted" ELSE status[a]]
    /\ isApproved' = [a \in Artworks |-> isApproved[a] /\ a \notin as]
    /\ bought' = [o \in Orders |-> bought[o] \ as]
    /\ comments' = [a \in Artworks |-> IF a \in as THEN 0 ELSE comments[a]]
    /\ about' = [o \in Orders |-> about[o] \ as]
    /\ receipt' = [o \in Orders |->
                      IF about[o] \cap as # {} THEN "ORPHANED" ELSE receipt[o]]
    /\ UNCHANGED <<letThrough, order, selling>>

\* remove asks for the owner only.
RemoveArtwork(a) == a \in Existing /\ Delete({a})

\* updateStatus writes any status over any other, for any user who is signed in.
UpdateStatus(a, s) ==
    /\ a \in Existing
    /\ status' = [status EXCEPT ![a] = s]
    /\ isApproved' = [isApproved EXCEPT ![a] = s = "APPROVED"]
    /\ letThrough' = IF s \in {"APPROVED", "SOLD", "DISPUTED"} THEN letThrough \cup {a} ELSE letThrough
    /\ UNCHANGED <<order, selling, receipt, about, bought, comments>>

-----------------------------------------------------------------------------
(* Orders, receipts, disputes.                                               *)

Write(as, s) == status' = [a \in Artworks |-> IF a \in as THEN s ELSE status[a]]

Move(o, from, to) ==
    /\ order[o] \in from
    /\ order' = [order EXCEPT ![o] = to]
    /\ UNCHANGED <<letThrough, bought, comments>>

\* Mutant of CreateOrder: the artworks exist, and that is all.
Mut_CreateOrderOfAny(o) ==
    /\ order[o] = "none"
    /\ ItemsOf[o] \subseteq Existing
    /\ order' = [order EXCEPT ![o] = "PENDING"]
    /\ bought' = [bought EXCEPT ![o] = ItemsOf[o]]
    /\ UNCHANGED <<status, isApproved, letThrough, selling, receipt, about, comments>>

CreateOrder(o) ==
    /\ order[o] = "none"
    /\ \A a \in ItemsOf[o] : status[a] = "APPROVED"
    /\ order' = [order EXCEPT ![o] = "PENDING"]
    /\ bought' = [bought EXCEPT ![o] = ItemsOf[o]]
    /\ UNCHANGED <<status, isApproved, letThrough, selling, receipt, about, comments>>

CancelOrder(o) ==
    /\ Move(o, {"PENDING"}, "CANCELLED")
    /\ UNCHANGED <<status, isApproved, selling, receipt, about>>

\* completeOrder: only an order that is PAID is left alone.
CompleteOrder(o) ==
    /\ Move(o, OrderStatus \ {"PAID"}, "PAID")
    /\ selling' = selling \cup {o}
    /\ UNCHANGED <<status, isApproved, receipt, about>>

\* Its next statement: the artworks are sold, whatever they and the order are by now; or it
\* never comes to that.  OrderPayment tells several completions of one order apart.
MarkArtworksSold(o) ==
    /\ o \in selling
    /\ selling' = selling \ {o}
    /\ Write(bought[o], "SOLD")
    /\ UNCHANGED <<isApproved, letThrough, order, receipt, about, bought, comments>>

\* A delivery is confirmed once, with or without a dispute.
Confirm(o, to, orderTo) ==
    /\ receipt[o] = "NONE"
    /\ receipt' = [receipt EXCEPT ![o] = to]
    /\ Move(o, {"PAID", "DISPUTED"}, orderTo)
    /\ UNCHANGED <<isApproved, selling>>

ConfirmReceipt(o) == Confirm(o, "CONFIRMED", "COMPLETED") /\ UNCHANGED <<status, about>>

\* The dispute is about the first of the items that are left, if any is.
OpenDispute(o) ==
    /\ Confirm(o, IF bought[o] = {} THEN "ORPHANED" ELSE "DISPUTED", "DISPUTED")
    /\ Write(bought[o], "DISPUTED")
    /\ about' = [about EXCEPT ![o] = {a \in bought[o] : \A b \in bought[o] : a <= b}]

Resolve(o, orderTo) ==
    /\ receipt[o] = "DISPUTED"
    /\ receipt' = [receipt EXCEPT ![o] = "RESOLVED"]
    /\ about' = [about EXCEPT ![o] = {}]
    /\ Move(o, OrderStatus, orderTo)
    /\ UNCHANGED selling

\* Seller wins: only what is still in dispute goes back to sold.
SettleForSeller(o) ==
    /\ Resolve(o, "COMPLETED")
    /\ Write({a \in bought[o] : status[a] = "DISPUTED"}, "SOLD")
    /\ UNCHANGED isApproved

\* Mutant of Refund: the flag is not written.
Mut_RefundStatusOnly(o) ==
    /\ Resolve(o, "REFUNDED")
    /\ Write(bought[o], "APPROVED")
    /\ UNCHANGED isApproved

\* A refund offers the artworks again.
Refund(o) ==
    /\ Resolve(o, "REFUNDED")
    /\ Write(bought[o], "APPROVED")
    /\ isApproved' = [a \in Artworks |-> isApproved[a] \/ a \in bought[o]]

-----------------------------------------------------------------------------
(* Comments.                                                                 *)

AddComment(a) ==
    /\ a \in Existing
    /\ MapThenSumSet(LAMBDA b : comments[b], Artworks) < MaxComments
    /\ comments' = [comments EXCEPT ![a] = @ + 1]
    /\ UNCHANGED <<status, isApproved, letThrough, order, selling, receipt, about, bought>>

\* deleteComment asks only that the comment exists.
DeleteComment(a) ==
    /\ comments[a] > 0
    /\ comments' = [comments EXCEPT ![a] = @ - 1]
    /\ UNCHANGED <<status, isApproved, letThrough, order, selling, receipt, about, bought>>

-----------------------------------------------------------------------------
Sell(o) ==
    CreateOrder(o) \/ CancelOrder(o) \/ CompleteOrder(o) \/ MarkArtworksSold(o)
    \/ ConfirmReceipt(o) \/ OpenDispute(o) \/ SettleForSeller(o) \/ Refund(o)

Offer(a) ==
    Create(a) \/ RemoveArtwork(a) \/ (\E s \in ArtworkStatus : UpdateStatus(a, s))
    \/ AddComment(a) \/ DeleteComment(a)

Next == (\E a \in Artworks : Offer(a)) \/ (\E o \in Orders : Sell(o))

Spec == Init /\ [][Next]_vars
-----------------------------------------------------------------------------
(* What the public is shown.  Results that have an order are sequences.      *)

\* findAll without a status, or with one that is not the public's.
FindAll == {a \in Artworks : status[a] \in {"APPROVED", "SOLD"}}

\* findOne hides an artwork in dispute from strangers.
OpenToAll == {a \in Existing : status[a] # "DISPUTED"}

\* JavaScript's sort by descending score is stable, and the artworks come latest first: the
\* place of an artwork is how many come before it.
Before(score, b, a)  == score[b] > score[a] \/ (score[b] = score[a] /\ b > a)
Place(as, score, a)  == Cardinality({b \in as : Before(score, b, a)}) + 1
Ranked(as, score)    == [n \in 1..Cardinality(as) |-> CHOOSE a \in as : Place(as, score, a) = n]
IsIn(ranked, a)      == \E n \in DOMAIN ranked : ranked[n] = a

\* getFeed: artworks of the artists somebody follows, the latest first.
FeedArtworks(followed) ==
    Ranked({a \in Artworks : ArtistOf[a] \in followed /\ status[a] = "APPROVED" /\ isApproved[a]},
           [a \in Artworks |-> a])

\* Engagement in halves, the bonus in tenths: twenty times the code's score.
Engagement ==
    [a \in Artworks |-> 2 * Views[a] + 6 * Likes[a] + 4 * comments[a] + 5 * Favorites[a]]
RecencyBonus(a) == IF AgeInDays[a] <= 7 THEN 15 ELSE IF AgeInDays[a] <= 30 THEN 12 ELSE 10
EngagementScore(a) == Engagement[a] * RecencyBonus(a)

TrendingArtworks ==
    Ranked({a \in Artworks : isApproved[a] /\ status[a] \in {"APPROVED", "SOLD"}},
           [a \in Artworks |-> EngagementScore(a)])

\* The artists of what is on sale, whatever they have sold before.
TrendingArtists == {ArtistOf[a] : a \in {b \in Artworks : isApproved[b] /\ status[b] = "APPROVED"}}

-----------------------------------------------------------------------------
(* Properties.                                                               *)

TypeOK ==
    /\ status \in [Artworks -> ArtworkStatus \cup {"none", "deleted"}]
    /\ isApproved \in [Artworks -> BOOLEAN]
    /\ letThrough \subseteq Artworks
    /\ order \in [Orders -> OrderStatus \cup {"none"}]
    /\ selling \in SUBSET Orders
    /\ receipt \in [Orders -> {"NONE", "CONFIRMED", "DISPUTED", "ORPHANED", "RESOLVED"}]
    /\ \A o \in Orders : about[o] \subseteq bought[o] /\ (about[o] # {} <=> receipt[o] = "DISPUTED")
    /\ \A o \in Orders : bought[o] \subseteq ItemsOf[o]
    /\ comments \in [Artworks -> 0..MaxComments]

\* Nothing is shown to the public, sold or in dispute that the status endpoint has never
\* made public: payments, receipts, settlements and refunds write the status of artworks
\* they have not looked at, which may have been rejected in the meantime, and still only
\* bring back what was public before.
PublicWasLetThrough ==
    \A a \in Artworks : a \in FindAll \/ status[a] = "DISPUTED" => a \in letThrough
=============================================================================
