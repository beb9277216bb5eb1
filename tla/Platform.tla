------------------------------- MODULE Platform -------------------------------
(***************************************************************************)
(* The parts of the platform around the orders and the money, side by side: *)
(* the lists of a user (extended here), a blog post, the catalogue with its *)
(* lists, a checkout, a seller's payout setup, the settings and the paged   *)
(* lists.  What one part takes from another, such as the sale of an artwork *)
(* in a cart, is already a free move of its environment there, so that an   *)
(* interleaving of two parts shows no more than the two alone: a behaviour  *)
(* starts all of them and moves one, the `scene'.                           *)
(***************************************************************************)
EXTENDS UserLists

CONSTANTS Members, UserOf, Staff, CommentIds, MaxShares,
          Artworks, Artists, ArtistOf, ShopOrders, ItemsOf, Views, Likes, FavoritesOf, AgeInDays,
          MaxComments, ListLimit, Price, CategoriesOf, Edited, CollectionsOf, TalentsOf, Heat,
          Online,
          Groups, ProviderOf, Prices, Rates, RateTTL, QuoteTTL, MaxTime, MaxCharges,
          MaxReceipts,
          Accounts,
          Admins, Given, Touched, MaxGiven, Ages,
          Statuses, RowProviders, Ranks, NewRows, PageSize, MaxRows, MaxChanges

VARIABLES
    scene,
    postStatus, published, dated, decision, vote, likes, dislikes, shareRows, shares, parent,
    postRequest,
    artworkStatus, isApproved, letThrough, order, selling, receipt, about, bought, comments,
    banned, removed, categoriesOf,
    now, cache, checkoutOrder, total, completed, delivery, meta, preparing, outcome,
    paymentRequest, charges,
    capability, preference, entered, pending, held, setupRequest,
    doc, stored, update, age, pendingOrder,
    list, query, tableRows, page, half, pages, wanted, seen, tied, moved, slipped

Post == INSTANCE BlogPost WITH Users <- Members, Comments <- CommentIds,
                               status <- postStatus, request <- postRequest
Shop == INSTANCE ArtistLists WITH Orders <- ShopOrders, Favorites <- FavoritesOf,
                                  Limit <- ListLimit, status <- artworkStatus
Cart == INSTANCE Checkout WITH order <- checkoutOrder, request <- paymentRequest
Setup == INSTANCE PayoutSetup WITH request <- setupRequest
Desk == INSTANCE Settings WITH request <- update, status <- pendingOrder
Page == INSTANCE Listings WITH Users <- Members, Providers <- RowProviders,
                               Limit <- PageSize, rows <- tableRows

postVars     == <<postStatus, published, dated, decision, vote, likes, dislikes, shareRows,
                  shares, parent, postRequest>>
shopVars     == <<artworkStatus, isApproved, letThrough, order, selling, receipt, about, bought,
                  comments, banned, removed, categoriesOf>>
checkoutVars == <<now, cache, checkoutOrder, total, completed, delivery, meta, preparing,
                  outcome, paymentRequest, charges>>
setupVars    == <<capability, preference, entered, pending, held, setupRequest>>
deskVars     == <<doc, stored, update, age, pendingOrder>>
pageVars     == <<list, query, tableRows, page, half, pages, wanted, seen, tied, moved,
                  slipped>>
platformVars == <<vars, scene, postVars, shopVars, checkoutVars, setupVars, deskVars,
                  pageVars>>

Scenes == {"lists", "post", "shop", "checkout", "setup", "settings", "pages"}

\* A part that does not move starts in one of its initial states only.
PlatformInit ==
    /\ scene \in Scenes
    /\ Init         /\ (scene = "lists" \/ kind = "cart")
    /\ Post!Init
    /\ Shop!ListsInit
    /\ Cart!Init
    /\ Setup!Init
    /\ Desk!Init    /\ (scene = "settings" \/ doc = "order")
    /\ Page!Init    /\ (scene = "pages" \/ list = Page!Commissions)

PlatformNext ==
    /\ UNCHANGED scene
    /\ \/ /\ scene = "lists" /\ Next
          /\ UNCHANGED <<postVars, shopVars, checkoutVars, setupVars, deskVars, pageVars>>
       \/ /\ scene = "post" /\ Post!Next
          /\ UNCHANGED <<vars, shopVars, checkoutVars, setupVars, deskVars, pageVars>>
       \/ /\ scene = "shop" /\ Shop!ListsNext
          /\ UNCHANGED <<vars, postVars, checkoutVars, setupVars, deskVars, pageVars>>
       \/ /\ scene = "checkout" /\ Cart!Next
          /\ UNCHANGED <<vars, postVars, shopVars, setupVars, deskVars, pageVars>>
       \/ /\ scene = "setup" /\ Setup!Next
          /\ UNCHANGED <<vars, postVars, shopVars, checkoutVars, deskVars, pageVars>>
       \/ /\ scene = "settings" /\ Desk!Next
          /\ UNCHANGED <<vars, postVars, shopVars, checkoutVars, setupVars, pageVars>>
       \/ /\ scene = "pages" /\ Page!Next
          /\ UNCHANGED <<vars, postVars, shopVars, checkoutVars, setupVars, deskVars>>

PlatformSpec == PlatformInit /\ [][PlatformNext]_platformVars
-----------------------------------------------------------------------------
(* Properties: those of the parts.                                           *)

PlatformTypeOK ==
    /\ scene \in Scenes
    /\ scene = "lists"    => TypeOK
    /\ scene = "post"     => Post!TypeOK
    /\ scene = "shop"     => Shop!ListsTypeOK
    /\ scene = "checkout" => Cart!TypeOK
    /\ scene = "setup"    => Setup!TypeOK
    /\ scene = "settings" => Desk!TypeOK
    /\ scene = "pages"    => Page!TypeOK

\* Each is stated with its part, and looked at where that part moves.
CountersFollowTheRows      == scene = "post"     => Post!CountersFollowTheRows
PublishedHasADate          == scene = "post"     => Post!PublishedHasADate
PublicWasLetThrough        == scene = "shop"     => Shop!PublicWasLetThrough
OnSaleIsFound              == scene = "shop"     => Shop!OnSaleIsFound
ChargedAsQuoted            == scene = "checkout" => Cart!ChargedAsQuoted
NothingRemainsMeansAllPaid == scene = "checkout" => Cart!NothingRemainsMeansAllPaid
OfferedAsEntered           == scene = "setup"    => Setup!OfferedAsEntered
CopiesAgree                == scene = "settings" => Desk!CopiesAgree
PagesMissOnlyWhatMoved     == scene = "pages"    => Page!PagesMissOnlyWhatMoved
=============================================================================
