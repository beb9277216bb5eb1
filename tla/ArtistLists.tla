------------------------------ MODULE ArtistLists ------------------------------
(***************************************************************************)
(* The lists of artists and of similar artworks the public is shown, over   *)
(* the catalogue they are computed from at every request, and the bans that *)
(* hide an artist.  A list that has a rank is a sequence, cut off after     *)
(* Limit; a list without one is a set.                                      *)
(***************************************************************************)
EXTENDS Catalogue, Sequences

CONSTANTS Limit,          \* the default of each list's limit
          Price,          \* OrderItem.price of each artwork
          CategoriesOf,   \* of each artwork, unless its owner takes it out of them
          Edited,         \* bound: the artworks whose owner does
          CollectionsOf,  \* of each artwork
          TalentsOf,      \* of each artist
          Heat,           \* User.heatScore
          Online          \* artists active in the last five minutes

ListsAssumption ==
    /\ CatalogueAssumption
    /\ IsFiniteSet(Artists) /\ IsFiniteSet(Orders)
    /\ Limit \in Nat
    /\ Price \in [Artworks -> Nat] /\ Heat \in [Artists -> Nat]
    /\ DOMAIN CategoriesOf = Artworks
    /\ \A a \in Artworks : IsFiniteSet(CategoriesOf[a]) /\ IsFiniteSet(CollectionsOf[a])

VARIABLES
    banned,      \* artists an administrator banned or who deactivated themselves
    removed,     \* artists whose User row is gone
    categoriesOf \* the categories of each artwork

accountVars == <<banned, removed>>
listVars == <<vars, accountVars, categoriesOf>>

ListsInit == Init /\ banned = {} /\ removed = {} /\ categoriesOf = CategoriesOf

Users == Artists \ removed

\* The administrator's update, with or without a change of the flag; the artist's own.
UpdateUser(x, ban) ==
    /\ x \in Users
    /\ banned' = IF ban THEN banned \cup {x} ELSE banned \ {x}
    /\ UNCHANGED <<vars, removed, categoriesOf>>
DeactivateAccount(x) == UpdateUser(x, TRUE)
ReactivateAccount(x) == x \in banned /\ UpdateUser(x, FALSE)

\* The artworks go with their artist.
RemoveUser(x) ==
    /\ x \in Users
    /\ removed' = removed \cup {x}
    /\ banned' = banned \ {x}
    /\ Delete({a \in Existing : ArtistOf[a] = x})
    /\ UNCHANGED categoriesOf

\* update by the owner: of what the lists look at, the categories change; neither the
\* status nor the approval does.
UpdateArtwork(a, cs) ==
    /\ a \in Existing
    /\ categoriesOf' = [categoriesOf EXCEPT ![a] = cs]
    /\ UNCHANGED <<vars, accountVars>>

ListsNext ==
    \/ /\ Next
       /\ \A a \in Artworks : ArtistOf[a] \in removed => status'[a] = status[a]
       /\ UNCHANGED <<accountVars, categoriesOf>>
    \/ \E x \in Artists :
          \/ (\E ban \in BOOLEAN : UpdateUser(x, ban)) \/ RemoveUser(x)
          \/ DeactivateAccount(x) \/ ReactivateAccount(x)
    \/ \E a \in Edited : \E cs \in {{}, CategoriesOf[a]} : UpdateArtwork(a, cs)

ListsSpec == ListsInit /\ [][ListsNext]_listVars
-----------------------------------------------------------------------------
(* Artists.                                                                  *)

Listed    == Users \ banned
OnSale(x) == {a \in Artworks : ArtistOf[a] = x /\ status[a] = "APPROVED"}
Sellers   == {x \in Listed : OnSale(x) # {}}

\* What the orders that are PAID paid for these artworks.
SalesOf(as) ==
    LET paid == [o \in Orders |-> MapThenSumSet(LAMBDA a : Price[a], bought[o] \cap as)]
    IN  MapThenSumSet(LAMBDA o : paid[o], {o \in Orders : order[o] = "PAID"})

\* The sales of an artist are counted over the artworks that are on sale.
Sales   == [x \in Artists |-> SalesOf(OnSale(x))]
ViewsOf == [x \in Artists |-> MapThenSumSet(LAMBDA a : Views[a], OnSale(x))]

\* A higher score comes earlier; of equal scores, what the database answers first.
InOrder(ranked, score) ==
    \A i, j \in DOMAIN ranked : i < j => ranked[i] # ranked[j] /\ score[ranked[i]] >= score[ranked[j]]

Top(xs, score, n) ==
    LET ranked == CHOOSE r \in [1..Cardinality(xs) -> xs] : InOrder(r, score)
    IN  SubSeq(ranked, 1, IF Cardinality(xs) < n THEN Cardinality(xs) ELSE n)

\* getAllArtists, whoever has something on sale or not.
AllArtists == Listed

TopSellingArtists == Top({x \in Sellers : Sales[x] > 0}, Sales, Limit)
MostViewedArtists == Top({x \in Sellers : ViewsOf[x] > 0}, ViewsOf, Limit)

\* Ranked by a heat score that is kept with the artist.
HotArtists(talent) ==
    Top({x \in Sellers : Heat[x] > 0 /\ talent \in TalentsOf[x]}, Heat, Limit)

OnlineArtists == Sellers \cap Online

\* ArtistService's, and TalentTypeService's of the same name.
ArtistsByTalentType(talent)    == {x \in Sellers : talent \in TalentsOf[x]}
AllArtistsByTalentType(talent) == {x \in Listed : talent \in TalentsOf[x]}

\* Artists whose artworks on sale share a category; of an artist without categories, any;
\* the limit takes some of them.
CategoriesOnSale(x) == UNION {categoriesOf[a] : a \in OnSale(x)}
SimilarArtists(x) ==
    {y \in Sellers \ {x} : CategoriesOnSale(x) = {} \/ CategoriesOnSale(x) \cap CategoriesOnSale(y) # {}}

-----------------------------------------------------------------------------
(* Artworks like another one.                                                *)

Shown == {a \in Artworks : isApproved[a] /\ status[a] \in {"APPROVED", "SOLD"}}

\* The more collections or categories they share, the earlier.
Alike(a, groups) ==
    LET shared == [b \in Artworks |-> Cardinality(groups[a] \cap groups[b])]
    IN  Top({b \in Shown \ {a} : shared[b] > 0}, shared, Limit)

SimilarArtworks(a)           == Alike(a, CollectionsOf)
SimilarArtworksByCategory(a) == Alike(a, categoriesOf)

\* The public collections by the engagement with their artworks, on sale or not.
Collections == UNION {CollectionsOf[a] : a \in Existing}
CollectionScore ==
    [c \in Collections |->
        MapThenSumSet(LAMBDA a : Engagement[a], {a \in Existing : c \in CollectionsOf[a]})]
HotCollections == Top(Collections, CollectionScore, Limit)

-----------------------------------------------------------------------------
(* Properties.                                                               *)

ListsTypeOK ==
    /\ TypeOK
    /\ banned \subseteq Users /\ removed \subseteq Artists
    /\ \A a \in Artworks : categoriesOf[a] \subseteq CategoriesOf[a]
    /\ MostViewedArtists \in Seq(Sellers) /\ TopSellingArtists \in Seq(Sellers)
    /\ \A x \in Artists : \A t \in TalentsOf[x] : HotArtists(t) \in Seq(ArtistsByTalentType(t))
    /\ \A a \in Artworks :
          {SimilarArtworks(a), SimilarArtworksByCategory(a)} \subseteq Seq(Shown \ {a})
    /\ HotCollections \in Seq(Collections)

\* What an order accepts is found: the places that ask for the status and those that ask
\* for the flag agree on what is on sale, and unless banned, its artist is in every list
\* that asks for something on sale, through any history of moderation, sales, disputes,
\* refunds and bans.
OnSaleIsFound ==
    \A a \in Artworks : status[a] = "APPROVED" =>
        LET x == ArtistOf[a] IN
        /\ a \in FindAll \cap OpenToAll \cap Shown
        /\ IsIn(FeedArtworks({x}), a) /\ IsIn(TrendingArtworks, a)
        /\ x \in TrendingArtists
        /\ x \notin banned =>
              /\ x \in AllArtists
              /\ \A t \in TalentsOf[x] : x \in ArtistsByTalentType(t) /\ x \in AllArtistsByTalentType(t)
              /\ x \in Online => x \in OnlineArtists
              /\ \A y \in Artists \ {x} :
                    categoriesOf[a] \cap CategoriesOnSale(y) # {} => x \in SimilarArtists(y)
=============================================================================
