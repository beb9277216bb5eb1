------------------------------- MODULE Listings -------------------------------
(***************************************************************************)
(* The paged lists of the platform: payments, withdrawals, orders, disputes, *)
(* artworks, posts, accounts and what a user keeps, most of them the newest  *)
(* first, posts and artworks by fields that are edited; and a reader who     *)
(* turns their pages while rows are added, change their status or their     *)
(* place, and are deleted.                                                   *)
(*                                                                          *)
(* Most lists ask the database twice at the same time, for the page and for *)
(* the number of rows; the lists of payments cut the page out of one        *)
(* answer.                                                                  *)
(***************************************************************************)
EXTENDS Naturals, FiniteSets, Sequences

CONSTANTS Users, Statuses, Providers,
          Ranks,                \* values of what a list is sorted by before the date
          NewRows,              \* the rows of the lists' tables that may be created
          Limit,                \* the size of a page
          MaxRows, MaxChanges   \* bounds

\* Payments: a buyer's for an order, the platform's to a seller, and a seller's withdrawal.
Payments == {"purchase", "earning", "withdrawal"}
Kept     == {"favorite", "cartItem", "follow", "collection"}
Tables   == Payments \cup Kept \cup {"payout", "order", "commission", "dispute",
                                     "artwork", "comment", "post", "postComment", "user"}

\* A row belongs to a buyer, seller, artist or account; a purchase may be known to be
\* its buyer's by the e-mail address only.
Rows == [table : Tables, user : Users, byEmail : BOOLEAN, status : Statuses,
         provider : Providers \cup {"none"}, rank : Ranks]

ListingsAssumption ==
    /\ NewRows \subseteq Rows /\ Ranks \subseteq Nat
    /\ Limit \in Nat \ {0} /\ MaxRows \in Nat /\ MaxChanges \in Nat

VARIABLES
    list, query,  \* which list is read, with what filter
    rows,         \* the rows in the order of creation
    page,         \* the page the reader is at; 0 before the first
    half,         \* the statement of the page that is answered already
    pages,        \* the number of pages by the latest answer
    wanted,       \* the rows that were on the list when the reader started
    seen,         \* the rows shown to the reader
    tied,         \* the rows that shared a place with another one when a page was read
    moved,        \* how many rows left the list, or their place in it, since
    slipped       \* how many came to it between a page's two statements

readerVars == <<page, half, pages, wanted, seen, tied, moved, slipped>>
vars == <<list, query, rows, readerVars>>

-----------------------------------------------------------------------------
(* The lists: their tables, whether they are one user's, what a request may  *)
(* filter and sort them by.                                                  *)

\* Whether a rank comes before the date, and whether the date puts the newer of two rows
\* first; either, when the database decides.
Newest == [ranked |-> FALSE, newer |-> {TRUE}]
Oldest == [ranked |-> FALSE, newer |-> {FALSE}]
ByRank == [ranked |-> TRUE, newer |-> BOOLEAN]

List(tables, own, filters) ==
    [tables |-> tables, own |-> own, filters |-> filters, sorts |-> {Newest},
     statements |-> 2, signedIn |-> FALSE, orOwn |-> FALSE, unnamed |-> "none"]

AtOnce(l) == [l EXCEPT !.statements = 1]

Transactions      == AtOnce(List(Payments, FALSE, {"status", "provider"}))
BuyerTransactions == AtOnce(List({"purchase"}, TRUE, {"status", "provider"}))
UserTransactions  == [BuyerTransactions EXCEPT !.signedIn = TRUE]

\* A user's whole history, where a payment that names no provider is PayPal's.
AllUserTransactions ==
    [AtOnce(List(Payments, TRUE, {"status", "provider"})) EXCEPT !.signedIn = TRUE, !.unnamed = "paypal"]

Withdrawals       == List({"payout"}, FALSE, {"status", "provider"})
WithdrawalHistory == List({"payout"}, TRUE, {})
AllOrders         == List({"order"}, FALSE, {"status"})
Commissions       == List({"commission"}, FALSE, {})
Disputes          == List({"dispute"}, FALSE, {"status"})
UserArtworks      == List({"artwork"}, TRUE, {"status"})
Comments          == List({"comment"}, FALSE, {})
UploadedArtworks  == List({"artwork"}, TRUE, {})
PostComments      == List({"postComment"}, FALSE, {})
ActiveUsers       == List({"user"}, FALSE, {"status"})
AllUsers          == List({"user"}, FALSE, {"status"})
AllArtists        == List({"user"}, FALSE, {})
CartItems         == List({"cartItem"}, TRUE, {})
Favorites         == List({"favorite"}, TRUE, {})
Followers         == List({"follow"}, TRUE, {})
Following         == List({"follow"}, TRUE, {})
UserCollections   == List({"collection"}, TRUE, {})

\* By any field a request names, such as the price: the public's list and the administrator's.
AllArtworks == [List({"artwork"}, FALSE, {"status"}) EXCEPT !.sorts = {Newest, Oldest, ByRank}]

\* By priority first: the public's list and the administrator's.
Posts == [List({"post"}, FALSE, {"status"}) EXCEPT
             !.sorts = {ByRank} \cup {[ranked |-> TRUE, newer |-> {b}] : b \in BOOLEAN}]

\* The public collections, and the user's own ones.
Collections == [List({"collection"}, FALSE, {"status"}) EXCEPT !.orOwn = TRUE]

Lists == {Transactions, BuyerTransactions, UserTransactions, AllUserTransactions,
          Withdrawals, WithdrawalHistory, AllOrders, Commissions, Disputes,
          AllArtworks, UserArtworks, Comments, UploadedArtworks, Posts, PostComments,
          ActiveUsers, AllUsers, AllArtists, CartItems, Favorites, Followers, Following,
          UserCollections, Collections}

\* "any" is what a request leaves out; who asks matters to the lists of one user.
Queries(l) ==
    [user : IF l.own \/ l.orOwn THEN Users ELSE {"anyone"}, sort : l.sorts,
     status : IF "status" \in l.filters THEN Statuses \cup {"any"} ELSE {"any"},
     provider : IF "provider" \in l.filters THEN Providers \cup {"any"} ELSE {"any"}]

ProviderIn(l, r) == IF r.provider = "none" THEN l.unnamed ELSE r.provider

Matches(l, q, r) ==
    /\ r.table \in l.tables
    /\ l.own => r.user = q.user
    /\ l.signedIn => ~r.byEmail
    /\ q.status \in {"any", r.status} \/ (l.orOwn /\ r.user = q.user)
    /\ q.provider \in {"any", ProviderIn(l, r)}

OnList(rs) == {i \in DOMAIN rs : Matches(list, query, rs[i])}

Rank(rs, i) == IF query.sort.ranked THEN rs[i].rank ELSE 0

\* Row j is shown before row i, if the newer of two rows that tie comes first or the older.
Ahead(j, i, newer) ==
    \/ Rank(rows, j) > Rank(rows, i)
    \/ Rank(rows, j) = Rank(rows, i) /\ (IF newer THEN j > i ELSE i > j)

Place(i, newer) == Cardinality({j \in OnList(rows) : Ahead(j, i, newer)})

\* Mutant of Page: the offset counts pages from 0.
Mut_PageFromZero(n, newer) ==
    {i \in OnList(rows) : n * Limit <= Place(i, newer) /\ Place(i, newer) < (n + 1) * Limit}

Page(n, newer) ==
    {i \in OnList(rows) : (n - 1) * Limit <= Place(i, newer) /\ Place(i, newer) < n * Limit}

Ties == {i \in OnList(rows) :
            /\ query.sort.newer = BOOLEAN
            /\ \E j \in OnList(rows) \ {i} : Rank(rows, j) = Rank(rows, i)}

PagesNow == (Cardinality(OnList(rows)) + Limit - 1) \div Limit

-----------------------------------------------------------------------------
(* The reader.                                                               *)

Init ==
    /\ list \in Lists
    /\ query \in Queries(list)
    /\ rows = << >>
    /\ page = 0 /\ half = "none" /\ pages = 0
    /\ wanted = {} /\ seen = {} /\ tied = {}
    /\ moved = 0 /\ slipped = 0

Started == page > 0 \/ half # "none"

\* The reader goes on while the latest answer says that there are more pages.
TurnsTo(n) ==
    /\ half = "none" /\ n = page + 1
    /\ ~Started \/ page < pages
    /\ wanted' = IF Started THEN wanted ELSE OnList(rows)
    /\ slipped' = 0
    /\ UNCHANGED <<list, query, rows, moved>>

Read(n) ==
    /\ page' = n
    /\ \E newer \in query.sort.newer : seen' = seen \cup Page(n, newer)
    /\ tied' = tied \cup Ties

Count == pages' = PagesNow

ReadAtOnce ==
    /\ list.statements = 1
    /\ TurnsTo(page + 1) /\ Read(page + 1) /\ Count
    /\ UNCHANGED half

ReadFirst ==
    /\ list.statements = 2
    /\ TurnsTo(page + 1) /\ Read(page + 1)
    /\ half' = "read"
    /\ UNCHANGED pages

CountFirst ==
    /\ list.statements = 2
    /\ TurnsTo(page + 1) /\ Count
    /\ half' = "counted"
    /\ UNCHANGED <<page, seen, tied>>

ReadSecond ==
    /\ half = "counted"
    /\ Read(page + 1)
    /\ half' = "none"
    /\ UNCHANGED <<list, query, rows, pages, wanted, moved, slipped>>

CountSecond ==
    /\ half = "read"
    /\ Count
    /\ half' = "none"
    /\ UNCHANGED <<list, query, rows, page, wanted, seen, tied, moved, slipped>>

-----------------------------------------------------------------------------
(* The rows.                                                                 *)

Gone == [table |-> "none"]
Live == {i \in DOMAIN rows : rows[i] # Gone}

Write(rs) ==
    /\ rows' = rs
    /\ moved'   = IF Started /\ moved < MaxChanges
                  THEN moved + Cardinality({i \in OnList(rows) :
                                   i \in OnList(rs) => Rank(rs, i) # Rank(rows, i)})
                  ELSE moved
    /\ slipped' = IF half = "counted"
                  THEN slipped + Cardinality(OnList(rs) \ OnList(rows)) ELSE slipped
    /\ UNCHANGED <<list, query, page, half, pages, wanted, seen, tied>>

CreateRow ==
    /\ Len(rows) < MaxRows
    /\ \E r \in NewRows : r.table \in list.tables /\ Write(Append(rows, r))

MayMove == moved < MaxChanges

\* A decision or an edit; an edit counts where the list is sorted by what it changes: the
\* price, the title or the last change of an artwork, the priority of a post.
ChangeRow(i) ==
    /\ MayMove
    /\ \E s \in Statuses, k \in IF query.sort.ranked THEN Ranks ELSE {rows[i].rank} :
          /\ <<s, k>> # <<rows[i].status, rows[i].rank>>
          /\ Write([rows EXCEPT ![i].status = s, ![i].rank = k])

\* The services delete what users made and keep, and users; never what is about money.
DeleteRow(i) ==
    /\ MayMove
    /\ rows[i].table \notin Payments \cup {"payout", "order", "commission", "dispute"}
    /\ Write([rows EXCEPT ![i] = Gone])

-----------------------------------------------------------------------------
Next ==
    \/ ReadAtOnce \/ ReadFirst \/ CountFirst \/ ReadSecond \/ CountSecond
    \/ CreateRow
    \/ \E i \in Live : ChangeRow(i) \/ DeleteRow(i)

Spec == Init /\ [][Next]_vars
-----------------------------------------------------------------------------
(* Properties.                                                               *)

TypeOK ==
    /\ list \in Lists /\ query \in Queries(list)
    /\ rows \in Seq(NewRows \cup Rows \cup {Gone})
    /\ page \in Nat /\ pages \in Nat
    /\ half \in {"none", "read", "counted"}
    /\ wanted \cup seen \cup tied \subseteq DOMAIN rows
    /\ moved \in 0..MaxChanges /\ slipped \in Nat

Finished == page > 0 /\ half = "none" /\ page >= pages

\* A reader who turns all pages of a list that changes under the reading misses at most as
\* many of its rows as left it or their place in it meanwhile, and as came between the two
\* statements of the last page: new rows alone cost a reader of the payments nothing.  Of
\* the rows that tie in what the list is sorted by the database may show one twice and
\* another never.
PagesMissOnlyWhatMoved ==
    Finished => Cardinality(wanted \ (seen \cup tied)) <= moved + slipped
=============================================================================
