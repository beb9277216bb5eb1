------------------------------ MODULE MCPlatform ------------------------------
(* Finite instances of the parts of Platform for TLC.                        *)
EXTENDS Platform, TLC

CONSTANTS w1, w2, u1, u2

\* Lists: every limit is 1.
OneOfEach == [k \in Kinds \ {"likes", "follows"} |-> 1]

\* A blog post: one request per reader.
OwnRequest == (w1 :> u1) @@ (w2 :> u2)

\* The catalogue: two artworks of two artists who share a category; one order may buy the
\* first, the other one both.
EachTheirs == (1 :> "x") @@ (2 :> "y")
FirstOrBoth == ("o1" :> {1}) @@ ("o2" :> {1, 2})
TwoViews  == [a \in Artworks |-> 2]
FirstLiked == (1 :> 1) @@ (2 :> 0)
SecondKept == (1 :> 0) @@ (2 :> 1)
FirstOlder == (1 :> 40) @@ (2 :> 20)
OwnNumber == [a \in Artworks |-> a]
OneGroup  == [a \in Artworks |-> {"c"}]
OneTalent == [x \in Artists |-> {"t"}]
FirstHot  == ("x" :> 1) @@ ("y" :> 0)

\* A checkout of two sellers, one of them paid through PayPal.
ChapaAndPayPal == <<"chapa", "paypal">>

\* Rows of every table, some of another user or with another status or provider; what a
\* list is sorted by changes when they are edited.
Row(t, u, e, s, p) ==
    [table |-> t, user |-> u, byEmail |-> e, status |-> s, provider |-> p, rank |-> 0]
OtherTables == {"favorite", "cartItem", "follow", "collection", "order", "commission", "dispute",
                "artwork", "comment", "post", "postComment", "user"}
SomeRows ==
    {Row("purchase", u1, FALSE, "s1", "none"), Row("purchase", u1, TRUE, "s2", "chapa"),
     Row("earning", u1, FALSE, "s1", "paypal"), Row("withdrawal", u2, FALSE, "s2", "chapa"),
     Row("payout", u1, FALSE, "s1", "paypal"), Row("payout", u2, FALSE, "s2", "chapa")}
    \cup {Row(t, u1, FALSE, "s1", "none") : t \in OtherTables}
    \cup {Row(t, u2, FALSE, "s2", "none") : t \in {"order", "collection"}}

ASSUME /\ Post!BlogPostAssumption /\ Shop!ListsAssumption /\ Cart!CheckoutAssumption
       /\ Setup!PayoutSetupAssumption /\ Desk!SettingsAssumption /\ Page!ListingsAssumption
=============================================================================
