--------------------------- MODULE MCSellerBalance ---------------------------
(* Finite instances of SellerBalance for TLC: every sale and withdrawal of   *)
(* the seller is one unit, through PayPal.                                   *)
EXTENDS SellerBalance, TLC

CONSTANTS o1, o2, wd1, wd2

PayPalOnly == [x \in Orders \cup Withdrawals |-> "paypal"]
Units      == [x \in Orders \cup Withdrawals |-> 1]
=============================================================================
