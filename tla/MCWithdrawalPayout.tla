-------------------------- MODULE MCWithdrawalPayout --------------------------
(* Finite instances of WithdrawalPayout for TLC.                             *)
EXTENDS WithdrawalPayout, TLC

CONSTANTS wd1, wd2, wd3

EachMethod == (wd1 :> "bank") @@ (wd2 :> "manual") @@ (wd3 :> "paypal")

\* The balance covers the first and the third, and the second with no other.
ThreeAmounts == (wd1 :> 2) @@ (wd2 :> 3) @@ (wd3 :> 2)
=============================================================================
