---------------------------- MODULE DisputePromise ----------------------------
(***************************************************************************)
(* What DisputesService promises buyer and seller about one case: the       *)
(* disputed money is frozen until it goes to exactly one of them, to the    *)
(* buyer only from a ready case, a decision is taken back only while it is  *)
(* frozen, and a closed case never moves again.                             *)
(***************************************************************************)
VARIABLES phase,   \* "open", "waiting" for the return, "ready" to refund, "closed"
          money    \* "frozen", "refunded" to the buyer or "released" to the seller

promiseVars == <<phase, money>>

Init == phase = "open" /\ money = "frozen"

SellerWins ==
    /\ phase = "open" /\ money = "frozen"
    /\ phase' = "closed" /\ money' = "released"

BuyerWins ==
    /\ phase = "open"
    /\ phase' \in {"waiting", "ready"}
    /\ UNCHANGED money

ReturnSettled == phase = "waiting" /\ phase' = "ready" /\ UNCHANGED money

TakeBack ==
    /\ phase \in {"waiting", "ready"} /\ money = "frozen"
    /\ phase' = "open"
    /\ UNCHANGED money

Refund == phase = "ready" /\ money = "frozen" /\ money' = "refunded" /\ UNCHANGED phase

Close == phase = "ready" /\ money = "refunded" /\ phase' = "closed" /\ UNCHANGED money

Next == SellerWins \/ BuyerWins \/ ReturnSettled \/ TakeBack \/ Refund \/ Close

Spec == Init /\ [][Next]_promiseVars
=============================================================================
