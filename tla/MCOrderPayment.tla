---------------------------- MODULE MCOrderPayment ----------------------------
(* Finite instances of OrderPayment for TLC.                                 *)
EXTENDS OrderPayment, TLC

CONSTANTS o1, o2, a1, a2, b1, c1, c2

\* One order, paid through Chapa, or through one or two PayPal charges.
OneOrder == {o1}
OneItem  == (o1 :> {a1})
OneBuyer == (o1 :> b1)
ByChapa  == (o1 :> "chapa")
ByPayPal == (o1 :> "paypal")
OneCharge  == (c1 :> o1)
TwoCharges == (c1 :> o1) @@ (c2 :> o1)

\* Two orders of one buyer, one per provider, on different artworks.
TwoOrders   == {o1, o2}
OwnItems    == (o1 :> {a1}) @@ (o2 :> {a2})
SameBuyer   == (o1 :> b1) @@ (o2 :> b1)
Mixed       == (o1 :> "chapa") @@ (o2 :> "paypal")
ChargeEach  == (c1 :> o1) @@ (c2 :> o2)

WorkerSymmetry == Permutations(Workers)
=============================================================================
