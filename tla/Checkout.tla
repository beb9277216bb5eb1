------------------------------- MODULE Checkout -------------------------------
(***************************************************************************)
(* The checkout of a cart with several sellers: one order per seller, made  *)
(* one after the other by prepareCheckout, each with a charge quote that    *)
(* locks the price and the exchange rate; then one payment per order,       *)
(* started at the gateway for the quoted amount.                            *)
(*                                                                          *)
(* The quote, the siblings of an order and the gateway's reference live in  *)
(* Transaction.metadata, a document every handler reads, extends and writes *)
(* back as a whole, in another statement: the payments being started, the   *)
(* completion of the order, its receipt and the settlement of its dispute.  *)
(***************************************************************************)
EXTENDS Integers, FiniteSets

CONSTANTS Groups,     \* the number of seller groups; the order of group g is g
          ProviderOf, \* the provider chosen for an order, "chapa" or "paypal"
          Workers,    \* requests about the orders served at the same time
          Prices, Rates,
          RateTTL,    \* cacheTtlMs
          QuoteTTL,   \* CHARGE_QUOTE_TTL_MS
          MaxTime, MaxCharges, \* bounds on time and on the payments started,
          MaxReceipts          \* and on the orders whose delivery is confirmed

Orders == 1..Groups
Money  == {p * r : p \in Prices, r \in Rates \cup {1}}

CheckoutAssumption ==
    /\ Groups \in Nat \ {0}
    /\ ProviderOf \in [Orders -> {"chapa", "paypal"}]
    /\ Prices \subseteq Nat \ {0} /\ Rates \subseteq Nat \ {0}
    /\ RateTTL \in Nat \ {0}
    /\ {QuoteTTL, MaxTime, MaxCharges, MaxReceipts} \subseteq Nat

VARIABLES
    now,
    cache,      \* ExchangeRateService.cache
    order,      \* Order.status, "none" before it is made
    total,      \* Order.totalAmount
    completed,  \* the orders whose Transaction.status is COMPLETED
    delivery,   \* an order's receipt: "none", "clean", or with a dispute "open" or "closed"
    meta,       \* Transaction.metadata
    preparing,  \* the group prepareCheckout is at; 0 before it starts
    outcome,    \* of prepareCheckout
    request,    \* the await a request is at, with the metadata it has read
    charges     \* the payments started at the gateways

prepVars  == <<preparing, outcome>>
orderVars == <<order, total, completed, delivery>>
vars == <<now, cache, orderVars, meta, prepVars, request, charges>>

NoRate == [rate |-> 0, at |-> 0]
NoMeta == [amount |-> 0, fetched |-> 0, locked |-> 0, siblings |-> {}, ref |-> "none"]
Done   == [step |-> "done"]

Init ==
    /\ now = 0
    /\ cache = NoRate
    /\ order = [o \in Orders |-> "none"]
    /\ total = [o \in Orders |-> 0]
    /\ completed = {}
    /\ delivery = [o \in Orders |-> "none"]
    /\ meta = [o \in Orders |-> NoMeta]
    /\ preparing = 0 /\ outcome = "none"
    /\ request = [w \in Workers |-> Done]
    /\ charges = {}

-----------------------------------------------------------------------------
Tick == now < MaxTime /\ now' = now + 1
        /\ UNCHANGED <<cache, orderVars, meta, prepVars, request, charges>>

-----------------------------------------------------------------------------
(* Quotes.                                                                   *)

Cached == cache # NoRate /\ now - cache.at < RateTTL

\* getUsdToEtb: the cache, or whatever one of the providers answers by now.
UsdToEtb == IF Cached THEN {cache} ELSE {[rate |-> r, at |-> now] : r \in Rates}

\* createQuote, for an artwork priced p when it is read.
Quote(o, p, usd) ==
    IF ProviderOf[o] = "paypal"
    THEN [NoMeta EXCEPT !.amount = p, !.fetched = now, !.locked = now]
    ELSE [NoMeta EXCEPT !.amount = p * usd.rate, !.fetched = usd.at, !.locked = now]

\* assertQuoteUsable.
Usable(m) == m.amount > 0 /\ now <= m.locked + QuoteTTL

-----------------------------------------------------------------------------
(* Orders.                                                                   *)

\* createOrder: the artwork is on sale, the buyer's country and the seller's payout methods
\* meet in the provider; the price and those methods are whatever they are by now.
CreateOrder(o) ==
    /\ order[o] = "none"
    /\ \E p \in Prices, usd \in UsdToEtb :
          /\ total' = [total EXCEPT ![o] = Quote(o, p, usd).amount]
          /\ meta'  = [meta EXCEPT ![o] = Quote(o, p, usd)]
          /\ cache' = IF ProviderOf[o] = "chapa" THEN usd ELSE cache
    /\ order' = [order EXCEPT ![o] = "PENDING"]
    /\ UNCHANGED <<now, completed, delivery, request, charges>>

StartPrepare ==
    /\ preparing = 0
    /\ preparing' = 1 /\ outcome' = "running"
    /\ UNCHANGED <<now, cache, orderVars, meta, request, charges>>

PrepareGroup ==
    /\ outcome = "running" /\ preparing \in Orders
    /\ CreateOrder(preparing)
    /\ preparing' = preparing + 1
    /\ UNCHANGED outcome

\* An order that is refused (sold, the seller cannot be paid, nobody answers for a rate)
\* ends the preparation; the orders before it stay.
PrepareFails ==
    /\ outcome = "running" /\ preparing \in Orders
    /\ outcome' = "failed"
    /\ UNCHANGED <<now, cache, orderVars, meta, preparing, request, charges>>

\* The orders learn of each other; no payment is started before the answer, so no other
\* request writes their metadata in between.
LinkSiblings ==
    /\ outcome = "running" /\ preparing = Groups + 1
    /\ meta' = [o \in Orders |-> [meta[o] EXCEPT !.siblings = Orders]]
    /\ outcome' = "ready"
    /\ UNCHANGED <<now, cache, orderVars, preparing, request, charges>>

\* The scheduler or the buyer cancels.
CancelOrder(o) ==
    /\ order[o] = "PENDING" /\ outcome # "running"
    /\ order' = [order EXCEPT ![o] = "CANCELLED"]
    /\ UNCHANGED <<now, cache, total, completed, delivery, meta, prepVars, request, charges>>

-----------------------------------------------------------------------------
(* Payments.                                                                 *)

\* The page that starts payments is shown when the preparation has answered.
Known(o) == order[o] # "none" /\ outcome # "running"

Step(w, r) ==
    /\ request' = [request EXCEPT ![w] = r]
    /\ UNCHANGED <<now, cache, orderVars, prepVars>>

\* A handler that will write the order and the metadata it reads here.
Reading(w, o, step, asked) ==
    /\ request[w] = Done
    /\ Step(w, [step |-> step, of |-> o, read |-> meta[o], asked |-> asked])
    /\ UNCHANGED <<meta, charges>>

\* Its write; the status is not looked at again.
Writing(w, status) ==
    /\ order' = [order EXCEPT ![request[w].of] = status]
    /\ request' = [request EXCEPT ![w] = Done]
    /\ UNCHANGED <<now, cache, total, prepVars, charges>>

\* initializePayment reads the order and its metadata and asks for a usable quote; the
\* order's status is not looked at.
Initialize(w, o) ==
    /\ Known(o)
    /\ Usable(meta[o])
    /\ Reading(w, o, "write", now)

\* Mutant of WriteQuote: only the quote is written back.
Mut_WriteQuoteOnly(w) ==
    LET r == request[w] IN
    /\ r.step = "write"
    /\ meta' = [meta EXCEPT ![r.of] = [r.read EXCEPT !.siblings = {}, !.ref = "none"]]
    /\ Step(w, [r EXCEPT !.step = "charge"])
    /\ UNCHANGED charges

WriteQuote(w) ==
    LET r == request[w] IN
    /\ r.step = "write"
    /\ meta' = [meta EXCEPT ![r.of] = r.read]
    /\ Step(w, [r EXCEPT !.step = "charge"])
    /\ UNCHANGED charges

\* Mutant of StartCharge: the artwork's price and the rate of now are charged.
Mut_ChargePriceOfNow(w) ==
    LET r == request[w] IN
    /\ r.step = "charge"
    /\ Cardinality(charges) < MaxCharges
    /\ \E p \in Prices, usd \in UsdToEtb :
          charges' = charges \cup {[of |-> r.of, amount |-> Quote(r.of, p, usd).amount, rateAge |-> 0]}
    /\ Step(w, Done)
    /\ UNCHANGED meta

\* The gateway starts a payment of the amount that was read, or refuses.  Chapa may have
\* got a reference of its own, which is stored afterwards.
StartCharge(w) ==
    LET r == request[w] IN
    /\ r.step = "charge"
    /\ Cardinality(charges) < MaxCharges
    /\ charges' = charges \cup {[of |-> r.of, amount |-> r.read.amount,
                                 rateAge |-> r.asked - r.read.fetched]}
    /\ Step(w, IF ProviderOf[r.of] = "chapa" THEN [r EXCEPT !.step = "lookup"] ELSE Done)
    /\ UNCHANGED meta

ChargeRefused(w) ==
    /\ request[w].step = "charge"
    /\ Step(w, Done)
    /\ UNCHANGED <<meta, charges>>

\* Storing the reference reads the metadata again; a failure is logged and forgotten.
LookUpReference(w) ==
    LET r == request[w] IN
    /\ r.step = "lookup"
    /\ \/ Step(w, [r EXCEPT !.step = "reference", !.read = meta[r.of]])
       \/ Step(w, Done)
    /\ UNCHANGED <<meta, charges>>

WriteReference(w) ==
    LET r == request[w] IN
    /\ r.step = "reference"
    /\ meta' = [meta EXCEPT ![r.of] = [r.read EXCEPT !.ref = "chapa"]]
    /\ Step(w, Done)
    /\ UNCHANGED charges

-----------------------------------------------------------------------------
(* What becomes of an order.                                                 *)

\* completeOrder, for a verified payment or for a client that says so, reads an order that
\* is not PAID.
BeginComplete(w, o) == Known(o) /\ order[o] # "PAID" /\ Reading(w, o, "complete", 0)

\* Mutant of FinishComplete: the metadata it has read is not written back with its own.
Mut_CompleteForgets(w) ==
    LET r == request[w] IN
    /\ r.step = "complete"
    /\ meta' = [meta EXCEPT ![r.of].siblings = {}]
    /\ completed' = completed \cup {r.of}
    /\ Writing(w, "PAID")
    /\ UNCHANGED delivery

\* PAID and COMPLETED, whatever the order is by now, with the metadata that was read and
\* details of the payment that nothing here tells apart.
FinishComplete(w) ==
    LET r == request[w] IN
    /\ r.step = "complete"
    /\ meta' = [meta EXCEPT ![r.of] = r.read]
    /\ completed' = completed \cup {r.of}
    /\ Writing(w, "PAID")
    /\ UNCHANGED delivery

\* confirmDelivery: once per order, paid or disputed when it is read.
BeginReceipt(w, o) ==
    /\ order[o] \in {"PAID", "DISPUTED"} /\ delivery[o] = "none"
    /\ Cardinality({p \in Orders : delivery[p] # "none"}) < MaxReceipts
    /\ Reading(w, o, "receipt", 0)

FinishReceipt(w) ==
    LET r == request[w] IN
    /\ r.step = "receipt"
    /\ \/ /\ delivery[r.of] = "none"
          /\ delivery' = [delivery EXCEPT ![r.of] = "clean"]
          /\ Writing(w, "COMPLETED")
          /\ UNCHANGED meta
       \/ /\ delivery[r.of] = "none"
          /\ delivery' = [delivery EXCEPT ![r.of] = "open"]
          /\ meta' = [meta EXCEPT ![r.of] = r.read]
          /\ Writing(w, "DISPUTED")
       \/ /\ delivery[r.of] # "none"       \* another request has confirmed it: orderId is unique
          /\ Step(w, Done)
          /\ UNCHANGED <<meta, charges>>
    /\ UNCHANGED completed

\* A dispute is settled for the seller or for the buyer; DisputeWorkflow has the cases.
BeginSettlement(w, o) == delivery[o] = "open" /\ Reading(w, o, "settlement", 0)

FinishSettlement(w) ==
    LET r == request[w] IN
    /\ r.step = "settlement"
    /\ delivery' = [delivery EXCEPT ![r.of] = "closed"]
    /\ meta' = [meta EXCEPT ![r.of] = r.read]
    /\ \E status \in {"COMPLETED", "REFUNDED"} : Writing(w, status)
    /\ UNCHANGED completed

\* getCheckoutSiblingProgress: what a verification tells the buyer is still to be paid.
RemainingOrders(o) ==
    {p \in (IF meta[o].siblings = {} THEN {o} ELSE meta[o].siblings) : order[p] # "PAID"}

-----------------------------------------------------------------------------
Serve(w) ==
    \/ \E o \in Orders : \/ Initialize(w, o) \/ BeginComplete(w, o)
                         \/ BeginReceipt(w, o) \/ BeginSettlement(w, o)
    \/ WriteQuote(w) \/ StartCharge(w) \/ ChargeRefused(w)
    \/ LookUpReference(w) \/ WriteReference(w)
    \/ FinishComplete(w) \/ FinishReceipt(w) \/ FinishSettlement(w)

Next ==
    \/ Tick
    \/ StartPrepare \/ PrepareGroup \/ PrepareFails \/ LinkSiblings
    \/ \E o \in Orders : CancelOrder(o)
    \/ \E w \in Workers : Serve(w)

Spec == Init /\ [][Next]_vars
-----------------------------------------------------------------------------
(* Properties.                                                               *)

OrderStatuses == {"none", "PENDING", "CANCELLED", "PAID", "DISPUTED", "COMPLETED", "REFUNDED"}
Steps == {"write", "charge", "lookup", "reference", "complete", "receipt", "settlement"}
Times == 0..MaxTime
Metas == [amount : Money \cup {0}, fetched : Times, locked : Times,
          siblings : SUBSET Orders, ref : {"none", "chapa"}]

TypeOK ==
    /\ now \in Times
    /\ cache \in [rate : Rates \cup {0}, at : Times]
    /\ order \in [Orders -> OrderStatuses]
    /\ completed \in SUBSET Orders
    /\ delivery \in [Orders -> {"none", "clean", "open", "closed"}]
    /\ total \in [Orders -> Money \cup {0}]
    /\ meta \in [Orders -> Metas]
    /\ preparing \in 0..(Groups + 1)
    /\ outcome \in {"none", "running", "failed", "ready"}
    /\ request \in [Workers -> {Done} \cup
          [step : Steps, of : Orders, read : Metas, asked : Times]]
    /\ charges \subseteq [of : Orders, amount : Money, rateAge : Times]

\* What a gateway asks of the buyer is the order's total, locked when the order was made:
\* neither a new price, nor a new rate, nor metadata written back late changes it.  And a
\* payment is never started at an exchange rate older than the cache and the quote may
\* grow together, although each of them knows its own age only.
ChargedAsQuoted ==
    \A c \in charges :
        /\ c.amount = total[c.of]
        /\ ProviderOf[c.of] = "chapa" => c.rateAge < RateTTL + QuoteTTL

\* Every order of a prepared checkout knows all the others for good, whichever handlers
\* write back the metadata they read earlier: a buyer is told that nothing remains exactly
\* when all orders are paid, and then every transaction is completed.  (An order that has
\* been received or refunded counts as remaining again, as it does in the code.)
NothingRemainsMeansAllPaid ==
    outcome = "ready" =>
        \A o \in Orders :
            /\ RemainingOrders(o) = {p \in Orders : order[p] # "PAID"}
            /\ RemainingOrders(o) = {} => Orders \subseteq completed
=============================================================================
