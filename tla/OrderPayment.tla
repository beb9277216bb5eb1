----------------------------- MODULE OrderPayment -----------------------------
(***************************************************************************)
(* The life of an order from checkout to delivery: POST /orders, payment    *)
(* initialisation, the payment gateways, POST /payments/verify, POST        *)
(* /orders/:id/complete, the two cancellation crons and the parts of        *)
(* delivery confirmation and dispute resolution that write the order.       *)
(*                                                                          *)
(* NestJS serves requests on one event loop: the code between two awaits    *)
(* runs alone, and any other request may run at an await.  A request is a   *)
(* worker whose pc names the await it is about to perform; one action is    *)
(* one database statement together with the code that leads to the next.    *)
(***************************************************************************)
EXTENDS Naturals, FiniteSets

CONSTANTS Orders,      \* Order.id
          Artworks,    \* Artwork.id
          Buyers,      \* User.id of buyers
          Attempts,    \* charges opened at a gateway (a PayPal order, a Chapa tx_ref)
          Workers,     \* requests the server serves at the same time
          ItemsOf,     \* the artworks of an order
          BuyerOf,     \* its buyer
          ProviderOf,  \* its payment provider
          OrderOf,     \* the order an attempt pays for
          FedExOrders, \* orders shipped by FedEx
          OpenComplete,\* does a client call POST /orders/:id/complete itself?
          Faults,      \* which of "gateway", "db", "crash" happen
          MaxCredits   \* bound on the earnings increments of one order

OrderPaymentAssumption ==
    /\ ItemsOf \in [Orders -> SUBSET Artworks]
    /\ BuyerOf \in [Orders -> Buyers]
    /\ ProviderOf \in [Orders -> {"paypal", "chapa"}]
    /\ OrderOf \in [Attempts -> Orders]
    /\ FedExOrders \subseteq Orders
    /\ OpenComplete \in BOOLEAN
    /\ Faults \subseteq {"gateway", "db", "crash"}
    /\ MaxCredits \in Nat \ {0}
    /\ IsFiniteSet(Workers)

ASSUME OrderPaymentAssumption

VARIABLES
    status,     \* Order.status; "NONE" before the row exists
    age,        \* how old the order is, against the quote TTL and the crons' cutoff
    art,        \* Artwork.status
    receipt,    \* the delivery confirmation of an order and the dispute it may open
    charge,     \* a gateway's own record of an attempt
    credit,     \* how often User.earning was incremented for the order
    pending,    \* its ORDER_CREDIT_PENDING ledger rows
    sellerTx,   \* its SELLER_PAYMENT transaction rows
    release,    \* what became of the pending credit: its PENDING_RELEASE or PENDING_CANCELLED row
    platform,   \* does its PlatformEarning row exist?
    shipment,   \* does its Shipment row exist?
    pc, job,    \* the await a worker is at, and the order it works on
    sweep       \* orders the cancellation cron read as PENDING and has not updated

orderVars  == <<status, age, art, receipt>>
moneyVars  == <<credit, pending, sellerTx, release, platform, shipment>>
workerVars == <<pc, job>>
vars == <<orderVars, charge, moneyVars, workerVars, sweep>>

OrderStatus == {"PENDING", "PAID", "COMPLETED", "CANCELLED", "DISPUTED", "REFUNDED"}

\* Statuses an order reaches only by having been paid for.
Sold == {"PAID", "COMPLETED", "DISPUTED", "REFUNDED"}

\* The awaits of createOrder, verifyPayment, completeOrder (the seller loop apart) and
\* confirmDelivery.
CreateStages  == {"create"}
VerifyStages  == {"check", "cancel"}
LoopStages    == {"sellerCheck", "credit", "pendingFind", "pendingWrite", "sellerTx"}
CompleteStages == {"read", "mark", "art"} \cup LoopStages \cup {"platform", "ship"}
ReceiptStages == {"confirm", "complain"}
Stages == {"idle"} \cup CreateStages \cup VerifyStages \cup CompleteStages \cup ReceiptStages

Idle(w)         == pc[w] = "idle"
At(w, stage)    == pc[w] = stage
Begin(w, o, stage) == /\ Idle(w)
                      /\ pc'  = [pc EXCEPT ![w] = stage]
                      /\ job' = [job EXCEPT ![w] = o]
Step(w, from, to)  == /\ At(w, from)
                      /\ pc' = [pc EXCEPT ![w] = to]
                      /\ UNCHANGED job

Init ==
    /\ status   = [o \in Orders |-> "NONE"]
    /\ age      = [o \in Orders |-> "fresh"]
    /\ art      = [a \in Artworks |-> "APPROVED"]
    /\ receipt  = [o \in Orders |-> "NONE"]
    /\ charge   = [c \in Attempts |-> "NONE"]
    /\ credit   = [o \in Orders |-> 0]
    /\ pending  = [o \in Orders |-> 0]
    /\ sellerTx = [o \in Orders |-> 0]
    /\ release  = [o \in Orders |-> "NONE"]
    /\ platform = [o \in Orders |-> FALSE]
    /\ shipment = [o \in Orders |-> FALSE]
    /\ pc = [w \in Workers |-> "idle"]
    /\ job \in [Workers -> Orders]
    /\ sweep = {}

-----------------------------------------------------------------------------
(* Creating an order and paying for it.                                      *)

HasOpenDispute(b) == \E o \in Orders : BuyerOf[o] = b /\ receipt[o] = "DISPUTED"
Purchasable(o)    == \A a \in ItemsOf[o] : art[a] = "APPROVED"

\* createOrder reads the buyer's disputes and the artworks: nothing is reserved.
CheckPurchase(w, o) ==
    /\ status[o] = "NONE"
    /\ \A v \in Workers : ~(At(v, "create") /\ job[v] = o)
    /\ ~HasOpenDispute(BuyerOf[o])
    /\ Purchasable(o)
    /\ Begin(w, o, "create")
    /\ UNCHANGED <<orderVars, charge, moneyVars, sweep>>

\* The insert of the order with its INITIATED transaction and its charge quote.
InsertOrder(w) ==
    /\ Step(w, "create", "idle")
    /\ status' = [status EXCEPT ![job[w]] = "PENDING"]
    /\ UNCHANGED <<age, art, receipt, charge, moneyVars, sweep>>

\* Time: the quote expires first, then the order is past the crons' cutoff.
GrowOld(o) ==
    /\ status[o] # "NONE"
    /\ \/ age[o] = "fresh" /\ age' = [age EXCEPT ![o] = "quoteExpired"]
       \/ age[o] = "quoteExpired" /\ age' = [age EXCEPT ![o] = "overdue"]
    /\ UNCHANGED <<status, art, receipt, charge, moneyVars, workerVars, sweep>>

QuoteUsable(o) == age[o] = "fresh"

\* initializePayment looks at the quote, never at the order's status.
InitializePayment(c) ==
    /\ charge[c] = "NONE"
    /\ status[OrderOf[c]] # "NONE"
    /\ QuoteUsable(OrderOf[c])
    /\ charge' = [charge EXCEPT ![c] = "OPEN"]
    /\ UNCHANGED <<orderVars, moneyVars, workerVars, sweep>>

\* The buyer at the gateway: PayPal only approves, Chapa takes the money or declines.
BuyerPays(c) ==
    /\ charge[c] = "OPEN"
    /\ \/ /\ ProviderOf[OrderOf[c]] = "paypal"
          /\ charge' = [charge EXCEPT ![c] = "APPROVED"]
       \/ /\ ProviderOf[OrderOf[c]] = "chapa"
          /\ \E outcome \in {"CAPTURED", "FAILED"} :
                charge' = [charge EXCEPT ![c] = outcome]
    /\ UNCHANGED <<orderVars, moneyVars, workerVars, sweep>>

-----------------------------------------------------------------------------
(* POST /payments/verify.                                                    *)

\* What a successful answer of each gateway means, and what it leaves the charge at.
PaidAtChapa(c)  == charge[c] = "CAPTURED"
PaidAtPayPal(c) == charge[c] \in {"APPROVED", "CAPTURED"}
CountsAsPaid(c) == IF ProviderOf[OrderOf[c]] = "chapa" THEN PaidAtChapa(c) ELSE PaidAtPayPal(c)

\* Mutants of AfterVerify: PayPal's word for the state is kept; the order is not captured.
Mut_AfterVerifyRaw(state)      == IF state = "APPROVED" THEN "COMPLETED" ELSE state
Mut_AfterVerifyNoCapture(state) == state

AfterVerify(state)    == IF state = "APPROVED" THEN "CAPTURED" ELSE state

\* PayPal: an approved order is captured by the verification itself.
VerifySucceeds(w, c) ==
    /\ CountsAsPaid(c)
    /\ charge' = [charge EXCEPT ![c] = AfterVerify(charge[c])]
    /\ Begin(w, OrderOf[c], "check")
    /\ UNCHANGED <<orderVars, moneyVars, sweep>>

\* The gateway answers that the charge is not, or not yet, paid.
VerifyRefused(w, c) ==
    /\ charge[c] \in {"OPEN", "FAILED"}
    /\ Begin(w, OrderOf[c], "cancel")
    /\ UNCHANGED <<orderVars, charge, moneyVars, sweep>>

\* The call to the gateway throws.  Only a Chapa reference starts with TX-, so only
\* then does the catch find an order to cancel.  A PayPal capture may have happened.
VerifyThrows(w, c) ==
    /\ "gateway" \in Faults
    /\ charge[c] # "NONE"
    /\ \/ /\ ProviderOf[OrderOf[c]] = "chapa"
          /\ Begin(w, OrderOf[c], "cancel")
          /\ UNCHANGED charge
       \/ /\ charge[c] = "APPROVED"
          /\ Idle(w)
          /\ charge' = [charge EXCEPT ![c] = "CAPTURED"]
          /\ UNCHANGED workerVars
    /\ UNCHANGED <<orderVars, moneyVars, sweep>>

\* The update to CANCELLED does not look at the status it replaces.
CancelUnpaid(w) ==
    /\ Step(w, "cancel", "idle")
    /\ status' = [status EXCEPT ![job[w]] = "CANCELLED"]
    /\ UNCHANGED <<age, art, receipt, charge, moneyVars, sweep>>

\* The early check: an order that is PAID is not completed again.
CheckNotPaid(w) ==
    /\ \/ status[job[w]] = "PAID" /\ Step(w, "check", "idle")
       \/ status[job[w]] # "PAID" /\ Step(w, "check", "read")
    /\ UNCHANGED <<orderVars, charge, moneyVars, sweep>>

-----------------------------------------------------------------------------
(* completeOrder.                                                            *)

\* POST /orders/:id/complete enters it without asking a gateway.
CallComplete(w, o) ==
    /\ OpenComplete
    /\ status[o] # "NONE"
    /\ Begin(w, o, "read")
    /\ UNCHANGED <<orderVars, charge, moneyVars, sweep>>

\* Mutant of AlreadyDone: a cancelled order counts as handled.
Mut_AlreadyHandled(o) == status[o] \in {"PAID", "CANCELLED"}

AlreadyDone(o) == status[o] = "PAID"

ReadOrder(w) ==
    /\ \/ AlreadyDone(job[w]) /\ Step(w, "read", "ship")
       \/ ~AlreadyDone(job[w]) /\ Step(w, "read", "mark")
    /\ UNCHANGED <<orderVars, charge, moneyVars, sweep>>

\* The order becomes PAID whatever it was, its transaction COMPLETED with it.
MarkPaid(w) ==
    /\ Step(w, "mark", "art")
    /\ status' = [status EXCEPT ![job[w]] = "PAID"]
    /\ UNCHANGED <<age, art, receipt, charge, moneyVars, sweep>>

\* Mutant of MarkArtSold: only what is still listed is taken off the shelf.
Mut_MarkListedSold(w) ==
    /\ Step(w, "art", "sellerCheck")
    /\ art' = [a \in Artworks |->
                 IF a \in ItemsOf[job[w]] /\ art[a] = "APPROVED" THEN "SOLD" ELSE art[a]]
    /\ UNCHANGED <<status, age, receipt, charge, moneyVars, sweep>>

MarkArtSold(w) ==
    /\ Step(w, "art", "sellerCheck")
    /\ art' = [a \in Artworks |-> IF a \in ItemsOf[job[w]] THEN "SOLD" ELSE art[a]]
    /\ UNCHANGED <<status, age, receipt, charge, moneyVars, sweep>>

\* Mutant of SellerPaid: the first marker row is overlooked.
Mut_SellerPaidTwice(o) == sellerTx[o] > 1

\* The seller's SELLER_PAYMENT row is the marker that the order was credited.
SellerPaid(o) == sellerTx[o] > 0

\* Mutant of CheckSeller: the hold is recorded without the increment before it.
Mut_HoldFirst(w) ==
    /\ \/ SellerPaid(job[w]) /\ Step(w, "sellerCheck", "platform")
       \/ ~SellerPaid(job[w]) /\ Step(w, "sellerCheck", "pendingFind")
    /\ UNCHANGED <<orderVars, charge, moneyVars, sweep>>

CheckSeller(w) ==
    /\ \/ SellerPaid(job[w]) /\ Step(w, "sellerCheck", "platform")
       \/ ~SellerPaid(job[w]) /\ Step(w, "sellerCheck", "credit")
    /\ UNCHANGED <<orderVars, charge, moneyVars, sweep>>

\* Mutant of CreditSeller: recordPendingCredit is not called.
Mut_CreditWithoutHold(w) ==
    /\ credit[job[w]] < MaxCredits
    /\ Step(w, "credit", "sellerTx")
    /\ credit' = [credit EXCEPT ![job[w]] = @ + 1]
    /\ UNCHANGED <<orderVars, charge, pending, sellerTx, release, platform, shipment, sweep>>

CreditSeller(w) ==
    /\ credit[job[w]] < MaxCredits
    /\ Step(w, "credit", "pendingFind")
    /\ credit' = [credit EXCEPT ![job[w]] = @ + 1]
    /\ UNCHANGED <<orderVars, charge, pending, sellerTx, release, platform, shipment, sweep>>

\* recordPendingCredit: find, then create.
FindPending(w) ==
    /\ \/ pending[job[w]] > 0 /\ Step(w, "pendingFind", "sellerTx")
       \/ pending[job[w]] = 0 /\ Step(w, "pendingFind", "pendingWrite")
    /\ UNCHANGED <<orderVars, charge, moneyVars, sweep>>

WritePending(w) ==
    /\ Step(w, "pendingWrite", "sellerTx")
    /\ pending' = [pending EXCEPT ![job[w]] = @ + 1]
    /\ UNCHANGED <<orderVars, charge, credit, sellerTx, release, platform, shipment, sweep>>

WriteSellerTx(w) ==
    /\ Step(w, "sellerTx", "platform")
    /\ sellerTx' = [sellerTx EXCEPT ![job[w]] = @ + 1]
    /\ UNCHANGED <<orderVars, charge, credit, pending, release, platform, shipment, sweep>>

\* createPlatformEarning: orderId is unique, so a second insert changes nothing.
RecordPlatform(w) ==
    /\ Step(w, "platform", "ship")
    /\ platform' = [platform EXCEPT ![job[w]] = TRUE]
    /\ UNCHANGED <<orderVars, charge, credit, pending, sellerTx, release, shipment, sweep>>

\* Shipments of a FedEx order; a failed label is logged and may be retried later.
EnsureShipment(w) ==
    /\ Step(w, "ship", "idle")
    /\ \/ shipment' = [shipment EXCEPT ![job[w]] = @ \/ job[w] \in FedExOrders]
       \/ job[w] \in FedExOrders /\ UNCHANGED shipment
    /\ UNCHANGED <<orderVars, charge, credit, pending, sellerTx, release, platform, sweep>>

-----------------------------------------------------------------------------
(* Faults of the server and of its database.                                 *)

\* A statement of the seller loop fails: the loop's catch logs it and goes on.
SellerStatementFails(w) ==
    /\ "db" \in Faults
    /\ \E stage \in LoopStages : Step(w, stage, "platform")
    /\ UNCHANGED <<orderVars, charge, moneyVars, sweep>>

\* A statement outside the loop fails: a failed commission is logged like a failed
\* seller, anything else ends the request where it is.
StatementFails(w) ==
    /\ "db" \in Faults
    /\ \/ Step(w, "platform", "ship")
       \/ \E stage \in Stages \ ({"idle", "platform"} \cup LoopStages) : Step(w, stage, "idle")
    /\ UNCHANGED <<orderVars, charge, moneyVars, sweep>>

\* The process restarts: every request and the cron run end where they are.
Restart ==
    /\ "crash" \in Faults
    /\ pc' = [w \in Workers |-> "idle"]
    /\ sweep' = {}
    /\ UNCHANGED <<orderVars, charge, moneyVars, job>>

-----------------------------------------------------------------------------
(* cancelExpiredOrders and autoCancelPendingOrders.                          *)

\* Mutant of Overdue: the comparison with the cutoff is turned round.
Mut_NotOverdue(o) == status[o] = "PENDING" /\ age[o] # "overdue"

Overdue(o) == status[o] = "PENDING" /\ age[o] = "overdue"

SweepRead ==
    /\ sweep = {}
    /\ \E o \in Orders : Overdue(o)
    /\ sweep' = {o \in Orders : Overdue(o)}
    /\ UNCHANGED <<orderVars, charge, moneyVars, workerVars>>

\* updateMany by id: the status is not read again.
SweepCancel ==
    /\ sweep # {}
    /\ status' = [o \in Orders |-> IF o \in sweep THEN "CANCELLED" ELSE status[o]]
    /\ sweep' = {}
    /\ UNCHANGED <<age, art, receipt, charge, moneyVars, workerVars>>

-----------------------------------------------------------------------------
(* Delivery confirmation, and the end of a dispute as far as it writes the   *)
(* order (the dispute workflow has a module of its own).                     *)

Delivered(o) == o \in FedExOrders => shipment[o]

\* confirmDelivery reads the order, then uploads the signature or the evidence.
OpenReceipt(w, o) ==
    /\ Delivered(o)
    /\ status[o] \in {"PAID", "DISPUTED"}
    /\ receipt[o] = "NONE"
    /\ \E stage \in ReceiptStages : Begin(w, o, stage)
    /\ UNCHANGED <<orderVars, charge, moneyVars, sweep>>

\* Mutant of Settle: a refund does not cancel the hold.
Mut_SettleReleaseOnly(o, outcome) ==
    IF pending[o] > 0 /\ release[o] = "NONE" /\ outcome = "RELEASED"
    THEN release' = [release EXCEPT ![o] = outcome] ELSE UNCHANGED release

\* releasePendingCredit and cancelPendingCredit write nothing when the order has no
\* pending row, or when one of them already ran for it.
Settle(o, outcome) ==
    IF pending[o] > 0 /\ release[o] = "NONE"
    THEN release' = [release EXCEPT ![o] = outcome] ELSE UNCHANGED release

SetArt(o, from, to) ==
    art' = [a \in Artworks |->
              IF a \in ItemsOf[o] /\ art[a] \in from THEN to ELSE art[a]]

AnyArt == {"APPROVED", "SOLD", "DISPUTED"}

Conclude(o, to, receiptTo) ==
    /\ status'  = [status EXCEPT ![o] = to]
    /\ receipt' = [receipt EXCEPT ![o] = receiptTo]
    /\ UNCHANGED <<age, charge, credit, pending, sellerTx, platform, shipment, sweep>>

\* The transaction of confirmDelivery: the confirmation is unique per order, the
\* order's status is not read again.
WriteReceipt(w) ==
    LET o == job[w] IN
    \/ /\ receipt[o] = "NONE"
       /\ Step(w, "confirm", "idle")
       /\ Conclude(o, "COMPLETED", "CONFIRMED")
       /\ Settle(o, "RELEASED")
       /\ UNCHANGED art
    \/ /\ receipt[o] = "NONE"
       /\ Step(w, "complain", "idle")
       /\ Conclude(o, "DISPUTED", "DISPUTED")
       /\ SetArt(o, AnyArt, "DISPUTED")
       /\ UNCHANGED release
    \/ /\ receipt[o] # "NONE"
       /\ \E stage \in ReceiptStages : Step(w, stage, "idle")
       /\ UNCHANGED <<orderVars, charge, moneyVars, sweep>>

\* resolveSellerWins, and the settlement of a buyer's refund.
ResolveDispute(o) ==
    /\ receipt[o] = "DISPUTED"
    /\ \/ /\ Conclude(o, "COMPLETED", "RESOLVED")
          /\ SetArt(o, {"DISPUTED"}, "SOLD")
          /\ Settle(o, "RELEASED")
       \/ /\ Conclude(o, "REFUNDED", "RESOLVED")
          /\ SetArt(o, AnyArt, "APPROVED")
          /\ Settle(o, "CANCELLED")
    /\ UNCHANGED workerVars

-----------------------------------------------------------------------------
Completion(w) ==
    \/ ReadOrder(w) \/ MarkPaid(w) \/ MarkArtSold(w) \/ CheckSeller(w)
    \/ CreditSeller(w) \/ FindPending(w) \/ WritePending(w) \/ WriteSellerTx(w)
    \/ RecordPlatform(w) \/ EnsureShipment(w)

\* What the event loop does for a request it has accepted.
Serve(w) ==
    InsertOrder(w) \/ CancelUnpaid(w) \/ CheckNotPaid(w) \/ Completion(w) \/ WriteReceipt(w)

Request(w) ==
    \/ \E o \in Orders : CheckPurchase(w, o) \/ CallComplete(w, o) \/ OpenReceipt(w, o)
    \/ \E c \in Attempts : VerifySucceeds(w, c) \/ VerifyRefused(w, c) \/ VerifyThrows(w, c)

Outside ==
    \/ \E o \in Orders : GrowOld(o) \/ ResolveDispute(o)
    \/ \E c \in Attempts : InitializePayment(c) \/ BuyerPays(c)

Failure == Restart \/ \E w \in Workers : SellerStatementFails(w) \/ StatementFails(w)

Sweep == SweepRead \/ SweepCancel

Next ==
    \/ \E w \in Workers : Request(w) \/ Serve(w)
    \/ Outside \/ Sweep \/ Failure

Spec == Init /\ [][Next]_vars

\* The event loop never drops an accepted request, and the crons run every hour and
\* every night as long as the server is up.
FairSpec == Spec /\ WF_vars(Sweep) /\ \A w \in Workers : WF_vars(Serve(w))
-----------------------------------------------------------------------------
(* Properties.                                                               *)

TypeOK ==
    /\ status   \in [Orders -> {"NONE"} \cup OrderStatus]
    /\ age      \in [Orders -> {"fresh", "quoteExpired", "overdue"}]
    /\ art      \in [Artworks -> AnyArt]
    /\ receipt  \in [Orders -> {"NONE", "CONFIRMED", "DISPUTED", "RESOLVED"}]
    /\ charge   \in [Attempts -> {"NONE", "OPEN", "APPROVED", "CAPTURED", "FAILED"}]
    /\ credit   \in [Orders -> 0..MaxCredits]
    /\ pending  \in [Orders -> Nat]
    /\ sellerTx \in [Orders -> Nat]
    /\ release  \in [Orders -> {"NONE", "RELEASED", "CANCELLED"}]
    /\ platform \in [Orders -> BOOLEAN]
    /\ shipment \in [Orders -> BOOLEAN]
    /\ pc  \in [Workers -> Stages]
    /\ job \in [Workers -> Orders]
    /\ sweep \subseteq Orders

Captured(o)   == \E c \in Attempts : OrderOf[c] = o /\ charge[c] = "CAPTURED"
Completing(o) == \E w \in Workers : job[w] = o /\ pc[w] \in CompleteStages

\* An order is treated as sold only when a gateway holds the buyer's money for it: no
\* interleaving of verifications, cancellations and receipts lets completeOrder run on
\* a charge that is merely approved, refused or unknown.
SoldIsCaptured == \A o \in Orders : status[o] \in Sold => Captured(o)

\* Nobody's sale is forgotten: once no completion is under way, a sold order has its
\* seller's earnings, the hold on them, the marker row and the platform's commission,
\* whatever order the cancellations and repeated verifications of it came in.
SaleIsBooked ==
    \A o \in Orders : status[o] \in Sold /\ ~Completing(o) =>
        credit[o] > 0 /\ pending[o] > 0 /\ sellerTx[o] > 0 /\ platform[o]

\* A seller is credited once for an order, however often it is verified, cancelled and
\* completed again.
CreditedOnce == \A o \in Orders : credit[o] <= 1 /\ pending[o] <= 1 /\ sellerTx[o] <= 1

\* Neither the hold nor the marker row ever runs ahead of the earnings they stand for,
\* even when statements fail or the server restarts between them.
NoHoldWithoutEarnings ==
    \A o \in Orders : pending[o] <= credit[o] /\ sellerTx[o] <= credit[o]

\* When completion is over, the artworks of a paid order are off the shelf.
PaidIsOffTheShelf ==
    \A o \in Orders : status[o] = "PAID" /\ ~Completing(o) =>
        \A a \in ItemsOf[o] : art[a] = "SOLD"

\* The hold on a seller's credit follows the order: released by the delivery, cancelled by
\* the refund, untouched while the order waits for payment or its dispute for a decision,
\* through every verification and cancellation that comes in between.
HoldFollowsTheOrder ==
    \A o \in Orders : ~Completing(o) =>
        /\ status[o] = "COMPLETED" => release[o] = "RELEASED"
        /\ status[o] = "REFUNDED" => release[o] = "CANCELLED"
        /\ status[o] \in {"PENDING", "DISPUTED"} => release[o] = "NONE"

\* An order left unpaid past the cutoff does not stay pending.
OverdueIsCancelled ==
    \A o \in Orders : (status[o] = "PENDING" /\ age[o] = "overdue") ~> (status[o] # "PENDING")

\* A verification that heard of a captured charge leads to a sale and to the seller's
\* credit, whatever else the server does meanwhile.
VerifiedIsBooked ==
    \A w \in Workers, o \in Orders :
        (job[w] = o /\ pc[w] = "check") ~> (credit[o] > 0 /\ pending[o] > 0 /\ sellerTx[o] > 0)
=============================================================================
