---------------------------- MODULE DisputeWorkflow ----------------------------
(***************************************************************************)
(* One dispute, from the moment confirmDelivery opens it to its resolution: *)
(* the admin and seller endpoints of DisputesService, the refund it may     *)
(* send through RefundGatewayService, and the settlement transaction with   *)
(* the ledger rows BalanceService writes inside it.                         *)
(*                                                                          *)
(* Every endpoint reads the dispute, decides on what it read, and writes    *)
(* later, in a transaction that does not read it again.  A worker is one    *)
(* request; its pc names the write (or the gateway call) it has decided on. *)
(* The decisions' transactions update the row they read first and are one   *)
(* action each.  The settlement looks three rows up and creates those it    *)
(* misses before its first update, with no lock and no unique key on them:  *)
(* each look-up is a step, and what it creates is seen at the commit.       *)
(***************************************************************************)
EXTENDS Naturals, FiniteSets

CONSTANTS Workers,   \* requests about this dispute served at the same time
          Replays,   \* does the gateway answer success again for a refund it has made?
          Crashes    \* may the server restart, may a settlement transaction fail?

DisputeAssumption ==
    IsFiniteSet(Workers) /\ Replays \in BOOLEAN /\ Crashes \in BOOLEAN

ASSUME DisputeAssumption

VARIABLES
    dispute,    \* Dispute.status
    outcome,    \* Dispute.outcome
    confirmed,  \* is returnConfirmedAt set?
    waived,     \* is returnWaivedAt set?
    refund,     \* Refund.status; "NONE" while the order has no Refund row
    linked,     \* does that row's disputeId name the dispute?
    order,      \* Order.status
    art,        \* Artwork.status of the order's artworks
    rows,       \* how many rows of each kind the ledger and the earnings hold for it
    returned,   \* has the gateway given the buyer the money back?
    creates,    \* the rows a request's open settlement has created
    pc          \* what a request is about to do

caseVars  == <<dispute, outcome, confirmed, waived>>
rowVars   == <<refund, linked>>
bookVars  == <<order, art, rows>>
vars == <<caseVars, rowVars, bookVars, returned, creates, pc>>

\* The seller's ledger holds the order's pending credit, its release, its cancellation and
\* the debit; the platform's earnings the commission and the adjustment that reverses it.
RowKinds == {"PENDING", "RELEASE", "CANCELLED", "DEBIT", "EARNING", "ADJUSTMENT"}

Stages == {"idle", "sellerWins", "findRefund", "recordNew", "recordReuse", "waive",
           "cancel", "confirm", "startRefund", "retryRefund", "createRefund", "gateway",
           "markUnknown", "markFailed", "settle", "settleHold", "settleCommission", "commit",
           "settleFailed"}

Idle(w) == pc[w] = "idle"
Go(w, from, to) == pc[w] = from /\ pc' = [pc EXCEPT ![w] = to]

\* confirmDelivery has just opened the dispute; completeOrder may have failed to write
\* the pending row or the commission.
Init ==
    /\ dispute = "IN_PROGRESS" /\ outcome = "NONE"
    /\ confirmed = FALSE /\ waived = FALSE
    /\ refund = "NONE" /\ linked = FALSE
    /\ order = "DISPUTED" /\ art = "DISPUTED"
    /\ rows \in [RowKinds -> 0..1] /\ \A k \in RowKinds \ {"PENDING", "EARNING"} : rows[k] = 0
    /\ returned = FALSE
    /\ creates = [w \in Workers |-> {}]
    /\ pc = [w \in Workers |-> "idle"]

-----------------------------------------------------------------------------
(* What an endpoint requires of the dispute it has read.                     *)

LinkedRefund == IF linked THEN refund ELSE "NONE"

\* Mutant of MayCancel: the refund's status is not looked at.
Mut_MayCancelAny == dispute \in {"WAITING_FOR_RETURN", "READY_FOR_REFUND"}

\* Mutant of MayComplete: not while the refund is PROCESSING.
Mut_MayNotReconcile ==
    dispute = "READY_FOR_REFUND" /\ LinkedRefund \in {"PENDING", "FAILED"}

SellerMayWin == dispute = "IN_PROGRESS"
BuyerMayWin  == dispute = "IN_PROGRESS" /\ LinkedRefund \in {"NONE", "CANCELLED"}
MayWaive     == dispute = "WAITING_FOR_RETURN"
MayConfirm   == dispute = "WAITING_FOR_RETURN"
MayCancel    == /\ dispute \in {"WAITING_FOR_RETURN", "READY_FOR_REFUND"}
                /\ LinkedRefund = "PENDING"
Reconciling  == /\ LinkedRefund \in {"PROCESSING", "FAILED"}
                /\ outcome = "BUYER_WINS" \/ dispute = "IN_PROGRESS"
MayComplete  == /\ dispute # "RESOLVED" /\ LinkedRefund # "COMPLETED"
                /\ dispute = "READY_FOR_REFUND" \/ Reconciling
                /\ dispute = "READY_FOR_REFUND" => confirmed \/ waived

\* A request reads the dispute and, if it is allowed, sets out to do its write.
Read(w, allowed, stage) ==
    /\ allowed
    /\ Go(w, "idle", stage)
    /\ UNCHANGED <<caseVars, rowVars, bookVars, returned, creates>>

RefundStage ==
    IF LinkedRefund = "NONE" THEN "createRefund"
    ELSE IF LinkedRefund = "PROCESSING" THEN "retryRefund" ELSE "startRefund"

Request(w) ==
    \/ Read(w, SellerMayWin, "sellerWins")
    \/ Read(w, BuyerMayWin, "findRefund")
    \/ Read(w, MayWaive, "waive")
    \/ Read(w, MayCancel, "cancel")
    \/ Read(w, MayConfirm, "confirm")
    \/ Read(w, MayComplete, RefundStage)

-----------------------------------------------------------------------------
(* Decisions: no money moves.                                                *)

\* Mutant of Held: the credit is not found.
Mut_NeverHeld == FALSE

\* What releasePendingCredit and cancelPendingCredit look for: a pending row that neither
\* of them has settled.
Held == rows["PENDING"] = 1 /\ rows["RELEASE"] = 0 /\ rows["CANCELLED"] = 0

SellerWins(w) ==
    /\ Go(w, "sellerWins", "idle")
    /\ dispute' = "RESOLVED" /\ outcome' = "SELLER_WINS"
    /\ order' = "COMPLETED"
    /\ art' = IF art = "DISPUTED" THEN "SOLD" ELSE art
    /\ rows' = IF Held THEN [rows EXCEPT !["RELEASE"] = @ + 1] ELSE rows
    /\ UNCHANGED <<confirmed, waived, rowVars, returned, creates>>

\* recordBuyerWins looks for the refund row of the order, cancelled or not.
FindRefund(w) ==
    /\ Go(w, "findRefund", IF refund = "NONE" THEN "recordNew" ELSE "recordReuse")
    /\ UNCHANGED <<caseVars, rowVars, bookVars, returned, creates>>

\* The decision with or without a return, and the refund row it opens.
OpenRefund ==
    /\ \/ dispute' = "WAITING_FOR_RETURN" /\ waived' = FALSE
       \/ dispute' = "READY_FOR_REFUND" /\ waived' = TRUE
    /\ outcome' = "BUYER_WINS" /\ confirmed' = FALSE
    /\ refund' = "PENDING" /\ linked' = TRUE

RecordBuyerWins(w) ==
    /\ \/ Go(w, "recordReuse", "idle") /\ OpenRefund
       \/ Go(w, "recordNew", "idle") /\ refund = "NONE" /\ OpenRefund
       \/ /\ Go(w, "recordNew", "idle") /\ refund # "NONE"   \* orderId is unique
          /\ UNCHANGED <<caseVars, rowVars>>
    /\ UNCHANGED <<bookVars, returned, creates>>

WaiveReturn(w) ==
    /\ Go(w, "waive", "idle")
    /\ dispute' = "READY_FOR_REFUND" /\ waived' = TRUE
    /\ UNCHANGED <<outcome, confirmed, rowVars, bookVars, returned, creates>>

ConfirmReturn(w) ==
    /\ Go(w, "confirm", "idle")
    /\ dispute' = "READY_FOR_REFUND" /\ confirmed' = TRUE
    /\ UNCHANGED <<outcome, waived, rowVars, bookVars, returned, creates>>

\* The refund row is cancelled and detached, the decision and the return forgotten.
CancelBuyerWins(w) ==
    /\ Go(w, "cancel", "idle")
    /\ dispute' = "IN_PROGRESS" /\ outcome' = "NONE"
    /\ confirmed' = FALSE /\ waived' = FALSE
    /\ refund' = "CANCELLED" /\ linked' = FALSE
    /\ UNCHANGED <<bookVars, returned, creates>>

-----------------------------------------------------------------------------
(* completeRefund: the only step that moves money.                           *)

\* Before the gateway is called the row is PROCESSING; a row that was read PROCESSING
\* only has its note rewritten; a missing one is created, if orderId is still free.
StartRefund(w) ==
    /\ \/ Go(w, "startRefund", "gateway") /\ refund' = "PROCESSING" /\ UNCHANGED linked
       \/ Go(w, "retryRefund", "gateway") /\ UNCHANGED rowVars
       \/ Go(w, "createRefund", "idle") /\ refund # "NONE" /\ UNCHANGED rowVars
    /\ UNCHANGED <<caseVars, bookVars, returned, creates>>

\* The gateway refunds, refuses without effect, or does not answer, effect or not.
GatewayRefunds(w) ==
    /\ ~returned \/ Replays
    /\ returned' = TRUE
    /\ Go(w, "gateway", "settle")

GatewayRefuses(w)  == UNCHANGED returned /\ Go(w, "gateway", "markFailed")
GatewayIsSilent(w) == returned' \in {returned, TRUE} /\ Go(w, "gateway", "markUnknown")

CallGateway(w) ==
    /\ GatewayRefunds(w) \/ GatewayRefuses(w) \/ GatewayIsSilent(w)
    /\ UNCHANGED <<caseVars, rowVars, bookVars, creates>>

\* The row is updated by id, whatever it has become since.
MarkRefund(w) ==
    /\ \/ Go(w, "markUnknown", "idle") /\ refund' = "PROCESSING"
       \/ Go(w, "markFailed", "idle") /\ refund' = "FAILED"
       \/ Go(w, "settleFailed", "idle") /\ refund' = "PROCESSING"
    /\ UNCHANGED <<caseVars, linked, bookVars, returned, creates>>

\* Mutant of Undebited: the debit is written without looking for one.
Mut_AlwaysDebits == TRUE

\* What writeDisputeRefundDebit looks for.
Undebited == rows["DEBIT"] = 0

\* Mutant of CommissionKept: the commission is forgotten.
Mut_NoAdjustment == FALSE

\* A commission that no adjustment row has reversed.
CommissionKept == rows["EARNING"] = 1 /\ rows["ADJUSTMENT"] = 0

\* One look-up of the open settlement: a row found missing is created, for nobody else to
\* see before the commit.
LookUp(w, from, to, missing, kind) ==
    /\ Go(w, from, to)
    /\ creates' = [creates EXCEPT ![w] = IF missing THEN @ \cup {kind} ELSE @]
    /\ UNCHANGED <<caseVars, rowVars, bookVars, returned>>

SettlementLooks(w) ==
    \/ LookUp(w, "settle", "settleHold", Undebited, "DEBIT")
    \/ LookUp(w, "settleHold", "settleCommission", Held, "CANCELLED")
    \/ LookUp(w, "settleCommission", "commit", CommissionKept, "ADJUSTMENT")

\* The updates and the commit: refund.update takes the first lock, and whoever waits for
\* it has looked already.
SettleRefund(w) ==
    /\ Go(w, "commit", "idle")
    /\ rows' = [k \in RowKinds |-> IF k \in creates[w] THEN rows[k] + 1 ELSE rows[k]]
    /\ creates' = [creates EXCEPT ![w] = {}]
    /\ refund' = "COMPLETED" /\ order' = "REFUNDED" /\ art' = "APPROVED"
    /\ dispute' = "RESOLVED" /\ outcome' = "BUYER_WINS"
    /\ UNCHANGED <<confirmed, waived, linked, returned>>

Settling == {"settle", "settleHold", "settleCommission", "commit"}

\* The settlement transaction fails and rolls back.
SettlementFails(w) ==
    /\ Crashes
    /\ pc[w] \in Settling
    /\ pc' = [pc EXCEPT ![w] = "settleFailed"]
    /\ creates' = [creates EXCEPT ![w] = {}]
    /\ UNCHANGED <<caseVars, rowVars, bookVars, returned>>

Restart ==
    /\ Crashes
    /\ pc' = [w \in Workers |-> "idle"]
    /\ creates' = [w \in Workers |-> {}]
    /\ UNCHANGED <<caseVars, rowVars, bookVars, returned>>

-----------------------------------------------------------------------------
Serve(w) ==
    \/ SellerWins(w) \/ FindRefund(w) \/ RecordBuyerWins(w) \/ WaiveReturn(w)
    \/ ConfirmReturn(w) \/ CancelBuyerWins(w) \/ StartRefund(w) \/ CallGateway(w)
    \/ MarkRefund(w) \/ SettlementLooks(w) \/ SettleRefund(w)

Next ==
    \/ \E w \in Workers : Request(w) \/ Serve(w) \/ SettlementFails(w)
    \/ Restart

Spec == Init /\ [][Next]_vars
-----------------------------------------------------------------------------
(* Properties.                                                               *)

TypeOK ==
    /\ dispute \in {"IN_PROGRESS", "WAITING_FOR_RETURN", "READY_FOR_REFUND", "RESOLVED"}
    /\ outcome \in {"NONE", "BUYER_WINS", "SELLER_WINS"}
    /\ confirmed \in BOOLEAN /\ waived \in BOOLEAN
    /\ refund \in {"NONE", "PENDING", "PROCESSING", "FAILED", "COMPLETED", "CANCELLED"}
    /\ linked \in BOOLEAN
    /\ order \in {"DISPUTED", "COMPLETED", "REFUNDED"}
    /\ art \in {"DISPUTED", "SOLD", "APPROVED"}
    /\ rows \in [RowKinds -> Nat]
    /\ returned \in BOOLEAN
    /\ creates \in [Workers -> SUBSET {"DEBIT", "CANCELLED", "ADJUSTMENT"}]
    /\ pc \in [Workers -> Stages]

\* The order, its artworks, the seller's ledger and the gateway agree with the case: all
\* frozen while it is open, all with the seller or all with the buyer when it is resolved.
BooksFollowTheCase ==
    /\ dispute # "RESOLVED" =>
          /\ order = "DISPUTED" /\ art = "DISPUTED" /\ refund # "COMPLETED"
          /\ \A k \in {"RELEASE", "CANCELLED", "DEBIT", "ADJUSTMENT"} : rows[k] = 0
    /\ dispute = "RESOLVED" /\ outcome = "SELLER_WINS" =>
          /\ order = "COMPLETED" /\ art = "SOLD" /\ refund \in {"NONE", "CANCELLED"}
          /\ rows["RELEASE"] = rows["PENDING"] /\ rows["CANCELLED"] = 0
          /\ rows["DEBIT"] = 0 /\ rows["ADJUSTMENT"] = 0 /\ ~returned
    /\ dispute = "RESOLVED" /\ outcome # "SELLER_WINS" =>
          /\ outcome = "BUYER_WINS"
          /\ order = "REFUNDED" /\ art = "APPROVED" /\ refund = "COMPLETED"
          /\ rows["CANCELLED"] = rows["PENDING"] /\ rows["RELEASE"] = 0
          /\ rows["DEBIT"] = 1 /\ rows["ADJUSTMENT"] = rows["EARNING"] /\ returned

\* The gateway is only asked for the money of a case whose return was confirmed or waived.
ReturnBeforeMoney == returned => outcome = "BUYER_WINS" /\ (confirmed \/ waived)

\* Money that went back to the buyer can always still be settled: an unresolved case
\* with a refund made, whatever failed or crashed after it, admits Complete Refund.
RefundIsRecoverable == returned /\ dispute # "RESOLVED" => MayComplete

\* An unresolved case never runs out of endpoints that accept it.
AlwaysAWayOn ==
    dispute # "RESOLVED" =>
        SellerMayWin \/ BuyerMayWin \/ MayWaive \/ MayConfirm \/ MayCancel \/ MayComplete

\* A resolved dispute is immutable, and so is everything settled with it.
ResolvedIsFinal ==
    [][dispute = "RESOLVED" => UNCHANGED <<caseVars, rowVars, bookVars, returned>>]_vars

\* Whatever requests overlap, fail or are repeated, the look-up keeps the seller's debits to
\* one per request that can be in its settlement at the same time, however often the case is
\* reopened and completed again; a debit is for money the buyer has, and the credit it
\* stands for is no longer held back.
DebitIsBacked ==
    /\ rows["DEBIT"] <= Cardinality(Workers)
    /\ rows["DEBIT"] > 0 => returned /\ ~Held

\* Money moves exactly once through Complete Refund: the seller is debited once.
DebitedOnce == rows["DEBIT"] <= 1

\* A decision for the buyer is taken back only while no money has moved.
NoCancelAfterRefund == [][\A w \in Workers : CancelBuyerWins(w) => ~returned]_vars

\* The workflow as the promise sees it.
Phase == CASE dispute = "IN_PROGRESS"        -> "open"
           [] dispute = "WAITING_FOR_RETURN" -> "waiting"
           [] dispute = "READY_FOR_REFUND"   -> "ready"
           [] dispute = "RESOLVED"           -> "closed"
Money == IF returned THEN "refunded" ELSE IF order = "COMPLETED" THEN "released" ELSE "frozen"

Promise == INSTANCE DisputePromise WITH phase <- Phase, money <- Money

\* Served one request at a time, the endpoints keep the promise.
KeepsPromise == Promise!Spec
=============================================================================
