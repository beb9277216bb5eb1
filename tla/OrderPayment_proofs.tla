------------------------- MODULE OrderPayment_proofs -------------------------
(***************************************************************************)
(* Theorems about OrderPayment for any orders, artworks, charges and number *)
(* of requests: its types, that what is sold is captured, and that what is  *)
(* sold is booked.                                                          *)
(***************************************************************************)
EXTENDS OrderPayment, FiniteSetTheorems, TLAPS

\* A shipment row exists or not, whatever becomes of its label.
LEMMA ShipmentTyped ==
    ASSUME shipment \in [Orders -> BOOLEAN], NEW w \in Workers, EnsureShipment(w)
    PROVE  shipment' \in [Orders -> BOOLEAN]
  BY Zenon DEF EnsureShipment

\* Every step keeps the variables in their types.
LEMMA TypeStep == TypeOK /\ [Next]_vars => TypeOK'
<1> SUFFICES ASSUME TypeOK, [Next]_vars PROVE TypeOK'
  OBVIOUS
<1> USE OrderPaymentAssumption
    DEF OrderPaymentAssumption, TypeOK, OrderStatus, AnyArt, Stages, CreateStages,
        VerifyStages, LoopStages, CompleteStages, ReceiptStages, Idle, At, Begin, Step,
        orderVars, moneyVars, workerVars
<1>1. CASE UNCHANGED vars
  BY <1>1 DEF vars
<1>2. ASSUME NEW w \in Workers, Request(w) PROVE TypeOK'
  <2>1. ASSUME NEW o \in Orders, CheckPurchase(w, o) PROVE TypeOK'
    BY <2>1 DEF CheckPurchase
  <2>2. ASSUME NEW o \in Orders, CallComplete(w, o) PROVE TypeOK'
    BY <2>2 DEF CallComplete
  <2>3. ASSUME NEW o \in Orders, OpenReceipt(w, o) PROVE TypeOK'
    BY <2>3 DEF OpenReceipt
  <2>4. ASSUME NEW c \in Attempts, VerifySucceeds(w, c) PROVE TypeOK'
    BY <2>4 DEF VerifySucceeds, CountsAsPaid, PaidAtChapa, PaidAtPayPal, AfterVerify
  <2>5. ASSUME NEW c \in Attempts, VerifyRefused(w, c) PROVE TypeOK'
    BY <2>5 DEF VerifyRefused
  <2>6. ASSUME NEW c \in Attempts, VerifyThrows(w, c) PROVE TypeOK'
    BY <2>6 DEF VerifyThrows
  <2> QED
    BY <1>2, <2>1, <2>2, <2>3, <2>4, <2>5, <2>6 DEF Request
<1>3. ASSUME NEW w \in Workers, Serve(w) PROVE TypeOK'
  <2>0. job[w] \in Orders
    OBVIOUS
  <2>1. CASE InsertOrder(w)     BY <2>1 DEF InsertOrder
  <2>2. CASE CancelUnpaid(w)    BY <2>2 DEF CancelUnpaid
  <2>3. CASE CheckNotPaid(w)    BY <2>3 DEF CheckNotPaid
  <2>4. CASE ReadOrder(w)       BY <2>4 DEF ReadOrder
  <2>5. CASE MarkPaid(w)        BY <2>5 DEF MarkPaid
  <2>6. CASE MarkArtSold(w)     BY <2>6 DEF MarkArtSold
  <2>7. CASE CheckSeller(w)     BY <2>7 DEF CheckSeller
  <2>8. CASE CreditSeller(w)
    <3>1. credit[job[w]] + 1 \in 0..MaxCredits
      BY <2>8 DEF CreditSeller
    <3> QED
      BY <2>8, <3>1 DEF CreditSeller
  <2>9. CASE FindPending(w)     BY <2>9 DEF FindPending
  <2>10. CASE WritePending(w)   BY <2>10 DEF WritePending
  <2>11. CASE WriteSellerTx(w)  BY <2>11 DEF WriteSellerTx
  <2>12. CASE RecordPlatform(w) BY <2>12 DEF RecordPlatform
  <2>13. CASE EnsureShipment(w)
    BY <2>13, ShipmentTyped DEF EnsureShipment
  <2>14. CASE WriteReceipt(w)
    BY <2>14 DEF WriteReceipt, Conclude, Settle, SetArt
  <2> QED
    BY <1>3, <2>1, <2>2, <2>3, <2>4, <2>5, <2>6, <2>7, <2>8, <2>9, <2>10, <2>11, <2>12,
       <2>13, <2>14 DEF Serve, Completion
<1>4. CASE Outside
  <2>1. ASSUME NEW o \in Orders, GrowOld(o) PROVE TypeOK'
    BY <2>1 DEF GrowOld
  <2>2. ASSUME NEW o \in Orders, ResolveDispute(o) PROVE TypeOK'
    BY <2>2 DEF ResolveDispute, Conclude, Settle, SetArt
  <2>3. ASSUME NEW c \in Attempts, InitializePayment(c) PROVE TypeOK'
    BY <2>3 DEF InitializePayment
  <2>4. ASSUME NEW c \in Attempts, BuyerPays(c) PROVE TypeOK'
    BY <2>4 DEF BuyerPays
  <2> QED
    BY <1>4, <2>1, <2>2, <2>3, <2>4 DEF Outside
<1>5. CASE Sweep
  BY <1>5 DEF Sweep, SweepRead, SweepCancel
<1>6. CASE Failure
  <2>1. CASE Restart
    BY <2>1 DEF Restart
  <2>2. ASSUME NEW w \in Workers, SellerStatementFails(w) PROVE TypeOK'
    BY <2>2 DEF SellerStatementFails
  <2>3. ASSUME NEW w \in Workers, StatementFails(w) PROVE TypeOK'
    BY <2>3 DEF StatementFails
  <2> QED
    BY <1>6, <2>1, <2>2, <2>3 DEF Failure
<1> QED
  BY <1>1, <1>2, <1>3, <1>4, <1>5, <1>6 DEF Next

LEMMA TypeInit == Init => TypeOK
  BY OrderPaymentAssumption
  DEF Init, TypeOK, OrderPaymentAssumption, AnyArt, Stages, OrderStatus

\* The variables of the order, of the money and of the server keep their types.
THEOREM TypeCorrect == Spec => []TypeOK
  BY TypeInit, TypeStep, PTL DEF Spec

-----------------------------------------------------------------------------
(* What is sold is captured, when no client may complete an order itself.    *)

CapturedOrders == {o \in Orders : Captured(o)}

\* The invariant behind SoldIsCaptured: an order is captured already when a request that
\* will mark it PAID, or move it on from PAID, is under way, and while it is disputed.
CapturedInv ==
    /\ \A o \in Orders : status[o] \in Sold \/ receipt[o] = "DISPUTED" => o \in CapturedOrders
    /\ \A w \in Workers :
          pc[w] \in {"check"} \cup CompleteStages \cup ReceiptStages => job[w] \in CapturedOrders

\* What a request in progress does apart from verifying: it asks no gateway.
LEMMA ServeAsksNoGateway ==
    ASSUME NEW w \in Workers, Serve(w)
    PROVE  UNCHANGED charge
  BY DEF Serve, Completion, InsertOrder, CancelUnpaid, CheckNotPaid, ReadOrder, MarkPaid,
         MarkArtSold, CheckSeller, CreditSeller, FindPending, WritePending, WriteSellerTx,
         RecordPlatform, EnsureShipment, WriteReceipt, Conclude, orderVars, moneyVars

\* No step takes a captured charge back.
LEMMA CapturedStays ==
    ASSUME TypeOK, [Next]_vars
    PROVE  CapturedOrders \subseteq CapturedOrders'
<1>1. ASSUME NEW c \in Attempts, charge[c] = "CAPTURED" PROVE charge'[c] = "CAPTURED"
  <2> USE <1>1 DEF TypeOK
  <2>1. CASE UNCHANGED charge
    BY <2>1
  <2>2. ASSUME NEW w \in Workers, Request(w) PROVE charge'[c] = "CAPTURED"
    <3>1. CASE \E o \in Orders : CheckPurchase(w, o) \/ CallComplete(w, o) \/ OpenReceipt(w, o)
      BY <3>1 DEF CheckPurchase, CallComplete, OpenReceipt
    <3>2. ASSUME NEW d \in Attempts, VerifySucceeds(w, d) PROVE charge'[c] = "CAPTURED"
      BY <3>2 DEF VerifySucceeds, AfterVerify
    <3>3. ASSUME NEW d \in Attempts, VerifyRefused(w, d) PROVE charge'[c] = "CAPTURED"
      BY <3>3 DEF VerifyRefused
    <3>4. ASSUME NEW d \in Attempts, VerifyThrows(w, d) PROVE charge'[c] = "CAPTURED"
      BY <3>4 DEF VerifyThrows
    <3> QED
      BY <2>2, <3>1, <3>2, <3>3, <3>4 DEF Request
  <2>3. ASSUME NEW w \in Workers, Serve(w) PROVE charge'[c] = "CAPTURED"
    BY <2>3, ServeAsksNoGateway
  <2>4. CASE Outside
    <3>1. ASSUME NEW o \in Orders, GrowOld(o) \/ ResolveDispute(o) PROVE UNCHANGED charge
      BY <3>1 DEF GrowOld, ResolveDispute, Conclude
    <3>2. ASSUME NEW d \in Attempts, InitializePayment(d) \/ BuyerPays(d)
          PROVE  charge'[c] = "CAPTURED"
      BY <3>2 DEF InitializePayment, BuyerPays
    <3> QED
      BY <2>4, <3>1, <3>2 DEF Outside
  <2>5. CASE Sweep
    BY <2>5 DEF Sweep, SweepRead, SweepCancel
  <2>6. CASE Failure
    BY <2>6 DEF Failure, Restart, SellerStatementFails, StatementFails
  <2> QED
    BY <2>1, <2>2, <2>3, <2>4, <2>5, <2>6 DEF Next, vars
<1> QED
  BY <1>1 DEF CapturedOrders, Captured

\* An answer that counts as paid leaves the order captured.
LEMMA VerifiedIsCaptured ==
    ASSUME TypeOK, NEW w \in Workers, NEW c \in Attempts, VerifySucceeds(w, c)
    PROVE  OrderOf[c] \in CapturedOrders'
<1>1. charge'[c] = "CAPTURED"
  BY DEF TypeOK, VerifySucceeds, CountsAsPaid, PaidAtChapa, PaidAtPayPal, AfterVerify
<1> QED
  BY <1>1, OrderPaymentAssumption DEF OrderPaymentAssumption, CapturedOrders, Captured

\* Every step keeps CapturedInv if clients leave POST /orders/:id/complete alone.
LEMMA CapturedStep ==
    ASSUME ~OpenComplete, TypeOK, CapturedInv, [Next]_vars
    PROVE  CapturedInv'
<1> USE CapturedStays
    DEF CapturedInv, TypeOK, Sold, CreateStages, VerifyStages, LoopStages, CompleteStages,
        ReceiptStages, Stages, Idle, At, Begin, Step, orderVars, moneyVars, workerVars
<1>1. CASE UNCHANGED vars
  BY <1>1 DEF vars
<1>2. ASSUME NEW w \in Workers, Request(w) PROVE CapturedInv'
  <2>1. ASSUME NEW o \in Orders, CheckPurchase(w, o) PROVE CapturedInv'
    BY <2>1 DEF CheckPurchase
  <2>2. ASSUME NEW o \in Orders PROVE ~CallComplete(w, o)
    BY DEF CallComplete
  <2>3. ASSUME NEW o \in Orders, OpenReceipt(w, o) PROVE CapturedInv'
    BY <2>3 DEF OpenReceipt
  <2>4. ASSUME NEW c \in Attempts, VerifySucceeds(w, c) PROVE CapturedInv'
    BY <2>4, VerifiedIsCaptured DEF VerifySucceeds
  <2>5. ASSUME NEW c \in Attempts, VerifyRefused(w, c) PROVE CapturedInv'
    BY <2>5 DEF VerifyRefused
  <2>6. ASSUME NEW c \in Attempts, VerifyThrows(w, c) PROVE CapturedInv'
    BY <2>6 DEF VerifyThrows
  <2> QED
    BY <1>2, <2>1, <2>2, <2>3, <2>4, <2>5, <2>6 DEF Request
<1>3. ASSUME NEW w \in Workers, Serve(w) PROVE CapturedInv'
  <2>1. CASE InsertOrder(w)     BY <2>1 DEF InsertOrder
  <2>2. CASE CancelUnpaid(w)    BY <2>2 DEF CancelUnpaid
  <2>3. CASE CheckNotPaid(w)    BY <2>3 DEF CheckNotPaid
  <2>4. CASE ReadOrder(w)       BY <2>4 DEF ReadOrder
  <2>5. CASE MarkPaid(w)        BY <2>5 DEF MarkPaid
  <2>6. CASE MarkArtSold(w)     BY <2>6 DEF MarkArtSold
  <2>7. CASE CheckSeller(w)     BY <2>7 DEF CheckSeller
  <2>8. CASE CreditSeller(w)    BY <2>8 DEF CreditSeller
  <2>9. CASE FindPending(w)     BY <2>9 DEF FindPending
  <2>10. CASE WritePending(w)   BY <2>10 DEF WritePending
  <2>11. CASE WriteSellerTx(w)  BY <2>11 DEF WriteSellerTx
  <2>12. CASE RecordPlatform(w) BY <2>12 DEF RecordPlatform
  <2>13. CASE EnsureShipment(w) BY <2>13 DEF EnsureShipment
  <2>14. CASE WriteReceipt(w)   BY <2>14 DEF WriteReceipt, Conclude
  <2> QED
    BY <1>3, <2>1, <2>2, <2>3, <2>4, <2>5, <2>6, <2>7, <2>8, <2>9, <2>10, <2>11, <2>12,
       <2>13, <2>14 DEF Serve, Completion
<1>4. CASE Outside
  <2>1. ASSUME NEW o \in Orders, GrowOld(o) PROVE CapturedInv'
    BY <2>1 DEF GrowOld
  <2>2. ASSUME NEW o \in Orders, ResolveDispute(o) PROVE CapturedInv'
    BY <2>2 DEF ResolveDispute, Conclude
  <2>3. ASSUME NEW c \in Attempts, InitializePayment(c) \/ BuyerPays(c) PROVE CapturedInv'
    BY <2>3 DEF InitializePayment, BuyerPays
  <2> QED
    BY <1>4, <2>1, <2>2, <2>3 DEF Outside
<1>5. CASE Sweep
  BY <1>5 DEF Sweep, SweepRead, SweepCancel
<1>6. CASE Failure
  <2>1. CASE Restart
    BY <2>1 DEF Restart
  <2>2. ASSUME NEW w \in Workers, SellerStatementFails(w) \/ StatementFails(w) PROVE CapturedInv'
    BY <2>2 DEF SellerStatementFails, StatementFails
  <2> QED
    BY <1>6, <2>1, <2>2 DEF Failure
<1> QED
  BY <1>1, <1>2, <1>3, <1>4, <1>5, <1>6 DEF Next

LEMMA CapturedInit == Init => CapturedInv
  BY DEF Init, CapturedInv, Sold, CompleteStages, LoopStages, ReceiptStages

\* As long as clients do not complete orders themselves, an order is treated as sold
\* only when a gateway holds the buyer's money for it: with any faults, any number of
\* verifications of any charges, and the crons in between.
THEOREM SoldIsCapturedAlways == ~OpenComplete => (Spec => []SoldIsCaptured)
<1> SUFFICES ASSUME ~OpenComplete PROVE Spec => []SoldIsCaptured
  OBVIOUS
<1>1. Init => CapturedInv
  BY CapturedInit
<1>2. TypeOK /\ CapturedInv /\ [Next]_vars => CapturedInv'
  BY CapturedStep
<1>3. CapturedInv => SoldIsCaptured
  BY DEF CapturedInv, SoldIsCaptured, CapturedOrders
<1> QED
  BY <1>1, <1>2, <1>3, TypeCorrect, PTL DEF Spec
-----------------------------------------------------------------------------
(* What is sold is booked, when no statement fails and the server stays up.  *)

Booked(o) == credit[o] > 0 /\ pending[o] > 0 /\ sellerTx[o] > 0 /\ platform[o]

\* A request that has marked the order PAID and not yet written its commission.
BookingStages == {"art"} \cup LoopStages \cup {"platform"}
Booking(o) == \E w \in Workers : job[w] = o /\ pc[w] \in BookingStages

\* The orders that are, or were when a receipt was opened, sold.
Touched(o) ==
    \/ status[o] \in Sold
    \/ receipt[o] = "DISPUTED"
    \/ \E w \in Workers : job[w] = o /\ pc[w] \in ReceiptStages

\* A marker row comes after the hold, the hold after the earnings, the commission after
\* the marker row, at every stage of the loop.
RowsInOrder ==
    /\ \A o \in Orders : sellerTx[o] > 0 => credit[o] > 0 /\ pending[o] > 0
    /\ \A w \in Workers :
          /\ pc[w] \in {"pendingFind", "pendingWrite", "sellerTx", "platform"} => credit[job[w]] > 0
          /\ pc[w] \in {"sellerTx", "platform"} => pending[job[w]] > 0
          /\ pc[w] = "platform" => sellerTx[job[w]] > 0

\* The invariant behind SaleIsBooked: a sold order is booked or some request is at it.
BookedInv == RowsInOrder /\ \A o \in Orders : Touched(o) => Booked(o) \/ Booking(o)

\* What a step does to each order, in the terms of BookedInv: what is booked stays
\* booked, a booking goes on or is done, and an order is touched for the first time by
\* the request that marks it PAID.
Progress ==
    /\ RowsInOrder'
    /\ \A o \in Orders :
          /\ Booked(o) => Booked(o)'
          /\ Booking(o) => Booking(o)' \/ Booked(o)'
          /\ Touched(o)' => Touched(o) \/ Booking(o)'

LEMMA ProgressStep ==
    ASSUME Faults \cap {"db", "crash"} = {}, TypeOK, RowsInOrder, [Next]_vars
    PROVE  Progress
<1> USE DEF Progress, RowsInOrder, Booked, Booking, Touched, BookingStages, TypeOK, Sold,
        CreateStages, VerifyStages, LoopStages, CompleteStages, ReceiptStages, Stages,
        Idle, At, Begin, Step, orderVars, moneyVars, workerVars
<1>1. CASE UNCHANGED vars
  BY <1>1 DEF vars
<1>2. ASSUME NEW w \in Workers, Request(w) PROVE Progress
  <2>1. ASSUME NEW o \in Orders, CheckPurchase(w, o) PROVE Progress
    BY <2>1 DEF CheckPurchase
  <2>2. ASSUME NEW o \in Orders, CallComplete(w, o) PROVE Progress
    BY <2>2 DEF CallComplete
  <2>3. ASSUME NEW o \in Orders, OpenReceipt(w, o) PROVE Progress
    BY <2>3 DEF OpenReceipt
  <2>4. ASSUME NEW c \in Attempts, VerifySucceeds(w, c) PROVE Progress
    BY <2>4 DEF VerifySucceeds
  <2>5. ASSUME NEW c \in Attempts, VerifyRefused(w, c) PROVE Progress
    BY <2>5 DEF VerifyRefused
  <2>6. ASSUME NEW c \in Attempts, VerifyThrows(w, c) PROVE Progress
    BY <2>6 DEF VerifyThrows
  <2> QED
    BY <1>2, <2>1, <2>2, <2>3, <2>4, <2>5, <2>6 DEF Request
<1>3. ASSUME NEW w \in Workers, Serve(w) PROVE Progress
  <2>1. CASE InsertOrder(w)
    BY <2>1 DEF InsertOrder
  <2>2. CASE CancelUnpaid(w)
    BY <2>2 DEF CancelUnpaid
  <2>3. CASE CheckNotPaid(w)
    BY <2>3 DEF CheckNotPaid
  <2>4. CASE ReadOrder(w)
    BY <2>4 DEF ReadOrder, AlreadyDone
  <2>5. CASE MarkPaid(w)
    BY <2>5 DEF MarkPaid
  <2>6. CASE MarkArtSold(w)
    BY <2>6 DEF MarkArtSold
  <2>7. CASE CheckSeller(w)
    BY <2>7 DEF CheckSeller, SellerPaid
  <2>8. CASE CreditSeller(w)
    BY <2>8 DEF CreditSeller
  <2>9. CASE FindPending(w)
    BY <2>9 DEF FindPending
  <2>10. CASE WritePending(w)
    BY <2>10 DEF WritePending
  <2>11. CASE WriteSellerTx(w)
    BY <2>11 DEF WriteSellerTx
  <2>12. CASE RecordPlatform(w)
    BY <2>12 DEF RecordPlatform
  <2>13. CASE EnsureShipment(w)
    BY <2>13 DEF EnsureShipment
  <2>14. CASE WriteReceipt(w)
    BY <2>14 DEF WriteReceipt, Conclude, Settle
  <2> QED
    BY <1>3, <2>1, <2>2, <2>3, <2>4, <2>5, <2>6, <2>7, <2>8, <2>9, <2>10, <2>11, <2>12,
       <2>13, <2>14 DEF Serve, Completion
<1>4. CASE Outside
  <2>1. ASSUME NEW o \in Orders, GrowOld(o) PROVE Progress
    BY <2>1 DEF GrowOld
  <2>2. ASSUME NEW o \in Orders, ResolveDispute(o) PROVE Progress
    BY <2>2 DEF ResolveDispute, Conclude, Settle
  <2>3. ASSUME NEW c \in Attempts, InitializePayment(c) \/ BuyerPays(c) PROVE Progress
    BY <2>3 DEF InitializePayment, BuyerPays
  <2> QED
    BY <1>4, <2>1, <2>2, <2>3 DEF Outside
<1>5. CASE Sweep
  BY <1>5 DEF Sweep, SweepRead, SweepCancel
<1>6. ~Failure
  BY DEF Failure, Restart, SellerStatementFails, StatementFails
<1> QED
  BY <1>1, <1>2, <1>3, <1>4, <1>5, <1>6 DEF Next

LEMMA BookedStep ==
    ASSUME Faults \cap {"db", "crash"} = {}, TypeOK, BookedInv, [Next]_vars
    PROVE  BookedInv'
<1>1. Progress
  BY ProgressStep DEF BookedInv
<1> QED
  BY <1>1 DEF Progress, BookedInv

LEMMA BookedInit == Init => BookedInv
  BY DEF Init, BookedInv, RowsInOrder, Touched, Sold, ReceiptStages

\* Without database failures and restarts, and whatever the gateways answer, every order
\* that is sold ends up with its seller's earnings, their hold, the marker row and the
\* commission: no overlap of verifications, completions by clients, crons and receipts
\* loses one of them.
THEOREM SaleIsBookedAlways ==
    Faults \cap {"db", "crash"} = {} => (Spec => []SaleIsBooked)
<1> SUFFICES ASSUME Faults \cap {"db", "crash"} = {} PROVE Spec => []SaleIsBooked
  OBVIOUS
<1>1. Init => BookedInv
  BY BookedInit
<1>2. TypeOK /\ BookedInv /\ [Next]_vars => BookedInv'
  BY BookedStep
<1>3. BookedInv => SaleIsBooked
  BY DEF BookedInv, SaleIsBooked, Touched, Booked, Booking, BookingStages, Completing,
         CompleteStages
<1> QED
  BY <1>1, <1>2, <1>3, TypeCorrect, PTL DEF Spec

-----------------------------------------------------------------------------
(* The hold and the marker row never run ahead, under every fault.           *)

HoldStages   == {"pendingFind", "pendingWrite"}
MarkerStages == HoldStages \cup {"sellerTx"}

\* The requests that have incremented the earnings of an order and are at these stages.
Past(o, stages) == {w \in Workers : job[w] = o /\ pc[w] \in stages}

\* Every hold and every marker row, written or still to be written, has its earnings.
EarningsCover ==
    \A o \in Orders :
        /\ pending[o] + Cardinality(Past(o, HoldStages)) <= credit[o]
        /\ sellerTx[o] + Cardinality(Past(o, MarkerStages)) <= credit[o]

\* A request that is past the increment has not been replaced by another one.
RequestsGoOn ==
    \A o \in Orders : /\ Past(o, HoldStages)' \subseteq Past(o, HoldStages)
                      /\ Past(o, MarkerStages)' \subseteq Past(o, MarkerStages)

\* All other steps leave the rows, and the requests on their way to them or ended.
LEMMA OtherStepsWriteNone ==
    ASSUME TypeOK, [Next]_vars,
           \A w \in Workers : ~CreditSeller(w) /\ ~WritePending(w) /\ ~WriteSellerTx(w)
    PROVE  UNCHANGED <<credit, pending, sellerTx>> /\ RequestsGoOn
<1> USE DEF RequestsGoOn, Past, HoldStages, MarkerStages, TypeOK, CreateStages, VerifyStages,
        LoopStages, CompleteStages, ReceiptStages, Stages, Idle, At, Begin, Step,
        orderVars, moneyVars, workerVars
<1> DEFINE Goal == UNCHANGED <<credit, pending, sellerTx>> /\ RequestsGoOn
<1>1. CASE UNCHANGED vars
  BY <1>1 DEF vars
<1>2. ASSUME NEW w \in Workers, Request(w) PROVE Goal
  <2>1. ASSUME NEW o \in Orders, CheckPurchase(w, o) \/ CallComplete(w, o) \/ OpenReceipt(w, o)
        PROVE  Goal
    BY <2>1 DEF CheckPurchase, CallComplete, OpenReceipt
  <2>2. ASSUME NEW c \in Attempts, VerifySucceeds(w, c) \/ VerifyRefused(w, c) PROVE Goal
    BY <2>2 DEF VerifySucceeds, VerifyRefused
  <2>3. ASSUME NEW c \in Attempts, VerifyThrows(w, c) PROVE Goal
    BY <2>3 DEF VerifyThrows
  <2> QED
    BY <1>2, <2>1, <2>2, <2>3 DEF Request
<1>3. ASSUME NEW w \in Workers, Serve(w) PROVE Goal
  <2>1. CASE InsertOrder(w)     BY <2>1 DEF InsertOrder
  <2>2. CASE CancelUnpaid(w)    BY <2>2 DEF CancelUnpaid
  <2>3. CASE CheckNotPaid(w)    BY <2>3 DEF CheckNotPaid
  <2>4. CASE ReadOrder(w)       BY <2>4 DEF ReadOrder
  <2>5. CASE MarkPaid(w)        BY <2>5 DEF MarkPaid
  <2>6. CASE MarkArtSold(w)     BY <2>6 DEF MarkArtSold
  <2>7. CASE CheckSeller(w)     BY <2>7 DEF CheckSeller
  <2>8. CASE FindPending(w)     BY <2>8 DEF FindPending
  <2>9. CASE RecordPlatform(w)  BY <2>9 DEF RecordPlatform
  <2>10. CASE EnsureShipment(w) BY <2>10 DEF EnsureShipment
  <2>11. CASE WriteReceipt(w)   BY <2>11 DEF WriteReceipt, Conclude
  <2> QED
    BY <1>3, <2>1, <2>2, <2>3, <2>4, <2>5, <2>6, <2>7, <2>8, <2>9, <2>10, <2>11
    DEF Serve, Completion
<1>4. CASE Outside
  BY <1>4 DEF Outside, GrowOld, ResolveDispute, Conclude, InitializePayment, BuyerPays
<1>5. CASE Sweep
  BY <1>5 DEF Sweep, SweepRead, SweepCancel
<1>6. CASE Failure
  <2>1. CASE Restart
    BY <2>1 DEF Restart
  <2>2. ASSUME NEW w \in Workers, SellerStatementFails(w) \/ StatementFails(w) PROVE Goal
    BY <2>2 DEF SellerStatementFails, StatementFails
  <2> QED
    BY <1>6, <2>1, <2>2 DEF Failure
<1> QED
  BY <1>1, <1>2, <1>3, <1>4, <1>5, <1>6 DEF Next

\* How the number of requests at some stages moves with one of them.
LEMMA RequestsMove ==
    ASSUME NEW P \in SUBSET Workers, NEW Q \in SUBSET Workers, NEW w
    PROVE  /\ Cardinality(P) \in Nat /\ Cardinality(Q) \in Nat
           /\ Q \subseteq P => Cardinality(Q) <= Cardinality(P)
           /\ Q \subseteq P \cup {w} => Cardinality(Q) <= Cardinality(P) + 1
           /\ Q \subseteq P \ {w} /\ w \in P => Cardinality(Q) <= Cardinality(P) - 1
<1>1. IsFiniteSet(P) /\ IsFiniteSet(Q)
  BY OrderPaymentAssumption, FS_Subset DEF OrderPaymentAssumption
<1>2. Cardinality(P) \in Nat /\ Cardinality(Q) \in Nat
  BY <1>1, FS_CardinalityType
<1>3. Q \subseteq P => Cardinality(Q) <= Cardinality(P)
  BY <1>1, FS_Subset
<1>4. ASSUME Q \subseteq P \cup {w} PROVE Cardinality(Q) <= Cardinality(P) + 1
  <2>1. /\ IsFiniteSet(P \cup {w})
        /\ Cardinality(P \cup {w}) = IF w \in P THEN Cardinality(P) ELSE Cardinality(P) + 1
    BY <1>1, FS_AddElement
  <2>2. Cardinality(Q) <= Cardinality(P \cup {w})
    BY <1>4, <2>1, FS_Subset
  <2> QED
    BY <1>2, <2>1, <2>2
<1>5. ASSUME Q \subseteq P \ {w}, w \in P PROVE Cardinality(Q) <= Cardinality(P) - 1
  <2>1. IsFiniteSet(P \ {w}) /\ Cardinality(P \ {w}) = Cardinality(P) - 1
    BY <1>1, <1>5, FS_RemoveElement
  <2>2. Cardinality(Q) <= Cardinality(P \ {w})
    BY <1>5, <2>1, FS_Subset
  <2> QED
    BY <2>1, <2>2
<1> QED
  BY <1>2, <1>3, <1>4, <1>5

LEMMA EarningsStep ==
    ASSUME TypeOK, EarningsCover, [Next]_vars
    PROVE  EarningsCover'
<1> SUFFICES ASSUME NEW o \in Orders
             PROVE  /\ pending'[o] + Cardinality(Past(o, HoldStages)') <= credit'[o]
                    /\ sellerTx'[o] + Cardinality(Past(o, MarkerStages)') <= credit'[o]
  BY DEF EarningsCover
<1> DEFINE H == Past(o, HoldStages)    H2 == Past(o, HoldStages)'
           M == Past(o, MarkerStages)  M2 == Past(o, MarkerStages)'
<1>1. /\ H \in SUBSET Workers /\ H2 \in SUBSET Workers
      /\ M \in SUBSET Workers /\ M2 \in SUBSET Workers
  BY DEF Past
<1>2. /\ pending[o] + Cardinality(H) <= credit[o]
      /\ sellerTx[o] + Cardinality(M) <= credit[o]
      /\ pending[o] \in Nat /\ sellerTx[o] \in Nat /\ credit[o] \in Nat
  BY OrderPaymentAssumption DEF EarningsCover, TypeOK, OrderPaymentAssumption
<1>3. CASE \A w \in Workers : ~CreditSeller(w) /\ ~WritePending(w) /\ ~WriteSellerTx(w)
  <2>1. /\ pending'[o] = pending[o] /\ sellerTx'[o] = sellerTx[o] /\ credit'[o] = credit[o]
        /\ H2 \subseteq H /\ M2 \subseteq M
    BY <1>3, OtherStepsWriteNone DEF RequestsGoOn
  <2> HIDE DEF H, H2, M, M2
  <2>2. /\ Cardinality(H2) <= Cardinality(H) /\ Cardinality(M2) <= Cardinality(M)
        /\ Cardinality(H) \in Nat /\ Cardinality(M) \in Nat
        /\ Cardinality(H2) \in Nat /\ Cardinality(M2) \in Nat
    BY <1>1, <2>1, RequestsMove
  <2>3. /\ pending'[o] + Cardinality(H2) <= credit'[o]
        /\ sellerTx'[o] + Cardinality(M2) <= credit'[o]
    BY <1>2, <2>1, <2>2
  <2> QED
    BY <2>3 DEF H2, M2
<1> USE DEF TypeOK, At, Step
<1>4. ASSUME NEW w \in Workers, CreditSeller(w)
      PROVE  /\ pending'[o] + Cardinality(H2) <= credit'[o]
             /\ sellerTx'[o] + Cardinality(M2) <= credit'[o]
  <2>1. /\ pc[w] = "credit" /\ pc' = [pc EXCEPT ![w] = "pendingFind"] /\ job' = job
        /\ pending' = pending /\ sellerTx' = sellerTx
        /\ credit' = [credit EXCEPT ![job[w]] = @ + 1]
    BY <1>4 DEF CreditSeller
  <2>2. CASE job[w] = o
    <3>1. /\ H2 \subseteq H \cup {w} /\ M2 \subseteq M \cup {w} /\ credit'[o] = credit[o] + 1
      BY <2>1, <2>2 DEF Past, HoldStages, MarkerStages
    <3> HIDE DEF H, H2, M, M2
    <3> QED
      BY <1>1, <1>2, <2>1, <3>1, RequestsMove
  <2>3. CASE job[w] # o
    <3>1. /\ H2 \subseteq H /\ M2 \subseteq M /\ credit'[o] = credit[o]
      BY <2>1, <2>3 DEF Past, HoldStages, MarkerStages
    <3> HIDE DEF H, H2, M, M2
    <3> QED
      BY <1>1, <1>2, <2>1, <3>1, RequestsMove
  <2> QED
    BY <2>2, <2>3
<1>5. ASSUME NEW w \in Workers, WritePending(w)
      PROVE  /\ pending'[o] + Cardinality(H2) <= credit'[o]
             /\ sellerTx'[o] + Cardinality(M2) <= credit'[o]
  <2>1. /\ pc[w] = "pendingWrite" /\ pc' = [pc EXCEPT ![w] = "sellerTx"] /\ job' = job
        /\ credit' = credit /\ sellerTx' = sellerTx
        /\ pending' = [pending EXCEPT ![job[w]] = @ + 1]
    BY <1>5 DEF WritePending
  <2>2. CASE job[w] = o
    <3>1. /\ H2 \subseteq H \ {w} /\ w \in H /\ M2 \subseteq M /\ pending'[o] = pending[o] + 1
      BY <2>1, <2>2 DEF Past, HoldStages, MarkerStages
    <3> HIDE DEF H, H2, M, M2
    <3> QED
      BY <1>1, <1>2, <2>1, <3>1, RequestsMove
  <2>3. CASE job[w] # o
    <3>1. /\ H2 \subseteq H /\ M2 \subseteq M /\ pending'[o] = pending[o]
      BY <2>1, <2>3 DEF Past, HoldStages, MarkerStages
    <3> HIDE DEF H, H2, M, M2
    <3> QED
      BY <1>1, <1>2, <2>1, <3>1, RequestsMove
  <2> QED
    BY <2>2, <2>3
<1>6. ASSUME NEW w \in Workers, WriteSellerTx(w)
      PROVE  /\ pending'[o] + Cardinality(H2) <= credit'[o]
             /\ sellerTx'[o] + Cardinality(M2) <= credit'[o]
  <2>1. /\ pc[w] = "sellerTx" /\ pc' = [pc EXCEPT ![w] = "platform"] /\ job' = job
        /\ credit' = credit /\ pending' = pending
        /\ sellerTx' = [sellerTx EXCEPT ![job[w]] = @ + 1]
    BY <1>6 DEF WriteSellerTx
  <2>2. CASE job[w] = o
    <3>1. /\ M2 \subseteq M \ {w} /\ w \in M /\ H2 \subseteq H /\ sellerTx'[o] = sellerTx[o] + 1
      BY <2>1, <2>2 DEF Past, HoldStages, MarkerStages
    <3> HIDE DEF H, H2, M, M2
    <3> QED
      BY <1>1, <1>2, <2>1, <3>1, RequestsMove
  <2>3. CASE job[w] # o
    <3>1. /\ H2 \subseteq H /\ M2 \subseteq M /\ sellerTx'[o] = sellerTx[o]
      BY <2>1, <2>3 DEF Past, HoldStages, MarkerStages
    <3> HIDE DEF H, H2, M, M2
    <3> QED
      BY <1>1, <1>2, <2>1, <3>1, RequestsMove
  <2> QED
    BY <2>2, <2>3
<1> QED
  BY <1>3, <1>4, <1>5, <1>6

LEMMA EarningsInit == Init => EarningsCover
<1> SUFFICES ASSUME Init, NEW o \in Orders
             PROVE  /\ pending[o] + Cardinality(Past(o, HoldStages)) <= credit[o]
                    /\ sellerTx[o] + Cardinality(Past(o, MarkerStages)) <= credit[o]
  BY DEF EarningsCover
<1>1. Past(o, HoldStages) = {} /\ Past(o, MarkerStages) = {}
  BY DEF Init, Past, HoldStages, MarkerStages
<1>2. pending[o] = 0 /\ sellerTx[o] = 0 /\ credit[o] = 0
  BY DEF Init
<1> QED
  BY <1>1, <1>2, FS_EmptySet

\* Neither the hold nor the marker row ever counts more than the earnings, with any number
\* of overlapping requests, failing statements and restarts.
THEOREM NoHoldWithoutEarningsAlways == Spec => []NoHoldWithoutEarnings
<1>1. TypeOK /\ EarningsCover /\ [Next]_vars => EarningsCover'
  BY EarningsStep
<1>2. TypeOK /\ EarningsCover => NoHoldWithoutEarnings
  <2> SUFFICES ASSUME TypeOK, EarningsCover, NEW o \in Orders
               PROVE  pending[o] <= credit[o] /\ sellerTx[o] <= credit[o]
    BY DEF NoHoldWithoutEarnings
  <2>1. /\ Past(o, HoldStages) \in SUBSET Workers /\ Past(o, MarkerStages) \in SUBSET Workers
    BY DEF Past
  <2>2. /\ Cardinality(Past(o, HoldStages)) \in Nat /\ Cardinality(Past(o, MarkerStages)) \in Nat
    BY <2>1, RequestsMove
  <2>3. pending[o] \in Nat /\ sellerTx[o] \in Nat /\ credit[o] \in Nat
    BY OrderPaymentAssumption DEF TypeOK, OrderPaymentAssumption
  <2> QED
    BY <2>2, <2>3 DEF EarningsCover
<1> QED
  BY <1>1, <1>2, EarningsInit, TypeCorrect, PTL DEF Spec

-----------------------------------------------------------------------------
(* What is paid is off the shelf, when no artwork is in two orders and no    *)
(* statement fails.                                                          *)

OwnArtworks == \A o, p \in Orders : o # p => ItemsOf[o] \cap ItemsOf[p] = {}

\* A paid order has its artworks off the shelf, or a request is about to take them off.
ShelfInv ==
    \A o \in Orders : status[o] = "PAID" =>
        \/ \A a \in ItemsOf[o] : art[a] = "SOLD"
        \/ \E w \in Workers : job[w] = o /\ pc[w] = "art"

LEMMA ShelfStep ==
    ASSUME OwnArtworks, Faults \cap {"db", "crash"} = {}, TypeOK, ShelfInv, [Next]_vars
    PROVE  ShelfInv'
<1> USE OrderPaymentAssumption
    DEF ShelfInv, TypeOK, CreateStages, VerifyStages, LoopStages, CompleteStages, ReceiptStages,
        Stages, Idle, At, Begin, Step, orderVars, moneyVars, workerVars
<1>1. CASE UNCHANGED vars
  BY <1>1 DEF vars
<1>2. ASSUME NEW w \in Workers, Request(w) PROVE ShelfInv'
  <2>1. ASSUME NEW o \in Orders, CheckPurchase(w, o) \/ CallComplete(w, o) \/ OpenReceipt(w, o)
        PROVE  ShelfInv'
    BY <2>1 DEF CheckPurchase, CallComplete, OpenReceipt
  <2>2. ASSUME NEW c \in Attempts, VerifySucceeds(w, c) \/ VerifyRefused(w, c) PROVE ShelfInv'
    BY <2>2 DEF VerifySucceeds, VerifyRefused
  <2>3. ASSUME NEW c \in Attempts, VerifyThrows(w, c) PROVE ShelfInv'
    BY <2>3 DEF VerifyThrows
  <2> QED
    BY <1>2, <2>1, <2>2, <2>3 DEF Request
<1>3. ASSUME NEW w \in Workers, Serve(w) PROVE ShelfInv'
  <2>1. CASE InsertOrder(w)     BY <2>1 DEF InsertOrder
  <2>2. CASE CancelUnpaid(w)    BY <2>2 DEF CancelUnpaid
  <2>3. CASE CheckNotPaid(w)    BY <2>3 DEF CheckNotPaid
  <2>4. CASE ReadOrder(w)       BY <2>4 DEF ReadOrder
  <2>5. CASE MarkPaid(w)        BY <2>5 DEF MarkPaid
  <2>6. CASE MarkArtSold(w)
    BY <2>6 DEF MarkArtSold, OrderPaymentAssumption
  <2>7. CASE CheckSeller(w)     BY <2>7 DEF CheckSeller
  <2>8. CASE CreditSeller(w)    BY <2>8 DEF CreditSeller
  <2>9. CASE FindPending(w)     BY <2>9 DEF FindPending
  <2>10. CASE WritePending(w)   BY <2>10 DEF WritePending
  <2>11. CASE WriteSellerTx(w)  BY <2>11 DEF WriteSellerTx
  <2>12. CASE RecordPlatform(w) BY <2>12 DEF RecordPlatform
  <2>13. CASE EnsureShipment(w) BY <2>13 DEF EnsureShipment
  <2>14. CASE WriteReceipt(w)
    BY <2>14 DEF WriteReceipt, Conclude, SetArt, OwnArtworks, OrderPaymentAssumption
  <2> QED
    BY <1>3, <2>1, <2>2, <2>3, <2>4, <2>5, <2>6, <2>7, <2>8, <2>9, <2>10, <2>11, <2>12,
       <2>13, <2>14 DEF Serve, Completion
<1>4. CASE Outside
  <2>1. ASSUME NEW o \in Orders, ResolveDispute(o) PROVE ShelfInv'
    BY <2>1 DEF ResolveDispute, Conclude, SetArt, OwnArtworks, OrderPaymentAssumption
  <2> QED
    BY <1>4, <2>1 DEF Outside, GrowOld, InitializePayment, BuyerPays
<1>5. CASE Sweep
  BY <1>5 DEF Sweep, SweepRead, SweepCancel
<1>6. ~Failure
  BY DEF Failure, Restart, SellerStatementFails, StatementFails
<1> QED
  BY <1>1, <1>2, <1>3, <1>4, <1>5, <1>6 DEF Next

\* When no artwork is in two orders, which the code does not rule out, and no statement
\* fails, a paid order has its artworks off the shelf as soon as its completion is over,
\* whatever verifications, disputes and refunds overlap.
THEOREM PaidIsOffTheShelfAlways ==
    OwnArtworks /\ Faults \cap {"db", "crash"} = {} => (Spec => []PaidIsOffTheShelf)
<1> SUFFICES ASSUME OwnArtworks, Faults \cap {"db", "crash"} = {}
             PROVE  Spec => []PaidIsOffTheShelf
  OBVIOUS
<1>1. Init => ShelfInv
  BY DEF Init, ShelfInv
<1>2. TypeOK /\ ShelfInv /\ [Next]_vars => ShelfInv'
  BY ShelfStep
<1>3. ShelfInv => PaidIsOffTheShelf
  BY DEF ShelfInv, PaidIsOffTheShelf, Completing, CompleteStages
<1> QED
  BY <1>1, <1>2, <1>3, TypeCorrect, PTL DEF Spec

-----------------------------------------------------------------------------
(* What has to take turns: credited once, and the hold follows the order.    *)

\* For each order, one request at a time is between finding no marker row and writing it, as
\* a unique marker written first would have it.  Anything else overlaps.
OneLoop ==
    \A v, w \in Workers :
        /\ pc[v] \in {"credit"} \cup MarkerStages /\ pc[w] \in {"credit"} \cup MarkerStages
        /\ job[v] = job[w]
        => v = w

\* The earnings go up only for an order without a marker row, and the same request writes
\* the marker row before it ends.
OnceInv ==
    /\ \A o \in Orders : credit[o] <= 1 /\ pending[o] <= 1 /\ sellerTx[o] <= 1
    /\ \A w \in Workers :
          /\ pc[w] \in {"credit", "pendingFind", "pendingWrite", "sellerTx"} => sellerTx[job[w]] = 0
          /\ pc[w] = "pendingWrite" => pending[job[w]] = 0
    /\ \A o \in Orders :
          sellerTx[o] = 0 => \/ credit[o] = 0
                             \/ \E w \in Workers : job[w] = o /\ pc[w] \in MarkerStages

LEMMA OnceStep ==
    ASSUME OneLoop, Faults \cap {"db", "crash"} = {}, TypeOK, OnceInv, [Next]_vars
    PROVE  OnceInv'
<1> USE DEF OnceInv, OneLoop, MarkerStages, HoldStages, TypeOK, CreateStages, VerifyStages,
        LoopStages, CompleteStages, ReceiptStages, Stages, Idle, At, Begin, Step, orderVars,
        moneyVars, workerVars
<1>1. CASE UNCHANGED vars
  BY <1>1 DEF vars
<1>2. ASSUME NEW w \in Workers, Request(w) PROVE OnceInv'
  <2>1. ASSUME NEW o \in Orders, CheckPurchase(w, o) \/ CallComplete(w, o) \/ OpenReceipt(w, o)
        PROVE  OnceInv'
    BY <2>1 DEF CheckPurchase, CallComplete, OpenReceipt
  <2>2. ASSUME NEW c \in Attempts, VerifySucceeds(w, c) \/ VerifyRefused(w, c) PROVE OnceInv'
    BY <2>2 DEF VerifySucceeds, VerifyRefused
  <2>3. ASSUME NEW c \in Attempts, VerifyThrows(w, c) PROVE OnceInv'
    BY <2>3 DEF VerifyThrows
  <2> QED
    BY <1>2, <2>1, <2>2, <2>3 DEF Request
<1>3. ASSUME NEW w \in Workers, Serve(w) PROVE OnceInv'
  <2>1. CASE InsertOrder(w)     BY <2>1 DEF InsertOrder
  <2>2. CASE CancelUnpaid(w)    BY <2>2 DEF CancelUnpaid
  <2>3. CASE CheckNotPaid(w)    BY <2>3 DEF CheckNotPaid
  <2>4. CASE ReadOrder(w)       BY <2>4 DEF ReadOrder
  <2>5. CASE MarkPaid(w)        BY <2>5 DEF MarkPaid
  <2>6. CASE MarkArtSold(w)     BY <2>6 DEF MarkArtSold
  <2>7. CASE CheckSeller(w)     BY <2>7 DEF CheckSeller, SellerPaid
  <2>8. CASE CreditSeller(w)    BY <2>8 DEF CreditSeller
  <2>9. CASE FindPending(w)     BY <2>9 DEF FindPending
  <2>10. CASE WritePending(w)   BY <2>10 DEF WritePending
  <2>11. CASE WriteSellerTx(w)  BY <2>11 DEF WriteSellerTx
  <2>12. CASE RecordPlatform(w) BY <2>12 DEF RecordPlatform
  <2>13. CASE EnsureShipment(w) BY <2>13 DEF EnsureShipment
  <2>14. CASE WriteReceipt(w)   BY <2>14 DEF WriteReceipt, Conclude
  <2> QED
    BY <1>3, <2>1, <2>2, <2>3, <2>4, <2>5, <2>6, <2>7, <2>8, <2>9, <2>10, <2>11, <2>12,
       <2>13, <2>14 DEF Serve, Completion
<1>4. CASE Outside
  BY <1>4 DEF Outside, GrowOld, ResolveDispute, Conclude, InitializePayment, BuyerPays
<1>5. CASE Sweep
  BY <1>5 DEF Sweep, SweepRead, SweepCancel
<1>6. ~Failure
  BY DEF Failure, Restart, SellerStatementFails, StatementFails
<1> QED
  BY <1>1, <1>2, <1>3, <1>4, <1>5, <1>6 DEF Next

\* While the seller loops of an order take turns and no statement fails, a seller is credited
\* once for an order, with one hold and one marker row, however many verifications, cancellations,
\* completions and receipts of it overlap otherwise.
THEOREM CreditedOnceInTurn ==
    ASSUME Faults \cap {"db", "crash"} = {}
    PROVE  Spec /\ []OneLoop => []CreditedOnce
<1>1. Init => OnceInv
  BY DEF Init, OnceInv
<1>2. TypeOK /\ OneLoop /\ OnceInv /\ [Next]_vars => OnceInv'
  BY OnceStep
<1>3. OnceInv => CreditedOnce
  BY DEF OnceInv, CreditedOnce
<1> QED
  BY <1>1, <1>2, <1>3, TypeCorrect, PTL DEF Spec

\* No receipt of an order is under way while a request is still booking the order.
ReceiptWaits ==
    \A v, w \in Workers :
        pc[v] \in ReceiptStages /\ pc[w] \in BookingStages => job[v] # job[w]

\* Only the row of an order makes a charge, a receipt or a request about it possible, and one
\* request at most inserts it.
RowComesFirst ==
    /\ \A o \in Orders : receipt[o] # "NONE" => status[o] # "NONE"
    /\ \A c \in Attempts : charge[c] # "NONE" => status[OrderOf[c]] # "NONE"
    /\ \A w \in Workers : pc[w] \notin {"idle", "create"} => status[job[w]] # "NONE"
    /\ \A w \in Workers : pc[w] = "create" => status[job[w]] = "NONE"
    /\ \A v, w \in Workers : pc[v] = "create" /\ pc[w] = "create" /\ job[v] = job[w] => v = w
    /\ \A o \in sweep : status[o] # "NONE"

LEMMA RowComesFirstStep ==
    ASSUME TypeOK, RowComesFirst, [Next]_vars
    PROVE  RowComesFirst'
<1> USE DEF RowComesFirst, TypeOK, CreateStages, VerifyStages, LoopStages, CompleteStages,
        ReceiptStages, Stages, Idle, At, Begin, Step, orderVars, moneyVars, workerVars
<1>0. OrderOf \in [Attempts -> Orders]
  BY OrderPaymentAssumption DEF OrderPaymentAssumption
<1>1. CASE UNCHANGED vars
  BY <1>1 DEF vars
<1>2. ASSUME NEW w \in Workers, Request(w) PROVE RowComesFirst'
  <2>1. ASSUME NEW o \in Orders, CheckPurchase(w, o) PROVE RowComesFirst'
    BY <2>1 DEF CheckPurchase
  <2>2. ASSUME NEW o \in Orders, CallComplete(w, o) \/ OpenReceipt(w, o) PROVE RowComesFirst'
    BY <2>2 DEF CallComplete, OpenReceipt
  <2>3. ASSUME NEW c \in Attempts, VerifySucceeds(w, c) PROVE RowComesFirst'
    BY <1>0, <2>3 DEF VerifySucceeds, CountsAsPaid, PaidAtChapa, PaidAtPayPal, AfterVerify
  <2>4. ASSUME NEW c \in Attempts, VerifyRefused(w, c) PROVE RowComesFirst'
    BY <1>0, <2>4 DEF VerifyRefused
  <2>5. ASSUME NEW c \in Attempts, VerifyThrows(w, c) PROVE RowComesFirst'
    BY <1>0, <2>5 DEF VerifyThrows
  <2> QED
    BY <1>2, <2>1, <2>2, <2>3, <2>4, <2>5 DEF Request
<1>3. ASSUME NEW w \in Workers, Serve(w) PROVE RowComesFirst'
  <2>1. CASE InsertOrder(w)     BY <1>0, <2>1 DEF InsertOrder
  <2>2. CASE CancelUnpaid(w)    BY <1>0, <2>2 DEF CancelUnpaid
  <2>3. CASE CheckNotPaid(w)    BY <2>3 DEF CheckNotPaid
  <2>4. CASE ReadOrder(w)       BY <2>4 DEF ReadOrder
  <2>5. CASE MarkPaid(w)        BY <1>0, <2>5 DEF MarkPaid
  <2>6. CASE MarkArtSold(w)     BY <2>6 DEF MarkArtSold
  <2>7. CASE CheckSeller(w)     BY <2>7 DEF CheckSeller
  <2>8. CASE CreditSeller(w)    BY <2>8 DEF CreditSeller
  <2>9. CASE FindPending(w)     BY <2>9 DEF FindPending
  <2>10. CASE WritePending(w)   BY <2>10 DEF WritePending
  <2>11. CASE WriteSellerTx(w)  BY <2>11 DEF WriteSellerTx
  <2>12. CASE RecordPlatform(w) BY <2>12 DEF RecordPlatform
  <2>13. CASE EnsureShipment(w) BY <2>13 DEF EnsureShipment
  <2>14. CASE WriteReceipt(w)   BY <1>0, <2>14 DEF WriteReceipt, Conclude
  <2> QED
    BY <1>3, <2>1, <2>2, <2>3, <2>4, <2>5, <2>6, <2>7, <2>8, <2>9, <2>10, <2>11, <2>12,
       <2>13, <2>14 DEF Serve, Completion
<1>4. CASE Outside
  <2>1. ASSUME NEW o \in Orders, ResolveDispute(o) PROVE RowComesFirst'
    BY <1>0, <2>1 DEF ResolveDispute, Conclude
  <2>2. ASSUME NEW c \in Attempts, InitializePayment(c) \/ BuyerPays(c) PROVE RowComesFirst'
    BY <1>0, <2>2 DEF InitializePayment, BuyerPays
  <2> QED
    BY <1>4, <2>1, <2>2 DEF Outside, GrowOld
<1>5. CASE Sweep
  BY <1>0, <1>5 DEF Sweep, SweepRead, SweepCancel, Overdue
<1>6. CASE Failure
  BY <1>6 DEF Failure, Restart, SellerStatementFails, StatementFails
<1> QED
  BY <1>1, <1>2, <1>3, <1>4, <1>5, <1>6 DEF Next

\* A receipt or a dispute finds its order booked, and settles the hold with the status.
ReceiptInv ==
    /\ \A o \in Orders :
          /\ receipt[o] # "NONE" => Booked(o)
          /\ receipt[o] \in {"NONE", "DISPUTED"} => release[o] = "NONE"
          /\ status[o] \in {"NONE", "PENDING"} => receipt[o] = "NONE"
          /\ status[o] = "DISPUTED" => receipt[o] = "DISPUTED"
          /\ status[o] = "COMPLETED" => release[o] = "RELEASED"
          /\ status[o] = "REFUNDED" => release[o] = "CANCELLED"

LEMMA ReceiptStep ==
    ASSUME ReceiptWaits, Faults \cap {"db", "crash"} = {}, TypeOK, BookedInv, RowComesFirst,
           ReceiptInv, [Next]_vars
    PROVE  ReceiptInv'
<1>0. \A o \in Orders : Booked(o) => Booked(o)'
  BY ProgressStep DEF BookedInv, Progress
<1> USE <1>0
    DEF ReceiptInv, RowComesFirst, TypeOK, CreateStages, VerifyStages, LoopStages, CompleteStages,
        ReceiptStages, Stages, Idle, At, Begin, Step, orderVars, moneyVars, workerVars
<1>1. CASE UNCHANGED vars
  BY <1>1 DEF vars
<1>2. ASSUME NEW w \in Workers, Request(w) PROVE ReceiptInv'
  <2>1. ASSUME NEW o \in Orders, CheckPurchase(w, o) \/ CallComplete(w, o) \/ OpenReceipt(w, o)
        PROVE  ReceiptInv'
    BY <2>1 DEF CheckPurchase, CallComplete, OpenReceipt
  <2>2. ASSUME NEW c \in Attempts, VerifySucceeds(w, c) \/ VerifyRefused(w, c) PROVE ReceiptInv'
    BY <2>2 DEF VerifySucceeds, VerifyRefused
  <2>3. ASSUME NEW c \in Attempts, VerifyThrows(w, c) PROVE ReceiptInv'
    BY <2>3 DEF VerifyThrows
  <2> QED
    BY <1>2, <2>1, <2>2, <2>3 DEF Request
<1>3. ASSUME NEW w \in Workers, Serve(w) PROVE ReceiptInv'
  <2>1. CASE InsertOrder(w)     BY <2>1 DEF InsertOrder
  <2>2. CASE CancelUnpaid(w)    BY <2>2 DEF CancelUnpaid
  <2>3. CASE CheckNotPaid(w)    BY <2>3 DEF CheckNotPaid
  <2>4. CASE ReadOrder(w)       BY <2>4 DEF ReadOrder
  <2>5. CASE MarkPaid(w)        BY <2>5 DEF MarkPaid
  <2>6. CASE MarkArtSold(w)     BY <2>6 DEF MarkArtSold
  <2>7. CASE CheckSeller(w)     BY <2>7 DEF CheckSeller
  <2>8. CASE CreditSeller(w)    BY <2>8 DEF CreditSeller
  <2>9. CASE FindPending(w)     BY <2>9 DEF FindPending
  <2>10. CASE WritePending(w)   BY <2>10 DEF WritePending
  <2>11. CASE WriteSellerTx(w)  BY <2>11 DEF WriteSellerTx
  <2>12. CASE RecordPlatform(w) BY <2>12 DEF RecordPlatform
  <2>13. CASE EnsureShipment(w) BY <2>13 DEF EnsureShipment
  <2>14. CASE WriteReceipt(w)
    <3>1. pc[w] \in ReceiptStages => Booked(job[w])
      BY DEF BookedInv, Touched, Booking, ReceiptWaits
    <3> QED
      BY <2>14, <3>1 DEF WriteReceipt, Conclude, Settle, Booked
  <2> QED
    BY <1>3, <2>1, <2>2, <2>3, <2>4, <2>5, <2>6, <2>7, <2>8, <2>9, <2>10, <2>11, <2>12,
       <2>13, <2>14 DEF Serve, Completion
<1>4. CASE Outside
  <2>1. ASSUME NEW o \in Orders, ResolveDispute(o) PROVE ReceiptInv'
    BY <2>1 DEF ResolveDispute, Conclude, Settle, Booked
  <2> QED
    BY <1>4, <2>1 DEF Outside, GrowOld, InitializePayment, BuyerPays
<1>5. CASE Sweep
  BY <1>5 DEF Sweep, SweepRead, SweepCancel, Overdue
<1>6. ~Failure
  BY DEF Failure, Restart, SellerStatementFails, StatementFails
<1> QED
  BY <1>1, <1>2, <1>3, <1>4, <1>5, <1>6 DEF Next

\* While no receipt overlaps the booking of its order and no statement fails, the hold on a
\* seller's credit is released with the delivery, cancelled with the refund and untouched
\* before either, whatever verifications, cancellations and completions overlap.
THEOREM HoldFollowsTheOrderInTurn ==
    ASSUME Faults \cap {"db", "crash"} = {}
    PROVE  Spec /\ []ReceiptWaits => []HoldFollowsTheOrder
<1>1. Init => BookedInv /\ RowComesFirst /\ ReceiptInv
  BY BookedInit DEF Init, RowComesFirst, ReceiptInv
<1>2. ReceiptWaits /\ TypeOK /\ BookedInv /\ RowComesFirst /\ ReceiptInv /\ [Next]_vars
        => BookedInv' /\ RowComesFirst' /\ ReceiptInv'
  BY BookedStep, RowComesFirstStep, ReceiptStep
<1>3. ReceiptInv => HoldFollowsTheOrder
  BY DEF ReceiptInv, HoldFollowsTheOrder
<1> QED
  BY <1>1, <1>2, <1>3, TypeCorrect, PTL DEF Spec
=============================================================================
