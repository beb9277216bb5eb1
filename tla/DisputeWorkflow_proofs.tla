----------------------- MODULE DisputeWorkflow_proofs -----------------------
(***************************************************************************)
(* Theorems about DisputeWorkflow: its types and the soundness of its debit *)
(* under any overlap of requests, and, when no request is overtaken between *)
(* its read and its write, the agreement of the books with the case and the *)
(* implementation of DisputePromise.                                        *)
(***************************************************************************)
EXTENDS DisputeWorkflow, FiniteSetTheorems, TLAPS

LEMMA TypeInit == Init => TypeOK
<1> SUFFICES ASSUME Init PROVE TypeOK
  OBVIOUS
<1>1. confirmed \in BOOLEAN /\ waived \in BOOLEAN /\ linked \in BOOLEAN /\ returned \in BOOLEAN
  BY Zenon DEF Init
<1> QED
  BY <1>1 DEF Init, TypeOK, Stages

\* Every step keeps the variables in their types.
LEMMA TypeStep == TypeOK /\ [Next]_vars => TypeOK'
<1> SUFFICES ASSUME TypeOK, [Next]_vars PROVE TypeOK'
  OBVIOUS
<1> USE DEF TypeOK, Stages, Go, caseVars, rowVars, bookVars
<1>1. CASE UNCHANGED vars
  BY <1>1 DEF vars
<1>2. ASSUME NEW w \in Workers, Request(w) PROVE TypeOK'
  BY <1>2 DEF Request, Read, RefundStage
<1>3. ASSUME NEW w \in Workers, Serve(w) PROVE TypeOK'
  <2>1. CASE SellerWins(w)      BY <2>1 DEF SellerWins, RowKinds
  <2>2. CASE FindRefund(w)      BY <2>2 DEF FindRefund
  <2>3. CASE RecordBuyerWins(w)
    <3>1. linked' \in BOOLEAN /\ confirmed' \in BOOLEAN /\ waived' \in BOOLEAN
      BY Zenon, <2>3 DEF RecordBuyerWins, OpenRefund
    <3> QED
      BY <2>3, <3>1 DEF RecordBuyerWins, OpenRefund
  <2>4. CASE WaiveReturn(w)     BY <2>4 DEF WaiveReturn
  <2>5. CASE ConfirmReturn(w)   BY <2>5 DEF ConfirmReturn
  <2>6. CASE CancelBuyerWins(w) BY <2>6 DEF CancelBuyerWins
  <2>7. CASE StartRefund(w)     BY <2>7 DEF StartRefund
  <2>8. CASE CallGateway(w)
    <3>1. returned' \in BOOLEAN
      BY Zenon, <2>8 DEF CallGateway, GatewayRefunds, GatewayRefuses, GatewayIsSilent
    <3>2. pc' \in [Workers -> Stages]
      BY <2>8 DEF CallGateway, GatewayRefunds, GatewayRefuses, GatewayIsSilent
    <3> QED
      BY <2>8, <3>1, <3>2 DEF CallGateway, GatewayRefunds, GatewayRefuses, GatewayIsSilent
  <2>9. CASE MarkRefund(w)      BY <2>9 DEF MarkRefund
  <2>10. CASE SettlementLooks(w)
    BY <2>10 DEF SettlementLooks, LookUp
  <2>11. CASE SettleRefund(w)
    <3>1. rows' \in [RowKinds -> Nat]
      BY <2>11 DEF SettleRefund
    <3> QED
      BY <2>11, <3>1 DEF SettleRefund
  <2> QED
    BY <1>3, <2>1, <2>2, <2>3, <2>4, <2>5, <2>6, <2>7, <2>8, <2>9, <2>10, <2>11 DEF Serve
<1>4. ASSUME NEW w \in Workers, SettlementFails(w) PROVE TypeOK'
  BY <1>4 DEF SettlementFails
<1>5. CASE Restart
  BY <1>5 DEF Restart
<1> QED
  BY <1>1, <1>2, <1>3, <1>4, <1>5 DEF Next

\* The variables of the case, of its rows and of the books keep their types.
THEOREM TypeCorrect == Spec => []TypeOK
  BY TypeInit, TypeStep, PTL DEF Spec

-----------------------------------------------------------------------------
(* The seller's debit, whatever requests overlap.                            *)

\* The requests whose open settlement has created a debit.
Debiting == {w \in Workers : "DEBIT" \in creates[w]}

\* The invariant behind DebitIsBacked: every debit, committed or not, has a request of its
\* own to count against; a settlement runs for a refund that was made, and past its second
\* look-up the credit is settled or it has the cancellation with it.
DebitInv ==
    /\ rows["DEBIT"] + Cardinality(Debiting) <= Cardinality(Workers)
    /\ rows["DEBIT"] > 0 => returned /\ ~Held
    /\ \A w \in Workers :
          /\ pc[w] \in Settling => returned
          /\ "DEBIT" \in creates[w] => pc[w] \in Settling \ {"settle"}
          /\ pc[w] \in {"settleCommission", "commit"} => ~Held \/ "CANCELLED" \in creates[w]

LEMMA RequestsFinite ==
    ASSUME NEW S \in SUBSET Workers
    PROVE  /\ IsFiniteSet(S) /\ Cardinality(S) \in Nat /\ Cardinality(Workers) \in Nat
           /\ Cardinality(S) <= Cardinality(Workers)
BY FS_Subset, FS_CardinalityType, DisputeAssumption DEF DisputeAssumption

\* A step that neither creates nor commits rows keeps the count.
LEMMA DebitKept ==
    ASSUME TypeOK, DebitInv, rows' = rows, creates' = creates, returned => returned',
           \A w \in Workers : pc'[w] # pc[w] =>
              /\ pc'[w] \notin Settling \/ (pc'[w] = "settle" /\ returned')
              /\ pc[w] \notin Settling
    PROVE  DebitInv'
<1>1. Debiting' = Debiting /\ Held' = Held
  BY DEF Debiting, Held
<1> QED
  BY <1>1 DEF DebitInv, Settling, TypeOK

\* A settlement that rolls back, or a request that is gone, takes its debit with it.
LEMMA DebitDropped ==
    ASSUME TypeOK, DebitInv, rows' = rows, returned' = returned,
           \A w \in Workers :
              \/ pc'[w] \notin Settling /\ creates'[w] = {}
              \/ pc'[w] = pc[w] /\ creates'[w] = creates[w]
    PROVE  DebitInv'
<1>1. Debiting' \subseteq Debiting /\ Debiting \in SUBSET Workers
  BY DEF Debiting
<1>2. /\ Cardinality(Debiting) \in Nat /\ Cardinality(Workers) \in Nat
      /\ Cardinality(Debiting') \in Nat /\ Cardinality(Debiting') <= Cardinality(Debiting)
  BY <1>1, RequestsFinite, FS_Subset, FS_CardinalityType
<1>3. Held' = Held
  BY DEF Held
<1> QED
  BY <1>2, <1>3 DEF DebitInv, TypeOK, Settling, RowKinds

LEMMA DebitStep ==
    ASSUME TypeOK, TypeOK', DebitInv, [Next]_vars
    PROVE  DebitInv'
<1> USE DEF Go, caseVars, rowVars, bookVars
<1>t. pc \in [Workers -> Stages] /\ creates \in [Workers -> SUBSET {"DEBIT", "CANCELLED", "ADJUSTMENT"}]
      /\ rows \in [RowKinds -> Nat]
  BY DEF TypeOK
<1>f. /\ IsFiniteSet(Debiting) /\ Cardinality(Debiting) \in Nat
      /\ Cardinality(Workers) \in Nat
  BY RequestsFinite DEF Debiting
<1>1. CASE UNCHANGED vars
  BY <1>1, DebitKept DEF vars
<1>2. ASSUME NEW w \in Workers, Request(w) PROVE DebitInv'
  <2>1. UNCHANGED <<rows, creates, returned>> /\ pc[w] = "idle"
        /\ \E s \in Stages \ Settling : pc' = [pc EXCEPT ![w] = s]
    BY <1>2 DEF Request, Read, RefundStage, Stages, Settling
  <2> QED
    BY <1>t, <2>1, DebitKept DEF Settling
<1>3. ASSUME NEW w \in Workers, Serve(w) PROVE DebitInv'
  <2>1. CASE SellerWins(w)
    <3>1. Held' => Held
      BY <2>1, <1>t DEF SellerWins, Held, RowKinds
    <3>2. rows'["DEBIT"] = rows["DEBIT"] /\ Debiting' = Debiting
      BY <2>1, <1>t DEF SellerWins, Debiting, RowKinds
    <3>3. pc' = [pc EXCEPT ![w] = "idle"] /\ UNCHANGED <<creates, returned>> /\ pc[w] = "sellerWins"
      BY <2>1 DEF SellerWins
    <3> QED
      BY <1>t, <3>1, <3>2, <3>3 DEF DebitInv, Settling
  <2>2. CASE FindRefund(w)
    BY <1>t, <2>2, DebitKept DEF FindRefund, Settling
  <2>3. CASE RecordBuyerWins(w)
    BY <1>t, <2>3, DebitKept DEF RecordBuyerWins, OpenRefund, Settling
  <2>4. CASE WaiveReturn(w)
    BY <1>t, <2>4, DebitKept DEF WaiveReturn, Settling
  <2>5. CASE ConfirmReturn(w)
    BY <1>t, <2>5, DebitKept DEF ConfirmReturn, Settling
  <2>6. CASE CancelBuyerWins(w)
    BY <1>t, <2>6, DebitKept DEF CancelBuyerWins, Settling
  <2>7. CASE StartRefund(w)
    BY <1>t, <2>7, DebitKept DEF StartRefund, Settling
  <2>8. CASE CallGateway(w)
    <3>0. returned => returned'
      BY Zenon, <2>8 DEF CallGateway, GatewayRefunds, GatewayRefuses, GatewayIsSilent
    <3>1. rows' = rows /\ creates' = creates
      BY <2>8 DEF CallGateway
    <3>2. /\ pc[w] = "gateway"
          /\ \/ pc' = [pc EXCEPT ![w] = "settle"] /\ returned'
             \/ pc' = [pc EXCEPT ![w] = "markFailed"] \/ pc' = [pc EXCEPT ![w] = "markUnknown"]
      BY Zenon, <2>8 DEF CallGateway, GatewayRefunds, GatewayRefuses, GatewayIsSilent
    <3> QED
      <4>1. ASSUME NEW v \in Workers, pc'[v] # pc[v]
            PROVE  /\ pc'[v] \notin Settling \/ (pc'[v] = "settle" /\ returned')
                   /\ pc[v] \notin Settling
        BY <1>t, <3>2, <4>1 DEF Settling
      <4> QED
        BY Zenon, <3>0, <3>1, <4>1, DebitKept
  <2>9. CASE MarkRefund(w)
    BY <1>t, <2>9, DebitKept DEF MarkRefund, Settling
  <2>10. CASE LookUp(w, "settle", "settleHold", Undebited, "DEBIT")
    <3>0. Debiting' \in SUBSET Workers
      BY DEF Debiting
    <3>1. Undebited => Cardinality(Debiting') <= Cardinality(Workers) /\ rows'["DEBIT"] = 0
      BY <2>10, <3>0, RequestsFinite DEF LookUp, Undebited
    <3>2. ~Undebited => creates' = creates /\ Debiting' = Debiting
      BY <2>10, <1>t DEF LookUp, Debiting
    <3>3. Held' = Held /\ Cardinality(Debiting') \in Nat
      BY <2>10, <3>0, RequestsFinite DEF LookUp, Held
    <3> QED
      BY <1>t, <1>f, <2>10, <3>1, <3>2, <3>3 DEF LookUp, DebitInv, Settling
  <2>11. ASSUME NEW from, NEW to, NEW missing \in BOOLEAN, NEW kind,
                LookUp(w, from, to, missing, kind),
                \/ /\ from = "settleHold" /\ to = "settleCommission"
                   /\ missing = Held /\ kind = "CANCELLED"
                \/ from = "settleCommission" /\ to = "commit" /\ kind = "ADJUSTMENT"
         PROVE  DebitInv'
    <3>1. Debiting' = Debiting /\ Held' = Held
      BY <2>11, <1>t DEF LookUp, Debiting, Held
    <3> QED
      BY <1>t, <2>11, <3>1 DEF LookUp, DebitInv, Settling
  <2>12. CASE SettleRefund(w)
    <3>1. Held' => Held /\ "CANCELLED" \notin creates[w]
      BY <2>12, <1>t DEF SettleRefund, Held, RowKinds
    <3>2. CASE "DEBIT" \in creates[w]
      <4>1. Debiting' = Debiting \ {w} /\ w \in Debiting
        BY <2>12, <3>2, <1>t DEF SettleRefund, Debiting
      <4>2. Cardinality(Debiting') = Cardinality(Debiting) - 1
        BY <4>1, <1>f, FS_RemoveElement
      <4>3. rows'["DEBIT"] = rows["DEBIT"] + 1
        BY <2>12, <3>2, <1>t DEF SettleRefund, RowKinds
      <4>4. returned' /\ ~Held'
        BY <2>12, <3>1 DEF SettleRefund, DebitInv, Settling
      <4> QED
        BY <1>t, <1>f, <2>12, <3>1, <4>2, <4>3, <4>4 DEF SettleRefund, DebitInv, Settling, RowKinds
    <3>3. CASE "DEBIT" \notin creates[w]
      <4>1. Debiting' = Debiting
        BY <2>12, <3>3, <1>t DEF SettleRefund, Debiting
      <4>2. rows'["DEBIT"] = rows["DEBIT"]
        BY <2>12, <3>3, <1>t DEF SettleRefund, RowKinds
      <4> QED
        BY <1>t, <1>f, <2>12, <3>1, <4>1, <4>2 DEF SettleRefund, DebitInv, Settling
    <3> QED
      BY <3>2, <3>3
  <2>13. Held \in BOOLEAN /\ CommissionKept \in BOOLEAN
    BY DEF Held, CommissionKept
  <2>14. CASE SettlementLooks(w)
    BY <2>10, <2>11, <2>13, <2>14 DEF SettlementLooks
  <2> QED
    BY <1>3, <2>1, <2>2, <2>3, <2>4, <2>5, <2>6, <2>7, <2>8, <2>9, <2>12, <2>14 DEF Serve
<1>4. ASSUME NEW w \in Workers, SettlementFails(w) PROVE DebitInv'
  <2>1. rows' = rows /\ returned' = returned
    BY <1>4 DEF SettlementFails
  <2>2. ASSUME NEW v \in Workers
        PROVE  \/ pc'[v] \notin Settling /\ creates'[v] = {}
               \/ pc'[v] = pc[v] /\ creates'[v] = creates[v]
    BY <1>t, <1>4 DEF SettlementFails, Settling
  <2> QED
    BY <2>1, <2>2, DebitDropped
<1>5. CASE Restart
  <2>1. rows' = rows /\ returned' = returned
    BY <1>5 DEF Restart
  <2>2. ASSUME NEW v \in Workers PROVE pc'[v] \notin Settling /\ creates'[v] = {}
    BY <1>t, <1>5 DEF Restart, Settling
  <2> QED
    BY <2>1, <2>2, DebitDropped
<1> QED
  BY <1>1, <1>2, <1>3, <1>4, <1>5 DEF Next

\* Whatever requests overlap, fail or are repeated, no more debits are written than requests
\* can be settling together, each for money the buyer has and a credit no longer held back.
THEOREM DebitIsBackedAlways == Spec => []DebitIsBacked
<1>1. TypeOK /\ Init => DebitInv
  <2> SUFFICES ASSUME TypeOK, Init PROVE DebitInv
    OBVIOUS
  <2>1. rows["DEBIT"] = 0
    BY DEF Init, RowKinds
  <2>2. Debiting \in SUBSET Workers
    BY DEF Debiting
  <2> QED
    BY <2>1, <2>2, RequestsFinite DEF Init, DebitInv, TypeOK, Settling
<1>2. TypeOK /\ TypeOK' /\ DebitInv /\ [Next]_vars => DebitInv'
  BY DebitStep
<1>3. TypeOK /\ DebitInv => DebitIsBacked
  <2>1. Debiting \in SUBSET Workers
    BY DEF Debiting
  <2> QED
    BY <2>1, RequestsFinite DEF DebitInv, DebitIsBacked, TypeOK, RowKinds
<1> QED
  BY <1>1, <1>2, <1>3, TypeCorrect, PTL DEF Spec

-----------------------------------------------------------------------------
(* No request is overtaken.                                                  *)

\* A request changes the case, its rows or the books only while no other one, which may have
\* read them, is under way: what a version number in the rows would enforce.  Requests may
\* still be accepted together, call the gateway together without effect, and fail together.
NoneOvertaken ==
    \A v, w \in Workers :
        v # w /\ pc[v] # "idle" /\ Serve(w)
            => UNCHANGED <<caseVars, rowVars, bookVars, returned>>

\* What an unresolved or resolved case says about its refund row.
RowsFollowTheCase ==
    /\ dispute = "IN_PROGRESS" =>
          outcome = "NONE" /\ ~linked /\ refund \in {"NONE", "CANCELLED"} /\ ~returned
    /\ dispute = "WAITING_FOR_RETURN" =>
          outcome = "BUYER_WINS" /\ linked /\ refund = "PENDING" /\ ~returned
    /\ dispute = "READY_FOR_REFUND" =>
          /\ outcome = "BUYER_WINS" /\ linked /\ (confirmed \/ waived)
          /\ refund \in {"PENDING", "PROCESSING", "FAILED"}
          /\ returned => refund # "PENDING"
    /\ dispute = "RESOLVED" /\ outcome = "BUYER_WINS" => confirmed \/ waived

\* What a request has read still holds at its write.
ReadsAreFresh ==
    \A w \in Workers :
        /\ pc[w] \in {"sellerWins", "findRefund", "recordNew", "recordReuse"} =>
              dispute = "IN_PROGRESS"
        /\ pc[w] = "recordNew" => refund = "NONE"
        /\ pc[w] = "recordReuse" => refund # "NONE"
        /\ pc[w] \in {"waive", "confirm"} => dispute = "WAITING_FOR_RETURN"
        /\ pc[w] = "cancel" => MayCancel
        /\ pc[w] # "createRefund"
        /\ pc[w] \in {"startRefund", "retryRefund", "gateway", "markUnknown", "markFailed",
                      "settleFailed"} \cup Settling => dispute = "READY_FOR_REFUND"
        /\ pc[w] = "retryRefund" => refund = "PROCESSING"
        /\ pc[w] \in {"gateway", "markUnknown", "markFailed", "settleFailed"} \cup Settling =>
              refund = "PROCESSING"
        /\ pc[w] \in {"settleFailed"} \cup Settling => returned

\* What an open settlement has created is what the case still lacks.
CreatesWhatIsMissing ==
    \A w \in Workers :
        /\ pc[w] \notin Settling \/ pc[w] = "settle" => creates[w] = {}
        /\ pc[w] \in Settling \ {"settle"} => "DEBIT" \in creates[w]
        /\ pc[w] = "settleHold" => creates[w] = {"DEBIT"}
        /\ pc[w] \in {"settleCommission", "commit"} =>
              ("CANCELLED" \in creates[w] <=> rows["PENDING"] = 1)
        /\ pc[w] = "settleCommission" => "ADJUSTMENT" \notin creates[w]
        /\ pc[w] = "commit" => ("ADJUSTMENT" \in creates[w] <=> rows["EARNING"] = 1)

\* The invariant behind the theorems for requests that are not overtaken.
CaseInv ==
    /\ BooksFollowTheCase /\ RowsFollowTheCase /\ ReadsAreFresh /\ CreatesWhatIsMissing
    /\ rows["PENDING"] <= 1 /\ rows["EARNING"] <= 1

LEMMA CaseInit == Init => CaseInv
<1> SUFFICES ASSUME Init PROVE CaseInv
  OBVIOUS
<1>1. rows \in [RowKinds -> 0..1] /\ \A k \in RowKinds \ {"PENDING", "EARNING"} : rows[k] = 0
  BY DEF Init
<1>2. rows["PENDING"] <= 1 /\ rows["EARNING"] <= 1
  BY <1>1 DEF RowKinds
<1>3. BooksFollowTheCase
  BY <1>1 DEF Init, BooksFollowTheCase, RowKinds
<1>4. RowsFollowTheCase /\ ReadsAreFresh /\ CreatesWhatIsMissing
  BY DEF Init, RowsFollowTheCase, ReadsAreFresh, CreatesWhatIsMissing, Settling
<1> QED
  BY <1>2, <1>3, <1>4 DEF CaseInv

LEMMA CaseStep ==
    ASSUME NoneOvertaken, TypeOK, CaseInv, [Next]_vars
    PROVE  CaseInv'
<1> USE DEF TypeOK, Stages, CaseInv, BooksFollowTheCase, RowsFollowTheCase,
        ReadsAreFresh, CreatesWhatIsMissing, RowKinds, Settling, MayCancel, LinkedRefund, Go,
        caseVars, rowVars, bookVars
<1>1. CASE UNCHANGED vars
  BY <1>1 DEF vars
<1>2. ASSUME NEW w \in Workers, Request(w) PROVE CaseInv'
  <2>1. CASE Read(w, SellerMayWin, "sellerWins")
    BY <2>1 DEF Read, SellerMayWin
  <2>2. CASE Read(w, BuyerMayWin, "findRefund")
    BY <2>2 DEF Read, BuyerMayWin
  <2>3. CASE Read(w, MayWaive, "waive")
    BY <2>3 DEF Read, MayWaive
  <2>4. CASE Read(w, MayCancel, "cancel")
    BY <2>4 DEF Read
  <2>5. CASE Read(w, MayConfirm, "confirm")
    BY <2>5 DEF Read, MayConfirm
  <2>6. CASE Read(w, MayComplete, RefundStage)
    <3>1. dispute = "READY_FOR_REFUND" /\ linked /\ refund \in {"PENDING", "PROCESSING", "FAILED"}
      <4>1. MayComplete
        BY <2>6 DEF Read
      <4>2. CASE dispute = "READY_FOR_REFUND"
        BY <4>2
      <4>3. CASE Reconciling
        <5>1. linked
          BY Zenon, <4>3 DEF Reconciling
        <5>2. refund \in {"PROCESSING", "FAILED"}
          BY <5>1, <4>3 DEF Reconciling
        <5>3. dispute \in {"READY_FOR_REFUND"}
          BY <4>1, <5>1, <5>2 DEF MayComplete
        <5> QED
          BY <5>1, <5>2, <5>3
      <4> QED
        BY <4>1, <4>2, <4>3 DEF MayComplete
    <3>2. RefundStage = IF refund = "PROCESSING" THEN "retryRefund" ELSE "startRefund"
      BY <3>1 DEF RefundStage
    <3> QED
      BY <2>6, <3>1, <3>2 DEF Read
  <2> QED
    BY <1>2, <2>1, <2>2, <2>3, <2>4, <2>5, <2>6 DEF Request
<1>3. ASSUME NEW w \in Workers, Serve(w) PROVE CaseInv'
  <2>0. \/ UNCHANGED <<caseVars, rowVars, bookVars, returned>>
        \/ \A v \in Workers : v # w => pc[v] = "idle"
    BY <1>3 DEF NoneOvertaken
  <2>1. CASE SellerWins(w)
    <3>1. BooksFollowTheCase' /\ RowsFollowTheCase' /\ rows'["PENDING"] <= 1 /\ rows'["EARNING"] <= 1
      BY <2>1 DEF SellerWins, Held
    <3>2. ReadsAreFresh'
      BY <2>0, <2>1 DEF SellerWins, Held
    <3>3. CreatesWhatIsMissing'
      BY <2>0, <2>1 DEF SellerWins, Held
    <3> QED
      BY <3>1, <3>2, <3>3
  <2>2. CASE FindRefund(w)
    <3>1. BooksFollowTheCase' /\ RowsFollowTheCase' /\ rows'["PENDING"] <= 1 /\ rows'["EARNING"] <= 1
      BY <2>2 DEF FindRefund
    <3>2. ReadsAreFresh'
      BY <2>0, <2>2 DEF FindRefund
    <3>3. CreatesWhatIsMissing'
      BY <2>0, <2>2 DEF FindRefund
    <3> QED
      BY <3>1, <3>2, <3>3
  <2>3. CASE RecordBuyerWins(w)
    <3>1. BooksFollowTheCase' /\ RowsFollowTheCase' /\ rows'["PENDING"] <= 1 /\ rows'["EARNING"] <= 1
      BY <2>3 DEF RecordBuyerWins, OpenRefund
    <3>2. ReadsAreFresh'
      BY <2>0, <2>3 DEF RecordBuyerWins, OpenRefund
    <3>3. CreatesWhatIsMissing'
      BY <2>0, <2>3 DEF RecordBuyerWins, OpenRefund
    <3> QED
      BY <3>1, <3>2, <3>3
  <2>4. CASE WaiveReturn(w)
    <3>1. BooksFollowTheCase' /\ RowsFollowTheCase' /\ rows'["PENDING"] <= 1 /\ rows'["EARNING"] <= 1
      BY <2>4 DEF WaiveReturn
    <3>2. ReadsAreFresh'
      BY <2>0, <2>4 DEF WaiveReturn
    <3>3. CreatesWhatIsMissing'
      BY <2>0, <2>4 DEF WaiveReturn
    <3> QED
      BY <3>1, <3>2, <3>3
  <2>5. CASE ConfirmReturn(w)
    <3>1. BooksFollowTheCase' /\ RowsFollowTheCase' /\ rows'["PENDING"] <= 1 /\ rows'["EARNING"] <= 1
      BY <2>5 DEF ConfirmReturn
    <3>2. ReadsAreFresh'
      BY <2>0, <2>5 DEF ConfirmReturn
    <3>3. CreatesWhatIsMissing'
      BY <2>0, <2>5 DEF ConfirmReturn
    <3> QED
      BY <3>1, <3>2, <3>3
  <2>6. CASE CancelBuyerWins(w)
    <3>1. BooksFollowTheCase' /\ RowsFollowTheCase' /\ rows'["PENDING"] <= 1 /\ rows'["EARNING"] <= 1
      BY <2>6 DEF CancelBuyerWins
    <3>2. ReadsAreFresh'
      BY <2>0, <2>6 DEF CancelBuyerWins
    <3>3. CreatesWhatIsMissing'
      BY <2>0, <2>6 DEF CancelBuyerWins
    <3> QED
      BY <3>1, <3>2, <3>3
  <2>7. CASE StartRefund(w)
    <3>1. BooksFollowTheCase' /\ RowsFollowTheCase' /\ rows'["PENDING"] <= 1 /\ rows'["EARNING"] <= 1
      BY <2>7 DEF StartRefund
    <3>2. ReadsAreFresh'
      BY <2>0, <2>7 DEF StartRefund
    <3>3. CreatesWhatIsMissing'
      BY <2>0, <2>7 DEF StartRefund
    <3> QED
      BY <3>1, <3>2, <3>3
  <2>8. CASE CallGateway(w)
    <3>1. BooksFollowTheCase' /\ RowsFollowTheCase' /\ rows'["PENDING"] <= 1 /\ rows'["EARNING"] <= 1
      BY <2>8 DEF CallGateway, GatewayRefunds, GatewayRefuses, GatewayIsSilent
    <3>2. ReadsAreFresh'
      <4>1. pc[w] = "gateway" /\ UNCHANGED <<caseVars, rowVars>> /\ (returned => returned')
        BY <2>8 DEF CallGateway, GatewayRefunds, GatewayRefuses, GatewayIsSilent
      <4>2. \/ pc' = [pc EXCEPT ![w] = "settle"] /\ returned'
            \/ pc' = [pc EXCEPT ![w] = "markFailed"] \/ pc' = [pc EXCEPT ![w] = "markUnknown"]
        BY Zenon, <2>8 DEF CallGateway, GatewayRefunds, GatewayRefuses, GatewayIsSilent
      <4> QED
        BY <4>1, <4>2
    <3>3. CreatesWhatIsMissing'
      BY <2>0, <2>8 DEF CallGateway, GatewayRefunds, GatewayRefuses, GatewayIsSilent
    <3> QED
      BY <3>1, <3>2, <3>3
  <2>9. CASE MarkRefund(w)
    <3>1. BooksFollowTheCase' /\ RowsFollowTheCase' /\ rows'["PENDING"] <= 1 /\ rows'["EARNING"] <= 1
      BY <2>9 DEF MarkRefund
    <3>2. ReadsAreFresh'
      BY <2>0, <2>9 DEF MarkRefund
    <3>3. CreatesWhatIsMissing'
      BY <2>0, <2>9 DEF MarkRefund
    <3> QED
      BY <3>1, <3>2, <3>3
  <2>10. CASE SettlementLooks(w)
    <3>1. BooksFollowTheCase' /\ RowsFollowTheCase' /\ rows'["PENDING"] <= 1 /\ rows'["EARNING"] <= 1
      BY <2>10 DEF SettlementLooks, LookUp, Undebited, Held, CommissionKept
    <3>2. ReadsAreFresh'
      BY <2>0, <2>10 DEF SettlementLooks, LookUp, Undebited, Held, CommissionKept
    <3>3. CreatesWhatIsMissing'
      BY <2>0, <2>10 DEF SettlementLooks, LookUp, Undebited, Held, CommissionKept
    <3> QED
      BY <3>1, <3>2, <3>3
  <2>11. CASE SettleRefund(w)
    <3>1. BooksFollowTheCase' /\ RowsFollowTheCase' /\ rows'["PENDING"] <= 1 /\ rows'["EARNING"] <= 1
      BY <2>11 DEF SettleRefund
    <3>2. ReadsAreFresh'
      BY <2>0, <2>11 DEF SettleRefund
    <3>3. CreatesWhatIsMissing'
      BY <2>0, <2>11 DEF SettleRefund
    <3> QED
      BY <3>1, <3>2, <3>3
  <2> QED
    BY <1>3, <2>1, <2>2, <2>3, <2>4, <2>5, <2>6, <2>7, <2>8, <2>9, <2>10, <2>11 DEF Serve
<1>4. ASSUME NEW w \in Workers, SettlementFails(w) PROVE CaseInv'
  BY <1>4 DEF SettlementFails
<1>5. CASE Restart
  BY <1>5 DEF Restart
<1> QED
  BY <1>1, <1>2, <1>3, <1>4, <1>5 DEF Next

\* A step or a stutter, under the hypothesis as a behaviour states it.
LEMMA CaseAdvances ==
    TypeOK /\ CaseInv /\ [Next]_vars /\ [NoneOvertaken]_vars => CaseInv'
<1>1. ASSUME UNCHANGED vars, CaseInv PROVE CaseInv'
  BY <1>1 DEF vars, caseVars, rowVars, bookVars, CaseInv, BooksFollowTheCase, RowsFollowTheCase,
     ReadsAreFresh, CreatesWhatIsMissing, MayCancel, LinkedRefund
<1> QED
  BY <1>1, CaseStep

\* While no request is overtaken, with any failures and restarts between the requests'
\* steps, the order, its artworks, the ledger and the gateway agree with the case.
THEOREM BooksFollowTheCaseAlways ==
    Spec /\ [][NoneOvertaken]_vars => []BooksFollowTheCase
<1>1. TypeOK /\ CaseInv /\ [Next]_vars /\ [NoneOvertaken]_vars => CaseInv'
  BY CaseAdvances
<1>2. CaseInv => BooksFollowTheCase
  BY DEF CaseInv
<1> QED
  BY CaseInit, <1>1, <1>2, TypeCorrect, PTL DEF Spec

\* Money moves exactly once through Complete Refund, while no request is overtaken: it takes
\* two settlements that have both looked before one commits to debit the seller twice.
THEOREM DebitedOnceInTurn == Spec /\ [][NoneOvertaken]_vars => []DebitedOnce
<1>1. BooksFollowTheCase /\ TypeOK => DebitedOnce
  <2>1. ASSUME BooksFollowTheCase, dispute # "RESOLVED" PROVE DebitedOnce
    <3>1. rows["DEBIT"] = 0
      BY Zenon, <2>1 DEF BooksFollowTheCase, RowKinds
    <3> QED
      BY <3>1 DEF DebitedOnce
  <2>2. ASSUME BooksFollowTheCase, dispute = "RESOLVED" PROVE DebitedOnce
    <3>1. rows["DEBIT"] = 0 \/ rows["DEBIT"] = 1
      BY Zenon, <2>2 DEF BooksFollowTheCase
    <3> QED
      BY <3>1 DEF DebitedOnce
  <2> QED
    BY <2>1, <2>2
<1> QED
  BY <1>1, BooksFollowTheCaseAlways, TypeCorrect, PTL

\* The buyer's money moves only after the return; a refund made can always be settled;
\* an unresolved case can always go on.
THEOREM CaseNeverStuck ==
    Spec /\ [][NoneOvertaken]_vars
        => [](ReturnBeforeMoney /\ RefundIsRecoverable /\ AlwaysAWayOn)
<1>1. TypeOK /\ CaseInv /\ [Next]_vars /\ [NoneOvertaken]_vars => CaseInv'
  BY CaseAdvances
<1>2. CaseInv /\ TypeOK => ReturnBeforeMoney
  BY DEF CaseInv, BooksFollowTheCase, RowsFollowTheCase, ReturnBeforeMoney, TypeOK
<1>3. CaseInv /\ TypeOK => RefundIsRecoverable
  <2> SUFFICES ASSUME CaseInv, TypeOK, returned, dispute # "RESOLVED" PROVE MayComplete
    BY DEF RefundIsRecoverable
  <2>1. /\ dispute = "READY_FOR_REFUND" /\ (confirmed \/ waived)
        /\ linked /\ refund \in {"PROCESSING", "FAILED"}
    BY DEF CaseInv, RowsFollowTheCase, TypeOK
  <2> QED
    BY <2>1 DEF MayComplete, LinkedRefund
<1>4. CaseInv /\ TypeOK => AlwaysAWayOn
  <2> SUFFICES ASSUME CaseInv, TypeOK, dispute = "READY_FOR_REFUND" PROVE MayComplete
    BY DEF AlwaysAWayOn, SellerMayWin, MayWaive, TypeOK
  <2>1. /\ confirmed \/ waived
        /\ linked /\ refund \in {"PENDING", "PROCESSING", "FAILED"}
    BY DEF CaseInv, RowsFollowTheCase
  <2> QED
    BY <2>1 DEF MayComplete, LinkedRefund
<1> QED
  BY CaseInit, <1>1, <1>2, <1>3, <1>4, TypeCorrect, PTL DEF Spec

\* Money that went back to the buyer can always still be settled, whatever failed after it,
\* while no request about the case is overtaken.
THEOREM RefundIsRecoverableInTurn ==
    Spec /\ [][NoneOvertaken]_vars => []RefundIsRecoverable
<1>1. Spec /\ [][NoneOvertaken]_vars
        => [](ReturnBeforeMoney /\ RefundIsRecoverable /\ AlwaysAWayOn)
  BY CaseNeverStuck
<1> QED
  BY <1>1, PTL

\* No request writes to a resolved case.
LEMMA ResolvedStep ==
    ASSUME TypeOK, CaseInv, [Next]_vars, dispute = "RESOLVED"
    PROVE  UNCHANGED <<caseVars, rowVars, bookVars, returned>>
<1> USE DEF CaseInv, ReadsAreFresh, Settling, Go, MayCancel, caseVars, rowVars, bookVars
<1>1. CASE UNCHANGED vars
  BY <1>1 DEF vars
<1>2. ASSUME NEW w \in Workers, Request(w) PROVE UNCHANGED <<caseVars, rowVars, bookVars, returned>>
  BY <1>2 DEF Request, Read
<1>3. ASSUME NEW w \in Workers, Serve(w) PROVE UNCHANGED <<caseVars, rowVars, bookVars, returned>>
  BY <1>3 DEF Serve, SellerWins, FindRefund, RecordBuyerWins, WaiveReturn, ConfirmReturn,
              CancelBuyerWins, StartRefund, CallGateway, GatewayRefunds, GatewayRefuses, GatewayIsSilent,
              MarkRefund, SettlementLooks, LookUp, SettleRefund
<1>4. ASSUME NEW w \in Workers, SettlementFails(w)
      PROVE  UNCHANGED <<caseVars, rowVars, bookVars, returned>>
  BY <1>4 DEF SettlementFails
<1>5. CASE Restart
  BY <1>5 DEF Restart
<1> QED
  BY <1>1, <1>2, <1>3, <1>4, <1>5 DEF Next

\* A resolved dispute is immutable while no request is overtaken.
THEOREM ResolvedIsFinalAlways == Spec /\ [][NoneOvertaken]_vars => ResolvedIsFinal
<1>1. TypeOK /\ CaseInv /\ [Next]_vars /\ [NoneOvertaken]_vars => CaseInv'
  BY CaseAdvances
<1>2. TypeOK /\ CaseInv /\ [Next]_vars =>
        [dispute = "RESOLVED" => UNCHANGED <<caseVars, rowVars, bookVars, returned>>]_vars
  BY ResolvedStep
<1> QED
  BY CaseInit, <1>1, <1>2, TypeCorrect, PTL DEF Spec, ResolvedIsFinal

-----------------------------------------------------------------------------
(* The workflow implements its promise.                                      *)

LEMMA PromiseInit == Init => Promise!Init
  BY DEF Init, Promise!Init, Phase, Money

LEMMA PromiseStep ==
    ASSUME TypeOK, CaseInv, [Next]_vars
    PROVE  [Promise!Next]_(Promise!promiseVars)
<1> USE DEF TypeOK, CaseInv, BooksFollowTheCase, RowsFollowTheCase, ReadsAreFresh, MayCancel,
        LinkedRefund, Go, caseVars, rowVars, bookVars, Phase, Money, Promise!promiseVars
<1>1. CASE UNCHANGED vars
  BY <1>1 DEF vars
<1>2. ASSUME NEW w \in Workers, Request(w) PROVE UNCHANGED Promise!promiseVars
  BY <1>2 DEF Request, Read
<1>3. ASSUME NEW w \in Workers, Serve(w) PROVE [Promise!Next]_(Promise!promiseVars)
  <2>1. CASE SellerWins(w)
    <3>1. Promise!SellerWins
      BY <2>1 DEF SellerWins, Promise!SellerWins
    <3> QED
      BY <3>1 DEF Promise!Next
  <2>2. CASE FindRefund(w)      BY <2>2 DEF FindRefund
  <2>3. CASE RecordBuyerWins(w)
    BY <2>3 DEF RecordBuyerWins, OpenRefund, Promise!Next, Promise!BuyerWins
  <2>4. CASE WaiveReturn(w)
    BY <2>4 DEF WaiveReturn, Promise!Next, Promise!ReturnSettled
  <2>5. CASE ConfirmReturn(w)
    BY <2>5 DEF ConfirmReturn, Promise!Next, Promise!ReturnSettled
  <2>6. CASE CancelBuyerWins(w)
    BY <2>6 DEF CancelBuyerWins, Promise!Next, Promise!TakeBack
  <2>7. CASE StartRefund(w)     BY <2>7 DEF StartRefund
  <2>8. CASE CallGateway(w)
    <3>1. CASE returned' = returned
      BY <2>8, <3>1 DEF CallGateway, GatewayRefunds, GatewayRefuses, GatewayIsSilent
    <3>2. CASE ~returned /\ returned'
      BY <2>8, <3>2 DEF CallGateway, GatewayRefunds, GatewayRefuses, GatewayIsSilent, Promise!Next, Promise!Refund
    <3>3. returned' \in {returned, TRUE}
      BY <2>8 DEF CallGateway, GatewayRefunds, GatewayRefuses, GatewayIsSilent
    <3> QED
      BY Zenon, <3>1, <3>2, <3>3
  <2>9. CASE MarkRefund(w)      BY <2>9 DEF MarkRefund
  <2>10. CASE SettlementLooks(w) BY <2>10 DEF SettlementLooks, LookUp
  <2>11. CASE SettleRefund(w)
    BY <2>11 DEF SettleRefund, Settling, Promise!Next, Promise!Close
  <2> QED
    BY <1>3, <2>1, <2>2, <2>3, <2>4, <2>5, <2>6, <2>7, <2>8, <2>9, <2>10, <2>11 DEF Serve
<1>4. ASSUME NEW w \in Workers, SettlementFails(w) PROVE UNCHANGED Promise!promiseVars
  BY <1>4 DEF SettlementFails
<1>5. CASE Restart
  BY <1>5 DEF Restart
<1> QED
  BY <1>1, <1>2, <1>3, <1>4, <1>5 DEF Next

\* While no request is overtaken, the endpoints implement DisputePromise: the disputed
\* money goes to exactly one party, once, and a decision is taken back only before.
THEOREM KeepsPromiseAlways == Spec /\ [][NoneOvertaken]_vars => KeepsPromise
<1>1. TypeOK /\ CaseInv /\ [Next]_vars /\ [NoneOvertaken]_vars => CaseInv'
  BY CaseAdvances
<1>2. TypeOK /\ CaseInv /\ [Next]_vars => [Promise!Next]_(Promise!promiseVars)
  BY PromiseStep
<1> QED
  BY PromiseInit, CaseInit, <1>1, <1>2, TypeCorrect, PTL DEF Spec, KeepsPromise, Promise!Spec
=============================================================================
