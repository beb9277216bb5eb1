----------------------- MODULE WithdrawalPayout_proofs -----------------------
(***************************************************************************)
(* Theorems about withdrawals and their payouts, for any withdrawals,       *)
(* amounts and balance, any number of lost answers and of payouts.  Types,   *)
(* and what is known of batches, hold however requests and webhooks          *)
(* overlap; the rest holds while those about one withdrawal take turns,      *)
(* since each reads the row it writes later.  Those about different          *)
(* withdrawals overlap: a step touches only the row it is about.             *)
(***************************************************************************)
EXTENDS WithdrawalPayout, Sums

\* What a request has decided to write is a status.
WritesAStatus ==
    \A k \in Workers :
        pc[k] \in {"balance", "pay", "store", "checkEarning", "write"} => got[k].status # "same"

\* The initial state is typed.
LEMMA TypeInit == Init => TypeOK /\ WritesAStatus
<1> SUFFICES ASSUME Init PROVE TypeOK /\ WritesAStatus
  OBVIOUS
<1>1. (CHOOSE w \in Withdrawals : TRUE) \in Withdrawals
  BY WithdrawalAssumption DEF WithdrawalAssumption
<1>2. MaxLost \in Nat /\ MaxBatches \in Nat
  BY WithdrawalAssumption DEF WithdrawalAssumption
<1>3. rejected \in [Withdrawals -> BOOLEAN]
  BY Zenon DEF Init
<1>4. got \in [Workers -> [batch : Batches \cup {NoBatch}, rejected : BOOLEAN,
                           status : Statuses \cup {"same"}, recorded : BOOLEAN]]
  <2>1. Nothing \in [batch : Batches \cup {NoBatch}, rejected : BOOLEAN,
                           status : Statuses \cup {"same"}, recorded : BOOLEAN]
    BY DEF Nothing
  <2> QED
    BY <2>1 DEF Init
<1> QED
  BY <1>1, <1>2, <1>3, <1>4 DEF Init, TypeOK, WritesAStatus, Statuses, BatchStates, Stages, Batches, NoBatch

\* A lost answer is counted only while fewer than MaxLost are.
LEMMA LoseType ==
    ASSUME TypeOK, NEW w \in Withdrawals, LoseAnswer(w)
    PROVE  lost' \in [Withdrawals -> 0..MaxLost]
<1>1. IsFiniteSet(Withdrawals) /\ MaxLost \in Nat
  BY WithdrawalAssumption DEF WithdrawalAssumption
<1>2. \A v \in Withdrawals : lost[v] \in Nat
  BY <1>1 DEF TypeOK
<1>3. SumOf(lost, Withdrawals) < MaxLost
  BY DEF LoseAnswer, SumOver, SumOf
<1>4. lost[w] <= SumOf(lost, Withdrawals) /\ SumOf(lost, Withdrawals) \in Nat
  BY <1>1, <1>2, SumBound, SumType
<1> QED
  BY <1>1, <1>2, <1>3, <1>4 DEF TypeOK, LoseAnswer

\* Every step keeps the types.
LEMMA TypeStep ==
    TypeOK /\ WritesAStatus /\ [Next]_vars => TypeOK' /\ WritesAStatus'
<1> SUFFICES ASSUME TypeOK, WritesAStatus, [Next]_vars PROVE TypeOK' /\ WritesAStatus'
  OBVIOUS
<1> DEFINE Gots == [batch : Batches \cup {NoBatch}, rejected : BOOLEAN,
                    status : Statuses \cup {"same"}, recorded : BOOLEAN]
<1> USE DEF TypeOK, WritesAStatus, Stages, Go, rowVars, paypalVars, workerVars
<1>a. ASSUME NEW k \in Workers, NEW w \in Withdrawals, NEW b \in Batches \cup {NoBatch},
             NEW s \in Statuses \cup {"same"}, NEW r \in BOOLEAN, Carry(k, w, b, s, r)
      PROVE  got' \in [Workers -> Gots]
  <2>1. rejected[w] \in BOOLEAN
    BY Zenon
  <2>2. [batch |-> b, rejected |-> rejected[w], status |-> s, recorded |-> r] \in Gots
    BY <2>1
  <2> HIDE DEF Gots
  <2> QED
    BY <1>a, <2>2 DEF Carry, Gots
<1>1. CASE UNCHANGED vars
  BY <1>1 DEF vars
<1>2. ASSUME NEW k \in Workers, NEW w \in Withdrawals, UpdateStatus(k, w) PROVE TypeOK' /\ WritesAStatus'
  <2>1. PICK to \in ValidTransitions(status[w]) :
          /\ pc' = [pc EXCEPT ![k] = CASE to = "PROCESSING" -> "balance"
                           [] to = "COMPLETED"  -> "checkEarning"
                           [] OTHER             -> "write"]
          /\ Carry(k, w, meta[w], to, to = "COMPLETED")
    BY <1>2 DEF UpdateStatus
  <2>2. to \in Statuses
    BY DEF ValidTransitions, Statuses
  <2>3. got' \in [Workers -> Gots]
    BY <1>a, <2>1, <2>2
  <2>4. WritesAStatus'
    BY <1>2, <2>1, <2>2 DEF UpdateStatus, Carry, Statuses
  <2>5. pc' \in [Workers -> Stages]
    BY <1>2, <2>1
  <2> QED
    BY <1>2, <2>3, <2>4, <2>5 DEF UpdateStatus
<1>3. ASSUME NEW k \in Workers, Serve(k) PROVE TypeOK' /\ WritesAStatus'
  <2>1. CASE CheckBalance(k)   BY <2>1 DEF CheckBalance
  <2>2. CASE PayByPayPal(k)
    <3>1. CASE lost' = lost /\ got' = got /\ batch' = batch /\ batchOf' = batchOf /\ pc' = [pc EXCEPT ![k] = "fail"]
      BY <2>2, <3>1 DEF PayByPayPal
    <3>2. ASSUME NEW b \in Batches,
             /\ batch' = [batch EXCEPT ![b] = "sent"]
             /\ batchOf' = [batchOf EXCEPT ![b] = job[k]]
             /\ \/ Go(k, "pay", "store") /\ Carry(k, job[k], b, "PROCESSING", FALSE) /\ UNCHANGED lost
                \/ LoseAnswer(job[k]) /\ Go(k, "pay", "fail") /\ UNCHANGED got
          PROVE TypeOK' /\ WritesAStatus'
      <4>1. got' \in [Workers -> Gots]
        BY <1>a, <3>2 DEF Statuses
      <4>2. lost' \in [Withdrawals -> 0..MaxLost]
        BY <3>2, LoseType
      <4>3. batch' \in [Batches -> BatchStates]
        BY <3>2 DEF BatchStates
      <4>4. WritesAStatus'
        BY <2>2, <3>2 DEF PayByPayPal, Carry
      <4> QED
        BY <2>2, <3>2, <4>1, <4>2, <4>3, <4>4 DEF PayByPayPal
    <3> QED
      BY <2>2, <3>1, <3>2 DEF PayByPayPal
  <2>3. CASE PayByBank(k)
    <3>1. got' \in [Workers -> Gots]
      BY <1>a, <2>3 DEF PayByBank, Statuses
    <3>2. lost' \in [Withdrawals -> 0..MaxLost]
      BY <2>3, LoseType DEF PayByBank
    <3>3. WritesAStatus'
      BY <2>3 DEF PayByBank, Carry
    <3>4. pc' \in [Workers -> Stages]
      BY <2>3 DEF PayByBank
    <3>5. wired' = wired \/ wired' = [wired EXCEPT ![job[k]] = @ + 1]
      BY <2>3 DEF PayByBank
    <3>6. wired' \in [Withdrawals -> Nat]
      BY <3>5
    <3> QED
      BY <2>3, <3>1, <3>2, <3>3, <3>4, <3>6 DEF PayByBank
  <2>4. CASE PayByHand(k)    BY <2>4 DEF PayByHand
  <2>5. CASE StoreBatch(k)   BY <2>5 DEF StoreBatch
  <2>6. CASE FailApproval(k)
    <3>1. rejected' \in [Withdrawals -> BOOLEAN]
      BY <2>6, Zenon DEF FailApproval
    <3> QED
      BY <2>6, <3>1 DEF FailApproval, Statuses
  <2>7. CASE CheckEarning(k) BY <2>7 DEF CheckEarning
  <2>8. CASE WriteStatus(k)
    <3>1. got[k].status \in Statuses
      BY <2>8 DEF WriteStatus
    <3>2. rejected' \in [Withdrawals -> BOOLEAN]
      BY <2>8, Zenon DEF WriteStatus
    <3> QED
      BY <2>8, <3>1, <3>2 DEF WriteStatus
  <2>9. CASE FindRecord(k)   BY <2>9 DEF FindRecord
  <2>10. CASE WriteRecord(k) BY <2>10 DEF WriteRecord
  <2>11. CASE ApplyHook(k)
    <3>1. rejected' \in [Withdrawals -> BOOLEAN]
      BY <2>11, Zenon DEF ApplyHook
    <3> QED
      BY <2>11, <3>1 DEF ApplyHook
  <2> QED
    BY <1>3, <2>1, <2>2, <2>3, <2>4, <2>5, <2>6, <2>7, <2>8, <2>9, <2>10, <2>11 DEF Serve
<1>4. ASSUME NEW b \in Batches, PayPalMoves(b) PROVE TypeOK' /\ WritesAStatus'
  <2>1. PICK to \in BatchStates :
          /\ batch' = [batch EXCEPT ![b] = to]
          /\ hooks' = hooks \cup
             {[kind |-> kind, batch |-> b, state |-> to] :
                kind \in IF to \in {"paid", "failed"} THEN Hooks ELSE Hooks \ {"batch"}}
    BY <1>4 DEF PayPalMoves
  <2>2. Hooks \subseteq {"batch", "item"}
    BY WithdrawalAssumption DEF WithdrawalAssumption
  <2>3. hooks' \subseteq Hook
    BY <2>1, <2>2 DEF Hook
  <2> QED
    BY <1>4, <2>1, <2>3 DEF PayPalMoves
<1>5. ASSUME NEW k \in Workers, NEW h \in hooks, ReceiveHook(k, h) PROVE TypeOK' /\ WritesAStatus'
  <2>1. CASE UNCHANGED workerVars
    BY <1>5, <2>1 DEF ReceiveHook
  <2>2. ASSUME NEW w \in Matches(h.batch),
               Go(k, "idle", "hook"), job' = [job EXCEPT ![k] = w],
               Carry(k, w, h.batch,
                     IF SystemStatus(h.state) = status[w] THEN "same" ELSE SystemStatus(h.state),
                     h.kind = "item" /\ SystemStatus(h.state) = "COMPLETED")
        PROVE TypeOK' /\ WritesAStatus'
    <3>1. w \in Withdrawals /\ h.batch \in Batches
      BY DEF Matches, Hook
    <3>2. SystemStatus(h.state) \in Statuses
      BY DEF SystemStatus, Statuses
    <3>3. got' \in [Workers -> Gots]
      BY <1>a, <2>2, <3>1, <3>2
    <3>4. WritesAStatus'
      BY <1>5, <2>2, <3>1 DEF ReceiveHook, Carry
    <3> QED
      BY <1>5, <2>2, <3>1, <3>3, <3>4 DEF ReceiveHook
  <2> QED
    BY <1>5, <2>1, <2>2 DEF ReceiveHook
<1> QED
  BY <1>1, <1>2, <1>3, <1>4, <1>5 DEF Next, Deliver

\* The variables keep their types, whatever requests and webhooks overlap; the bound on the
\* lost answers is one on a sum.
THEOREM TypeCorrect == Spec => []TypeOK
<1>1. Spec => [](TypeOK /\ WritesAStatus)
  BY TypeInit, TypeStep, PTL DEF Spec
<1> QED
  BY <1>1, PTL

-----------------------------------------------------------------------------
(* Batches and webhooks, whatever requests overlap.                          *)

\* A batch belongs to a PayPal withdrawal, and what a withdrawal or a request knows of
\* batches are batches made for it.
OwnBatches ==
    /\ \A b \in Batches : batch[b] # "none" => MethodOf[batchOf[b]] = "paypal"
    /\ \A w \in Withdrawals : column[w] # NoBatch =>
          batchOf[column[w]] = w /\ batch[column[w]] # "none"
    /\ \A w \in Withdrawals : meta[w] # NoBatch =>
          batchOf[meta[w]] = w /\ batch[meta[w]] # "none"
    /\ \A k \in Workers : got[k].batch # NoBatch =>
          batchOf[got[k].batch] = job[k] /\ batch[got[k].batch] # "none"

\* A webhook is late, never wrong.
HooksAreTrue ==
    \A h \in hooks :
        /\ h.kind \in Hooks
        /\ h.state \in {"paid", "failed", "unclaimed", "returned"}
        /\ batch[h.batch] \notin {"none", "sent"}
        /\ h.state = "failed" <=> batch[h.batch] = "failed"
        /\ h.state = "returned" => batch[h.batch] = "returned"

BatchInv == OwnBatches /\ HooksAreTrue

\* At first no batch is made.
LEMMA BatchInit == Init => BatchInv
  BY DEF Init, BatchInv, OwnBatches, HooksAreTrue, Nothing

\* Every step keeps what is known of batches and webhooks true.
LEMMA BatchStep ==
    ASSUME TypeOK, BatchInv, [Next]_vars
    PROVE  BatchInv'
<1> USE DEF TypeOK, BatchInv, OwnBatches, HooksAreTrue, Go, rowVars, paypalVars, workerVars, NoBatch, Batches, Hook
<1>1. CASE UNCHANGED vars
  BY <1>1 DEF vars
<1>2. ASSUME NEW k \in Workers, NEW w \in Withdrawals, UpdateStatus(k, w) PROVE BatchInv'
  BY <1>2 DEF UpdateStatus, Carry
<1>3. ASSUME NEW k \in Workers, Serve(k) PROVE BatchInv'
  <2>1. CASE CheckBalance(k)   BY <2>1 DEF CheckBalance
  <2>2. CASE PayByPayPal(k)
    <3>1. CASE got' = got /\ batch' = batch /\ batchOf' = batchOf
      BY <2>2, <3>1 DEF PayByPayPal
    <3>2. ASSUME NEW b \in Batches,
             \A c \in Batches : batch[c] = "none" <=> c >= b,
             /\ batch' = [batch EXCEPT ![b] = "sent"]
             /\ batchOf' = [batchOf EXCEPT ![b] = job[k]]
             /\ Carry(k, job[k], b, "PROCESSING", FALSE) \/ UNCHANGED got
          PROVE BatchInv'
      <4>1. batch[b] = "none"
        BY <3>2
      <4>2. MethodOf[job[k]] = "paypal" /\ UNCHANGED <<column, meta, hooks, job>>
        BY <2>2 DEF PayByPayPal
      <4>3. HooksAreTrue'
        BY <3>2, <4>1, <4>2
      <4>4. \A l \in Workers : got[l]' = got[l] \/ (l = k /\ got[l]'.batch = b)
        BY <3>2 DEF Carry
      <4>5. OwnBatches'
        BY <3>2, <4>1, <4>2, <4>4
      <4> QED
        BY <4>3, <4>5
    <3> QED
      BY <2>2, <3>1, <3>2 DEF PayByPayPal
  <2>3. CASE PayByBank(k)
    <3>1. \A l \in Workers : got[l]' = got[l] \/ got[l]'.batch = NoBatch
      BY <2>3 DEF PayByBank, Carry
    <3> QED
      BY <2>3, <3>1 DEF PayByBank
  <2>4. CASE PayByHand(k)    BY <2>4 DEF PayByHand
  <2>5. CASE StoreBatch(k)   BY <2>5 DEF StoreBatch
  <2>6. CASE FailApproval(k) BY <2>6 DEF FailApproval
  <2>7. CASE CheckEarning(k) BY <2>7 DEF CheckEarning
  <2>8. CASE WriteStatus(k)  BY <2>8 DEF WriteStatus
  <2>9. CASE FindRecord(k)   BY <2>9 DEF FindRecord
  <2>10. CASE WriteRecord(k) BY <2>10 DEF WriteRecord
  <2>11. CASE ApplyHook(k)   BY <2>11 DEF ApplyHook
  <2> QED
    BY <1>3, <2>1, <2>2, <2>3, <2>4, <2>5, <2>6, <2>7, <2>8, <2>9, <2>10, <2>11 DEF Serve
<1>4. ASSUME NEW b \in Batches, PayPalMoves(b) PROVE BatchInv'
  <2>1. PICK to \in BatchStates :
          /\ \/ batch[b] = "sent" /\ to \in {"paid", "failed", "unclaimed"}
             \/ batch[b] = "unclaimed" /\ to \in {"paid", "returned"}
          /\ batch' = [batch EXCEPT ![b] = to]
          /\ hooks' = hooks \cup
             {[kind |-> kind, batch |-> b, state |-> to] :
                kind \in IF to \in {"paid", "failed"} THEN Hooks ELSE Hooks \ {"batch"}}
    BY <1>4 DEF PayPalMoves
  <2>2. OwnBatches'
    BY <1>4, <2>1 DEF PayPalMoves
  <2>3. HooksAreTrue'
    BY <1>4, <2>1 DEF PayPalMoves
  <2> QED
    BY <2>2, <2>3
<1>5. ASSUME NEW k \in Workers, NEW h \in hooks, ReceiveHook(k, h) PROVE BatchInv'
  <2>1. CASE UNCHANGED workerVars
    BY <1>5, <2>1 DEF ReceiveHook
  <2>2. ASSUME NEW w \in Matches(h.batch), job' = [job EXCEPT ![k] = w],
               Carry(k, w, h.batch,
                     IF SystemStatus(h.state) = status[w] THEN "same" ELSE SystemStatus(h.state),
                     h.kind = "item" /\ SystemStatus(h.state) = "COMPLETED")
        PROVE BatchInv'
    <3>1. w \in Withdrawals /\ batchOf[h.batch] = w /\ h.batch \in Batches
      BY DEF Matches
    <3> QED
      BY <1>5, <2>2, <3>1 DEF ReceiveHook, Carry
  <2> QED
    BY <1>5, <2>1, <2>2 DEF ReceiveHook
<1> QED
  BY <1>1, <1>2, <1>3, <1>4, <1>5 DEF Next, Deliver

\* Nobody knows of a batch that has not been made.
LEMMA UnknownBatch ==
    ASSUME BatchInv, NEW b \in Batches, batch[b] = "none"
    PROVE  /\ b # NoBatch
           /\ \A w \in Withdrawals : column[w] # b /\ meta[w] # b
           /\ \A k \in Workers : got[k].batch # b
           /\ \A h \in hooks : h.batch # b
<1>1. MaxBatches \in Nat
  BY WithdrawalAssumption DEF WithdrawalAssumption
<1>2. b # NoBatch
  BY <1>1 DEF Batches, NoBatch
<1> QED
  BY <1>2 DEF BatchInv, OwnBatches, HooksAreTrue

-----------------------------------------------------------------------------
(* Requests and webhooks about one withdrawal take turns.                    *)

\* At most one request or webhook is served at a time about each withdrawal, as a lock on
\* its row would have it; those about different withdrawals overlap.
TakeTurns ==
    \A k, l \in Workers : pc[k] # "idle" /\ pc[l] # "idle" /\ job[k] = job[l] => k = l

\* A step that leaves the row of w as it is.
RowKept(w) ==
    /\ status'[w] = status[w] /\ column'[w] = column[w] /\ meta'[w] = meta[w]
    /\ rejected'[w] = rejected[w] /\ record'[w] = record[w]
    /\ wired'[w] = wired[w] /\ lost'[w] = lost[w]

\* A request that goes on touches its own row, itself and a new batch, and nobody else is
\* at work on that row.
LEMMA ServeFrame ==
    ASSUME TakeTurns, TypeOK, NEW k \in Workers, Serve(k)
    PROVE  /\ pc[k] # "idle" /\ job' = job
           /\ \A l \in Workers : l # k =>
                 /\ pc'[l] = pc[l] /\ got'[l] = got[l]
                 /\ pc[l] = "idle" \/ job[l] # job[k]
           /\ \A w \in Withdrawals : w # job[k] => RowKept(w)
           /\ \A b \in Batches : batch[b] # "none" =>
                 batch'[b] = batch[b] /\ batchOf'[b] = batchOf[b]
<1> USE DEF TypeOK, Go, Carry, RowKept, LoseAnswer, rowVars, paypalVars
<1> DEFINE Frame ==
        /\ pc[k] # "idle" /\ job' = job
        /\ \A l \in Workers : l # k => pc'[l] = pc[l] /\ got'[l] = got[l]
        /\ \A w \in Withdrawals : w # job[k] => RowKept(w)
        /\ \A b \in Batches : batch[b] # "none" =>
              batch'[b] = batch[b] /\ batchOf'[b] = batchOf[b]
<1> SUFFICES Frame
  BY DEF TakeTurns
<1>1. CASE CheckBalance(k)  BY <1>1 DEF CheckBalance
<1>2. CASE PayByPayPal(k)
  <2>1. \A b \in Batches : (\A c \in Batches : batch[c] = "none" <=> c >= b) => batch[b] = "none"
    BY DEF Batches
  <2> QED
    BY <1>2, <2>1 DEF PayByPayPal
<1>3. CASE PayByBank(k)     BY <1>3 DEF PayByBank
<1>4. CASE PayByHand(k)     BY <1>4 DEF PayByHand
<1>5. CASE StoreBatch(k)    BY <1>5 DEF StoreBatch
<1>6. CASE FailApproval(k)  BY <1>6 DEF FailApproval
<1>7. CASE CheckEarning(k)  BY <1>7 DEF CheckEarning
<1>8. CASE WriteStatus(k)   BY <1>8 DEF WriteStatus
<1>9. CASE FindRecord(k)    BY <1>9 DEF FindRecord
<1>10. CASE WriteRecord(k)  BY <1>10 DEF WriteRecord
<1>11. CASE ApplyHook(k)    BY <1>11 DEF ApplyHook
<1> QED
  BY <1>1, <1>2, <1>3, <1>4, <1>5, <1>6, <1>7, <1>8, <1>9, <1>10, <1>11 DEF Serve

\* What the final update of a request will do to the row, and which row it is.
AtWrite(k) ==
    LET w == job[k]  g == got[k] IN
    \/ /\ g.status = "PROCESSING" /\ ~g.recorded
       /\ status[w] \in {"INITIATED", "FAILED"} /\ MethodOf[w] # "bank"
       /\ MethodOf[w] = "paypal" => Sent(w) /\ meta[w] # column[w]
    \/ /\ g.status = "COMPLETED" /\ g.recorded
       /\ status[w] \in IF MethodOf[w] = "bank" THEN {"INITIATED", "FAILED"} ELSE {"PROCESSING"}
    \/ /\ g.status = "REJECTED" /\ ~g.recorded
       /\ status[w] \in {"INITIATED", "PROCESSING"} /\ g.batch = meta[w]
    \/ g.status = "INITIATED" /\ ~g.recorded /\ status[w] = "FAILED"

\* What a webhook that found its withdrawal will do to it.
AtHook(k) ==
    LET w == job[k]  g == got[k] IN
    /\ g.batch # NoBatch /\ Sent(w)
    /\ g.batch = column[w] \/ batch[g.batch] = "failed"
    /\ batch[g.batch] # "sent"
    /\ g.status \in {"same", "FAILED", "REFUNDED", "COMPLETED"}
    /\ g.status = "FAILED" => batch[g.batch] = "failed"
    /\ g.status = "REFUNDED" => batch[g.batch] = "returned"
    /\ g.status = "COMPLETED" => batch[g.batch] # "failed"
    /\ g.status = "same" /\ status[w] \in {"INITIATED", "FAILED"} => batch[g.batch] = "failed"
    /\ g.recorded => g.status = "COMPLETED" \/ (g.status = "same" /\ status[w] = "COMPLETED")
    /\ g.rejected = rejected[w]

\* What a request has read still holds when it writes.
RequestAgrees(k) ==
    LET w == job[k]  g == got[k] IN
    /\ pc[k] \in {"balance", "pay", "store", "fail"} =>
          status[w] \in {"INITIATED", "FAILED"} /\ g.status = "PROCESSING" /\ ~g.recorded
    /\ pc[k] \in {"balance", "pay", "fail"} => g.batch = meta[w] /\ g.rejected = rejected[w]
    /\ pc[k] = "store" =>
          MethodOf[w] = "paypal" /\ g.batch \notin {NoBatch, meta[w], column[w]}
    /\ pc[k] = "checkEarning" => status[w] = "PROCESSING" /\ g.status = "COMPLETED" /\ g.recorded
    /\ pc[k] = "write" => AtWrite(k)
    /\ pc[k] = "hook" => AtHook(k)
    /\ pc[k] \in {"findRecord", "writeRecord"} => status[w] = "COMPLETED"
    /\ pc[k] = "writeRecord" => record[w] = 0

RequestsAgree == \A k \in Workers : RequestAgrees(k)

\* The metadata name the column's batch, or one that failed before it; a bank transfer is
\* never waited for.
RowsAgree ==
    \A w \in Withdrawals :
        /\ meta[w] # NoBatch =>
              /\ Sent(w)
              /\ meta[w] # column[w] => batch[meta[w]] = "failed"
              /\ status[w] \in {"INITIATED", "FAILED"} => batch[meta[w]] = "failed"
        /\ MethodOf[w] = "bank" => status[w] # "PROCESSING"

AgreeInv == RequestsAgree /\ RowsAgree

\* At first nobody has read anything.
LEMMA AgreeInit == Init => AgreeInv
  BY DEF Init, AgreeInv, RequestsAgree, RequestAgrees, RowsAgree

\* What one request has read is not made stale by a step that keeps its row.
LEMMA OtherAgrees ==
    ASSUME TypeOK, BatchInv, NEW l \in Workers, RequestAgrees(l),
           pc'[l] = pc[l], job'[l] = job[l], got'[l] = got[l],
           pc[l] = "idle" \/ RowKept(job[l]),
           \A b \in Batches : batch[b] # "none" => batch'[b] = batch[b]
    PROVE  RequestAgrees(l)'
<1>1. job[l] \in Withdrawals /\ got[l].batch \in Batches \cup {NoBatch}
      /\ (got[l].batch # NoBatch => batch'[got[l].batch] = batch[got[l].batch])
  BY DEF TypeOK, BatchInv, OwnBatches
<1>2. CASE pc[l] = "idle"
  BY <1>2 DEF RequestAgrees
<1>3. CASE RowKept(job[l])
  <2>1. AtWrite(l) => AtWrite(l)'
    BY <1>1, <1>3 DEF AtWrite, Sent, RowKept
  <2>2. AtHook(l) => AtHook(l)'
    BY <1>1, <1>3 DEF AtHook, Sent, RowKept
  <2> QED
    BY <1>1, <1>3, <2>1, <2>2 DEF RequestAgrees, RowKept
<1> QED
  BY <1>2, <1>3

\* When the requests about a withdrawal take turns, no step makes what another has read stale.
LEMMA AgreeStep ==
    ASSUME TakeTurns, TypeOK, BatchInv, AgreeInv, [Next]_vars
    PROVE  AgreeInv'
<1>a. \A l \in Workers : RequestAgrees(l)
  BY DEF AgreeInv, RequestsAgree
<1>b. ASSUME NEW k \in Workers, Serve(k)
      PROVE  \A l \in Workers : l # k => RequestAgrees(l)'
  <2>1. TAKE l \in Workers
  <2>2. HAVE l # k
  <2>3. job[l] \in Withdrawals
    BY DEF TypeOK
  <2>4. pc[l] = "idle" \/ RowKept(job[l])
    BY <1>b, <2>2, <2>3, ServeFrame
  <2>5. /\ pc'[l] = pc[l] /\ job'[l] = job[l] /\ got'[l] = got[l]
        /\ \A b \in Batches : batch[b] # "none" => batch'[b] = batch[b]
    BY <1>b, <2>2, ServeFrame
  <2> QED
    BY <1>a, <2>4, <2>5, OtherAgrees
<1>c. ASSUME NEW k \in Workers, UNCHANGED <<rowVars, wired, lost, batch>>,
             \A l \in Workers : l # k => pc'[l] = pc[l] /\ job'[l] = job[l] /\ got'[l] = got[l]
      PROVE  \A l \in Workers : l # k => RequestAgrees(l)'
  <2>1. TAKE l \in Workers
  <2>2. HAVE l # k
  <2>3. RowKept(job[l])
    BY <1>c DEF RowKept, rowVars
  <2> QED
    BY <1>a, <1>c, <2>2, <2>3, OtherAgrees
<1> USE DEF TypeOK, AgreeInv, RequestsAgree, RequestAgrees, RowsAgree, AtWrite, AtHook, Sent,
        Go, rowVars, paypalVars, workerVars, NoBatch, Batches, Hook
<1>0. MaxBatches \in Nat
  BY WithdrawalAssumption DEF WithdrawalAssumption
<1>1. CASE UNCHANGED vars
  BY <1>1 DEF vars
<1>2. ASSUME NEW k \in Workers, NEW w \in Withdrawals, UpdateStatus(k, w) PROVE AgreeInv'
  <2>1. \A l \in Workers : l # k => RequestAgrees(l)'
    <3>1. /\ UNCHANGED <<rowVars, wired, lost, batch>>
          /\ \A l \in Workers : l # k => pc'[l] = pc[l] /\ job'[l] = job[l] /\ got'[l] = got[l]
      BY <1>2 DEF UpdateStatus, Carry
    <3> QED
      BY ONLY <1>c, <3>1
  <2> SUFFICES RequestAgrees(k)' /\ RowsAgree'
    BY <2>1
  <2>2. UNCHANGED <<status, column, meta, rejected, record, batch>> /\ job'[k] = w
    BY <1>2 DEF UpdateStatus
  <2>3. PICK to \in ValidTransitions(status[w]) :
          /\ pc'[k] = CASE to = "PROCESSING" -> "balance"
                        [] to = "COMPLETED"  -> "checkEarning"
                        [] OTHER             -> "write"
          /\ got'[k].batch = meta[w] /\ got'[k].rejected = rejected[w]
          /\ got'[k].status = to /\ got'[k].recorded = (to = "COMPLETED")
    BY <1>2 DEF UpdateStatus, Carry
  <2>4. \/ status[w] \in {"INITIATED", "FAILED"} /\ to = "PROCESSING"
        \/ status[w] = "INITIATED" /\ to = "REJECTED"
        \/ status[w] = "PROCESSING" /\ to \in {"COMPLETED", "REJECTED"}
        \/ status[w] = "FAILED" /\ to = "INITIATED"
    BY DEF ValidTransitions
  <2>5. CASE status[w] \in {"INITIATED", "FAILED"} /\ to = "PROCESSING"
    <3>1. pc'[k] = "balance"
      BY <2>3, <2>5
    <3> QED
      BY <2>2, <2>3, <2>5, <3>1
  <2>6. CASE status[w] = "INITIATED" /\ to = "REJECTED"
    <3>1. pc'[k] = "write"
      BY <2>3, <2>6
    <3> QED
      BY <2>2, <2>3, <2>6, <3>1
  <2>7. CASE status[w] = "PROCESSING" /\ to = "COMPLETED"
    <3>1. pc'[k] = "checkEarning"
      BY <2>3, <2>7
    <3> QED
      BY <2>2, <2>3, <2>7, <3>1
  <2>8. CASE status[w] = "PROCESSING" /\ to = "REJECTED"
    <3>1. pc'[k] = "write"
      BY <2>3, <2>8
    <3> QED
      BY <2>2, <2>3, <2>8, <3>1
  <2>9. CASE status[w] = "FAILED" /\ to = "INITIATED"
    <3>1. pc'[k] = "write"
      BY <2>3, <2>9
    <3> QED
      BY <2>2, <2>3, <2>9, <3>1
  <2> QED
    BY <2>4, <2>5, <2>6, <2>7, <2>8, <2>9
<1>3. ASSUME NEW k \in Workers, Serve(k) PROVE AgreeInv'
  <2>0. \A l \in Workers : l # k => RequestAgrees(l)'
    BY ONLY <1>3, <1>b
  <2> SUFFICES RequestAgrees(k)' /\ RowsAgree'
    BY <2>0
  <2>1. CASE CheckBalance(k)   BY <2>1 DEF CheckBalance
  <2>2. CASE PayByPayPal(k)
    <3>0. /\ pc[k] = "pay" /\ MethodOf[job[k]] = "paypal" /\ UNCHANGED <<rowVars, hooks, job>>
      BY <2>2 DEF PayByPayPal
    <3>1. CASE got' = got /\ batch' = batch /\ pc'[k] = "fail"
      BY <3>0, <3>1
    <3>2. ASSUME NEW b \in Batches,
             \A c \in Batches : batch[c] = "none" <=> c >= b,
             /\ batch' = [batch EXCEPT ![b] = "sent"]
             /\ \/ Go(k, "pay", "store") /\ Carry(k, job[k], b, "PROCESSING", FALSE)
                \/ Go(k, "pay", "fail") /\ UNCHANGED got
          PROVE RequestAgrees(k)' /\ RowsAgree'
      <4>1. batch[b] = "none"
        BY <3>2
      <4>2. \A w \in Withdrawals : column[w] # b /\ meta[w] # b
        BY <4>1, UnknownBatch
      <4>3. RowsAgree'
        BY <3>0, <3>2, <4>2
      <4>4. RequestAgrees(k)'
        BY <3>0, <3>2, <4>2 DEF Carry
      <4> QED
        BY <4>3, <4>4
    <3> QED
      BY <2>2, <3>1, <3>2 DEF PayByPayPal
  <2>3. CASE PayByBank(k)    BY <2>3 DEF PayByBank, Carry
  <2>4. CASE PayByHand(k)    BY <2>4 DEF PayByHand
  <2>5. CASE StoreBatch(k)   BY <2>5 DEF StoreBatch
  <2>6. CASE FailApproval(k) BY <2>6 DEF FailApproval
  <2>7. CASE CheckEarning(k)
    <3>1. /\ pc[k] = "checkEarning" /\ pc'[k] \in {"write", "idle"}
          /\ UNCHANGED <<rowVars, paypalVars, job, got>>
      BY <2>7 DEF CheckEarning
    <3> QED
      BY <3>1
  <2>8. CASE WriteStatus(k)
    <3> DEFINE w == job[k]
    <3>1. /\ pc[k] = "write" /\ UNCHANGED <<column, record, batch, job, got>>
          /\ pc'[k] = IF got[k].recorded THEN "findRecord" ELSE "idle"
          /\ status' = [status EXCEPT ![w] = got[k].status]
          /\ meta' = IF got[k].status = "REJECTED" THEN [meta EXCEPT ![w] = got[k].batch] ELSE meta
      BY <2>8 DEF WriteStatus
    <3>2. AtWrite(k)
      BY <3>1
    <3>3. UNCHANGED meta
      BY <3>1, <3>2
    <3>4. RequestAgrees(k)'
      BY <3>1, <3>2
    <3>5. RowsAgree'
      BY <3>1, <3>2, <3>3
    <3> QED
      BY <3>4, <3>5
  <2>9. CASE FindRecord(k)   BY <2>9 DEF FindRecord
  <2>10. CASE WriteRecord(k) BY <2>10 DEF WriteRecord
  <2>11. CASE ApplyHook(k)
    <3> DEFINE w == job[k]
    <3>1. /\ pc[k] = "hook" /\ UNCHANGED <<column, record, batch, job, got>>
          /\ pc'[k] = IF got[k].recorded THEN "findRecord" ELSE "idle"
          /\ status' = IF got[k].status = "same" THEN status
                       ELSE [status EXCEPT ![w] = got[k].status]
          /\ meta' = [meta EXCEPT ![w] = got[k].batch]
      BY <2>11 DEF ApplyHook
    <3>2. AtHook(k)
      BY <3>1
    <3>3. RequestAgrees(k)'
      BY <3>1, <3>2
    <3>4. RowsAgree'
      BY <3>1, <3>2
    <3> QED
      BY <3>3, <3>4
  <2> QED
    BY <1>3, <2>1, <2>2, <2>3, <2>4, <2>5, <2>6, <2>7, <2>8, <2>9, <2>10, <2>11 DEF Serve
<1>4. ASSUME NEW b \in Batches, PayPalMoves(b) PROVE AgreeInv'
  <2>1. UNCHANGED <<rowVars, workerVars>>
    BY <1>4 DEF PayPalMoves
  <2>2. \A c \in Batches :
          /\ batch[c] \in {"failed", "returned"} => batch[c]' = batch[c]
          /\ batch[c] # "sent" => batch[c]' # "sent"
          /\ batch[c] \notin {"sent", "failed"} => batch[c]' # "failed"
    BY <1>4 DEF PayPalMoves
  <2>3. \A k \in Workers : got[k].batch \in Batches \cup {NoBatch}
    OBVIOUS
  <2>4. RowsAgree'
    BY <2>1, <2>2
  <2>5. RequestsAgree'
    BY <2>1, <2>2, <2>3
  <2> QED
    BY <2>4, <2>5
<1>5. ASSUME NEW k \in Workers, NEW h \in hooks, ReceiveHook(k, h) PROVE AgreeInv'
  <2>0. \A l \in Workers : l # k => RequestAgrees(l)'
    <3>1. /\ UNCHANGED <<rowVars, wired, lost, batch>>
          /\ \A l \in Workers : l # k => pc'[l] = pc[l] /\ job'[l] = job[l] /\ got'[l] = got[l]
      BY <1>5 DEF ReceiveHook, Carry
    <3> QED
      BY ONLY <1>c, <3>1
  <2>1. CASE UNCHANGED workerVars
    BY <1>5, <2>1 DEF ReceiveHook
  <2>2. ASSUME NEW w \in Matches(h.batch), Go(k, "idle", "hook"), job' = [job EXCEPT ![k] = w],
               Carry(k, w, h.batch,
                     IF SystemStatus(h.state) = status[w] THEN "same" ELSE SystemStatus(h.state),
                     h.kind = "item" /\ SystemStatus(h.state) = "COMPLETED")
        PROVE AgreeInv'
    <3>1. w \in Withdrawals /\ h.batch \in Batches /\ (column[w] = h.batch \/ meta[w] = h.batch)
      BY DEF Matches
    <3>2. Sent(w) /\ (column[w] = h.batch \/ batch[h.batch] = "failed")
      BY <3>1
    <3>3. UNCHANGED <<rowVars, batch>> /\ pc'[k] = "hook" /\ job'[k] = w
      BY <1>5, <2>2, <3>1 DEF ReceiveHook
    <3>4. /\ got'[k].batch = h.batch /\ got'[k].rejected = rejected[w]
          /\ got'[k].status = IF SystemStatus(h.state) = status[w] THEN "same"
                              ELSE SystemStatus(h.state)
          /\ got'[k].recorded => SystemStatus(h.state) = "COMPLETED"
      BY <2>2 DEF Carry
    <3>5. /\ SystemStatus(h.state) \in {"FAILED", "REFUNDED", "COMPLETED"}
          /\ SystemStatus(h.state) = "FAILED" => batch[h.batch] = "failed"
          /\ SystemStatus(h.state) = "REFUNDED" => batch[h.batch] = "returned"
          /\ SystemStatus(h.state) = "COMPLETED" => batch[h.batch] # "failed"
          /\ batch[h.batch] # "sent"
      BY DEF SystemStatus, BatchInv, HooksAreTrue
    <3>6. AtHook(k)'
      BY <1>0, <3>1, <3>2, <3>3, <3>4, <3>5
    <3>7. RequestAgrees(k)'
      BY <3>3, <3>6
    <3>8. RowsAgree'
      BY <3>3
    <3> QED
      BY <2>0, <3>7, <3>8
  <2> QED
    BY <1>5, <2>1, <2>2 DEF ReceiveHook
<1> QED
  BY <1>1, <1>2, <1>3, <1>4, <1>5 DEF Next, Deliver

-----------------------------------------------------------------------------
(* Transfers and their transaction rows.                                     *)

Wiring(w) == \E k \in Workers : job[k] = w /\ pc[k] = "write" /\ got[k].status = "COMPLETED"
Recording(w) == \E k \in Workers : job[k] = w /\ pc[k] \in {"findRecord", "writeRecord"}

\* The bank has transferred what is COMPLETED or about to be, and the transfers whose answer
\* was lost; a COMPLETED row has its one transaction row as soon as the request is done.
WireAgrees(w) ==
    /\ MethodOf[w] = "bank" =>
          wired[w] = lost[w] + IF status[w] = "COMPLETED" \/ Wiring(w) THEN 1 ELSE 0
    /\ MethodOf[w] = "manual" =>
          lost[w] = 0 /\ wired[w] = IF status[w] = "COMPLETED" THEN 1 ELSE 0
    /\ MethodOf[w] = "paypal" => wired[w] = 0
    /\ MethodOf[w] # "paypal" =>
          record[w] = IF status[w] = "COMPLETED" /\ ~Recording(w) THEN 1 ELSE 0

WiresAgree == \A w \in Withdrawals : WireAgrees(w)

\* At first nothing is transferred.
LEMMA WiresInit == Init => WiresAgree
  BY DEF Init, WiresAgree, WireAgrees, Wiring, Recording

\* A step that keeps a row and what is about to be done to it keeps its books.
LEMMA WireKept ==
    ASSUME NEW w \in Withdrawals, WireAgrees(w),
           status'[w] = status[w], record'[w] = record[w], wired'[w] = wired[w], lost'[w] = lost[w],
           Wiring(w)' <=> Wiring(w), Recording(w)' <=> Recording(w)
    PROVE  WireAgrees(w)'
<1>1. CASE Wiring(w) /\ Recording(w)
  BY <1>1 DEF WireAgrees
<1>2. CASE Wiring(w) /\ ~Recording(w)
  BY <1>2 DEF WireAgrees
<1>3. CASE ~Wiring(w) /\ Recording(w)
  BY <1>3 DEF WireAgrees
<1>4. CASE ~Wiring(w) /\ ~Recording(w)
  BY <1>4 DEF WireAgrees
<1> QED
  BY <1>1, <1>2, <1>3, <1>4

\* A request that begins or gives up, and one that comes to nothing, does nothing to a row.
LEMMA WiresIdle ==
    ASSUME TypeOK, WiresAgree, NEW k \in Workers, UNCHANGED <<status, record, wired, lost>>,
           \A l \in Workers : l # k => pc'[l] = pc[l] /\ job'[l] = job[l] /\ got'[l] = got[l],
           pc[k] = "idle", pc'[k] \notin {"findRecord", "writeRecord"},
           ~(pc'[k] = "write" /\ got'[k].status = "COMPLETED")
    PROVE  WiresAgree'
<1>1. SUFFICES ASSUME NEW w \in Withdrawals PROVE WireAgrees(w)'
  BY DEF WiresAgree
<1>2. Wiring(w)' <=> Wiring(w)
  BY DEF Wiring
<1>3. Recording(w)' <=> Recording(w)
  BY DEF Recording
<1> QED
  BY <1>2, <1>3, WireKept DEF WiresAgree

\* A request that goes on concerns its own row, where it is the only one.
LEMMA WiresServe ==
    ASSUME TakeTurns, TypeOK, WiresAgree, NEW k \in Workers, Serve(k), NEW w \in Withdrawals, w = job[k]
    PROVE  /\ WireAgrees(w)' => WiresAgree'
           /\ Wiring(w) <=> pc[k] = "write" /\ got[k].status = "COMPLETED"
           /\ Wiring(w)' <=> pc'[k] = "write" /\ got'[k].status = "COMPLETED"
           /\ Recording(w) <=> pc[k] \in {"findRecord", "writeRecord"}
           /\ Recording(w)' <=> pc'[k] \in {"findRecord", "writeRecord"}
<1>1. /\ job' = job /\ pc[k] # "idle"
      /\ \A l \in Workers : l # k =>
            pc'[l] = pc[l] /\ got'[l] = got[l] /\ (pc[l] = "idle" \/ job[l] # job[k])
      /\ \A v \in Withdrawals : v # job[k] => RowKept(v)
  BY ServeFrame
<1>2. ASSUME NEW v \in Withdrawals, v # w PROVE WireAgrees(v)'
  <2>1. Wiring(v)' <=> Wiring(v)
    BY <1>1, <1>2 DEF Wiring
  <2>2. Recording(v)' <=> Recording(v)
    BY <1>1, <1>2 DEF Recording
  <2> QED
    BY <1>1, <1>2, <2>1, <2>2, WireKept DEF WiresAgree, RowKept
<1>3. Wiring(w) <=> pc[k] = "write" /\ got[k].status = "COMPLETED"
  BY <1>1 DEF Wiring
<1>4. Wiring(w)' <=> pc'[k] = "write" /\ got'[k].status = "COMPLETED"
  BY <1>1 DEF Wiring
<1>5. Recording(w) <=> pc[k] \in {"findRecord", "writeRecord"}
  BY <1>1 DEF Recording
<1>6. Recording(w)' <=> pc'[k] \in {"findRecord", "writeRecord"}
  BY <1>1 DEF Recording
<1>7. WireAgrees(w)' => WiresAgree'
  BY <1>2 DEF WiresAgree
<1> QED
  BY <1>3, <1>4, <1>5, <1>6, <1>7

\* Every step that transfers, completes or records keeps the three in step.
LEMMA WiresStep ==
    ASSUME TakeTurns, TypeOK, BatchInv, AgreeInv, WiresAgree, [Next]_vars
    PROVE  WiresAgree'
<1> USE DEF TypeOK, Go, rowVars, paypalVars, workerVars
<1>1. CASE UNCHANGED vars
  BY <1>1 DEF vars, WiresAgree, WireAgrees, Wiring, Recording
<1>2. ASSUME NEW k \in Workers, NEW w \in Withdrawals, UpdateStatus(k, w) PROVE WiresAgree'
  <2>1. /\ UNCHANGED <<status, record, wired, lost>> /\ pc[k] = "idle"
        /\ \A l \in Workers : l # k => pc'[l] = pc[l] /\ job'[l] = job[l] /\ got'[l] = got[l]
    BY <1>2 DEF UpdateStatus, Carry
  <2>2. PICK to \in ValidTransitions(status[w]) :
          /\ pc'[k] = CASE to = "PROCESSING" -> "balance"
                        [] to = "COMPLETED"  -> "checkEarning"
                        [] OTHER             -> "write"
          /\ got'[k].status = to
    BY <1>2 DEF UpdateStatus, Carry
  <2>3. to \in {"INITIATED", "PROCESSING", "COMPLETED", "REJECTED"}
    BY DEF ValidTransitions
  <2>4. pc'[k] \notin {"findRecord", "writeRecord"} /\ ~(pc'[k] = "write" /\ got'[k].status = "COMPLETED")
    BY <2>2, <2>3
  <2> QED
    BY <2>1, <2>4, WiresIdle
<1>3. ASSUME NEW k \in Workers, Serve(k) PROVE WiresAgree'
  <2>w. PICK w \in Withdrawals : w = job[k]
    OBVIOUS
  <2>a. /\ WireAgrees(w)' => WiresAgree'
        /\ Wiring(w) <=> pc[k] = "write" /\ got[k].status = "COMPLETED"
        /\ Wiring(w)' <=> pc'[k] = "write" /\ got'[k].status = "COMPLETED"
        /\ Recording(w) <=> pc[k] \in {"findRecord", "writeRecord"}
        /\ Recording(w)' <=> pc'[k] \in {"findRecord", "writeRecord"}
    BY <1>3, <2>w, WiresServe
  <2>g. RequestAgrees(k) /\ WireAgrees(w) /\ (MethodOf[w] = "bank" => status[w] # "PROCESSING")
    BY <2>w DEF AgreeInv, RequestsAgree, RowsAgree, WiresAgree
  <2>f. MethodOf[w] \in {"paypal", "bank", "manual"} /\ lost[w] \in Nat /\ wired[w] \in Nat
    BY WithdrawalAssumption DEF WithdrawalAssumption
  \* A step that does nothing to the row yet.
  <2>k. ASSUME UNCHANGED <<status, record, wired, lost>>, Wiring(w)' <=> Wiring(w),
               Recording(w)' <=> Recording(w)
        PROVE  WiresAgree'
    BY <2>a, <2>g, <2>k, WireKept
  <2>1. CASE CheckBalance(k)
    <3>1. /\ pc[k] = "balance" /\ pc'[k] \in {"pay", "fail"}
          /\ UNCHANGED <<status, record, wired, lost>>
      BY <2>w, <2>1 DEF CheckBalance
    <3> QED
      BY <2>a, <2>k, <3>1
  <2>2. CASE PayByPayPal(k)
    <3>1. /\ pc[k] = "pay" /\ MethodOf[w] = "paypal" /\ UNCHANGED <<status, record, wired, job>>
      BY <2>w, <2>2 DEF PayByPayPal
    <3>2. WireAgrees(w)'
      BY <2>g, <3>1 DEF WireAgrees
    <3> QED
      BY <2>a, <3>2
  <2>3. CASE PayByBank(k)
    <3>1. /\ pc[k] = "pay" /\ MethodOf[w] = "bank" /\ UNCHANGED <<status, record, job>>
          /\ \/ pc'[k] = "write" /\ got'[k].status = "COMPLETED"
                /\ wired'[w] = wired[w] + 1 /\ lost'[w] = lost[w]
             \/ pc'[k] = "fail" /\ wired'[w] = wired[w] /\ lost'[w] = lost[w]
             \/ pc'[k] = "fail" /\ wired'[w] = wired[w] + 1 /\ lost'[w] = lost[w] + 1
      BY <2>w, <2>3 DEF PayByBank, LoseAnswer, Carry
    <3>2. status[w] \in {"INITIATED", "FAILED"} /\ ~Wiring(w)
      BY <2>a, <2>g, <2>w, <3>1 DEF RequestAgrees
    <3>3. wired[w] = lost[w] /\ record[w] = 0
      BY <2>g, <2>f, <3>1, <3>2 DEF WireAgrees
    <3>4. CASE Wiring(w)'
      BY <2>a, <2>f, <3>1, <3>2, <3>3, <3>4 DEF WireAgrees
    <3>5. CASE ~Wiring(w)'
      BY <2>a, <2>f, <3>1, <3>2, <3>3, <3>5 DEF WireAgrees
    <3> QED
      BY <3>4, <3>5
  <2>4. CASE PayByHand(k)
    <3>1. /\ pc[k] = "pay" /\ pc'[k] = "write" /\ UNCHANGED <<status, record, wired, lost, got>>
      BY <2>w, <2>4 DEF PayByHand
    <3>2. got[k].status = "PROCESSING"
      BY <2>g, <2>w, <3>1 DEF RequestAgrees
    <3> QED
      BY <2>a, <2>k, <3>1, <3>2
  <2>5. CASE StoreBatch(k)
    <3>1. /\ pc[k] = "store" /\ pc'[k] = "write" /\ UNCHANGED <<status, record, wired, lost, got>>
      BY <2>w, <2>5 DEF StoreBatch
    <3>2. got[k].status = "PROCESSING"
      BY <2>g, <2>w, <3>1 DEF RequestAgrees
    <3> QED
      BY <2>a, <2>k, <3>1, <3>2
  <2>6. CASE FailApproval(k)
    <3>1. /\ pc[k] = "fail" /\ pc'[k] = "idle" /\ status'[w] = "FAILED"
          /\ UNCHANGED <<record, wired, lost, job>>
      BY <2>w, <2>6 DEF FailApproval
    <3>2. status[w] \in {"INITIATED", "FAILED"} /\ ~Wiring(w) /\ ~Wiring(w)'
      BY <2>a, <2>g, <2>w, <3>1 DEF RequestAgrees
    <3>3. WireAgrees(w)'
      BY <2>g, <3>1, <3>2 DEF WireAgrees
    <3> QED
      BY <2>a, <3>3
  <2>7. CASE CheckEarning(k)
    <3>1. /\ pc[k] = "checkEarning" /\ pc'[k] \in {"write", "idle"}
          /\ UNCHANGED <<status, record, wired, lost, job>>
      BY <2>w, <2>7 DEF CheckEarning
    <3>2. MethodOf[w] # "bank" /\ ~Recording(w) /\ ~Recording(w)'
      BY <2>a, <2>g, <2>w, <3>1 DEF RequestAgrees
    <3>3. WireAgrees(w)'
      BY <2>g, <3>1, <3>2 DEF WireAgrees
    <3> QED
      BY <2>a, <3>3
  <2>8. CASE WriteStatus(k)
    <3>1. /\ pc[k] = "write" /\ UNCHANGED <<record, lost, job, got>>
          /\ pc'[k] = IF got[k].recorded THEN "findRecord" ELSE "idle"
          /\ status'[w] = got[k].status
          /\ wired'[w] = IF MethodOf[w] = "manual" /\ got[k].status = "COMPLETED"
                         THEN wired[w] + 1 ELSE wired[w]
      BY <2>w, <2>8 DEF WriteStatus
    <3>2. /\ status[w] # "COMPLETED"
          /\ got[k].recorded <=> got[k].status = "COMPLETED"
      BY <2>g, <2>w, <3>1 DEF RequestAgrees, AtWrite
    <3>3. CASE got[k].status = "COMPLETED"
      <4>1. Wiring(w) /\ ~Recording(w) /\ ~Wiring(w)' /\ Recording(w)'
        BY <2>a, <3>1, <3>2, <3>3
      <4> QED
        BY <2>a, <2>f, <2>g, <3>1, <3>2, <3>3, <4>1 DEF WireAgrees
    <3>4. CASE got[k].status # "COMPLETED"
      <4>1. ~Wiring(w) /\ ~Wiring(w)'
        BY <2>a, <3>1, <3>2, <3>4
      <4> QED
        BY <2>a, <2>f, <2>g, <3>1, <3>2, <3>4, <4>1 DEF WireAgrees
    <3> QED
      BY <3>3, <3>4
  <2>9. CASE FindRecord(k)
    <3>1. /\ pc[k] = "findRecord" /\ UNCHANGED <<status, record, wired, lost, job>>
          /\ pc'[k] = IF record[w] = 0 THEN "writeRecord" ELSE "idle"
      BY <2>w, <2>9 DEF FindRecord
    <3>2. Recording(w) /\ ~Wiring(w) /\ ~Wiring(w)' /\ status[w] = "COMPLETED"
      BY <2>a, <2>g, <2>w, <3>1 DEF RequestAgrees
    <3>3. MethodOf[w] # "paypal" => record[w] = 0 /\ Recording(w)'
      BY <2>a, <2>g, <2>w, <3>1, <3>2 DEF WireAgrees
    <3>4. WireAgrees(w)'
      BY <2>g, <3>1, <3>2, <3>3 DEF WireAgrees
    <3> QED
      BY <2>a, <3>4
  <2>10. CASE WriteRecord(k)
    <3>1. /\ pc[k] = "writeRecord" /\ pc'[k] = "idle" /\ UNCHANGED <<status, wired, lost, job>>
          /\ record'[w] = record[w] + 1
      BY <2>w, <2>10 DEF WriteRecord
    <3>2. /\ record[w] = 0 /\ status[w] = "COMPLETED" /\ ~Wiring(w) /\ ~Wiring(w)'
          /\ Recording(w) /\ ~Recording(w)'
      BY <2>a, <2>g, <2>w, <3>1 DEF RequestAgrees
    <3>3. WireAgrees(w)'
      BY <2>g, <3>1, <3>2 DEF WireAgrees
    <3> QED
      BY <2>a, <3>3
  <2>11. CASE ApplyHook(k)
    <3>1. pc[k] = "hook" /\ UNCHANGED <<record, wired, lost, job>>
      BY <2>w, <2>11 DEF ApplyHook
    <3>2. MethodOf[w] = "paypal"
      BY <2>g, <2>w, <3>1 DEF RequestAgrees, AtHook, Sent, BatchInv, OwnBatches
    <3>3. WireAgrees(w)'
      BY <2>g, <3>1, <3>2 DEF WireAgrees
    <3> QED
      BY <2>a, <3>3
  <2> QED
    BY <1>3, <2>1, <2>2, <2>3, <2>4, <2>5, <2>6, <2>7, <2>8, <2>9, <2>10, <2>11 DEF Serve
<1>4. ASSUME NEW b \in Batches, PayPalMoves(b) PROVE WiresAgree'
  BY <1>4 DEF PayPalMoves, WiresAgree, WireAgrees, Wiring, Recording
<1>5. ASSUME NEW k \in Workers, NEW h \in hooks, ReceiveHook(k, h) PROVE WiresAgree'
  <2>1. /\ UNCHANGED <<status, record, wired, lost>> /\ pc[k] = "idle"
        /\ pc'[k] \in {"idle", "hook"}
        /\ \A l \in Workers : l # k => pc'[l] = pc[l] /\ job'[l] = job[l] /\ got'[l] = got[l]
    BY <1>5 DEF ReceiveHook, Carry
  <2> QED
    BY <2>1, WiresIdle
<1> QED
  BY <1>1, <1>2, <1>3, <1>4, <1>5 DEF Next, Deliver

\* PaidIsBooked, when the requests about a withdrawal take turns: a transfer that was answered
\* is COMPLETED with one transaction row, however often it failed or was answered too late
\* before, and whatever is done about the other withdrawals meanwhile.
THEOREM PaidIsBookedInTurn == Spec /\ []TakeTurns => []PaidIsBooked
<1>1. Init => TypeOK /\ WritesAStatus /\ BatchInv /\ AgreeInv /\ WiresAgree
  BY TypeInit, BatchInit, AgreeInit, WiresInit
<1>2. TakeTurns /\ TypeOK /\ WritesAStatus /\ BatchInv /\ AgreeInv /\ WiresAgree /\ [Next]_vars =>
        (TypeOK /\ WritesAStatus /\ BatchInv /\ AgreeInv /\ WiresAgree)'
  BY TypeStep, BatchStep, AgreeStep, WiresStep
<1>3. ASSUME TypeOK, WiresAgree PROVE PaidIsBooked
  <2>1. SUFFICES ASSUME NEW w \in Withdrawals, wired[w] > lost[w], ~Busy(w)
                 PROVE  status[w] = "COMPLETED" /\ record[w] = 1
    BY DEF PaidIsBooked
  <2>2. wired[w] \in Nat /\ lost[w] \in Nat /\ MethodOf[w] \in {"paypal", "bank", "manual"}
    BY <1>3, WithdrawalAssumption DEF TypeOK, WithdrawalAssumption
  <2>3. ~Wiring(w) /\ ~Recording(w)
    BY <2>1 DEF Busy, Wiring, Recording
  <2> QED
    BY <1>3, <2>1, <2>2, <2>3 DEF WiresAgree, WireAgrees
<1> QED
  BY <1>1, <1>2, <1>3, PTL DEF Spec

-----------------------------------------------------------------------------
(* A payout that failed is reported.                                         *)

Heard(b) == batch[b] = "failed" => \E h \in hooks : h.batch = b /\ h.state = "failed"

Failing(w) == \E k \in Workers : job[k] = w /\ pc[k] = "hook" /\ got[k].status = "FAILED"

\* While a withdrawal is shown as paid or waiting, the failure of its latest payout is on
\* its way to it.
RequestHears(k) ==
    /\ pc[k] = "store" => Heard(got[k].batch)
    /\ pc[k] = "write" /\ got[k].status = "PROCESSING" /\ MethodOf[job[k]] = "paypal" =>
          Heard(column[job[k]])
RowHears(w) ==
    MethodOf[w] = "paypal" /\ status[w] \in {"PROCESSING", "COMPLETED"} =>
        Sent(w) /\ (Heard(column[w]) \/ Failing(w))
FailureIsHeard == (\A k \in Workers : RequestHears(k)) /\ \A w \in Withdrawals : RowHears(w)

\* The webhooks of a payout are not received while its batch id is being stored.
HooksWait ==
    \A k \in Workers, h \in hooks : pc[k] = "store" /\ h.batch = got[k].batch => h \in hooks'

\* At first no payout can fail.
LEMMA HeardInit == Init => FailureIsHeard
  BY DEF Init, FailureIsHeard, RequestHears, RowHears

\* A row that is kept, with what is heard of its payout and who will write that it failed.
LEMMA RowHearsKept ==
    ASSUME NEW w \in Withdrawals, RowHears(w), status'[w] = status[w], column'[w] = column[w],
           NEW c, c = column[w], c # NoBatch => Heard(c)' = Heard(c), Failing(w) => Failing(w)'
    PROVE  RowHears(w)'
  BY DEF RowHears, Sent, Heard

\* A request that is kept, with what is heard of its payout.
LEMMA RequestHearsKept ==
    ASSUME TypeOK, BatchInv, AgreeInv, NEW l \in Workers, RequestHears(l),
           pc'[l] = pc[l], job'[l] = job[l], got'[l] = got[l],
           pc[l] = "idle" \/ column'[job[l]] = column[job[l]],
           \A c \in Batches :
               /\ batch[c] # "none" /\ Heard(c)
               /\ (pc[l] = "store" /\ got[l].batch = c) \/ (pc[l] = "write" /\ column[job[l]] = c)
               => Heard(c)'
    PROVE  RequestHears(l)'
<1>1. CASE pc[l] = "store"
  <2>1. PICK c \in Batches : c = got[l].batch
    BY <1>1 DEF AgreeInv, RequestsAgree, RequestAgrees, TypeOK
  <2>2. batch[c] # "none" /\ Heard(c)
    BY <1>1, <2>1 DEF RequestHears, BatchInv, OwnBatches, NoBatch, Batches
  <2>3. Heard(c)'
    BY <1>1, <2>1, <2>2
  <2> QED
    BY <1>1, <2>1, <2>3 DEF RequestHears, Heard
<1>2. CASE pc[l] = "write" /\ got[l].status = "PROCESSING" /\ MethodOf[job[l]] = "paypal"
  <2>1. Sent(job[l]) /\ job[l] \in Withdrawals
    BY <1>2 DEF AgreeInv, RequestsAgree, RequestAgrees, AtWrite, TypeOK
  <2>2. PICK c \in Batches : c = column[job[l]]
    BY <2>1 DEF Sent, TypeOK
  <2>3. batch[c] # "none" /\ Heard(c)
    BY <1>2, <2>1, <2>2 DEF RequestHears, BatchInv, OwnBatches, Sent
  <2>4. Heard(c)'
    BY <1>2, <2>2, <2>3
  <2> QED
    BY <1>2, <2>2, <2>4 DEF RequestHears, Heard
<1> QED
  BY <1>1, <1>2 DEF RequestHears

\* A request that goes on changes only what its own row and it itself have heard.
LEMMA HeardServe ==
    ASSUME TakeTurns, TypeOK, BatchInv, AgreeInv, FailureIsHeard,
           NEW k \in Workers, Serve(k), NEW w \in Withdrawals, w = job[k]
    PROVE  /\ RequestHears(k)' /\ RowHears(w)' => FailureIsHeard'
           /\ Failing(w) <=> pc[k] = "hook" /\ got[k].status = "FAILED"
           /\ Failing(w)' <=> pc'[k] = "hook" /\ got'[k].status = "FAILED"
           /\ \A c \in Batches : batch[c] # "none" => Heard(c)' = Heard(c)
<1>1. /\ job' = job /\ pc[k] # "idle"
      /\ \A l \in Workers : l # k =>
            pc'[l] = pc[l] /\ got'[l] = got[l] /\ (pc[l] = "idle" \/ job[l] # job[k])
      /\ \A v \in Withdrawals : v # job[k] => RowKept(v)
      /\ \A c \in Batches : batch[c] # "none" => batch'[c] = batch[c]
  BY ServeFrame
<1>2. hooks' = hooks
  BY DEF Serve, CheckBalance, PayByPayPal, PayByBank, PayByHand, StoreBatch, FailApproval, CheckEarning,
         WriteStatus, FindRecord, WriteRecord, ApplyHook, paypalVars
<1>3. \A c \in Batches : batch[c] # "none" => Heard(c)' = Heard(c)
  BY <1>1, <1>2 DEF Heard
<1>4. Failing(w) <=> pc[k] = "hook" /\ got[k].status = "FAILED"
  BY <1>1 DEF Failing
<1>5. Failing(w)' <=> pc'[k] = "hook" /\ got'[k].status = "FAILED"
  BY <1>1 DEF Failing
<1>6. ASSUME NEW v \in Withdrawals, v # w PROVE RowHears(v)'
  <2>1. RowHears(v) /\ status'[v] = status[v] /\ column'[v] = column[v]
    BY <1>1, <1>6 DEF FailureIsHeard, RowKept
  <2>2. Failing(v) => Failing(v)'
    BY <1>1, <1>6 DEF Failing
  <2>3. PICK c \in Batches \cup {NoBatch} : c = column[v]
    BY DEF TypeOK
  <2>4. c # NoBatch => Heard(c)' = Heard(c)
    BY <1>3, <2>3 DEF BatchInv, OwnBatches
  <2> QED
    BY <2>1, <2>2, <2>3, <2>4, RowHearsKept
<1>7. ASSUME NEW l \in Workers, l # k PROVE RequestHears(l)'
  <2>1. RequestHears(l) /\ pc'[l] = pc[l] /\ job'[l] = job[l] /\ got'[l] = got[l]
    BY <1>1, <1>7 DEF FailureIsHeard
  <2>2. pc[l] = "idle" \/ column'[job[l]] = column[job[l]]
    BY <1>1, <1>7 DEF RowKept, TypeOK
  <2>3. \A c \in Batches : batch[c] # "none" /\ Heard(c) => Heard(c)'
    BY <1>3
  <2> QED
    BY <2>1, <2>2, <2>3, RequestHearsKept
<1>8. RequestHears(k)' /\ RowHears(w)' => FailureIsHeard'
  BY <1>6, <1>7 DEF FailureIsHeard
<1> QED
  BY <1>3, <1>4, <1>5, <1>8

\* A request that begins has heard nothing of its own yet.
LEMMA HeardBegin ==
    ASSUME TypeOK, BatchInv, AgreeInv, FailureIsHeard, NEW k \in Workers,
           UNCHANGED <<status, column, batch, hooks>>, pc[k] = "idle", RequestHears(k)',
           \A l \in Workers : l # k => pc'[l] = pc[l] /\ job'[l] = job[l] /\ got'[l] = got[l]
    PROVE  FailureIsHeard'
<1>1. \A c \in Batches \cup {NoBatch} : Heard(c)' = Heard(c)
  BY DEF Heard
<1>2. ASSUME NEW v \in Withdrawals PROVE RowHears(v)'
  <2>1. Failing(v) => Failing(v)'
    BY DEF Failing
  <2>2. PICK c \in Batches \cup {NoBatch} : c = column[v]
    BY DEF TypeOK
  <2>3. RowHears(v) /\ status'[v] = status[v] /\ column'[v] = column[v] /\ Heard(c)' = Heard(c)
    BY <1>1 DEF FailureIsHeard
  <2> QED
    BY <2>1, <2>2, <2>3, RowHearsKept
<1>3. ASSUME NEW l \in Workers, l # k PROVE RequestHears(l)'
  <2>1. RequestHears(l) /\ pc'[l] = pc[l] /\ job'[l] = job[l] /\ got'[l] = got[l]
        /\ column'[job[l]] = column[job[l]]
    BY <1>3 DEF FailureIsHeard
  <2>2. \A c \in Batches : batch[c] # "none" /\ Heard(c) => Heard(c)'
    BY <1>1
  <2> QED
    BY <2>1, <2>2, RequestHearsKept
<1> QED
  BY <1>2, <1>3 DEF FailureIsHeard

\* The webhook of a failure is consumed only by a request that will write FAILED.
LEMMA HeardStep ==
    ASSUME TakeTurns, TakeTurns', HooksWait, Hooks # {},
           TypeOK, BatchInv, AgreeInv, FailureIsHeard, [Next]_vars
    PROVE  FailureIsHeard'
<1> USE DEF TypeOK, Go, rowVars, paypalVars, workerVars
<1>0. MethodOf \in [Withdrawals -> {"paypal", "bank", "manual"}] /\ Hooks \subseteq {"batch", "item"}
  BY WithdrawalAssumption DEF WithdrawalAssumption
<1>1. CASE UNCHANGED vars
  BY <1>1 DEF vars, FailureIsHeard, RequestHears, RowHears, Heard, Sent, Failing
<1>2. ASSUME NEW k \in Workers, NEW w \in Withdrawals, UpdateStatus(k, w) PROVE FailureIsHeard'
  <2>1. /\ UNCHANGED <<status, column, batch, hooks>> /\ pc[k] = "idle"
        /\ \A l \in Workers : l # k => pc'[l] = pc[l] /\ job'[l] = job[l] /\ got'[l] = got[l]
    BY <1>2 DEF UpdateStatus, Carry
  <2>2. PICK to \in ValidTransitions(status[w]) :
          /\ pc'[k] = CASE to = "PROCESSING" -> "balance"
                        [] to = "COMPLETED"  -> "checkEarning"
                        [] OTHER             -> "write"
          /\ got'[k].status = to
    BY <1>2 DEF UpdateStatus, Carry
  <2>3. to \in {"INITIATED", "PROCESSING", "COMPLETED", "REJECTED"}
    BY DEF ValidTransitions
  <2>4. pc'[k] # "store" /\ ~(pc'[k] = "write" /\ got'[k].status = "PROCESSING")
    BY <2>2, <2>3
  <2>5. RequestHears(k)'
    BY <2>4 DEF RequestHears
  <2> QED
    BY <2>1, <2>5, HeardBegin
<1>3. ASSUME NEW k \in Workers, Serve(k) PROVE FailureIsHeard'
  <2>w. PICK w \in Withdrawals : w = job[k]
    OBVIOUS
  <2>a. /\ RequestHears(k)' /\ RowHears(w)' => FailureIsHeard'
        /\ Failing(w) <=> pc[k] = "hook" /\ got[k].status = "FAILED"
        /\ Failing(w)' <=> pc'[k] = "hook" /\ got'[k].status = "FAILED"
        /\ \A c \in Batches : batch[c] # "none" => Heard(c)' = Heard(c)
    BY <1>3, <2>w, HeardServe
  <2>g. RequestAgrees(k) /\ RequestHears(k) /\ RowHears(w)
    BY DEF AgreeInv, RequestsAgree, FailureIsHeard
  <2>c. PICK c \in Batches \cup {NoBatch} : c = column[w]
    OBVIOUS
  <2>h. c # NoBatch => Heard(c)' = Heard(c)
    BY <2>a, <2>c DEF BatchInv, OwnBatches
  \* A step that leaves the row and passes nothing on.
  <2>k. ASSUME UNCHANGED <<status, column>>, pc[k] # "hook", RequestHears(k)' PROVE FailureIsHeard'
    <3>1. status'[w] = status[w] /\ column'[w] = column[w] /\ ~Failing(w)
      BY <2>a, <2>k
    <3> QED
      BY <2>a, <2>c, <2>g, <2>h, <2>k, <3>1, RowHearsKept
  <2>1. CASE CheckBalance(k)
    <3>1. pc[k] = "balance" /\ pc'[k] \in {"pay", "fail"} /\ UNCHANGED <<status, column>>
      BY <2>1 DEF CheckBalance
    <3> QED
      BY <2>k, <3>1 DEF RequestHears
  <2>2. CASE PayByPayPal(k)
    <3>1. pc[k] = "pay" /\ UNCHANGED <<status, column, hooks>>
      BY <2>2 DEF PayByPayPal
    <3>2. CASE pc'[k] = "fail"
      BY <2>k, <3>1, <3>2 DEF RequestHears
    <3>3. ASSUME NEW b \in Batches, batch' = [batch EXCEPT ![b] = "sent"],
                 Go(k, "pay", "store"), Carry(k, job[k], b, "PROCESSING", FALSE)
          PROVE  FailureIsHeard'
      <4>1. pc'[k] = "store" /\ got'[k].batch = b /\ batch'[b] = "sent"
        BY <3>3 DEF Carry
      <4>2. RequestHears(k)'
        BY <4>1 DEF RequestHears, Heard
      <4> QED
        BY <2>k, <3>1, <4>2
    <3> QED
      BY <2>2, <3>2, <3>3 DEF PayByPayPal
  <2>3. CASE PayByBank(k)
    <3>1. /\ pc[k] = "pay" /\ pc'[k] # "store" /\ MethodOf[w] = "bank" /\ UNCHANGED <<status, column, job>>
      BY <2>w, <2>3 DEF PayByBank
    <3> QED
      BY <2>k, <2>w, <3>1 DEF RequestHears
  <2>4. CASE PayByHand(k)
    <3>1. /\ pc[k] = "pay" /\ pc'[k] # "store" /\ MethodOf[w] = "manual" /\ UNCHANGED <<status, column, job>>
      BY <2>w, <2>4 DEF PayByHand
    <3> QED
      BY <2>k, <2>w, <3>1 DEF RequestHears
  <2>5. CASE StoreBatch(k)
    <3>1. /\ pc[k] = "store" /\ pc'[k] = "write" /\ UNCHANGED <<status, batch, hooks, job, got>>
          /\ column'[w] = got[k].batch
      BY <2>w, <2>5 DEF StoreBatch
    <3>2. status[w] \in {"INITIATED", "FAILED"} /\ Heard(got[k].batch)
      BY <2>g, <2>w, <3>1 DEF RequestAgrees, RequestHears
    <3>3. RequestHears(k)'
      BY <2>w, <3>1, <3>2 DEF RequestHears, Heard
    <3>4. RowHears(w)'
      BY <3>1, <3>2 DEF RowHears
    <3> QED
      BY <2>a, <3>3, <3>4
  <2>6. CASE FailApproval(k)
    <3>1. pc'[k] = "idle" /\ status'[w] = "FAILED"
      BY <2>w, <2>6 DEF FailApproval
    <3> QED
      BY <2>a, <3>1 DEF RequestHears, RowHears
  <2>7. CASE CheckEarning(k)
    <3>1. pc[k] = "checkEarning" /\ pc'[k] \in {"write", "idle"} /\ UNCHANGED <<status, column, got>>
      BY <2>7 DEF CheckEarning
    <3>2. got[k].status = "COMPLETED"
      BY <2>g, <3>1 DEF RequestAgrees
    <3> QED
      BY <2>k, <3>1, <3>2 DEF RequestHears
  <2>8. CASE WriteStatus(k)
    <3>1. /\ pc[k] = "write" /\ pc'[k] \in {"findRecord", "idle"} /\ column'[w] = column[w]
          /\ status'[w] = got[k].status
      BY <2>w, <2>8 DEF WriteStatus
    <3>2. AtWrite(k)
      BY <2>g, <3>1 DEF RequestAgrees
    <3>3. ASSUME MethodOf[w] = "paypal", got[k].status \in {"PROCESSING", "COMPLETED"}
          PROVE  Sent(w) /\ Heard(c)
      <4>1. CASE got[k].status = "PROCESSING"
        BY <2>c, <2>g, <2>w, <3>1, <3>2, <3>3, <4>1 DEF AtWrite, RequestHears
      <4>2. CASE got[k].status = "COMPLETED"
        <5>1. status[w] = "PROCESSING"
          BY <2>w, <3>2, <3>3, <4>2 DEF AtWrite
        <5> QED
          BY <2>a, <2>c, <2>g, <3>1, <3>3, <5>1 DEF RowHears
      <4> QED
        BY <3>3, <4>1, <4>2
    <3>4. RowHears(w)'
      BY <2>c, <2>h, <3>1, <3>3 DEF RowHears, Sent, Heard
    <3> QED
      BY <2>a, <3>1, <3>4 DEF RequestHears
  <2>9. CASE FindRecord(k)
    <3>1. pc[k] = "findRecord" /\ pc'[k] \in {"writeRecord", "idle"} /\ UNCHANGED <<status, column>>
      BY <2>9 DEF FindRecord
    <3> QED
      BY <2>k, <3>1 DEF RequestHears
  <2>10. CASE WriteRecord(k)
    <3>1. pc[k] = "writeRecord" /\ pc'[k] = "idle" /\ UNCHANGED <<status, column>>
      BY <2>10 DEF WriteRecord
    <3> QED
      BY <2>k, <3>1 DEF RequestHears
  <2>11. CASE ApplyHook(k)
    <3>1. /\ pc[k] = "hook" /\ pc'[k] \in {"findRecord", "idle"} /\ column'[w] = column[w]
          /\ status'[w] = IF got[k].status = "same" THEN status[w] ELSE got[k].status
      BY <2>w, <2>11 DEF ApplyHook
    <3>2. AtHook(k)
      BY <2>g, <3>1 DEF RequestAgrees
    <3>3. Sent(w) /\ got[k].status \in {"same", "FAILED", "REFUNDED", "COMPLETED"}
      BY <2>w, <3>2 DEF AtHook
    <3>4. got[k].status = "COMPLETED" => Heard(c)
      BY <2>c, <2>w, <3>2 DEF AtHook, Heard
    <3>5. got[k].status = "same" => ~Failing(w)
      BY <2>a
    <3>6. ASSUME got[k].status = "same" PROVE RowHears(w)'
      BY <2>c, <2>g, <2>h, <3>1, <3>3, <3>5, <3>6 DEF RowHears, Sent, Heard
    <3>7. ASSUME got[k].status = "COMPLETED" PROVE RowHears(w)'
      BY <2>c, <2>h, <3>1, <3>3, <3>4, <3>7 DEF RowHears, Sent, Heard
    <3>8. ASSUME got[k].status \in {"FAILED", "REFUNDED"} PROVE RowHears(w)'
      BY <3>1, <3>8 DEF RowHears
    <3> QED
      BY <2>a, <3>1, <3>3, <3>6, <3>7, <3>8 DEF RequestHears
  <2> QED
    BY <1>3, <2>1, <2>2, <2>3, <2>4, <2>5, <2>6, <2>7, <2>8, <2>9, <2>10, <2>11 DEF Serve
<1>4. ASSUME NEW b \in Batches, PayPalMoves(b) PROVE FailureIsHeard'
  <2>1. PICK to \in BatchStates :
          /\ batch' = [batch EXCEPT ![b] = to]
          /\ hooks' = hooks \cup
             {[kind |-> kind, batch |-> b, state |-> to] :
                kind \in IF to \in {"paid", "failed"} THEN Hooks ELSE Hooks \ {"batch"}}
    BY <1>4 DEF PayPalMoves
  <2>2. UNCHANGED <<status, column, workerVars>>
    BY <1>4 DEF PayPalMoves
  <2>3. Heard(b)'
    <3>1. SUFFICES ASSUME batch'[b] = "failed"
                   PROVE  \E h \in hooks' : h.batch = b /\ h.state = "failed"
      BY <2>2 DEF Heard
    <3>2. to = "failed"
      BY <2>1, <3>1
    <3>3. PICK kind \in Hooks : TRUE
      OBVIOUS
    <3>4. [kind |-> kind, batch |-> b, state |-> to] \in hooks'
      BY <2>1, <3>2, <3>3
    <3> QED
      BY <3>2, <3>4
  <2>4. \A c \in Batches : c # b /\ Heard(c) => Heard(c)'
    BY <2>1 DEF Heard
  <2>5. \A c \in Batches : Heard(c) => Heard(c)'
    BY <2>3, <2>4
  <2>6. NoBatch \notin Batches => (Heard(NoBatch) => Heard(NoBatch)')
    BY <2>1 DEF Heard, Batches, NoBatch
  <2> QED
    BY <2>2, <2>5, <2>6 DEF FailureIsHeard, RequestHears, RowHears, Sent, Failing
<1>5. ASSUME NEW k \in Workers, NEW h \in hooks, ReceiveHook(k, h) PROVE FailureIsHeard'
  <2>1. /\ UNCHANGED <<status, column, batch>> /\ pc[k] = "idle" /\ pc'[k] \in {"idle", "hook"}
        /\ hooks' = hooks \ {h} /\ h.batch \in Batches
        /\ \A l \in Workers : l # k => pc'[l] = pc[l] /\ job'[l] = job[l] /\ got'[l] = got[l]
    BY <1>5 DEF ReceiveHook, Carry, Hook
  <2>2. \A c : Heard(c) /\ (h.batch # c \/ h.state # "failed") => Heard(c)'
    BY <2>1 DEF Heard
  \* It is the row of the payout that takes the webhook.
  <2>3. ASSUME NEW w \in Withdrawals, Sent(w), h.batch = column[w]
        PROVE  /\ pc'[k] = "hook" /\ job'[k] = w
               /\ h.state = "failed" /\ status[w] # "FAILED" => got'[k].status = "FAILED"
    <3>1. Matches(h.batch) = {w}
      BY <2>3 DEF Matches, BatchInv, OwnBatches, Sent
    <3>2. /\ pc'[k] = "hook" /\ job' = [job EXCEPT ![k] = w]
          /\ Carry(k, w, h.batch,
                   IF SystemStatus(h.state) = status[w] THEN "same" ELSE SystemStatus(h.state),
                   h.kind = "item" /\ SystemStatus(h.state) = "COMPLETED")
      BY <1>5, <3>1 DEF ReceiveHook
    <3>3. h.state = "failed" => SystemStatus(h.state) = "FAILED"
      BY DEF SystemStatus
    <3> QED
      BY <3>2, <3>3 DEF Carry
  <2>4. ASSUME NEW w \in Withdrawals PROVE RowHears(w)'
    <3>1. SUFFICES ASSUME MethodOf[w] = "paypal", status[w] \in {"PROCESSING", "COMPLETED"}
                   PROVE  RowHears(w)'
      BY <2>1 DEF RowHears
    <3>2. Sent(w) /\ (Heard(column[w]) \/ Failing(w))
      BY <3>1 DEF FailureIsHeard, RowHears
    <3>3. CASE Failing(w)
      <4>1. Failing(w)'
        BY <2>1, <3>3 DEF Failing
      <4> QED
        BY <2>1, <3>2, <4>1 DEF RowHears, Sent
    <3>4. CASE Heard(column[w]) /\ (h.batch # column[w] \/ h.state # "failed")
      <4>1. PICK c : c = column[w]
        OBVIOUS
      <4>2. Heard(c)'
        BY <2>2, <3>4, <4>1
      <4> QED
        BY <2>1, <3>2, <4>1, <4>2 DEF RowHears, Sent, Heard
    <3>5. CASE h.batch = column[w] /\ h.state = "failed"
      <4>1. Failing(w)'
        BY <2>3, <3>1, <3>2, <3>5 DEF Failing
      <4> QED
        BY <2>1, <3>2, <4>1 DEF RowHears, Sent
    <3> QED
      BY <3>2, <3>3, <3>4, <3>5
  <2>5. ASSUME NEW l \in Workers, l # k PROVE RequestHears(l)'
    <3>1. RequestHears(l) /\ pc'[l] = pc[l] /\ job'[l] = job[l] /\ got'[l] = got[l]
          /\ column'[job[l]] = column[job[l]]
      BY <2>1, <2>5 DEF FailureIsHeard
    <3>2. ASSUME NEW c \in Batches, pc[l] = "store", got[l].batch = c PROVE h.batch # c
      BY <2>1, <3>2 DEF HooksWait
    <3>3. ASSUME NEW c \in Batches, pc[l] = "write", column[job[l]] = c PROVE h.batch # c
      <4>1. SUFFICES ASSUME h.batch = c PROVE FALSE
        OBVIOUS
      <4>2. pc'[k] = "hook" /\ job'[k] = job[l]
        BY <2>3, <3>3, <4>1 DEF Sent, Batches, NoBatch
      <4> QED
        BY <2>5, <3>1, <3>3, <4>2 DEF TakeTurns
    <3> QED
      BY <2>2, <3>1, <3>2, <3>3, RequestHearsKept
  <2>6. RequestHears(k)'
    BY <2>1 DEF RequestHears
  <2> QED
    BY <2>4, <2>5, <2>6 DEF FailureIsHeard
<1> QED
  BY <1>1, <1>2, <1>3, <1>4, <1>5 DEF Next, Deliver

\* CompletedWasSent, when the requests about a withdrawal take turns, some webhook is
\* subscribed to and none overtakes the batch id it names: no withdrawal settles as paid whose
\* money no provider took.
THEOREM CompletedWasSentInTurn ==
    ASSUME Hooks # {}
    PROVE  Spec /\ []TakeTurns /\ [][HooksWait]_vars => []CompletedWasSent
<1>1. Init => TypeOK /\ WritesAStatus /\ BatchInv /\ AgreeInv /\ WiresAgree /\ FailureIsHeard
  BY TypeInit, BatchInit, AgreeInit, WiresInit, HeardInit
<1>2. TakeTurns /\ TakeTurns' /\ [HooksWait]_vars /\ [Next]_vars /\
      TypeOK /\ WritesAStatus /\ BatchInv /\ AgreeInv /\ WiresAgree /\ FailureIsHeard =>
        (TypeOK /\ WritesAStatus /\ BatchInv /\ AgreeInv /\ WiresAgree /\ FailureIsHeard)'
  <2>1. UNCHANGED vars => HooksWait
    BY DEF vars, paypalVars, HooksWait
  <2>2. [HooksWait]_vars => HooksWait
    BY <2>1
  <2>3. ASSUME TakeTurns, TakeTurns', HooksWait, [Next]_vars,
               TypeOK, BatchInv, AgreeInv, FailureIsHeard
        PROVE  FailureIsHeard'
    BY <2>3, Hooks # {}, HeardStep
  <2> QED
    BY <2>2, <2>3, TypeStep, BatchStep, AgreeStep, WiresStep
<1>3. ASSUME TypeOK, BatchInv, WiresAgree, FailureIsHeard PROVE CompletedWasSent
  <2>1. SUFFICES ASSUME NEW w \in Withdrawals, status[w] = "COMPLETED", hooks = {}, ~Busy(w)
                 PROVE  wired[w] > 0 \/ \E b \in Batches :
                          batchOf[b] = w /\ batch[b] \in {"sent", "paid", "unclaimed", "returned"}
    BY DEF CompletedWasSent
  <2>2. MethodOf[w] \in {"paypal", "bank", "manual"} /\ lost[w] \in Nat
    BY <1>3, WithdrawalAssumption DEF TypeOK, WithdrawalAssumption
  <2>3. CASE MethodOf[w] # "paypal"
    BY <1>3, <2>1, <2>2, <2>3 DEF WiresAgree, WireAgrees
  <2>4. CASE MethodOf[w] = "paypal"
    <3>1. Sent(w) /\ Heard(column[w])
      BY <1>3, <2>1, <2>4 DEF FailureIsHeard, RowHears, Failing, Busy
    <3>2. batch[column[w]] \notin {"failed", "none"} /\ batchOf[column[w]] = w /\ column[w] \in Batches
      BY <1>3, <2>1, <3>1 DEF Heard, BatchInv, OwnBatches, Sent, TypeOK
    <3>3. batch[column[w]] \in BatchStates
      BY <1>3, <3>2 DEF TypeOK
    <3> QED
      BY <3>2, <3>3 DEF BatchStates
  <2> QED
    BY <2>3, <2>4
<1> QED
  BY <1>1, <1>2, <1>3, PTL DEF Spec

-----------------------------------------------------------------------------
(* A payout is retried only when the one before it is known to have failed.  *)

\* At most one of the two webhooks of a payout is subscribed to.
OneKind == \A x, y \in Hooks : x = y

Storing(w) == \E k \in Workers : job[k] = w /\ pc[k] = "write" /\ got[k].status = "PROCESSING"
NoHooks(b) == \A h \in hooks : h.batch # b

\* A withdrawal that may be approved again has no payout or a failed one, whose only webhook
\* has come; REFUNDED and REJECTED rows are what their names say.
RowDead(w) ==
    /\ status[w] \in {"INITIATED", "FAILED"} /\ Sent(w) /\ ~Storing(w) => batch[column[w]] = "failed"
    /\ status[w] = "REFUNDED" => Sent(w) /\ batch[column[w]] = "returned"
    /\ status[w] = "REJECTED" => rejected[w]
    /\ meta[w] # NoBatch => batch[meta[w]] # "sent"
    /\ meta[w] # NoBatch /\ batch[meta[w]] = "failed" => NoHooks(meta[w])
HookDead(k) ==
    pc[k] = "hook" =>
        /\ got[k].batch = column[job[k]]
        /\ batch[got[k].batch] = "failed" => NoHooks(got[k].batch)
DeadBeforeRetry == (\A w \in Withdrawals : RowDead(w)) /\ \A k \in Workers : HookDead(k)

\* At first no payout is made.
LEMMA DeadInit == Init => DeadBeforeRetry
  BY DEF Init, DeadBeforeRetry, RowDead, HookDead, Sent

\* Writing back what was read changes nothing.
LEMMA SameValue ==
    ASSUME NEW S, NEW T, NEW f \in [S -> T], NEW x \in S
    PROVE  [f EXCEPT ![x] = f[x]] = f
  OBVIOUS

\* A row that is kept stays as dead as it was.
LEMMA RowDeadKept ==
    ASSUME TypeOK, BatchInv, NEW w \in Withdrawals, RowDead(w),
           status'[w] = status[w], column'[w] = column[w], meta'[w] = meta[w],
           rejected'[w] = rejected[w], Storing(w) => Storing(w)', hooks' \subseteq hooks,
           \A c \in Batches : batch[c] # "none" => batch'[c] = batch[c]
    PROVE  RowDead(w)'
<1>1. column[w] \in Batches \cup {NoBatch} /\ meta[w] \in Batches \cup {NoBatch}
  BY DEF TypeOK
<1>2. /\ column[w] # NoBatch => batch'[column[w]] = batch[column[w]]
      /\ meta[w] # NoBatch => batch'[meta[w]] = batch[meta[w]]
  BY <1>1 DEF BatchInv, OwnBatches
<1>3. CASE Storing(w)
  BY <1>2, <1>3 DEF RowDead, Sent, NoHooks
<1>4. CASE ~Storing(w)
  <2>1. status[w] \in {"INITIATED", "FAILED"} /\ Sent(w) => batch[column[w]] = "failed"
    BY <1>4 DEF RowDead
  <2> QED
    BY <1>2, <2>1 DEF RowDead, Sent, NoHooks
<1> QED
  BY <1>3, <1>4

\* So does a webhook that is kept.
LEMMA HookDeadKept ==
    ASSUME TypeOK, BatchInv, AgreeInv, NEW l \in Workers, HookDead(l),
           pc'[l] = pc[l], job'[l] = job[l], got'[l] = got[l],
           pc[l] = "idle" \/ column'[job[l]] = column[job[l]], hooks' \subseteq hooks,
           \A c \in Batches : batch[c] # "none" => batch'[c] = batch[c]
    PROVE  HookDead(l)'
<1>1. CASE pc[l] = "hook"
  <2>1. got[l].batch \in Batches
    BY <1>1 DEF AgreeInv, RequestsAgree, RequestAgrees, AtHook, TypeOK
  <2>2. batch'[got[l].batch] = batch[got[l].batch]
    BY <2>1 DEF BatchInv, OwnBatches, Batches, NoBatch
  <2> QED
    BY <1>1, <2>2 DEF HookDead, NoHooks
<1>2. CASE pc[l] # "hook"
  BY <1>2 DEF HookDead
<1> QED
  BY <1>1, <1>2

\* A request that goes on can wake only its own row.
LEMMA DeadServe ==
    ASSUME TakeTurns, TypeOK, BatchInv, AgreeInv, DeadBeforeRetry,
           NEW k \in Workers, Serve(k), NEW w \in Withdrawals, w = job[k]
    PROVE  /\ RowDead(w)' => DeadBeforeRetry'
           /\ Storing(w) <=> pc[k] = "write" /\ got[k].status = "PROCESSING"
           /\ Storing(w)' <=> pc'[k] = "write" /\ got'[k].status = "PROCESSING"
           /\ hooks' = hooks
           /\ \A c \in Batches : batch[c] # "none" => batch'[c] = batch[c]
<1>1. /\ job' = job /\ pc[k] # "idle"
      /\ \A l \in Workers : l # k =>
            pc'[l] = pc[l] /\ got'[l] = got[l] /\ (pc[l] = "idle" \/ job[l] # job[k])
      /\ \A v \in Withdrawals : v # job[k] => RowKept(v)
      /\ \A c \in Batches : batch[c] # "none" => batch'[c] = batch[c]
  BY ServeFrame
<1>2. hooks' = hooks
  BY DEF Serve, CheckBalance, PayByPayPal, PayByBank, PayByHand, StoreBatch, FailApproval, CheckEarning,
         WriteStatus, FindRecord, WriteRecord, ApplyHook, paypalVars
<1>3. pc'[k] # "hook"
  BY DEF Serve, CheckBalance, PayByPayPal, PayByBank, PayByHand, StoreBatch, FailApproval, CheckEarning,
         WriteStatus, FindRecord, WriteRecord, ApplyHook, Go, TypeOK
<1>4. Storing(w) <=> pc[k] = "write" /\ got[k].status = "PROCESSING"
  BY <1>1 DEF Storing
<1>5. Storing(w)' <=> pc'[k] = "write" /\ got'[k].status = "PROCESSING"
  BY <1>1 DEF Storing
<1>6. ASSUME NEW v \in Withdrawals, v # w PROVE RowDead(v)'
  <2>1. Storing(v) => Storing(v)'
    BY <1>1, <1>6 DEF Storing
  <2>2. RowDead(v) /\ RowKept(v)
    BY <1>1, <1>6 DEF DeadBeforeRetry
  <2> QED
    BY <1>1, <1>2, <2>1, <2>2, RowDeadKept DEF RowKept
<1>7. ASSUME NEW l \in Workers, l # k PROVE HookDead(l)'
  <2>1. HookDead(l) /\ pc'[l] = pc[l] /\ job'[l] = job[l] /\ got'[l] = got[l]
    BY <1>1, <1>7 DEF DeadBeforeRetry
  <2>2. pc[l] = "idle" \/ column'[job[l]] = column[job[l]]
    BY <1>1, <1>7 DEF RowKept, TypeOK
  <2> QED
    BY <1>1, <1>2, <2>1, <2>2, HookDeadKept
<1>8. HookDead(k)'
  BY <1>3 DEF HookDead
<1>9. RowDead(w)' => DeadBeforeRetry'
  BY <1>6, <1>7, <1>8 DEF DeadBeforeRetry
<1> QED
  BY <1>1, <1>2, <1>4, <1>5, <1>9

\* A request that begins wakes no row.
LEMMA DeadBegin ==
    ASSUME TypeOK, BatchInv, AgreeInv, DeadBeforeRetry, NEW k \in Workers,
           UNCHANGED <<status, column, meta, rejected, batch>>, hooks' \subseteq hooks,
           pc[k] = "idle", HookDead(k)',
           \A l \in Workers : l # k => pc'[l] = pc[l] /\ job'[l] = job[l] /\ got'[l] = got[l]
    PROVE  DeadBeforeRetry'
<1>1. ASSUME NEW v \in Withdrawals PROVE RowDead(v)'
  <2>1. Storing(v) => Storing(v)'
    BY DEF Storing
  <2> QED
    BY <2>1, RowDeadKept DEF DeadBeforeRetry
<1>2. ASSUME NEW l \in Workers, l # k PROVE HookDead(l)'
  BY <1>2, HookDeadKept DEF DeadBeforeRetry
<1> QED
  BY <1>1, <1>2 DEF DeadBeforeRetry

\* No step opens a withdrawal for another approval while its payout may still succeed.
LEMMA DeadStep ==
    ASSUME TakeTurns, OneKind, TypeOK, BatchInv, AgreeInv, DeadBeforeRetry, [Next]_vars
    PROVE  DeadBeforeRetry'
<1> USE DEF TypeOK, Go, rowVars, paypalVars, workerVars
<1>1. CASE UNCHANGED vars
  BY <1>1 DEF vars, DeadBeforeRetry, RowDead, HookDead, Storing, Sent, NoHooks
<1>2. ASSUME NEW k \in Workers, NEW w \in Withdrawals, UpdateStatus(k, w) PROVE DeadBeforeRetry'
  <2>1. /\ UNCHANGED <<status, column, meta, rejected, batch, hooks>> /\ pc[k] = "idle"
        /\ \A l \in Workers : l # k => pc'[l] = pc[l] /\ job'[l] = job[l] /\ got'[l] = got[l]
        /\ pc'[k] # "hook"
    BY <1>2 DEF UpdateStatus, Carry
  <2> QED
    BY <2>1, DeadBegin DEF HookDead
<1>3. ASSUME NEW k \in Workers, Serve(k) PROVE DeadBeforeRetry'
  <2>w. PICK w \in Withdrawals : w = job[k]
    OBVIOUS
  <2>a. /\ RowDead(w)' => DeadBeforeRetry'
        /\ Storing(w) <=> pc[k] = "write" /\ got[k].status = "PROCESSING"
        /\ Storing(w)' <=> pc'[k] = "write" /\ got'[k].status = "PROCESSING"
        /\ hooks' = hooks
        /\ \A c \in Batches : batch[c] # "none" => batch'[c] = batch[c]
    BY <1>3, <2>w, DeadServe
  <2>g. RequestAgrees(k) /\ RowDead(w) /\ HookDead(k)
    BY DEF AgreeInv, RequestsAgree, DeadBeforeRetry
  \* A step that leaves the row.
  <2>k. ASSUME UNCHANGED <<status, column, meta, rejected>>, pc[k] # "write" PROVE DeadBeforeRetry'
    BY <2>a, <2>g, <2>k, RowDeadKept
  <2>b. /\ column[w] # NoBatch => batch'[column[w]] = batch[column[w]]
        /\ meta[w] # NoBatch => batch'[meta[w]] = batch[meta[w]]
    BY <2>a DEF BatchInv, OwnBatches
  <2>1. CASE CheckBalance(k)   BY <2>1, <2>k DEF CheckBalance
  <2>2. CASE PayByPayPal(k)    BY <2>2, <2>k DEF PayByPayPal
  <2>3. CASE PayByBank(k)      BY <2>3, <2>k DEF PayByBank
  <2>4. CASE PayByHand(k)      BY <2>4, <2>k DEF PayByHand
  <2>5. CASE StoreBatch(k)
    <3>1. /\ pc[k] = "store" /\ pc'[k] = "write"
          /\ UNCHANGED <<status, meta, rejected, got>>
      BY <2>5 DEF StoreBatch
    <3>2. status[w] \in {"INITIATED", "FAILED"} /\ got[k].status = "PROCESSING"
      BY <2>g, <2>w, <3>1 DEF RequestAgrees
    <3>3. Storing(w)'
      BY <2>a, <3>1, <3>2
    <3>4. RowDead(w)'
      BY <2>a, <2>b, <2>g, <3>1, <3>2, <3>3 DEF RowDead, NoHooks
    <3> QED
      BY <2>a, <3>4
  <2>6. CASE FailApproval(k)
    <3>1. /\ pc[k] = "fail" /\ pc'[k] = "idle" /\ column' = column
          /\ status'[w] = "FAILED" /\ meta'[w] = got[k].batch
      BY <2>w, <2>6 DEF FailApproval
    <3>2. status[w] \in {"INITIATED", "FAILED"} /\ got[k].batch = meta[w] /\ ~Storing(w)
      BY <2>a, <2>g, <2>w, <3>1 DEF RequestAgrees
    <3>3. Sent(w) => batch[column[w]] = "failed"
      BY <2>g, <3>2 DEF RowDead
    <3>4. RowDead(w)'
      BY <2>a, <2>b, <2>g, <3>1, <3>2, <3>3 DEF RowDead, Sent, NoHooks
    <3> QED
      BY <2>a, <3>4
  <2>7. CASE CheckEarning(k)   BY <2>7, <2>k DEF CheckEarning
  <2>8. CASE WriteStatus(k)
    <3>1. /\ pc[k] = "write" /\ column' = column /\ status'[w] = got[k].status
          /\ meta'[w] = IF got[k].status = "REJECTED" THEN got[k].batch ELSE meta[w]
          /\ got[k].status = "REJECTED" => rejected'[w]
      BY <2>w, <2>8 DEF WriteStatus
    <3>2. AtWrite(k)
      BY <2>g, <3>1 DEF RequestAgrees
    <3>3. meta'[w] = meta[w] /\ got[k].status # "REFUNDED" /\ got[k].status # "FAILED"
      BY <2>w, <3>1, <3>2 DEF AtWrite
    <3>4. ASSUME got[k].status = "INITIATED", Sent(w) PROVE batch[column[w]] = "failed"
      <4>1. status[w] = "FAILED" /\ ~Storing(w)
        BY <2>a, <2>w, <3>2, <3>4 DEF AtWrite
      <4> QED
        BY <2>g, <3>4, <4>1 DEF RowDead
    <3>5. RowDead(w)'
      BY <2>a, <2>b, <2>g, <3>1, <3>3, <3>4 DEF RowDead, Sent, NoHooks
    <3> QED
      BY <2>a, <3>5
  <2>9. CASE FindRecord(k)     BY <2>9, <2>k DEF FindRecord
  <2>10. CASE WriteRecord(k)   BY <2>10, <2>k DEF WriteRecord
  <2>11. CASE ApplyHook(k)
    <3>1. /\ pc[k] = "hook" /\ column' = column
          /\ status'[w] = IF got[k].status = "same" THEN status[w] ELSE got[k].status
          /\ meta'[w] = got[k].batch
      BY <2>w, <2>11 DEF ApplyHook
    <3>2. rejected'[w] = got[k].rejected
      BY <2>w, <2>11, Zenon DEF ApplyHook
    <3>3. AtHook(k)
      BY <2>g, <3>1 DEF RequestAgrees
    <3>4. /\ got[k].batch = column[w] /\ Sent(w) /\ rejected'[w] = rejected[w]
          /\ batch[column[w]] # "sent"
          /\ batch[column[w]] = "failed" => NoHooks(column[w])
      BY <2>g, <2>w, <3>1, <3>2, <3>3 DEF AtHook, HookDead
    <3>5. ~Storing(w)
      BY <2>a, <3>1
    <3>6. /\ status'[w] \in {"INITIATED", "FAILED"} => batch[column[w]] = "failed"
          /\ status'[w] = "REFUNDED" => batch[column[w]] = "returned"
      BY <2>g, <2>w, <3>1, <3>3, <3>4, <3>5 DEF AtHook, RowDead
    <3>7. status'[w] = "REJECTED" => rejected'[w]
      BY <2>g, <2>w, <3>1, <3>3, <3>4 DEF AtHook, RowDead
    <3>8. RowDead(w)'
      BY <2>a, <2>b, <3>1, <3>4, <3>6, <3>7 DEF RowDead, Sent, NoHooks
    <3> QED
      BY <2>a, <3>8
  <2> QED
    BY <1>3, <2>1, <2>2, <2>3, <2>4, <2>5, <2>6, <2>7, <2>8, <2>9, <2>10, <2>11 DEF Serve
<1>4. ASSUME NEW b \in Batches, PayPalMoves(b) PROVE DeadBeforeRetry'
  <2>1. PICK to \in BatchStates :
          /\ \/ batch[b] = "sent" /\ to \in {"paid", "failed", "unclaimed"}
             \/ batch[b] = "unclaimed" /\ to \in {"paid", "returned"}
          /\ batch' = [batch EXCEPT ![b] = to]
          /\ hooks' = hooks \cup
             {[kind |-> kind, batch |-> b, state |-> to] :
                kind \in IF to \in {"paid", "failed"} THEN Hooks ELSE Hooks \ {"batch"}}
    BY <1>4 DEF PayPalMoves
  <2>2. UNCHANGED <<rowVars, workerVars>>
    BY <1>4 DEF PayPalMoves
  <2>3. \A c \in Batches :
          /\ batch[c] \in {"failed", "returned"} => c # b /\ batch'[c] = batch[c]
          /\ c # b => (NoHooks(c)' <=> NoHooks(c))
          /\ batch[c] # "sent" => batch'[c] # "sent"
          /\ batch[c] # "sent" /\ batch'[c] = "failed" => batch[c] = "failed"
    BY <2>1 DEF NoHooks
  <2>4. \A k \in Workers : pc[k] = "hook" => batch[got[k].batch] # "sent" /\ got[k].batch \in Batches
    BY DEF AgreeInv, RequestsAgree, RequestAgrees, AtHook
  <2> QED
    BY <2>2, <2>3, <2>4 DEF DeadBeforeRetry, RowDead, HookDead, Storing, Sent
<1>5. ASSUME NEW k \in Workers, NEW h \in hooks, ReceiveHook(k, h) PROVE DeadBeforeRetry'
  <2>1. /\ UNCHANGED <<rowVars, batch>> /\ pc[k] = "idle" /\ pc'[k] \in {"idle", "hook"}
        /\ hooks' = hooks \ {h}
        /\ \A l \in Workers : l # k => pc'[l] = pc[l] /\ job'[l] = job[l] /\ got'[l] = got[l]
    BY <1>5 DEF ReceiveHook, Carry
  <2>3. batch[h.batch] = "failed" => NoHooks(h.batch)'
    <3>1. SUFFICES ASSUME batch[h.batch] = "failed", NEW i \in hooks, i.batch = h.batch
                   PROVE  i = h
      BY <2>1 DEF NoHooks
    <3>2. i.kind = h.kind /\ i.state = h.state
      BY <3>1 DEF BatchInv, HooksAreTrue, OneKind
    <3> QED
      BY <3>1, <3>2 DEF Hook
  <2>4. pc'[k] = "hook" => got'[k].batch = h.batch /\ column[job'[k]] = h.batch
    <3>1. SUFFICES ASSUME NEW w \in Matches(h.batch), job' = [job EXCEPT ![k] = w],
               Carry(k, w, h.batch,
                     IF SystemStatus(h.state) = status[w] THEN "same" ELSE SystemStatus(h.state),
                     h.kind = "item" /\ SystemStatus(h.state) = "COMPLETED")
                   PROVE got'[k].batch = h.batch /\ column[job'[k]] = h.batch
      BY <1>5, <2>1 DEF ReceiveHook
    <3>2. w \in Withdrawals /\ (column[w] = h.batch \/ meta[w] = h.batch)
      BY DEF Matches
    <3>3. h.batch \in Batches /\ ~NoHooks(h.batch)
      BY DEF NoHooks, Hook
    <3>4. h.batch # NoBatch
      BY DEF Hook, Batches, NoBatch
    <3>5. column[w] = h.batch
      BY <3>2, <3>3, <3>4 DEF AgreeInv, RowsAgree, DeadBeforeRetry, RowDead
    <3> QED
      BY <3>1, <3>2, <3>5 DEF Carry
  <2>5. HookDead(k)'
    BY <2>1, <2>3, <2>4 DEF HookDead, NoHooks
  <2> QED
    BY <2>1, <2>5, DeadBegin
<1> QED
  BY <1>1, <1>2, <1>3, <1>4, <1>5 DEF Next, Deliver

-----------------------------------------------------------------------------
(* The payouts nobody knows of are the ones whose answer was lost.           *)

\* The payouts that reached the seller or still may.
Live == {"sent", "paid", "unclaimed"}
InStore(b) == \E k \in Workers : pc[k] = "store" /\ got[k].batch = b
\* The live payouts of a withdrawal that neither its row nor a request knows of.
Orphans(w) ==
    {b \in Batches : batchOf[b] = w /\ batch[b] \in Live /\ b # column[w] /\ ~InStore(b)}
OrphansWereLost == \A w \in Withdrawals : Cardinality(Orphans(w)) <= lost[w]

\* Batches are counted like any finite set.
LEMMA BatchSets ==
    ASSUME NEW B \in SUBSET Batches
    PROVE  /\ IsFiniteSet(B) /\ Cardinality(B) \in Nat
           /\ \A C \in SUBSET B : Cardinality(C) <= Cardinality(B)
           /\ \A b \in Batches : Cardinality(B \cup {b}) <= Cardinality(B) + 1
<1>1. IsFiniteSet(Batches)
  BY WithdrawalAssumption, FS_Interval DEF WithdrawalAssumption, Batches
<1>2. IsFiniteSet(B) /\ Cardinality(B) \in Nat
  BY <1>1, FS_Subset, FS_CardinalityType
<1> QED
  BY <1>2, FS_Subset, FS_AddElement

\* At first there is no payout, known or unknown.
LEMMA OrphansInit == Init => OrphansWereLost
<1> SUFFICES ASSUME Init, NEW w \in Withdrawals PROVE Cardinality(Orphans(w)) <= lost[w]
  BY DEF OrphansWereLost
<1>1. Orphans(w) = {}
  BY DEF Init, Orphans, Live
<1> QED
  BY <1>1, FS_EmptySet DEF Init

\* A payout becomes an orphan only when its answer is lost.
LEMMA OrphansStep ==
    ASSUME TakeTurns, TypeOK, BatchInv, AgreeInv, DeadBeforeRetry, OrphansWereLost, [Next]_vars
    PROVE  OrphansWereLost'
<1> USE DEF TypeOK, Go, rowVars, paypalVars, workerVars
<1>0. MaxLost \in Nat
  BY WithdrawalAssumption DEF WithdrawalAssumption
<1>a. ASSUME \A w \in Withdrawals : Orphans(w)' \subseteq Orphans(w) /\ lost'[w] \in Nat /\ lost[w] <= lost'[w]
      PROVE  OrphansWereLost'
  <2>1. SUFFICES ASSUME NEW w \in Withdrawals PROVE Cardinality(Orphans(w)') <= lost'[w]
    BY DEF OrphansWereLost
  <2>2. /\ Cardinality(Orphans(w)') <= Cardinality(Orphans(w))
        /\ Cardinality(Orphans(w)) \in Nat /\ Cardinality(Orphans(w)') \in Nat
    <3>1. Orphans(w) \in SUBSET Batches /\ Orphans(w)' \in SUBSET Batches
      BY DEF Orphans
    <3> QED
      BY <1>a, <3>1, BatchSets
  <2> QED
    BY <1>a, <1>0, <2>2 DEF OrphansWereLost
<1>b. ASSUME UNCHANGED <<column, batch, batchOf, lost>>, \A b : InStore(b) => InStore(b)'
      PROVE  OrphansWereLost'
  <2>1. \A w \in Withdrawals : Orphans(w)' \subseteq Orphans(w)
    BY <1>b DEF Orphans
  <2> QED
    BY <1>0, <1>a, <1>b, <2>1
<1>1. CASE UNCHANGED vars
  BY <1>1, <1>b DEF vars, InStore
<1>2. ASSUME NEW k \in Workers, NEW w \in Withdrawals, UpdateStatus(k, w) PROVE OrphansWereLost'
  <2>1. UNCHANGED <<column, batch, batchOf, lost>> /\ pc[k] = "idle"
        /\ \A l \in Workers : l # k => pc'[l] = pc[l] /\ got'[l] = got[l]
    BY <1>2 DEF UpdateStatus, Carry
  <2> QED
    BY <1>b, <2>1 DEF InStore
<1>3. ASSUME NEW k \in Workers, Serve(k) PROVE OrphansWereLost'
  <2>0. /\ pc[k] # "idle" /\ job' = job
        /\ \A l \in Workers : l # k =>
              pc'[l] = pc[l] /\ got'[l] = got[l] /\ (pc[l] = "idle" \/ job[l] # job[k])
    BY <1>3, ServeFrame
  <2>a. ASSUME UNCHANGED <<column, batch, batchOf, lost>>, pc[k] # "store" PROVE OrphansWereLost'
    BY <1>b, <2>0, <2>a DEF InStore
  <2>1. CASE CheckBalance(k)   BY <2>1, <2>a DEF CheckBalance
  <2>2. CASE PayByPayPal(k)
    <3>0. pc[k] = "pay" /\ UNCHANGED column
      BY <2>2 DEF PayByPayPal
    <3>1. CASE UNCHANGED <<batch, batchOf, got, lost>>
      BY <2>a, <3>0, <3>1
    <3>2. ASSUME NEW b \in Batches,
             \A c \in Batches : batch[c] = "none" <=> c >= b,
             batch' = [batch EXCEPT ![b] = "sent"],
             batchOf' = [batchOf EXCEPT ![b] = job[k]],
             \/ Go(k, "pay", "store") /\ Carry(k, job[k], b, "PROCESSING", FALSE) /\ UNCHANGED lost
             \/ LoseAnswer(job[k]) /\ Go(k, "pay", "fail") /\ UNCHANGED got
          PROVE OrphansWereLost'
      <4>1. batch[b] = "none" /\ job[k] \in Withdrawals
        BY <3>2 DEF Batches
      <4>2. \A c : InStore(c) => InStore(c)'
        BY <2>0, <3>0 DEF InStore
      <4>3. \A w \in Withdrawals : Orphans(w)' \subseteq Orphans(w) \cup {b}
        BY <3>0, <3>2, <4>1, <4>2 DEF Orphans
      <4>4. \A w \in Withdrawals : w # job[k] => Orphans(w)' \subseteq Orphans(w)
        BY <3>2, <4>3 DEF Orphans
      <4>5. CASE Go(k, "pay", "store") /\ Carry(k, job[k], b, "PROCESSING", FALSE) /\ UNCHANGED lost
        <5>1. InStore(b)'
          BY <4>5 DEF InStore, Carry
        <5>2. \A w \in Withdrawals : Orphans(w)' \subseteq Orphans(w)
          BY <4>3, <5>1 DEF Orphans
        <5> QED
          BY <1>0, <1>a, <4>5, <5>2
      <4>6. CASE LoseAnswer(job[k])
        <5>1. lost' = [lost EXCEPT ![job[k]] = @ + 1]
          BY <4>6 DEF LoseAnswer
        <5>2. SUFFICES ASSUME NEW w \in Withdrawals PROVE Cardinality(Orphans(w)') <= lost'[w]
          BY DEF OrphansWereLost
        <5> DEFINE O == Orphans(w)  P == Orphans(w)'
        <5>3. O \in SUBSET Batches /\ P \in SUBSET Batches
          BY DEF Orphans
        <5>4. Cardinality(O) <= lost[w] /\ P \subseteq O \cup {b} /\ (w # job[k] => P \subseteq O)
          BY <4>3, <4>4 DEF OrphansWereLost
        <5> HIDE DEF O, P
        <5>5. Cardinality(O) \in Nat /\ Cardinality(P) \in Nat /\ lost[w] \in Nat
          BY <1>0, <5>3, BatchSets
        <5>6. Cardinality(P) <= Cardinality(O) + 1 /\ (w # job[k] => Cardinality(P) <= Cardinality(O))
          <6>1. O \cup {b} \in SUBSET Batches
            BY <5>3
          <6>2. Cardinality(O \cup {b}) \in Nat /\ Cardinality(P) <= Cardinality(O \cup {b})
            BY <5>4, <6>1, BatchSets
          <6>3. Cardinality(O \cup {b}) <= Cardinality(O) + 1
            BY <5>3, BatchSets
          <6>4. P \subseteq O => Cardinality(P) <= Cardinality(O)
            BY <5>3, BatchSets
          <6> QED
            BY <5>4, <5>5, <6>2, <6>3, <6>4
        <5>7. Cardinality(P) <= lost'[w]
          BY <5>1, <5>4, <5>5, <5>6
        <5> QED
          BY <5>7 DEF P
      <4> QED
        BY <3>2, <4>5, <4>6
    <3> QED
      BY <2>2, <3>1, <3>2, Zenon DEF PayByPayPal
  <2>3. CASE PayByBank(k)
    <3>1. pc[k] = "pay" /\ UNCHANGED <<column, batch, batchOf>>
      BY <2>3 DEF PayByBank
    <3>2. lost' = lost \/ LoseAnswer(job[k])
      BY <2>3, Zenon DEF PayByBank
    <3>3. \A w \in Withdrawals : lost'[w] \in Nat /\ lost[w] <= lost'[w]
      BY <1>0, <3>2 DEF LoseAnswer
    <3>4. \A c : InStore(c) => InStore(c)'
      BY <2>0, <3>1 DEF InStore
    <3>5. \A w \in Withdrawals : Orphans(w)' \subseteq Orphans(w)
      BY <3>1, <3>4 DEF Orphans
    <3> QED
      BY <1>a, <3>3, <3>5
  <2>4. CASE PayByHand(k)    BY <2>4, <2>a DEF PayByHand
  <2>5. CASE StoreBatch(k)
    <3>1. /\ pc[k] = "store" /\ column' = [column EXCEPT ![job[k]] = got[k].batch]
          /\ UNCHANGED <<batch, batchOf, lost>> /\ job[k] \in Withdrawals
      BY <2>5 DEF StoreBatch
    <3>2. \A b : InStore(b) => b = got[k].batch \/ InStore(b)'
      BY <2>0 DEF InStore
    <3>3. got[k].batch \in Batches => batchOf[got[k].batch] = job[k]
      BY DEF BatchInv, OwnBatches, Batches, NoBatch
    <3>4. column[job[k]] \in Batches => batch[column[job[k]]] = "failed"
      <4>1. status[job[k]] \in {"INITIATED", "FAILED"}
        BY <3>1 DEF AgreeInv, RequestsAgree, RequestAgrees
      <4>2. ~Storing(job[k])
        BY <2>0, <3>1 DEF Storing
      <4>3. column[job[k]] \in Batches => Sent(job[k])
        BY DEF Sent, Batches, NoBatch
      <4> QED
        BY <3>1, <4>1, <4>2, <4>3 DEF DeadBeforeRetry, RowDead
    <3>5. \A w \in Withdrawals : Orphans(w)' \subseteq Orphans(w)
      BY <3>1, <3>2, <3>3, <3>4 DEF Orphans, Live
    <3> QED
      BY <1>0, <1>a, <3>1, <3>5
  <2>6. CASE FailApproval(k) BY <2>6, <2>a DEF FailApproval
  <2>7. CASE CheckEarning(k) BY <2>7, <2>a DEF CheckEarning
  <2>8. CASE WriteStatus(k)  BY <2>8, <2>a DEF WriteStatus
  <2>9. CASE FindRecord(k)   BY <2>9, <2>a DEF FindRecord
  <2>10. CASE WriteRecord(k) BY <2>10, <2>a DEF WriteRecord
  <2>11. CASE ApplyHook(k)   BY <2>11, <2>a DEF ApplyHook
  <2> QED
    BY <1>3, <2>1, <2>2, <2>3, <2>4, <2>5, <2>6, <2>7, <2>8, <2>9, <2>10, <2>11 DEF Serve
<1>4. ASSUME NEW b \in Batches, PayPalMoves(b) PROVE OrphansWereLost'
  <2>1. UNCHANGED <<column, batchOf, lost, workerVars>>
        /\ \A c \in Batches : batch'[c] \in Live => batch[c] \in Live
    BY <1>4 DEF PayPalMoves, Live
  <2>2. \A w \in Withdrawals : Orphans(w)' \subseteq Orphans(w)
    BY <2>1 DEF Orphans, InStore
  <2> QED
    BY <1>0, <1>a, <2>1, <2>2
<1>5. ASSUME NEW k \in Workers, NEW h \in hooks, ReceiveHook(k, h) PROVE OrphansWereLost'
  <2>1. UNCHANGED <<column, batch, batchOf, lost>> /\ pc[k] = "idle"
        /\ \A l \in Workers : l # k => pc'[l] = pc[l] /\ got'[l] = got[l]
    BY <1>5 DEF ReceiveHook, Carry
  <2> QED
    BY <1>b, <2>1 DEF InStore
<1> QED
  BY <1>1, <1>2, <1>3, <1>4, <1>5 DEF Next, Deliver

\* What PayPal holds for a withdrawal: its orphans and at most one payout that is known of.
LEMMA PaymentsBound ==
    ASSUME TakeTurns, TypeOK, BatchInv, AgreeInv, WiresAgree, DeadBeforeRetry, OrphansWereLost,
           NEW w \in Withdrawals
    PROVE  /\ PaymentsOf(w) \in Nat /\ lost[w] \in Nat
           /\ PaymentsOf(w) <= lost[w] + 1
           /\ PaymentsOf(w) > lost[w] =>
                 \/ MethodOf[w] = "bank" /\ (status[w] = "COMPLETED" \/ Wiring(w))
                 \/ MethodOf[w] = "manual" /\ status[w] = "COMPLETED"
                 \/ MethodOf[w] = "paypal" /\ \E b \in Batches :
                       batchOf[b] = w /\ batch[b] \in Live /\ (b = column[w] \/ InStore(b))
<1> DEFINE P == {b \in Batches : batchOf[b] = w /\ batch[b] \in {"sent", "paid", "unclaimed"}}
           O == Orphans(w)
<1>0. /\ MethodOf[w] \in {"paypal", "bank", "manual"} /\ lost[w] \in Nat /\ wired[w] \in Nat
  BY WithdrawalAssumption DEF WithdrawalAssumption, TypeOK
<1>1. P \in SUBSET Batches /\ O \in SUBSET Batches
  BY DEF Orphans
<1>2. PaymentsOf(w) = wired[w] + Cardinality(P)
  BY DEF PaymentsOf
<1>3. Cardinality(P) \in Nat /\ Cardinality(O) \in Nat
  BY <1>1, BatchSets
<1>4. CASE MethodOf[w] # "paypal"
  <2>1. P = {}
    BY <1>4 DEF BatchInv, OwnBatches
  <2>2. Cardinality(P) = 0
    BY <2>1, FS_EmptySet
  <2> HIDE DEF P
  <2> QED
    BY <1>0, <1>2, <1>4, <2>2 DEF WiresAgree, WireAgrees
<1>5. CASE MethodOf[w] = "paypal"
  <2>1. Cardinality(O) <= lost[w] /\ wired[w] = 0
    BY <1>5 DEF OrphansWereLost, WiresAgree, WireAgrees
  <2>2. \A b \in P : b \in O \/ b = column[w] \/ InStore(b)
    BY DEF Orphans, Live
  <2>3. \A b, c \in P : b \notin O /\ c \notin O => b = c
    <3>1. SUFFICES ASSUME NEW b \in P, NEW c \in P, b \notin O, c \notin O, b # c PROVE FALSE
      OBVIOUS
    <3>2. \/ InStore(b) /\ c = column[w]
          \/ InStore(c) /\ b = column[w]
      <4>1. ASSUME InStore(b), InStore(c) PROVE FALSE
        <5>1. PICK k \in Workers : pc[k] = "store" /\ got[k].batch = b
          BY <4>1 DEF InStore
        <5>2. PICK l \in Workers : pc[l] = "store" /\ got[l].batch = c
          BY <4>1 DEF InStore
        <5>3. job[k] = w /\ job[l] = w
          BY <5>1, <5>2 DEF BatchInv, OwnBatches, NoBatch, Batches
        <5> QED
          BY <3>1, <5>1, <5>2, <5>3 DEF TakeTurns
      <4> QED
        BY <2>2, <3>1, <4>1
    <3>3. ASSUME NEW x \in P, NEW y \in P, InStore(x), y = column[w] PROVE FALSE
      <4>1. PICK k \in Workers : pc[k] = "store" /\ got[k].batch = x
        BY <3>3 DEF InStore
      <4>2. job[k] = w /\ status[w] \in {"INITIATED", "FAILED"}
        BY <3>3, <4>1 DEF BatchInv, OwnBatches, AgreeInv, RequestsAgree, RequestAgrees, NoBatch, Batches
      <4>3. ~Storing(w)
        BY <4>1, <4>2 DEF Storing, TakeTurns
      <4>4. Sent(w)
        BY <3>3 DEF Sent, NoBatch, Batches
      <4>5. batch[column[w]] = "failed"
        BY <4>2, <4>3, <4>4 DEF DeadBeforeRetry, RowDead
      <4> QED
        BY <3>3, <4>5
    <3> QED
      BY <3>2, <3>3
  <2>4. CASE P \subseteq O
    <3>1. Cardinality(P) <= Cardinality(O)
      BY <1>1, <2>4, BatchSets
    <3> HIDE DEF P, O
    <3> QED
      BY <1>0, <1>2, <1>3, <2>1, <3>1
  <2>5. CASE ~(P \subseteq O)
    <3>1. PICK b \in P : b \notin O
      BY <2>5
    <3>2. P \subseteq O \cup {b}
      BY <2>3, <3>1
    <3>3. O \cup {b} \in SUBSET Batches
      BY <1>1
    <3>4. batchOf[b] = w /\ batch[b] \in Live /\ (b = column[w] \/ InStore(b)) /\ b \in Batches
      BY <2>2, <3>1 DEF Live
    <3> HIDE DEF P, O
    <3>5. Cardinality(O \cup {b}) \in Nat /\ Cardinality(P) <= Cardinality(O \cup {b})
          /\ Cardinality(O \cup {b}) <= Cardinality(O) + 1
      BY <1>1, <3>2, <3>3, <3>4, BatchSets
    <3>6. PaymentsOf(w) \in Nat /\ PaymentsOf(w) <= lost[w] + 1
      BY <1>0, <1>2, <1>3, <2>1, <3>5
    <3> QED
      BY <1>0, <1>5, <3>4, <3>6
  <2> QED
    BY <2>4, <2>5
<1> QED
  BY <1>4, <1>5

\* What holds when the requests about a withdrawal take turns and each payout has one webhook.
PayoutInv ==
    TypeOK /\ WritesAStatus /\ BatchInv /\ AgreeInv /\ WiresAgree /\ DeadBeforeRetry /\ OrphansWereLost

\* PaidOnce, when the requests about a withdrawal take turns and each payout has one webhook:
\* however approvals fail and are retried, and whatever is done about the other withdrawals
\* meanwhile, a withdrawal is paid once, and once more for each lost answer.
THEOREM PaidOnceInTurn ==
    ASSUME OneKind
    PROVE  Spec /\ []TakeTurns => []PaidOnce
<1>1. Init => PayoutInv
  BY TypeInit, BatchInit, AgreeInit, WiresInit, DeadInit, OrphansInit DEF PayoutInv
<1>2. TakeTurns /\ PayoutInv /\ [Next]_vars => PayoutInv'
  BY OneKind, TypeStep, BatchStep, AgreeStep, WiresStep, DeadStep, OrphansStep DEF PayoutInv
<1>3. ASSUME TakeTurns, PayoutInv PROVE PaidOnce
  <2>1. \A w \in Withdrawals :
          PaymentsOf(w) \in Nat /\ lost[w] \in Nat /\ PaymentsOf(w) <= lost[w] + 1
    BY <1>3, PaymentsBound DEF PayoutInv
  <2> QED
    BY <2>1 DEF PaidOnce
<1> QED
  BY <1>1, <1>2, <1>3, PTL DEF Spec

-----------------------------------------------------------------------------
(* The balance covers what is promised.                                      *)

\* A request that is about to pay, or has paid and not yet written so.
Committed(k) ==
    \/ pc[k] \in {"pay", "store"}
    \/ pc[k] = "write" /\ got[k].status = "PROCESSING"
    \/ pc[k] = "write" /\ got[k].status = "COMPLETED" /\ MethodOf[job[k]] = "bank"

\* At most one approval at a time is between its look at the balance and the row that says so.
OneApproval ==
    \A k, l \in Workers :
        (pc[k] = "balance" \/ Committed(k)) /\ (pc[l] = "balance" \/ Committed(l)) => k = l

Exempt(w) == rejected[w] /\ Sent(w)

\* The withdrawals whose money is under way or gone, but for those rejected after that.
Reserved ==
    {w \in Withdrawals :
        /\ ~Exempt(w)
        /\ \/ \E k \in Workers : job[k] = w /\ Committed(k)
           \/ MethodOf[w] # "paypal" /\ status[w] \in {"PROCESSING", "COMPLETED"}
           \/ Sent(w) /\ batch[column[w]] \in Live}

WithinBalance == SumOver(AmountOf, Reserved) <= Balance

\* Amounts add up like any natural numbers.
LEMMA Amounts ==
    ASSUME NEW W \in SUBSET Withdrawals
    PROVE  /\ SumOver(AmountOf, W) \in Nat
           /\ \A V \in SUBSET W : SumOver(AmountOf, V) <= SumOver(AmountOf, W)
           /\ \A w \in W : SumOver(AmountOf, W) = AmountOf[w] + SumOver(AmountOf, W \ {w})
<1>1. IsFiniteSet(Withdrawals) /\ \A w \in Withdrawals : AmountOf[w] \in Nat
  BY WithdrawalAssumption DEF WithdrawalAssumption
<1>2. IsFiniteSet(W) /\ \A w \in W : AmountOf[w] \in Nat
  BY <1>1, FS_Subset
<1>3. \A V : SumOver(AmountOf, V) = SumOf(AmountOf, V)
  BY DEF SumOver, SumOf
<1>4. SumOf(AmountOf, W) \in Nat
  BY <1>2, SumType
<1>5. \A V \in SUBSET W : SumOf(AmountOf, V) <= SumOf(AmountOf, W)
  BY <1>2, SumSubset
<1>6. \A w \in W : SumOf(AmountOf, W) = AmountOf[w] + SumOf(AmountOf, W \ {w})
  BY <1>2, SumTake
<1> QED
  BY <1>3, <1>4, <1>5, <1>6

\* At first nothing is promised.
LEMMA BalanceInit == Init => WithinBalance
<1> SUFFICES ASSUME Init PROVE WithinBalance
  OBVIOUS
<1>1. Reserved = {}
  BY DEF Init, Reserved, Committed, Sent
<1>2. SumOver(AmountOf, {}) = 0
  <2>1. SumOver(AmountOf, {}) = SumOf(AmountOf, {})
    BY DEF SumOver, SumOf
  <2> QED
    BY <2>1, SumEmpty
<1> QED
  BY <1>1, <1>2, WithdrawalAssumption DEF WithinBalance, WithdrawalAssumption

\* Only CheckBalance promises money, after it has added up all that is promised.
LEMMA BalanceStep ==
    ASSUME TakeTurns, OneApproval, PayoutInv, WithinBalance, [Next]_vars
    PROVE  WithinBalance'
<1> USE DEF PayoutInv, TypeOK, Sent, Go, rowVars, paypalVars, workerVars
<1>0. /\ MethodOf \in [Withdrawals -> {"paypal", "bank", "manual"}] /\ Balance \in Nat
      /\ AmountOf \in [Withdrawals -> Nat]
  BY WithdrawalAssumption DEF WithdrawalAssumption
<1>a. ASSUME Reserved' \subseteq Reserved PROVE WithinBalance'
  <2>1. /\ SumOver(AmountOf, Reserved)' = SumOver(AmountOf, Reserved')
        /\ SumOver(AmountOf, Reserved') <= SumOver(AmountOf, Reserved)
        /\ SumOver(AmountOf, Reserved) \in Nat /\ SumOver(AmountOf, Reserved') \in Nat
    <3>1. Reserved \in SUBSET Withdrawals /\ Reserved' \in SUBSET Withdrawals
      BY DEF Reserved
    <3> QED
      BY <1>a, <3>1, Amounts
  <2> QED
    BY <1>0, <2>1 DEF WithinBalance
\* A step that promises nothing new, sends nothing and forgets no rejection.
<1>b. ASSUME NEW k \in Workers, UNCHANGED <<status, column, rejected, batch, job>>,
             \A l \in Workers : l # k => pc'[l] = pc[l] /\ got'[l] = got[l],
             Committed(k)' => Committed(k)
      PROVE  WithinBalance'
  <2>1. \A l \in Workers : Committed(l)' => Committed(l)
    BY <1>b DEF Committed
  <2>2. Reserved' \subseteq Reserved
    BY <1>b, <2>1 DEF Reserved, Exempt
  <2> QED
    BY <1>a, <2>2
<1>1. CASE UNCHANGED vars
  <2>1. Reserved' = Reserved
    BY <1>1 DEF vars, Reserved, Exempt, Committed
  <2> QED
    BY <1>a, <2>1
<1>2. ASSUME NEW k \in Workers, NEW w \in Withdrawals, UpdateStatus(k, w) PROVE WithinBalance'
  <2>1. \A l \in Workers : l # k => pc'[l] = pc[l] /\ job'[l] = job[l] /\ got'[l] = got[l]
    BY <1>2 DEF UpdateStatus, Carry
  <2>2. UNCHANGED <<status, column, rejected, batch>>
    BY <1>2 DEF UpdateStatus
  <2>3. PICK to \in ValidTransitions(status[w]) :
          /\ pc'[k] = CASE to = "PROCESSING" -> "balance"
                        [] to = "COMPLETED"  -> "checkEarning"
                        [] OTHER             -> "write"
          /\ got'[k].status = to
    BY <1>2 DEF UpdateStatus, Carry
  <2>4. ~Committed(k)'
    BY <2>3 DEF ValidTransitions, Committed
  <2>5. \A l \in Workers : Committed(l)' => Committed(l) /\ job'[l] = job[l]
    BY <2>1, <2>4 DEF Committed
  <2>6. Reserved' \subseteq Reserved
    BY <2>2, <2>5 DEF Reserved, Exempt
  <2> QED
    BY <1>a, <2>6
<1>3. ASSUME NEW k \in Workers, Serve(k) PROVE WithinBalance'
  <2>0. /\ pc[k] # "idle" /\ job' = job
        /\ \A l \in Workers : l # k =>
              pc'[l] = pc[l] /\ got'[l] = got[l] /\ (pc[l] = "idle" \/ job[l] # job[k])
    BY <1>3, ServeFrame
  <2>l. \A l \in Workers : l # k => (Committed(l)' <=> Committed(l))
    BY <2>0 DEF Committed
  <2>i. AgreeInv /\ RequestsAgree /\ RowsAgree
    BY DEF AgreeInv
  <2>1. CASE CheckBalance(k)
    <3> DEFINE w == job[k]
               S == {v \in Withdrawals : status[v] \in {"COMPLETED", "PROCESSING"}}
    <3>1. UNCHANGED <<rowVars, paypalVars, job, got>> /\ pc[k] = "balance"
      BY <2>1 DEF CheckBalance
    <3>2. CASE pc'[k] = "fail"
      BY <1>b, <2>0, <3>1, <3>2 DEF Committed
    <3>3. CASE Affordable(w)
      <4>1. w \in Withdrawals /\ status[w] \in {"INITIATED", "FAILED"}
        BY <2>i, <3>1 DEF RequestsAgree, RequestAgrees
      <4>2. AmountOf[w] + SumOver(AmountOf, S) <= Balance
        BY <3>3 DEF Affordable, Spent
      <4>3. \A v \in Reserved' : v = w \/ v \in S
        <5>a. \A l \in Workers : l # k => ~Committed(l)
          BY <3>1 DEF OneApproval
        <5>1. SUFFICES ASSUME NEW v \in Withdrawals, v # w, ~Exempt(v),
                              \/ MethodOf[v] # "paypal" /\ status[v] \in {"PROCESSING", "COMPLETED"}
                              \/ Sent(v) /\ batch[column[v]] \in Live
                       PROVE  v \in S
          BY <2>0, <2>l, <3>1, <5>a DEF Reserved, Exempt
        <5>2. ~Storing(v)
          BY <3>1, <5>a DEF Storing, Committed
        <5>3. status[v] \in Statuses
          OBVIOUS
        <5> QED
          BY <5>1, <5>2, <5>3 DEF DeadBeforeRetry, RowDead, Exempt, Live, Statuses
      <4> DEFINE T == {w} \cup S
      <4>4. T \in SUBSET Withdrawals /\ w \in T /\ T \ {w} = S /\ Reserved' \in SUBSET T
        BY <4>1, <4>3
      <4> HIDE DEF S, T
      <4>5. SumOver(AmountOf, T) = AmountOf[w] + SumOver(AmountOf, S)
        BY <4>4, Amounts
      <4>6. SumOver(AmountOf, Reserved') <= SumOver(AmountOf, T) /\ SumOver(AmountOf, T) \in Nat
            /\ SumOver(AmountOf, Reserved') \in Nat
        BY <4>4, Amounts
      <4>7. SumOver(AmountOf, Reserved)' = SumOver(AmountOf, Reserved')
        OBVIOUS
      <4> QED
        BY <1>0, <4>2, <4>5, <4>6, <4>7 DEF WithinBalance
    <3>4. Affordable(w) \/ pc'[k] = "fail"
      BY <2>1 DEF CheckBalance
    <3> QED
      BY <3>2, <3>3, <3>4
  <2>2. CASE PayByPayPal(k)
    <3>1. pc[k] = "pay" /\ UNCHANGED <<rowVars, job>>
      BY <2>2 DEF PayByPayPal
    <3>2. \A w \in Withdrawals : Sent(w) => batch'[column[w]] = batch[column[w]]
      <4>1. CASE UNCHANGED batch
        BY <4>1
      <4>2. ASSUME NEW b \in Batches,
                   \A c \in Batches : batch[c] = "none" <=> c >= b,
                   batch' = [batch EXCEPT ![b] = "sent"]
            PROVE  \A w \in Withdrawals : Sent(w) => batch'[column[w]] = batch[column[w]]
        <5>1. batch[b] = "none"
          BY <4>2 DEF Batches
        <5> QED
          BY <4>2, <5>1, UnknownBatch
      <4> QED
        BY <2>2, <4>1, <4>2, Zenon DEF PayByPayPal
    <3>3. Committed(k)
      BY <3>1 DEF Committed
    <3>4. Reserved' \subseteq Reserved
      BY <2>0, <2>l, <3>1, <3>2, <3>3 DEF Reserved, Exempt
    <3> QED
      BY <1>a, <3>4
  <2>3. CASE PayByBank(k)
    <3>1. pc[k] = "pay" /\ UNCHANGED <<rowVars, batch, job>>
      BY <2>3 DEF PayByBank
    <3> QED
      BY <1>b, <2>0, <3>1 DEF Committed
  <2>4. CASE PayByHand(k)
    <3>1. pc[k] = "pay" /\ UNCHANGED <<rowVars, batch, job>>
      BY <2>4 DEF PayByHand
    <3> QED
      BY <1>b, <2>0, <3>1 DEF Committed
  <2>5. CASE StoreBatch(k)
    <3>1. /\ pc[k] = "store" /\ UNCHANGED <<status, rejected, batch, job>>
          /\ column' = [column EXCEPT ![job[k]] = got[k].batch]
      BY <2>5 DEF StoreBatch
    <3>2. Committed(k) /\ got[k].batch # NoBatch
      BY <2>i, <3>1 DEF Committed, RequestsAgree, RequestAgrees
    <3>3. Reserved' \subseteq Reserved
      BY <2>0, <2>l, <3>1, <3>2 DEF Reserved, Exempt
    <3> QED
      BY <1>a, <3>3
  <2>6. CASE FailApproval(k)
    <3>1. /\ pc[k] = "fail" /\ pc'[k] = "idle" /\ UNCHANGED <<column, batch, job>>
          /\ status' = [status EXCEPT ![job[k]] = "FAILED"]
      BY <2>6 DEF FailApproval
    <3>2. UNCHANGED rejected
      <4>1. got[k].rejected = rejected[job[k]]
        BY <2>i, <3>1 DEF RequestsAgree, RequestAgrees
      <4>2. rejected' = [rejected EXCEPT ![job[k]] = rejected[job[k]]]
        BY <2>6, <4>1, Zenon DEF FailApproval
      <4>3. [rejected EXCEPT ![job[k]] = rejected[job[k]]] = rejected
        BY SameValue, Zenon
      <4> QED
        BY <4>2, <4>3
    <3>3. ~Committed(k)'
      BY <3>1 DEF Committed
    <3>4. Reserved' \subseteq Reserved
      BY <2>0, <2>l, <3>1, <3>2, <3>3 DEF Reserved, Exempt
    <3> QED
      BY <1>a, <3>4
  <2>7. CASE CheckEarning(k)
    <3>1. /\ pc[k] = "checkEarning" /\ UNCHANGED <<rowVars, batch, job, got>>
      BY <2>7 DEF CheckEarning
    <3>2. MethodOf[job[k]] # "bank" /\ got[k].status = "COMPLETED"
      BY <2>i, <3>1 DEF RequestsAgree, RequestAgrees, RowsAgree
    <3>3. pc'[k] \in {"write", "idle"}
      BY <2>7 DEF CheckEarning
    <3>4. ~Committed(k)'
      BY <3>1, <3>2, <3>3 DEF Committed
    <3> QED
      BY <1>b, <2>0, <3>1, <3>4
  <2>8. CASE WriteStatus(k)
    <3> DEFINE w == job[k]
    <3>1. /\ pc[k] = "write" /\ pc'[k] \in {"findRecord", "idle"}
          /\ UNCHANGED <<column, batch, job, got>>
          /\ status' = [status EXCEPT ![w] = got[k].status]
      BY <2>8 DEF WriteStatus
    <3>2. \A v \in Withdrawals : rejected[v] => rejected'[v]
      BY <2>8 DEF WriteStatus
    <3>3. ~Committed(k)'
      BY <3>1 DEF Committed
    <3>4. AtWrite(k)
      BY <2>i, <3>1 DEF RequestsAgree, RequestAgrees
    <3>5. MethodOf[w] # "paypal" /\ got[k].status \in {"PROCESSING", "COMPLETED"} =>
            Committed(k) \/ status[w] = "PROCESSING"
      BY <3>1, <3>4 DEF AtWrite, Committed
    <3>6. Reserved' \subseteq Reserved
      BY <2>0, <2>l, <3>1, <3>2, <3>3, <3>5 DEF Reserved, Exempt
    <3> QED
      BY <1>a, <3>6
  <2>9. CASE FindRecord(k)
    <3>1. /\ pc'[k] \in {"writeRecord", "idle"} /\ UNCHANGED <<rowVars, batch, job, got>>
      BY <2>9 DEF FindRecord
    <3> QED
      BY <1>b, <2>0, <3>1 DEF Committed
  <2>10. CASE WriteRecord(k)
    <3>1. /\ pc'[k] = "idle" /\ UNCHANGED <<status, column, rejected, batch, job, got>>
      BY <2>10 DEF WriteRecord
    <3> QED
      BY <1>b, <2>0, <3>1 DEF Committed
  <2>11. CASE ApplyHook(k)
    <3>1. /\ pc[k] = "hook" /\ pc'[k] \in {"findRecord", "idle"} /\ UNCHANGED <<column, batch, job>>
          /\ \A v \in Withdrawals : v # job[k] => status'[v] = status[v]
      BY <2>11 DEF ApplyHook
    <3>2. AtHook(k)
      BY <2>i, <3>1 DEF RequestsAgree, RequestAgrees
    <3>3. UNCHANGED rejected
      <4>1. got[k].rejected = rejected[job[k]]
        BY <3>2 DEF AtHook
      <4>2. rejected' = [rejected EXCEPT ![job[k]] = rejected[job[k]]]
        BY <2>11, <4>1, Zenon DEF ApplyHook
      <4>3. [rejected EXCEPT ![job[k]] = rejected[job[k]]] = rejected
        BY SameValue, Zenon
      <4> QED
        BY <4>2, <4>3
    <3>4. ~Committed(k)'
      BY <3>1 DEF Committed
    <3>5. MethodOf[job[k]] = "paypal"
      BY <3>2 DEF AtHook, BatchInv, OwnBatches
    <3>6. Reserved' \subseteq Reserved
      BY <2>0, <2>l, <3>1, <3>3, <3>4, <3>5 DEF Reserved, Exempt
    <3> QED
      BY <1>a, <3>6
  <2> QED
    BY <1>3, <2>1, <2>2, <2>3, <2>4, <2>5, <2>6, <2>7, <2>8, <2>9, <2>10, <2>11 DEF Serve
<1>4. ASSUME NEW b \in Batches, PayPalMoves(b) PROVE WithinBalance'
  <2>1. UNCHANGED <<rowVars, workerVars>>
        /\ \A c \in Batches : batch'[c] \in Live => batch[c] \in Live
    BY <1>4 DEF PayPalMoves, Live
  <2>2. \A w \in Withdrawals : Sent(w) => column[w] \in Batches
    OBVIOUS
  <2>3. Reserved' \subseteq Reserved
    BY <2>1, <2>2 DEF Reserved, Exempt, Committed
  <2> QED
    BY <1>a, <2>3
<1>5. ASSUME NEW k \in Workers, NEW h \in hooks, ReceiveHook(k, h) PROVE WithinBalance'
  <2>1. /\ UNCHANGED <<rowVars, batch>> /\ pc'[k] \in {"idle", "hook"}
        /\ \A l \in Workers : l # k => pc'[l] = pc[l] /\ job'[l] = job[l] /\ got'[l] = got[l]
    BY <1>5 DEF ReceiveHook, Carry
  <2>2. \A l \in Workers : Committed(l)' => Committed(l) /\ job'[l] = job[l]
    BY <2>1 DEF Committed
  <2>3. Reserved' \subseteq Reserved
    BY <2>1, <2>2 DEF Reserved, Exempt
  <2> QED
    BY <1>a, <2>3
<1> QED
  BY <1>1, <1>2, <1>3, <1>4, <1>5 DEF Next, Deliver

\* What cannot be booked aside, a withdrawal was paid once at most, and only while reserved.
LEMMA PaidWhileReserved ==
    ASSUME TakeTurns, PayoutInv, NEW w \in Withdrawals
    PROVE  /\ PaymentsOf(w) \in Nat /\ Unbooked(w) \in Nat
           /\ PaymentsOf(w) <= Unbooked(w) + IF w \in Reserved THEN 1 ELSE 0
<1>1. /\ PaymentsOf(w) \in Nat /\ lost[w] \in Nat
      /\ PaymentsOf(w) <= lost[w] + 1
      /\ PaymentsOf(w) > lost[w] =>
            \/ MethodOf[w] = "bank" /\ (status[w] = "COMPLETED" \/ Wiring(w))
            \/ MethodOf[w] = "manual" /\ status[w] = "COMPLETED"
            \/ MethodOf[w] = "paypal" /\ \E b \in Batches :
                  batchOf[b] = w /\ batch[b] \in Live /\ (b = column[w] \/ InStore(b))
  BY PaymentsBound DEF PayoutInv
<1>2. Unbooked(w) = lost[w] + IF Exempt(w) THEN 1 ELSE 0
  BY DEF Unbooked, Exempt
<1>3. ASSUME PaymentsOf(w) > lost[w], ~Exempt(w) PROVE w \in Reserved
  <2>1. CASE MethodOf[w] = "bank"
    BY <1>1, <1>3, <2>1 DEF Reserved, Wiring, Committed
  <2>2. CASE MethodOf[w] = "manual"
    BY <1>1, <1>3, <2>2 DEF Reserved
  <2>3. CASE MethodOf[w] = "paypal"
    <3>1. PICK b \in Batches : batchOf[b] = w /\ batch[b] \in Live /\ (b = column[w] \/ InStore(b))
      BY <1>1, <1>3, <2>3
    <3>2. b # NoBatch
      BY DEF Batches, NoBatch
    <3>3. CASE b = column[w]
      BY <1>3, <3>1, <3>2, <3>3 DEF Reserved, Sent
    <3>4. CASE InStore(b)
      <4>1. PICK k \in Workers : pc[k] = "store" /\ got[k].batch = b
        BY <3>4 DEF InStore
      <4>2. job[k] = w /\ Committed(k)
        BY <3>1, <3>2, <4>1 DEF PayoutInv, BatchInv, OwnBatches, Committed
      <4> QED
        BY <1>3, <4>2 DEF Reserved
    <3> QED
      BY <3>1, <3>3, <3>4
  <2> QED
    BY <1>1, <1>3, <2>1, <2>2, <2>3
<1> QED
  BY <1>1, <1>2, <1>3

\* NeverOverpaid, when the requests about a withdrawal and the seller's approvals take turns and
\* each payout has one webhook: for any amounts and any balance, approvals, failures and retries
\* together bring the seller no more than the balance, the lost answers and the payouts rejected
\* on their way aside.
THEOREM NeverOverpaidInTurn ==
    ASSUME OneKind
    PROVE  Spec /\ []TakeTurns /\ []OneApproval => []NeverOverpaid
<1>1. Init => PayoutInv /\ WithinBalance
  BY TypeInit, BatchInit, AgreeInit, WiresInit, DeadInit, OrphansInit, BalanceInit DEF PayoutInv
<1>2. TakeTurns /\ OneApproval /\ PayoutInv /\ WithinBalance /\ [Next]_vars =>
        (PayoutInv /\ WithinBalance)'
  <2>1. TakeTurns /\ PayoutInv /\ [Next]_vars => PayoutInv'
    BY OneKind, TypeStep, BatchStep, AgreeStep, WiresStep, DeadStep, OrphansStep
       DEF PayoutInv
  <2> QED
    BY <2>1, BalanceStep
<1>3. ASSUME TakeTurns, PayoutInv, WithinBalance PROVE NeverOverpaid
  <2> DEFINE paid   == [w \in Withdrawals |-> PaymentsOf(w) * AmountOf[w]]
             extra  == [w \in Withdrawals |-> Unbooked(w) * AmountOf[w]]
             booked == [w \in Withdrawals |-> IF w \in Reserved THEN AmountOf[w] ELSE 0]
             both   == [w \in Withdrawals |-> extra[w] + booked[w]]
  <2>0. IsFiniteSet(Withdrawals) /\ Balance \in Nat /\ \A w \in Withdrawals : AmountOf[w] \in Nat
    BY WithdrawalAssumption DEF WithdrawalAssumption
  <2>1. \A p, u, a \in Nat : /\ p * a \in Nat
                             /\ p <= u => p * a <= u * a
                             /\ p <= u + 1 => p * a <= u * a + a
    <3>1. \A p, u, a \in Nat : p <= u => p * a <= u * a
      OBVIOUS
    <3> QED
      BY <3>1
  <2>2. \A w \in Withdrawals :
          /\ paid[w] \in Nat /\ extra[w] \in Nat /\ booked[w] \in Nat /\ both[w] \in Nat
          /\ paid[w] <= both[w]
    <3>1. SUFFICES ASSUME NEW w \in Withdrawals
                   PROVE  /\ paid[w] \in Nat /\ extra[w] \in Nat /\ booked[w] \in Nat /\ both[w] \in Nat
                          /\ paid[w] <= both[w]
      OBVIOUS
    <3>2. /\ PaymentsOf(w) \in Nat /\ Unbooked(w) \in Nat /\ AmountOf[w] \in Nat
          /\ PaymentsOf(w) <= Unbooked(w) + IF w \in Reserved THEN 1 ELSE 0
      BY <1>3, <2>0, PaidWhileReserved
    <3> QED
      BY <2>1, <3>2
  <2>3. \A w \in Withdrawals : booked[w] = IF w \in Reserved THEN AmountOf[w] ELSE 0
    OBVIOUS
  <2>4. \A w \in Withdrawals : both[w] = extra[w] + booked[w]
    OBVIOUS
  <2>5. Withdrawals \cap Reserved = Reserved
    BY DEF Reserved
  <2>d. SumOver(paid, Withdrawals) <= Balance + SumOver(extra, Withdrawals) => NeverOverpaid
    BY DEF NeverOverpaid
  <2> HIDE DEF paid, extra, booked, both
  <2>6. SumOf(booked, Withdrawals) = SumOf(AmountOf, Reserved)
    <3>1. /\ IsFiniteSet(Withdrawals)
          /\ \A w \in Withdrawals :
                AmountOf[w] \in Nat /\ booked[w] = IF w \in Reserved THEN AmountOf[w] ELSE 0
      BY <2>0, <2>3
    <3>2. SumOf(booked, Withdrawals) = SumOf(AmountOf, Withdrawals \cap Reserved)
      BY ONLY <3>1, SumFilter
    <3> QED
      BY <2>5, <3>2
  <2>7. SumOf(both, Withdrawals) = SumOf(extra, Withdrawals) + SumOf(booked, Withdrawals)
    BY <2>0, <2>2, <2>4, SumPlus
  <2>8. SumOf(paid, Withdrawals) <= SumOf(both, Withdrawals)
    BY <2>0, <2>2, SumMonotone
  <2>9. /\ SumOf(paid, Withdrawals) \in Nat /\ SumOf(extra, Withdrawals) \in Nat
        /\ SumOf(booked, Withdrawals) \in Nat
    BY <2>0, <2>2, SumType
  <2>10. SumOf(AmountOf, Reserved) <= Balance
    BY <1>3 DEF WithinBalance, SumOver, SumOf
  <2>11. SumOver(paid, Withdrawals) = SumOf(paid, Withdrawals)
         /\ SumOver(extra, Withdrawals) = SumOf(extra, Withdrawals)
    BY DEF SumOver, SumOf
  <2> QED
    BY <2>0, <2>d, <2>6, <2>7, <2>8, <2>9, <2>10, <2>11
<1> QED
  BY <1>1, <1>2, <1>3, PTL DEF Spec
=============================================================================
