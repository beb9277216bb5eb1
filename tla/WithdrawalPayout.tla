--------------------------- MODULE WithdrawalPayout ---------------------------
(***************************************************************************)
(* Withdrawal requests of one seller: the admin's PATCH of their status     *)
(* (WithdrawalsService.updateStatus), the PayPal payout or Chapa transfer   *)
(* an approval makes, and the PayPal webhooks that report on a payout.      *)
(*                                                                          *)
(* A worker is one admin request or one webhook delivery; its pc names the  *)
(* await it is at.  Each reads the withdrawal row once and later updates it *)
(* by id.  PayPal keeps its own record of every payout batch.               *)
(***************************************************************************)
EXTENDS Naturals, FiniteSets, FiniteSetsExt

CONSTANTS Withdrawals, \* Withdrawal.id
          Workers,     \* admin requests and webhook deliveries served at a time
          MethodOf,    \* "paypal", "bank" (Chapa with bank details) or "manual" (without)
          AmountOf,    \* Withdrawal.amount
          Balance,     \* what the seller may withdraw in all
          Hooks,       \* the webhook events subscribed to: "batch", "item"
          MaxBatches,  \* bound on the payouts made
          MaxLost      \* bound on the answers lost

Batches == 1..MaxBatches
NoBatch == 0

WithdrawalAssumption ==
    /\ IsFiniteSet(Withdrawals) /\ Withdrawals # {}
    /\ MethodOf \in [Withdrawals -> {"paypal", "bank", "manual"}]
    /\ AmountOf \in [Withdrawals -> Nat \ {0}]
    /\ Balance \in Nat
    /\ Hooks \subseteq {"batch", "item"}
    /\ {MaxBatches, MaxLost} \subseteq Nat

ASSUME WithdrawalAssumption

VARIABLES
    status,   \* Withdrawal.status
    column,   \* its payoutBatchId column
    meta,     \* the payoutBatchId a webhook left in its metadata
    rejected, \* whether its metadata hold a rejectionReason
    record,   \* its WITHDRAWAL transaction rows
    wired,    \* how often the bank transferred its amount
    lost,     \* how often a provider took its money and the answer was lost
    batch,    \* PayPal: the state of a payout batch
    batchOf,  \* PayPal: the withdrawal a batch was made for
    hooks,    \* webhooks under way
    pc, job,  \* the await a worker is at and the withdrawal it works on
    got       \* what it carries there: a batch id, the rejection of the metadata it has
              \* read, the status it will write and whether it will write a record

rowVars    == <<status, column, meta, rejected, record>>
paypalVars == <<batch, batchOf, hooks>>
workerVars == <<pc, job, got>>
vars == <<rowVars, wired, lost, paypalVars, workerVars>>

Statuses == {"INITIATED", "PROCESSING", "COMPLETED", "FAILED", "REJECTED", "REFUNDED"}
BatchStates == {"none", "sent", "paid", "failed", "unclaimed", "returned"}
Stages == {"idle", "balance", "pay", "store", "fail", "write", "checkEarning",
           "hook", "findRecord", "writeRecord"}
Hook == [kind : {"batch", "item"}, batch : Batches, state : BatchStates]
Nothing == [batch |-> NoBatch, rejected |-> FALSE, status |-> "same", recorded |-> FALSE]

Init ==
    /\ status = [w \in Withdrawals |-> "INITIATED"]
    /\ column = [w \in Withdrawals |-> NoBatch]
    /\ meta   = [w \in Withdrawals |-> NoBatch]
    /\ rejected = [w \in Withdrawals |-> FALSE]
    /\ record = [w \in Withdrawals |-> 0]
    /\ wired  = [w \in Withdrawals |-> 0]
    /\ lost   = [w \in Withdrawals |-> 0]
    /\ batch   = [b \in Batches |-> "none"]
    /\ batchOf \in [Batches -> {CHOOSE w \in Withdrawals : TRUE}]
    /\ hooks = {}
    /\ pc  = [k \in Workers |-> "idle"]
    /\ job \in [Workers -> {CHOOSE w \in Withdrawals : TRUE}]
    /\ got = [k \in Workers |-> Nothing]

Go(k, from, to) == pc[k] = from /\ pc' = [pc EXCEPT ![k] = to]
Carry(k, w, b, s, r) ==
    got' = [got EXCEPT ![k] = [batch |-> b, rejected |-> rejected[w], status |-> s, recorded |-> r]]

-----------------------------------------------------------------------------
(* PATCH /withdrawals/:id/status.                                            *)

\* Mutant of ValidTransitions: a word that is no payment status.
Mut_TransitionsCancel(s) ==
    CASE s = "INITIATED"  -> {"PROCESSING", "CANCELLED"}
      [] s = "PROCESSING" -> {"COMPLETED", "CANCELLED"}
      [] s = "FAILED"     -> {"INITIATED", "PROCESSING"}
      [] OTHER            -> {}

ValidTransitions(s) ==
    CASE s = "INITIATED"  -> {"PROCESSING", "REJECTED"}
      [] s = "PROCESSING" -> {"COMPLETED", "REJECTED"}
      [] s = "FAILED"     -> {"INITIATED", "PROCESSING"}
      [] OTHER            -> {}

\* The status is validated against the row read here, and only here.
UpdateStatus(k, w) ==
    \E to \in ValidTransitions(status[w]) :
        /\ Go(k, "idle", CASE to = "PROCESSING" -> "balance"
                           [] to = "COMPLETED"  -> "checkEarning"
                           [] OTHER             -> "write")
        /\ job' = [job EXCEPT ![k] = w]
        /\ Carry(k, w, meta[w], to, to = "COMPLETED")
        /\ UNCHANGED <<rowVars, wired, lost, paypalVars>>

SumOver(f, W) == MapThenSumSet(LAMBDA w : f[w], W)
Spent(statuses) == SumOver(AmountOf, {w \in Withdrawals : status[w] \in statuses})

\* Mutant of Affordable: earlier withdrawals are not counted.
Mut_AffordableAlone(w) == AmountOf[w] <= Balance

\* getWithdrawable counts what is approved or paid against the balance.
Affordable(w) == AmountOf[w] + Spent({"COMPLETED", "PROCESSING"}) <= Balance

CheckBalance(k) ==
    /\ \/ Affordable(job[k]) /\ Go(k, "balance", "pay")
       \/ ~Affordable(job[k]) /\ Go(k, "balance", "fail")
    /\ UNCHANGED <<rowVars, wired, lost, paypalVars, job, got>>

\* The provider acts, and the answer never arrives: the catch takes it for a failure.
LoseAnswer(w) ==
    /\ SumOver(lost, Withdrawals) < MaxLost
    /\ lost' = [lost EXCEPT ![w] = @ + 1]

\* processPayout makes a new batch on every call: its sender id is random.
PayByPayPal(k) ==
    LET w == job[k] IN
    /\ MethodOf[w] = "paypal"
    /\ \/ /\ Go(k, "pay", "fail")
          /\ UNCHANGED <<batch, batchOf, got, lost>>
       \/ \E b \in Batches :
            /\ \A c \in Batches : batch[c] = "none" <=> c >= b
            /\ batch' = [batch EXCEPT ![b] = "sent"]
            /\ batchOf' = [batchOf EXCEPT ![b] = w]
            /\ \/ Go(k, "pay", "store") /\ Carry(k, w, b, "PROCESSING", FALSE) /\ UNCHANGED lost
               \/ LoseAnswer(w) /\ Go(k, "pay", "fail") /\ UNCHANGED got
    /\ UNCHANGED <<rowVars, wired, hooks, job>>

\* initiateTransfer: a transfer that is answered completes the withdrawal at once.
PayByBank(k) ==
    LET w == job[k] IN
    /\ MethodOf[w] = "bank"
    /\ \/ /\ Go(k, "pay", "write")
          /\ wired' = [wired EXCEPT ![w] = @ + 1]
          /\ Carry(k, w, NoBatch, "COMPLETED", TRUE)
          /\ UNCHANGED lost
       \/ Go(k, "pay", "fail") /\ UNCHANGED <<wired, lost, got>>
       \/ /\ LoseAnswer(w)
          /\ Go(k, "pay", "fail")
          /\ wired' = [wired EXCEPT ![w] = @ + 1]
          /\ UNCHANGED got
    /\ UNCHANGED <<rowVars, paypalVars, job>>

\* Without bank details the admin transfers the money and completes the row by hand.
PayByHand(k) ==
    /\ MethodOf[job[k]] = "manual"
    /\ Go(k, "pay", "write")
    /\ UNCHANGED <<rowVars, wired, lost, paypalVars, job, got>>

\* The batch id goes to the column, then the general update follows.
StoreBatch(k) ==
    /\ Go(k, "store", "write")
    /\ column' = [column EXCEPT ![job[k]] = got[k].batch]
    /\ UNCHANGED <<status, meta, rejected, record, wired, lost, paypalVars, job, got>>

\* The catch of an approval: FAILED, with the metadata read at the start.
FailApproval(k) ==
    /\ Go(k, "fail", "idle")
    /\ status' = [status EXCEPT ![job[k]] = "FAILED"]
    /\ meta' = [meta EXCEPT ![job[k]] = got[k].batch]
    /\ rejected' = [rejected EXCEPT ![job[k]] = got[k].rejected]
    /\ UNCHANGED <<column, record, wired, lost, paypalVars, job, got>>

\* A completion by hand is checked against the earnings without the other completions.
CheckEarning(k) ==
    LET w == job[k]
        others == {v \in Withdrawals \ {w} : status[v] = "COMPLETED"}
    IN /\ \/ AmountOf[w] + SumOver(AmountOf, others) <= Balance /\ Go(k, "checkEarning", "write")
          \/ AmountOf[w] + SumOver(AmountOf, others) > Balance /\ Go(k, "checkEarning", "idle")
       /\ UNCHANGED <<rowVars, wired, lost, paypalVars, job, got>>

\* The final update by id; a manual completion stands for a transfer made by hand.
WriteStatus(k) ==
    LET w == job[k]  to == got[k].status IN
    /\ Go(k, "write", IF got[k].recorded THEN "findRecord" ELSE "idle")
    /\ status' = [status EXCEPT ![w] = to]
    /\ meta' = IF to = "REJECTED" THEN [meta EXCEPT ![w] = got[k].batch] ELSE meta
    /\ rejected' = IF to = "REJECTED" THEN [rejected EXCEPT ![w] = TRUE] ELSE rejected
    /\ wired' = IF MethodOf[w] = "manual" /\ to = "COMPLETED"
                THEN [wired EXCEPT ![w] = @ + 1] ELSE wired
    /\ UNCHANGED <<column, record, lost, paypalVars, job, got>>

-----------------------------------------------------------------------------
(* createWithdrawalTransaction: find, then create.                           *)

\* Mutant of FindRecord: the test is inverted.
Mut_FindRecordInverted(k) ==
    /\ Go(k, "findRecord", IF record[job[k]] = 0 THEN "idle" ELSE "writeRecord")
    /\ UNCHANGED <<rowVars, wired, lost, paypalVars, job, got>>

FindRecord(k) ==
    /\ Go(k, "findRecord", IF record[job[k]] = 0 THEN "writeRecord" ELSE "idle")
    /\ UNCHANGED <<rowVars, wired, lost, paypalVars, job, got>>

WriteRecord(k) ==
    /\ Go(k, "writeRecord", "idle")
    /\ record' = [record EXCEPT ![job[k]] = @ + 1]
    /\ UNCHANGED <<status, column, meta, rejected, wired, lost, paypalVars, job, got>>

-----------------------------------------------------------------------------
(* PayPal and its webhooks.                                                  *)

\* A batch is paid, fails, or waits for a recipient who claims it or lets it return.
PayPalMoves(b) ==
    \E to \in BatchStates :
        /\ \/ batch[b] = "sent" /\ to \in {"paid", "failed", "unclaimed"}
           \/ batch[b] = "unclaimed" /\ to \in {"paid", "returned"}
        /\ batch' = [batch EXCEPT ![b] = to]
        /\ hooks' = hooks \cup
             {[kind |-> kind, batch |-> b, state |-> to] :
                kind \in IF to \in {"paid", "failed"} THEN Hooks ELSE Hooks \ {"batch"}}
        /\ UNCHANGED <<rowVars, wired, lost, batchOf, workerVars>>

\* Mutant of Matches: the payoutBatchId column is not searched.
Mut_MatchesMeta(b) ==
    {w \in Withdrawals : meta[w] = b /\ status[w] \in {"PROCESSING", "INITIATED"}}

\* The withdrawal a webhook is about: by the column, or else by the metadata of one
\* that is not settled yet.
Matches(b) ==
    LET byColumn == {w \in Withdrawals : column[w] = b}
        byMeta   == {w \in Withdrawals :
                        meta[w] = b /\ status[w] \in {"PROCESSING", "INITIATED"}}
    IN IF byColumn # {} THEN byColumn ELSE byMeta

\* Mutants of SystemStatus: a failed payout counts as paid; an unclaimed one as failed.
Mut_FailedIsPaid(state) == IF state = "returned" THEN "REFUNDED" ELSE "COMPLETED"
Mut_UnclaimedIsFailed(state) ==
    CASE state = "paid" -> "COMPLETED" [] state = "returned" -> "REFUNDED" [] OTHER -> "FAILED"

\* handlePayoutItemWebhook and handlePayoutBatchWebhook: PayPal's state as a status.
SystemStatus(state) ==
    CASE state \in {"paid", "unclaimed"} -> "COMPLETED"
      [] state = "failed"                -> "FAILED"
      [] OTHER                           -> "REFUNDED"

\* A webhook is acknowledged whether or not it finds its withdrawal.
ReceiveHook(k, h) ==
    /\ hooks' = hooks \ {h}
    /\ \/ /\ Matches(h.batch) = {}
          /\ pc[k] = "idle"
          /\ UNCHANGED workerVars
       \/ \E w \in Matches(h.batch) :
            /\ Go(k, "idle", "hook")
            /\ job' = [job EXCEPT ![k] = w]
            /\ Carry(k, w, h.batch,
                     IF SystemStatus(h.state) = status[w] THEN "same" ELSE SystemStatus(h.state),
                     h.kind = "item" /\ SystemStatus(h.state) = "COMPLETED")
    /\ UNCHANGED <<rowVars, wired, lost, batch, batchOf>>

ApplyHook(k) ==
    LET w == job[k] IN
    /\ Go(k, "hook", IF got[k].recorded THEN "findRecord" ELSE "idle")
    /\ status' = IF got[k].status = "same" THEN status
                 ELSE [status EXCEPT ![w] = got[k].status]
    /\ meta' = [meta EXCEPT ![w] = got[k].batch]
    /\ rejected' = [rejected EXCEPT ![w] = got[k].rejected]
    /\ UNCHANGED <<column, record, wired, lost, paypalVars, job, got>>

-----------------------------------------------------------------------------
Serve(k) ==
    \/ CheckBalance(k) \/ PayByPayPal(k) \/ PayByBank(k) \/ PayByHand(k)
    \/ StoreBatch(k) \/ FailApproval(k) \/ CheckEarning(k) \/ WriteStatus(k)
    \/ FindRecord(k) \/ WriteRecord(k) \/ ApplyHook(k)

Deliver == \E k \in Workers, h \in hooks : ReceiveHook(k, h)

Next ==
    \/ \E k \in Workers : Serve(k) \/ \E w \in Withdrawals : UpdateStatus(k, w)
    \/ \E b \in Batches : PayPalMoves(b)
    \/ Deliver

Spec == Init /\ [][Next]_vars

\* The event loop finishes what it accepted, and PayPal delivers its webhooks: strongly
\* fair, because a server is never kept from accepting one by the requests it is serving.
FairSpec == Spec /\ SF_vars(Deliver) /\ \A k \in Workers : WF_vars(Serve(k))
-----------------------------------------------------------------------------
(* Properties.                                                               *)

TypeOK ==
    /\ status \in [Withdrawals -> Statuses]
    /\ column \in [Withdrawals -> Batches \cup {NoBatch}]
    /\ meta   \in [Withdrawals -> Batches \cup {NoBatch}]
    /\ rejected \in [Withdrawals -> BOOLEAN]
    /\ record \in [Withdrawals -> Nat]
    /\ wired  \in [Withdrawals -> Nat]
    /\ lost   \in [Withdrawals -> 0..MaxLost]
    /\ batch   \in [Batches -> BatchStates]
    /\ batchOf \in [Batches -> Withdrawals]
    /\ hooks \subseteq Hook
    /\ pc  \in [Workers -> Stages]
    /\ job \in [Workers -> Withdrawals]
    /\ got \in [Workers -> [batch : Batches \cup {NoBatch}, rejected : BOOLEAN,
                            status : Statuses \cup {"same"}, recorded : BOOLEAN]]

\* The payments of a withdrawal that reached the seller, or still may.
PaymentsOf(w) ==
    wired[w] + Cardinality({b \in Batches :
                  batchOf[b] = w /\ batch[b] \in {"sent", "paid", "unclaimed"}})

\* A withdrawal is paid out at most once, through every retry of a failed payout, but for
\* the answers about it that were lost: each of those costs at most one payment.
PaidOnce == \A w \in Withdrawals : PaymentsOf(w) <= 1 + lost[w]

\* What the books cannot know: the payments of which the answer was lost, and a payout
\* that an administrator rejected after it had been sent.
Sent(w) == column[w] # NoBatch
Unbooked(w) == lost[w] + IF rejected[w] /\ Sent(w) THEN 1 ELSE 0

\* Together the withdrawals never bring the seller more than the balance, however approvals,
\* failures, retries and webhooks follow each other, but for payments not in the books.
NeverOverpaid ==
    SumOver([w \in Withdrawals |-> PaymentsOf(w) * AmountOf[w]], Withdrawals)
        <= Balance + SumOver([w \in Withdrawals |-> Unbooked(w) * AmountOf[w]], Withdrawals)

Busy(w) == \E k \in Workers : pc[k] # "idle" /\ job[k] = w

\* A transfer whose answer arrived is booked as such: COMPLETED with one transaction row,
\* whatever became of the attempts before it.
PaidIsBooked ==
    \A w \in Withdrawals :
        wired[w] > lost[w] /\ ~Busy(w) => status[w] = "COMPLETED" /\ record[w] = 1

\* A withdrawal is never shown as paid unless a provider took its money to the seller,
\* whatever answers were lost on the way.
CompletedWasSent ==
    \A w \in Withdrawals : status[w] = "COMPLETED" /\ hooks = {} /\ ~Busy(w) =>
        wired[w] > 0 \/ \E b \in Batches :
                             batchOf[b] = w /\ batch[b] \in {"sent", "paid", "unclaimed", "returned"}

\* A withdrawal whose latest payout PayPal has finished does not stay waiting for it.
FinishedPayoutIsNoticed ==
    \A w \in Withdrawals :
        (\E b \in Batches : column[w] = b /\ batch[b] \in {"paid", "failed"})
            ~> (status[w] # "PROCESSING")
=============================================================================
