---------------------------- MODULE SellerBalance ----------------------------
(***************************************************************************)
(* What one seller may withdraw: the cached earnings of the User row, the   *)
(* seller's ledger, the open disputes and the withdrawals BalanceService    *)
(* computes it from, the requests and approvals ArtistService and           *)
(* WithdrawalsService check against it, and the refresh of the cache that   *)
(* a settled refund starts without waiting for it.                          *)
(*                                                                          *)
(* getWithdrawable is five queries, one after the other; other requests     *)
(* run between them.  What moves an order (its completion, its receipt, its *)
(* dispute) is reduced to what it does to the balance: OrderPayment and     *)
(* DisputeWorkflow have the details.                                        *)
(***************************************************************************)
EXTENDS Integers, FiniteSets, FiniteSetsExt

CONSTANTS Orders,      \* the seller's orders
          Withdrawals, \* Withdrawal.id
          Workers,     \* requests and approvals of withdrawals served at a time
          SlowHold,    \* may other requests run between a credit and its hold?
          ProviderOf,  \* the provider an order was paid through, a withdrawal is paid by
          AmountOf     \* an order's net earnings, a withdrawal's amount

Providers == {"paypal", "chapa"}

SellerBalanceAssumption ==
    /\ IsFiniteSet(Orders) /\ IsFiniteSet(Withdrawals) /\ Withdrawals # {}
    /\ SlowHold \in BOOLEAN
    /\ ProviderOf \in [Orders \cup Withdrawals -> Providers]
    /\ AmountOf \in [Orders \cup Withdrawals -> Nat \ {0}]

ASSUME SellerBalanceAssumption

VARIABLES
    earning,  \* User.earningPaypal and User.earningChapa
    phase,    \* how far an order is
    hold,     \* its pending credit: none yet, held, released or cancelled
    debit,    \* its DISPUTE_REFUND_DEBIT row: none, or marked cacheSynced or not
    refresh,  \* the cache refresh its settlement started
    base,     \* the cache that refresh has read
    unsynced, \* the debits it will apply
    wstatus,  \* Withdrawal.status
    pc, job,  \* the await a request is at, and its withdrawal
    seen      \* getWithdrawable's sum so far, per provider

saleVars    == <<earning, phase, hold>>
refreshVars == <<debit, refresh, base, unsynced>>
tellerVars  == <<pc, job, seen>>
vars == <<saleVars, refreshVars, wstatus, tellerVars>>

ReadStages == {"cache", "withdrawn", "debits", "disputed", "pending"}
Stages == {"idle"} \cup ReadStages \cup {"decide", "write"}

Init ==
    /\ earning = [p \in Providers |-> 0]
    /\ phase = [o \in Orders |-> "unsold"]
    /\ hold  = [o \in Orders |-> "none"]
    /\ debit = [o \in Orders |-> "none"]
    /\ refresh  = [o \in Orders |-> "none"]
    /\ base     = [o \in Orders |-> 0]
    /\ unsynced = [o \in Orders |-> 0]
    /\ wstatus = [w \in Withdrawals |-> "NONE"]
    /\ pc   = [k \in Workers |-> "idle"]
    /\ job \in [Workers -> {CHOOSE w \in Withdrawals : TRUE}]
    /\ seen = [k \in Workers |-> [p \in Providers |-> 0]]

Total(S)     == MapThenSumSet(LAMBDA x : AmountOf[x], S)
Of(p, S)     == {x \in S : ProviderOf[x] = p}
Excess(a, b) == IF a > b THEN a - b ELSE 0

-----------------------------------------------------------------------------
(* The orders of the seller.                                                 *)

\* completeOrder increments the cache, and records the hold afterwards.
CreditEarnings(o) ==
    /\ phase[o] = "unsold"
    /\ phase' = [phase EXCEPT ![o] = "paid"]
    /\ earning' = [earning EXCEPT ![ProviderOf[o]] = @ + AmountOf[o]]
    /\ hold' = IF SlowHold THEN hold ELSE [hold EXCEPT ![o] = "held"]
    /\ UNCHANGED <<refreshVars, wstatus, tellerVars>>

RecordPendingCredit(o) ==
    /\ phase[o] # "unsold" /\ hold[o] = "none"
    /\ hold' = [hold EXCEPT ![o] = "held"]
    /\ UNCHANGED <<earning, phase, refreshVars, wstatus, tellerVars>>

\* releasePendingCredit and cancelPendingCredit: nothing without a pending row.
SettleHold(o, to) == hold' = IF hold[o] = "held" THEN [hold EXCEPT ![o] = to] ELSE hold

\* A clean receipt, or resolveSellerWins.
Deliver(o) ==
    /\ phase[o] \in {"paid", "disputed"}
    /\ phase' = [phase EXCEPT ![o] = "delivered"]
    /\ SettleHold(o, "released")
    /\ UNCHANGED <<earning, refreshVars, wstatus, tellerVars>>

OpenDispute(o) ==
    /\ phase[o] = "paid"
    /\ phase' = [phase EXCEPT ![o] = "disputed"]
    /\ UNCHANGED <<earning, hold, refreshVars, wstatus, tellerVars>>

\* The settlement of a refund writes the debit and starts a refresh of the cache.
SettleRefund(o) ==
    /\ phase[o] = "disputed"
    /\ phase' = [phase EXCEPT ![o] = "refunded"]
    /\ debit' = [debit EXCEPT ![o] = "open"]
    /\ refresh' = [refresh EXCEPT ![o] = "readCache"]
    /\ SettleHold(o, "cancelled")
    /\ UNCHANGED <<earning, base, unsynced, wstatus, tellerVars>>

-----------------------------------------------------------------------------
(* refreshEarningCache.                                                      *)

\* Mutant of Debits: a debit that is marked as synced no longer counts.
Mut_DebitsUnsynced(p, marks) == Total({o \in Of(p, Orders) : debit[o] = "open"})

Debits(p, marks) == Total({o \in Of(p, Orders) : debit[o] \in marks})

RefreshStep(o, from, to) ==
    /\ refresh[o] = from
    /\ refresh' = [refresh EXCEPT ![o] = to]
    /\ UNCHANGED <<phase, hold, wstatus, tellerVars>>

\* Its local variables are dead: forgotten, so that states differ in live data only.
ForgetRead(o) == base' = [base EXCEPT ![o] = 0] /\ unsynced' = [unsynced EXCEPT ![o] = 0]

ReadCache(o) ==
    /\ RefreshStep(o, "readCache", "readDebits")
    /\ base' = [base EXCEPT ![o] = earning[ProviderOf[o]]]
    /\ UNCHANGED <<earning, debit, unsynced>>

\* Mutant of ReadDebits: the sign of the ledger's amounts is taken over.
Mut_ReadDebitsSigned(o) ==
    LET new == Debits(ProviderOf[o], {"open"}) IN
    /\ RefreshStep(o, "readDebits", IF new = 0 THEN "done" ELSE "write")
    /\ unsynced' = [unsynced EXCEPT ![o] = -new]
    /\ UNCHANGED <<earning, debit, base>>

ReadDebits(o) ==
    LET new == Debits(ProviderOf[o], {"open"}) IN
    /\ RefreshStep(o, "readDebits", IF new = 0 THEN "done" ELSE "write")
    /\ unsynced' = [unsynced EXCEPT ![o] = new]
    /\ UNCHANGED <<earning, debit, base>>

\* The cache is set, not decremented.
WriteCache(o) ==
    /\ RefreshStep(o, "write", "mark")
    /\ earning' = [earning EXCEPT ![ProviderOf[o]] = base[o] - unsynced[o]]
    /\ ForgetRead(o)
    /\ UNCHANGED debit

\* Every debit of the provider is marked, whether this refresh applied it or not.
MarkSynced(o) ==
    /\ RefreshStep(o, "mark", "done")
    /\ debit' = [x \in Orders |->
                   IF ProviderOf[x] = ProviderOf[o] /\ debit[x] = "open" THEN "synced" ELSE debit[x]]
    /\ UNCHANGED <<earning, base, unsynced>>

\* A statement fails: the error is logged, nothing tries again.
RefreshFails(o) ==
    /\ \E from \in {"readCache", "readDebits", "write", "mark"} : RefreshStep(o, from, "done")
    /\ ForgetRead(o)
    /\ UNCHANGED <<earning, debit>>

-----------------------------------------------------------------------------
(* getWithdrawable, and the formula it computes.                             *)

Withdrawn(p) == Total({w \in Of(p, Withdrawals) : wstatus[w] \in {"COMPLETED", "PROCESSING"}})
Disputed(p)  == Total({o \in Of(p, Orders) : phase[o] = "disputed"})
Pending(p)   == Total({o \in Of(p, Orders) : hold[o] = "held"})

Available(p) ==
    Excess(earning[p],
           Debits(p, {"open", "synced"}) + Withdrawn(p) + Disputed(p) + Pending(p))

\* A request or an approval of a withdrawal begins by reading the balances.
AskFor(k, w) ==
    /\ pc[k] = "idle"
    /\ wstatus[w] \in {"NONE", "INITIATED", "FAILED"}
    /\ pc'  = [pc EXCEPT ![k] = "cache"]
    /\ job' = [job EXCEPT ![k] = w]
    /\ UNCHANGED <<saleVars, refreshVars, wstatus, seen>>

ReadStage(k, from, to, sum(_)) ==
    /\ pc[k] = from
    /\ pc' = [pc EXCEPT ![k] = to]
    /\ seen' = [seen EXCEPT ![k] = [p \in Providers |-> sum(p)]]
    /\ UNCHANGED <<saleVars, refreshVars, wstatus, job>>

GetWithdrawable(k) ==
    \/ ReadStage(k, "cache", "withdrawn", LAMBDA p : earning[p])
    \/ ReadStage(k, "withdrawn", "debits", LAMBDA p : seen[k][p] - Withdrawn(p))
    \/ ReadStage(k, "debits", "disputed",
                 LAMBDA p : seen[k][p] - Debits(p, {"open", "synced"}))
    \/ ReadStage(k, "disputed", "pending", LAMBDA p : seen[k][p] - Disputed(p))
    \/ ReadStage(k, "pending", "decide", LAMBDA p : Excess(seen[k][p], Pending(p)))

\* Mutant of Covered: an approval trusts the check made at the request.
Mut_CoveredOnce(k) ==
    LET w == job[k] IN
    wstatus[w] = "NONE" =>
        /\ AmountOf[w] <= seen[k][ProviderOf[w]]
        /\ \A v \in Withdrawals : wstatus[v] \notin {"INITIATED", "PROCESSING"}

\* requestWithdrawal looks at its own provider and at pending withdrawals; updateStatus
\* (status PROCESSING) at the sum over both providers.
Covered(k) ==
    LET w == job[k] IN
    IF wstatus[w] = "NONE"
    THEN /\ AmountOf[w] <= seen[k][ProviderOf[w]]
         /\ \A v \in Withdrawals : wstatus[v] \notin {"INITIATED", "PROCESSING"}
    ELSE AmountOf[w] <= seen[k]["paypal"] + seen[k]["chapa"]

Decide(k) ==
    /\ pc[k] = "decide"
    /\ seen' = [seen EXCEPT ![k] = [p \in Providers |-> 0]]
    /\ \/ Covered(k) /\ pc' = [pc EXCEPT ![k] = "write"] /\ UNCHANGED wstatus
       \/ /\ ~Covered(k) /\ pc' = [pc EXCEPT ![k] = "idle"]
          /\ wstatus' = IF wstatus[job[k]] = "NONE" THEN wstatus
                        ELSE [wstatus EXCEPT ![job[k]] = "FAILED"]
    /\ UNCHANGED <<saleVars, refreshVars, job>>

\* The withdrawal is created, or paid out and PROCESSING.
Accept(k) ==
    /\ pc[k] = "write"
    /\ pc' = [pc EXCEPT ![k] = "idle"]
    /\ wstatus' = [wstatus EXCEPT ![job[k]] = IF @ = "NONE" THEN "INITIATED" ELSE "PROCESSING"]
    /\ UNCHANGED <<saleVars, refreshVars, job, seen>>

\* The payout succeeds or fails; an administrator rejects the request or the payout, or
\* puts a failed one back.  None of them looks at the balance.
Unchecked(from) ==
    CASE from = "PROCESSING" -> {"COMPLETED", "FAILED", "REJECTED"}
      [] from = "INITIATED"  -> {"REJECTED"}
      [] from = "FAILED"     -> {"INITIATED"}
      [] OTHER               -> {}

PayoutEnds(w) ==
    /\ \A k \in Workers : pc[k] = "idle" \/ job[k] # w
    /\ \E s \in Unchecked(wstatus[w]) : wstatus' = [wstatus EXCEPT ![w] = s]
    /\ UNCHANGED <<saleVars, refreshVars, tellerVars>>

-----------------------------------------------------------------------------
Refresh(o) == ReadCache(o) \/ ReadDebits(o) \/ WriteCache(o) \/ MarkSynced(o) \/ RefreshFails(o)

Sale(o) ==
    CreditEarnings(o) \/ RecordPendingCredit(o) \/ Deliver(o) \/ OpenDispute(o) \/ SettleRefund(o)

Next ==
    \/ \E o \in Orders : Sale(o) \/ Refresh(o)
    \/ \E k \in Workers :
          GetWithdrawable(k) \/ Decide(k) \/ Accept(k) \/ \E w \in Withdrawals : AskFor(k, w)
    \/ \E w \in Withdrawals : PayoutEnds(w)

Spec == Init /\ [][Next]_vars
-----------------------------------------------------------------------------
(* Properties.                                                               *)

TypeOK ==
    /\ earning \in [Providers -> Int]
    /\ phase \in [Orders -> {"unsold", "paid", "disputed", "delivered", "refunded"}]
    /\ hold  \in [Orders -> {"none", "held", "released", "cancelled"}]
    /\ debit \in [Orders -> {"none", "open", "synced"}]
    /\ refresh \in [Orders -> {"none", "readCache", "readDebits", "write", "mark", "done"}]
    /\ base     \in [Orders -> Int]
    /\ unsynced \in [Orders -> Nat]
    /\ wstatus \in [Withdrawals -> {"NONE", "INITIATED", "PROCESSING", "COMPLETED", "FAILED", "REJECTED"}]
    /\ pc   \in [Workers -> Stages]
    /\ job  \in [Workers -> Withdrawals]
    /\ seen \in [Workers -> [Providers -> Int]]

In(p, phases) == Total({o \in Of(p, Orders) : phase[o] \in phases})
NoWindow(p) == \A o \in Of(p, Orders) : phase[o] # "unsold" => hold[o] # "none"

\* However the refreshes of several settlements interleave with each other and with new
\* sales, the formula never offers more than the delivered orders have earned and the
\* withdrawals have left, outside the window between the credit and its hold.
AvailableIsBacked ==
    \A p \in Providers : NoWindow(p) =>
        Available(p) <= Excess(In(p, {"delivered"}), Withdrawn(p))

\* A withdrawal is accepted only within what the provider's own sales have earned.
PaidFromOwnProvider ==
    [][\A k \in Workers : Accept(k) =>
          Withdrawn(ProviderOf[job[k]])' <= In(ProviderOf[job[k]], {"paid", "disputed", "delivered", "refunded"})]_vars

\* Once the refreshes are over, a refund has lowered the balance once.
RefundIsDebitedOnce ==
    \A p \in Providers :
        (\A o \in Orders : refresh[o] \in {"none", "done"} /\ phase[o] # "disputed") =>
            Available(p) >= Excess(In(p, {"delivered"}), Withdrawn(p))
=============================================================================
