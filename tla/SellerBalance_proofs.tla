------------------------ MODULE SellerBalance_proofs ------------------------
(***************************************************************************)
(* Theorems about what a seller may withdraw, for any orders, withdrawals   *)
(* and amounts, and any number of requests, approvals and refreshes of the  *)
(* cache that overlap.                                                      *)
(***************************************************************************)
EXTENDS SellerBalance, Sums

\* Everything the seller has ever sold through a provider.
SoldOrders(p) == {o \in Of(p, Orders) : phase[o] # "unsold"}
Sold(p)       == Total(SoldOrders(p))

\* The ledger follows the orders: a refunded order has its debit, and an order that is not
\* delivered has no hold that was released or cancelled.
LedgerFollows ==
    \A o \in Orders :
        /\ phase[o] = "refunded" => debit[o] # "none"
        /\ phase[o] = "unsold" => hold[o] = "none"
        /\ phase[o] \in {"paid", "disputed"} => hold[o] \in {"none", "held"}

\* Neither the cache nor what a refresh has read of it is more than the sales brought.
CacheIsEarned ==
    /\ \A p \in Providers : earning[p] <= Sold(p)
    /\ \A o \in Orders : base[o] <= Sold(ProviderOf[o])

BalanceInv == TypeOK /\ LedgerFollows /\ CacheIsEarned

-----------------------------------------------------------------------------
(* Totals.                                                                   *)

\* The amounts of orders and withdrawals, and any part of them, are natural numbers.
LEMMA TotalType ==
    \A S \in SUBSET (Orders \cup Withdrawals) :
        /\ IsFiniteSet(S) /\ Total(S) \in Nat
        /\ \A x \in S : AmountOf[x] \in Nat \ {0}
<1>1. IsFiniteSet(Orders \cup Withdrawals)
  BY SellerBalanceAssumption, FS_Union DEF SellerBalanceAssumption
<1>2. \A x \in Orders \cup Withdrawals : AmountOf[x] \in Nat \ {0}
  BY SellerBalanceAssumption DEF SellerBalanceAssumption
<1>3. \A S : Total(S) = SumOf(AmountOf, S)
  BY DEF Total, SumOf
<1> QED
  BY <1>1, <1>2, <1>3, SumType

\* A larger set has a larger total.
LEMMA TotalGrows ==
    ASSUME NEW S \in SUBSET (Orders \cup Withdrawals), NEW T \in SUBSET S
    PROVE  Total(T) <= Total(S)
<1>1. IsFiniteSet(S) /\ \A x \in S : AmountOf[x] \in Nat
  BY TotalType
<1>2. \A R : Total(R) = SumOf(AmountOf, R)
  BY DEF Total, SumOf
<1> QED
  BY <1>1, <1>2, SumSubset

\* The total of a set is that of a part and of the rest.
LEMMA TotalSplit ==
    ASSUME NEW S \in SUBSET (Orders \cup Withdrawals), NEW T \in SUBSET S
    PROVE  Total(S) = Total(T) + Total(S \ T)
<1>1. IsFiniteSet(S) /\ \A x \in S : AmountOf[x] \in Nat
  BY TotalType
<1>2. \A R : Total(R) = SumOf(AmountOf, R)
  BY DEF Total, SumOf
<1> QED
  BY <1>1, <1>2, SumSplit

\* One more element adds its amount, if it is new.
LEMMA TotalAdd ==
    ASSUME NEW x \in Orders \cup Withdrawals, NEW T \in SUBSET (Orders \cup Withdrawals)
    PROVE  /\ Total(T \cup {x}) <= Total(T) + AmountOf[x]
           /\ x \notin T => Total(T \cup {x}) = Total(T) + AmountOf[x]
<1> DEFINE S == T \cup {x}
<1>1. IsFiniteSet(S) /\ (\A y \in S : AmountOf[y] \in Nat) /\ Total(T) \in Nat /\ AmountOf[x] \in Nat
  BY TotalType
<1>2. \A R : Total(R) = SumOf(AmountOf, R)
  BY DEF Total, SumOf
<1>3. \A y \in S : SumOf(AmountOf, S) = AmountOf[y] + SumOf(AmountOf, S \ {y})
  <2> HIDE DEF S
  <2> QED BY <1>1, SumTake
<1>4. Total(S) = AmountOf[x] + Total(S \ {x})
  BY <1>2, <1>3
<1>5. CASE x \notin T
  <2>1. S \ {x} = T
    BY <1>5
  <2>2. Total(S) = AmountOf[x] + Total(T)
    BY <1>4, <2>1
  <2> QED
    BY <1>1, <1>5, <2>2
<1>6. CASE x \in T
  <2>1. S = T
    BY <1>6
  <2>2. Total(S) = Total(T)
    BY <2>1
  <2> QED
    BY <1>1, <1>6, <2>2
<1> QED
  BY <1>5, <1>6

\* The total of what two sets cover is at most the sum of theirs.
LEMMA TotalCover ==
    ASSUME NEW S \in SUBSET (Orders \cup Withdrawals), NEW T \in SUBSET (Orders \cup Withdrawals)
    PROVE  Total(S \cup T) <= Total(S) + Total(T)
<1> DEFINE U == S \cup T
<1>1. U \in SUBSET (Orders \cup Withdrawals) /\ S \in SUBSET U /\ (U \ S) \in SUBSET T
      /\ U \ S \in SUBSET (Orders \cup Withdrawals)
  OBVIOUS
<1>2. Total(U) = Total(S) + Total(U \ S)
  BY <1>1, TotalSplit
<1>3. Total(U \ S) <= Total(T)
  BY <1>1, TotalGrows
<1>4. Total(S) \in Nat /\ Total(T) \in Nat /\ Total(U \ S) \in Nat
  BY <1>1, TotalType
<1> QED
  BY <1>2, <1>3, <1>4

\* The parts of the balance are totals of orders and withdrawals of the provider.
LEMMA PartsType ==
    ASSUME NEW p \in Providers
    PROVE  /\ SoldOrders(p) \in SUBSET (Orders \cup Withdrawals) /\ Sold(p) \in Nat
           /\ Withdrawn(p) \in Nat /\ Disputed(p) \in Nat /\ Pending(p) \in Nat
           /\ \A marks : Debits(p, marks) \in Nat
           /\ \A phases : In(p, phases) \in Nat
<1> USE DEF Of
<1>1. SoldOrders(p) \in SUBSET (Orders \cup Withdrawals)
  BY DEF SoldOrders
<1>2. Withdrawn(p) \in Nat
  BY TotalType DEF Withdrawn
<1>3. Disputed(p) \in Nat /\ Pending(p) \in Nat
  BY TotalType DEF Disputed, Pending
<1>4. \A marks : Debits(p, marks) \in Nat
  BY TotalType DEF Debits
<1>5. \A phases : In(p, phases) \in Nat
  BY TotalType DEF In
<1> QED
  BY <1>1, <1>2, <1>3, <1>4, <1>5, TotalType DEF Sold

-----------------------------------------------------------------------------
(* Types.                                                                    *)

LEMMA TypeInit == Init => TypeOK
<1>1. (CHOOSE w \in Withdrawals : TRUE) \in Withdrawals
  BY SellerBalanceAssumption DEF SellerBalanceAssumption
<1> QED
  BY <1>1 DEF Init, TypeOK, Stages

\* The amounts of orders, and the providers.
LEMMA OrderType ==
    ASSUME NEW o \in Orders
    PROVE  ProviderOf[o] \in Providers /\ AmountOf[o] \in Nat \ {0}
BY SellerBalanceAssumption DEF SellerBalanceAssumption

LEMMA SaleType == ASSUME TypeOK, NEW o \in Orders, Sale(o) PROVE TypeOK'
<1> USE OrderType DEF TypeOK, refreshVars, tellerVars, SettleHold
<1>1. CASE CreditEarnings(o)
  BY <1>1 DEF CreditEarnings
<1>2. CASE RecordPendingCredit(o)
  BY <1>2 DEF RecordPendingCredit
<1>3. CASE Deliver(o)
  BY <1>3 DEF Deliver
<1>4. CASE OpenDispute(o)
  BY <1>4 DEF OpenDispute
<1>5. CASE SettleRefund(o)
  BY <1>5 DEF SettleRefund
<1> QED
  BY <1>1, <1>2, <1>3, <1>4, <1>5 DEF Sale

LEMMA RefreshType == ASSUME TypeOK, NEW o \in Orders, Refresh(o) PROVE TypeOK'
<1> USE OrderType DEF TypeOK, RefreshStep, ForgetRead, tellerVars
<1>1. CASE ReadCache(o)
  BY <1>1 DEF ReadCache
<1>2. CASE ReadDebits(o)
  BY <1>2, PartsType DEF ReadDebits
<1>3. CASE WriteCache(o)
  BY <1>3 DEF WriteCache
<1>4. CASE MarkSynced(o)
  BY <1>4 DEF MarkSynced
<1>5. CASE RefreshFails(o)
  BY <1>5 DEF RefreshFails
<1> QED
  BY <1>1, <1>2, <1>3, <1>4, <1>5 DEF Refresh

\* Each query of getWithdrawable leaves an integer per provider.
LEMMA QueryType == ASSUME TypeOK, NEW k \in Workers, GetWithdrawable(k) PROVE TypeOK'
<1>1. PICK to \in Stages, sum \in [Providers -> Int] :
          /\ pc' = [pc EXCEPT ![k] = to]
          /\ seen' = [seen EXCEPT ![k] = sum]
          /\ UNCHANGED <<saleVars, refreshVars, wstatus, job>>
  <2> USE DEF GetWithdrawable, ReadStage, Stages, ReadStages, Excess
  <2>1. CASE pc[k] = "cache"
    <3>1. [p \in Providers |-> earning[p]] \in [Providers -> Int]
      BY DEF TypeOK
    <3> QED BY <2>1, <3>1
  <2>2. CASE pc[k] = "withdrawn"
    <3>1. [p \in Providers |-> seen[k][p] - Withdrawn(p)] \in [Providers -> Int]
      BY PartsType DEF TypeOK
    <3> QED BY <2>2, <3>1
  <2>3. CASE pc[k] = "debits"
    <3>1. [p \in Providers |-> seen[k][p] - Debits(p, {"open", "synced"})] \in [Providers -> Int]
      BY PartsType DEF TypeOK
    <3> QED BY <2>3, <3>1
  <2>4. CASE pc[k] = "disputed"
    <3>1. [p \in Providers |-> seen[k][p] - Disputed(p)] \in [Providers -> Int]
      BY PartsType DEF TypeOK
    <3> QED BY <2>4, <3>1
  <2>5. CASE pc[k] = "pending"
    <3>1. [p \in Providers |-> Excess(seen[k][p], Pending(p))] \in [Providers -> Int]
      BY PartsType DEF TypeOK, Excess
    <3> QED BY <2>5, <3>1
  <2> QED BY <2>1, <2>2, <2>3, <2>4, <2>5
<1> QED
  BY <1>1 DEF TypeOK, saleVars, refreshVars

LEMMA TellerType ==
    ASSUME TypeOK, NEW k \in Workers,
           Decide(k) \/ Accept(k) \/ (\E w \in Withdrawals : AskFor(k, w))
    PROVE  TypeOK'
<1> USE DEF TypeOK, saleVars, refreshVars, Stages, ReadStages
<1>1. CASE Decide(k)
  <2>1. seen' \in [Workers -> [Providers -> Int]]
    BY <1>1 DEF Decide
  <2>2. wstatus' \in [Withdrawals -> {"NONE", "INITIATED", "PROCESSING", "COMPLETED", "FAILED", "REJECTED"}]
    BY <1>1 DEF Decide
  <2>3. pc' \in [Workers -> Stages]
    BY <1>1 DEF Decide
  <2> QED
    BY <1>1, <2>1, <2>2, <2>3 DEF Decide
<1>2. CASE Accept(k)
  BY <1>2 DEF Accept
<1>3. CASE \E w \in Withdrawals : AskFor(k, w)
  BY <1>3 DEF AskFor
<1> QED
  BY <1>1, <1>2, <1>3

LEMMA PayoutType == ASSUME TypeOK, NEW w \in Withdrawals, PayoutEnds(w) PROVE TypeOK'
BY DEF TypeOK, PayoutEnds, Unchecked, saleVars, refreshVars, tellerVars

LEMMA TypeStep == ASSUME TypeOK, [Next]_vars PROVE TypeOK'
<1>1. CASE UNCHANGED vars
  BY <1>1 DEF vars, saleVars, refreshVars, tellerVars, TypeOK
<1> QED
  BY <1>1, SaleType, RefreshType, QueryType, TellerType, PayoutType DEF Next

\* Rows, caches and requests keep their form: BalanceService and what calls it.
THEOREM TypeCorrect == Spec => []TypeOK
<1>1. Init => TypeOK
  BY TypeInit
<1>2. TypeOK /\ [Next]_vars => TypeOK'
  BY TypeStep
<1> QED
  BY <1>1, <1>2, PTL DEF Spec

-----------------------------------------------------------------------------
(* What is offered is earned.                                                *)

LEMMA InvInit == Init => BalanceInv
<1> SUFFICES ASSUME Init PROVE BalanceInv
  OBVIOUS
<1>1. \A p \in Providers : Sold(p) \in Nat
  BY PartsType
<1>2. \A o \in Orders : ProviderOf[o] \in Providers
  BY OrderType
<1> QED
  BY <1>1, <1>2, TypeInit DEF Init, BalanceInv, LedgerFollows, CacheIsEarned

\* An order that is sold stays so: the sales of a provider never become less.
LEMMA SoldGrows ==
    ASSUME NEW p \in Providers, \A o \in Orders : phase[o] # "unsold" => phase'[o] # "unsold"
    PROVE  Sold(p) <= Sold(p)'
<1> DEFINE S == SoldOrders(p)
           T == SoldOrders(p)'
<1>1. S \in SUBSET T /\ T \in SUBSET (Orders \cup Withdrawals)
  BY DEF SoldOrders, Of
<1>2. Total(S) <= Total(T)
  BY <1>1, TotalGrows
<1> QED
  BY <1>2 DEF Sold

\* A step that writes no cache, or a value in it that is earned, keeps the cache earned.
LEMMA CacheKeeps ==
    ASSUME BalanceInv, TypeOK',
           \A o \in Orders : phase[o] # "unsold" => phase'[o] # "unsold",
           \A p \in Providers : earning'[p] = earning[p] \/ earning'[p] <= Sold(p),
           \A o \in Orders : base'[o] = base[o] \/ base'[o] <= Sold(ProviderOf[o])
    PROVE  CacheIsEarned'
<1>1. \A p \in Providers : Sold(p) \in Nat /\ Sold(p)' \in Nat /\ Sold(p) <= Sold(p)'
  <2> SUFFICES ASSUME NEW p \in Providers
               PROVE  Sold(p) \in Nat /\ Sold(p)' \in Nat /\ Sold(p) <= Sold(p)'
    OBVIOUS
  <2>1. Sold(p) \in Nat
    BY PartsType
  <2>2. Sold(p)' \in Nat
    <3>1. SoldOrders(p)' \in SUBSET (Orders \cup Withdrawals)
      BY DEF SoldOrders, Of
    <3>2. Total(SoldOrders(p)') \in Nat
      BY <3>1, TotalType
    <3> QED
      BY <3>2 DEF Sold
  <2> QED
    BY <2>1, <2>2, SoldGrows
<1>2. \A p \in Providers : earning'[p] \in Int /\ earning'[p] <= Sold(p)
  BY DEF BalanceInv, TypeOK, CacheIsEarned
<1>3. \A o \in Orders : base'[o] \in Int /\ base'[o] <= Sold(ProviderOf[o])
  BY DEF BalanceInv, TypeOK, CacheIsEarned
<1>4. \A o \in Orders : ProviderOf[o] \in Providers
  BY OrderType
<1>5. \A p \in Providers : earning'[p] <= Sold(p)'
  BY <1>1, <1>2
<1>6. \A o \in Orders : base'[o] <= Sold(ProviderOf[o])'
  <2> SUFFICES ASSUME NEW o \in Orders PROVE base'[o] <= Sold(ProviderOf[o])'
    OBVIOUS
  <2> DEFINE p == ProviderOf[o]
  <2>1. Sold(p) \in Nat /\ Sold(p)' \in Nat /\ Sold(p) <= Sold(p)'
    BY <1>1, <1>4
  <2> QED
    BY <1>3, <2>1
<1> QED
  BY <1>5, <1>6 DEF CacheIsEarned

\* What a sale brings is in the total before it is in the cache.
LEMMA CreditIsEarned ==
    ASSUME BalanceInv, NEW o \in Orders, CreditEarnings(o)
    PROVE  CacheIsEarned'
<1> DEFINE r == ProviderOf[o]
<1>1. /\ phase' = [phase EXCEPT ![o] = "paid"] /\ phase[o] = "unsold"
      /\ earning' = [earning EXCEPT ![r] = @ + AmountOf[o]]
      /\ base' = base /\ TypeOK' /\ r \in Providers /\ AmountOf[o] \in Nat
  <2>1. Sale(o)
    BY DEF Sale
  <2> QED
    BY <2>1, SaleType, OrderType DEF CreditEarnings, refreshVars, BalanceInv
<1>2. \A x \in Orders : phase[x] # "unsold" => phase'[x] # "unsold"
  BY <1>1 DEF BalanceInv, TypeOK
<1>3. Sold(r)' = Sold(r) + AmountOf[o]
  <2>1. SoldOrders(r)' = SoldOrders(r) \cup {o} /\ o \notin SoldOrders(r)
    BY <1>1 DEF SoldOrders, Of, BalanceInv, TypeOK
  <2>2. SoldOrders(r) \in SUBSET (Orders \cup Withdrawals)
    BY DEF SoldOrders, Of
  <2>3. Total(SoldOrders(r) \cup {o}) = Total(SoldOrders(r)) + AmountOf[o]
    BY <2>1, <2>2, TotalAdd
  <2> QED
    BY <2>1, <2>3 DEF Sold
<1>4. \A p \in Providers : Sold(p) \in Nat /\ Sold(p) <= Sold(p)'
  BY <1>2, SoldGrows, PartsType
<1>5. \A p \in Providers : earning'[p] <= Sold(p)'
  <2> TAKE p \in Providers
  <2>0. earning[p] \in Int /\ earning[p] <= Sold(p) /\ Sold(p) \in Nat /\ Sold(p) <= Sold(p)'
    BY <1>4 DEF BalanceInv, TypeOK, CacheIsEarned
  <2>1. Sold(p)' \in Nat
    <3>1. SoldOrders(p)' \in SUBSET (Orders \cup Withdrawals)
      BY DEF SoldOrders, Of
    <3>2. Total(SoldOrders(p)') \in Nat
      BY <3>1, TotalType
    <3> QED
      BY <3>2 DEF Sold
  <2>2. CASE p = r
    <3>1. earning'[r] = earning[r] + AmountOf[o]
      BY <1>1 DEF BalanceInv, TypeOK
    <3> QED
      BY <1>1, <1>3, <2>0, <2>1, <2>2, <3>1
  <2>3. CASE p # r
    <3>1. earning'[p] = earning[p]
      BY <1>1, <2>3 DEF BalanceInv, TypeOK
    <3> QED
      BY <2>0, <2>1, <3>1
  <2> QED
    BY <2>2, <2>3
<1>6. \A x \in Orders : base'[x] <= Sold(ProviderOf[x])'
  <2> TAKE x \in Orders
  <2> DEFINE p == ProviderOf[x]
  <2>1. p \in Providers /\ base[x] \in Int /\ base[x] <= Sold(p) /\ base'[x] = base[x]
    BY <1>1, OrderType DEF BalanceInv, TypeOK, CacheIsEarned
  <2>2. Sold(p) \in Nat /\ Sold(p) <= Sold(p)' /\ Sold(p)' \in Nat
    <3>1. SoldOrders(p)' \in SUBSET (Orders \cup Withdrawals)
      BY DEF SoldOrders, Of
    <3>2. Total(SoldOrders(p)') \in Nat
      BY <3>1, TotalType
    <3> QED
      BY <1>4, <2>1, <3>2 DEF Sold
  <2> QED
    BY <2>1, <2>2
<1> QED
  BY <1>5, <1>6 DEF CacheIsEarned

\* The other steps of an order move its ledger and no cache.
LEMMA SaleKeeps == ASSUME BalanceInv, NEW o \in Orders, Sale(o) PROVE BalanceInv'
<1>0. TypeOK'
  BY SaleType DEF BalanceInv
<1>1. LedgerFollows'
  <2> USE DEF BalanceInv, TypeOK, LedgerFollows, refreshVars, SettleHold
  <2>1. CASE CreditEarnings(o)
    BY <2>1 DEF CreditEarnings
  <2>2. CASE RecordPendingCredit(o)
    BY <2>2 DEF RecordPendingCredit
  <2>3. CASE Deliver(o)
    BY <2>3 DEF Deliver
  <2>4. CASE OpenDispute(o)
    BY <2>4 DEF OpenDispute
  <2>5. CASE SettleRefund(o)
    BY <2>5 DEF SettleRefund
  <2> QED
    BY <2>1, <2>2, <2>3, <2>4, <2>5 DEF Sale
<1>2. CacheIsEarned'
  <2>1. CASE CreditEarnings(o)
    BY <2>1, CreditIsEarned
  <2>2. CASE ~CreditEarnings(o)
    <3>1. /\ earning' = earning /\ base' = base
          /\ \A x \in Orders : phase[x] # "unsold" => phase'[x] # "unsold"
      BY <2>2 DEF Sale, RecordPendingCredit, Deliver, OpenDispute, SettleRefund, refreshVars,
                  BalanceInv, TypeOK
    <3> QED
      BY <1>0, <3>1, CacheKeeps
  <2> QED
    BY <2>1, <2>2
<1> QED
  BY <1>0, <1>1, <1>2 DEF BalanceInv

\* A refresh writes what it has read, less the debits: never more than was earned.
LEMMA RefreshKeeps == ASSUME BalanceInv, NEW o \in Orders, Refresh(o) PROVE BalanceInv'
<1>0. TypeOK' /\ UNCHANGED <<phase, hold>>
  BY RefreshType DEF BalanceInv, Refresh, ReadCache, ReadDebits, WriteCache, MarkSynced,
                     RefreshFails, RefreshStep
<1>1. \A x \in Orders : debit[x] # "none" => debit'[x] # "none"
  BY DEF Refresh, ReadCache, ReadDebits, WriteCache, MarkSynced, RefreshFails
<1>2. LedgerFollows'
  BY <1>0, <1>1 DEF BalanceInv, LedgerFollows
<1>3. /\ ProviderOf[o] \in Providers
      /\ earning[ProviderOf[o]] <= Sold(ProviderOf[o])
      /\ base[o] <= Sold(ProviderOf[o]) /\ base[o] \in Int /\ unsynced[o] \in Nat
      /\ \A x \in Orders : Sold(ProviderOf[x]) \in Nat
  BY OrderType, PartsType DEF BalanceInv, TypeOK, CacheIsEarned
<1>4. \A p \in Providers : earning'[p] = earning[p] \/ earning'[p] <= Sold(p)
  <2>1. CASE WriteCache(o)
    <3>1. base[o] - unsynced[o] <= Sold(ProviderOf[o])
      BY <1>3
    <3> QED
      BY <2>1, <3>1 DEF WriteCache, BalanceInv, TypeOK
  <2>2. CASE ~WriteCache(o)
    BY <2>2 DEF Refresh, ReadCache, ReadDebits, MarkSynced, RefreshFails
  <2> QED
    BY <2>1, <2>2
<1>5. \A x \in Orders : base'[x] = base[x] \/ base'[x] <= Sold(ProviderOf[x])
  <2>1. CASE ReadCache(o)
    BY <1>3, <2>1 DEF ReadCache, BalanceInv, TypeOK
  <2>2. CASE ~ReadCache(o)
    <3>1. base' = base \/ base' = [base EXCEPT ![o] = 0]
      BY <2>2 DEF Refresh, ReadDebits, WriteCache, MarkSynced, RefreshFails, ForgetRead
    <3>2. 0 <= Sold(ProviderOf[o])
      BY <1>3
    <3> QED
      BY <3>1, <3>2 DEF BalanceInv, TypeOK
  <2> QED
    BY <2>1, <2>2
<1>6. CacheIsEarned'
  BY <1>0, <1>4, <1>5, CacheKeeps
<1> QED
  BY <1>0, <1>2, <1>6 DEF BalanceInv

LEMMA InvStep == ASSUME BalanceInv, [Next]_vars PROVE BalanceInv'
<1>1. CASE \E o \in Orders : Sale(o) \/ Refresh(o)
  BY <1>1, SaleKeeps, RefreshKeeps
<1>2. CASE UNCHANGED <<saleVars, refreshVars>>
  <2>1. TypeOK'
    BY TypeStep DEF BalanceInv
  <2>2. LedgerFollows'
    BY <1>2 DEF BalanceInv, LedgerFollows, saleVars, refreshVars
  <2>3. CacheIsEarned'
    BY <1>2, <2>1, CacheKeeps DEF saleVars, refreshVars
  <2> QED
    BY <2>1, <2>2, <2>3 DEF BalanceInv
<1>3. (\E o \in Orders : Sale(o) \/ Refresh(o)) \/ UNCHANGED <<saleVars, refreshVars>>
  BY DEF Next, vars, GetWithdrawable, ReadStage, Decide, Accept, AskFor, PayoutEnds
<1> QED
  BY <1>1, <1>2, <1>3

\* Outside the window, every order that is sold is delivered or subtracted by the formula.
LEMMA FormulaCovers ==
    ASSUME BalanceInv, NEW p \in Providers, NoWindow(p)
    PROVE  Sold(p) <= In(p, {"delivered"}) + Debits(p, {"open", "synced"}) + Disputed(p) + Pending(p)
<1> DEFINE A == {o \in Of(p, Orders) : phase[o] \in {"delivered"}}
           B == {o \in Of(p, Orders) : debit[o] \in {"open", "synced"}}
           C == {o \in Of(p, Orders) : phase[o] = "disputed"}
           D == {o \in Of(p, Orders) : hold[o] = "held"}
<1>1. A \in SUBSET Orders /\ B \in SUBSET Orders /\ C \in SUBSET Orders /\ D \in SUBSET Orders
  BY DEF Of
<1>2. SoldOrders(p) \in SUBSET (((A \cup B) \cup C) \cup D)
  BY DEF SoldOrders, NoWindow, BalanceInv, TypeOK, LedgerFollows, Of
<1>3. In(p, {"delivered"}) = Total(A) /\ Debits(p, {"open", "synced"}) = Total(B)
      /\ Disputed(p) = Total(C) /\ Pending(p) = Total(D) /\ Sold(p) = Total(SoldOrders(p))
  BY DEF In, Debits, Disputed, Pending, Sold
<1> HIDE DEF A, B, C, D
<1>4. Total(A \cup B) <= Total(A) + Total(B)
  BY <1>1, TotalCover
<1>5. Total((A \cup B) \cup C) <= Total(A \cup B) + Total(C)
  BY <1>1, TotalCover
<1>6. Total(((A \cup B) \cup C) \cup D) <= Total((A \cup B) \cup C) + Total(D)
  BY <1>1, TotalCover
<1>7. Sold(p) <= Total(((A \cup B) \cup C) \cup D)
  BY <1>1, <1>2, <1>3, TotalGrows
<1>8. /\ Total(A) \in Nat /\ Total(B) \in Nat /\ Total(C) \in Nat /\ Total(D) \in Nat
      /\ Total(A \cup B) \in Nat /\ Total((A \cup B) \cup C) \in Nat
      /\ Total(((A \cup B) \cup C) \cup D) \in Nat /\ Sold(p) \in Nat
  BY <1>1, TotalType, PartsType
<1> QED
  BY <1>3, <1>4, <1>5, <1>6, <1>7, <1>8

\* However requests, approvals, refreshes of the cache, sales, receipts and settlements
\* interleave, getWithdrawable's formula offers no more than what delivered orders have
\* earned and withdrawals have left, once every sale has its hold.
THEOREM AvailableIsBackedAlways == Spec => []AvailableIsBacked
<1>1. Init => BalanceInv
  BY InvInit
<1>2. BalanceInv /\ [Next]_vars => BalanceInv'
  BY InvStep
<1>3. BalanceInv => AvailableIsBacked
  <2> SUFFICES ASSUME BalanceInv, NEW p \in Providers, NoWindow(p)
               PROVE  Available(p) <= Excess(In(p, {"delivered"}), Withdrawn(p))
    BY DEF AvailableIsBacked
  <2>1. earning[p] \in Int /\ earning[p] <= Sold(p)
    BY DEF BalanceInv, TypeOK, CacheIsEarned
  <2>2. /\ Sold(p) \in Nat /\ In(p, {"delivered"}) \in Nat /\ Withdrawn(p) \in Nat
        /\ Debits(p, {"open", "synced"}) \in Nat /\ Disputed(p) \in Nat /\ Pending(p) \in Nat
    BY PartsType
  <2>3. Sold(p) <= In(p, {"delivered"}) + Debits(p, {"open", "synced"}) + Disputed(p) + Pending(p)
    BY FormulaCovers
  <2> QED
    BY <2>1, <2>2, <2>3 DEF Available, Excess
<1> QED
  BY <1>1, <1>2, <1>3, PTL DEF Spec

-----------------------------------------------------------------------------
(* What is accepted is covered, while approvals take turns and with one      *)
(* provider: an approval compares with the sum over both.                    *)

\* Requests about one withdrawal take turns.
TakeTurns ==
    \A k, l \in Workers : pc[k] # "idle" /\ pc[l] # "idle" /\ job[k] = job[l] => k = l

\* A request about a withdrawal that exists is an approval, which may pay for it.
Approving(k) == wstatus[job[k]] # "NONE"

\* At most one approval at a time is between its look at what has been withdrawn and the row
\* it writes.  Requests for new withdrawals, and the queries before, overlap freely.
OneApproval ==
    \A k, l \in Workers :
        /\ Approving(k) /\ pc[k] \notin {"idle", "cache", "withdrawn"}
        /\ Approving(l) /\ pc[l] \notin {"idle", "cache", "withdrawn"}
        => k = l

OneProvider == \A x, y \in Orders \cup Withdrawals : ProviderOf[x] = ProviderOf[y]

Left(p) == Sold(p) - Withdrawn(p)

\* What a request has added up so far is within what the provider's sales have brought and
\* its withdrawals left; once it is accepted, the withdrawal itself is.
SeenIsBacked(k) ==
    /\ pc[k] = "withdrawn" => \A p \in Providers : seen[k][p] <= Sold(p)
    /\ pc[k] \in {"debits", "disputed", "pending"} =>
          \A p \in Providers : seen[k][p] <= Left(p)
    /\ pc[k] = "decide" =>
          \A p \in Providers : seen[k][p] <= 0 \/ seen[k][p] <= Left(p)
    /\ pc[k] = "write" => AmountOf[job[k]] <= Left(ProviderOf[job[k]])

TellerInv ==
    /\ BalanceInv
    /\ \A p \in Providers : Withdrawn(p) <= Sold(p)
    /\ \A k \in Workers : Approving(k) => SeenIsBacked(k)

\* What is left is an integer in every state that is typed.
LEMMA LeftType ==
    \A p \in Providers : Sold(p) \in Nat /\ Withdrawn(p) \in Nat /\ Left(p) \in Int
BY PartsType DEF Left

LEMMA LeftTypeNext ==
    \A p \in Providers : Sold(p)' \in Nat /\ Withdrawn(p)' \in Nat
<1> SUFFICES ASSUME NEW p \in Providers PROVE Sold(p)' \in Nat /\ Withdrawn(p)' \in Nat
  OBVIOUS
<1> DEFINE W == {w \in Of(p, Withdrawals) : wstatus[w] \in {"COMPLETED", "PROCESSING"}}
<1>1. SoldOrders(p)' \in SUBSET (Orders \cup Withdrawals) /\ W' \in SUBSET (Orders \cup Withdrawals)
  BY DEF SoldOrders, Of
<1>2. Total(SoldOrders(p)') \in Nat /\ Total(W') \in Nat
  BY <1>1, TotalType
<1> QED
  BY <1>2 DEF Sold, Withdrawn

\* Steps that pay for nothing more leave as much as there was.
LEMMA LeftGrows ==
    ASSUME BalanceInv,
           \A o \in Orders : phase[o] # "unsold" => phase'[o] # "unsold",
           \A w \in Withdrawals : wstatus'[w] \in {"COMPLETED", "PROCESSING"} =>
                                    wstatus[w] \in {"COMPLETED", "PROCESSING"}
    PROVE  \A p \in Providers : Sold(p) <= Sold(p)' /\ Left(p) <= Left(p)'
<1> SUFFICES ASSUME NEW p \in Providers PROVE Sold(p) <= Sold(p)' /\ Left(p) <= Left(p)'
  OBVIOUS
<1> DEFINE W == {w \in Of(p, Withdrawals) : wstatus[w] \in {"COMPLETED", "PROCESSING"}}
<1>1. Sold(p) <= Sold(p)'
  BY SoldGrows
<1>2. W \in SUBSET (Orders \cup Withdrawals) /\ W' \in SUBSET W
  BY DEF Of
<1>3. Total(W') <= Total(W)
  BY <1>2, TotalGrows
<1>4. Withdrawn(p)' <= Withdrawn(p)
  BY <1>3 DEF Withdrawn
<1> QED
  BY <1>1, <1>4, LeftType, LeftTypeNext DEF Left

\* A request that does not move keeps what it has seen.
LEMMA SeenKeeps ==
    ASSUME BalanceInv, NEW k \in Workers, SeenIsBacked(k),
           pc'[k] = pc[k], seen'[k] = seen[k], job'[k] = job[k],
           \A p \in Providers : Sold(p) <= Sold(p)' /\ Left(p) <= Left(p)'
    PROVE  SeenIsBacked(k)'
<1>1. \A p \in Providers : seen[k][p] \in Int
  BY DEF BalanceInv, TypeOK
<1>2. ProviderOf[job[k]] \in Providers /\ AmountOf[job[k]] \in Nat
  BY SellerBalanceAssumption DEF SellerBalanceAssumption, BalanceInv, TypeOK
<1>3. \A p \in Providers : Left(p) \in Int /\ Left(p)' \in Int /\ Sold(p) \in Nat /\ Sold(p)' \in Nat
  BY LeftType, LeftTypeNext DEF Left
<1> QED
  BY <1>1, <1>2, <1>3 DEF SeenIsBacked

LEMMA QueryKeeps ==
    ASSUME TellerInv, BalanceInv', NEW k \in Workers, GetWithdrawable(k), Approving(k)
    PROVE  SeenIsBacked(k)'
<1>0. /\ k \in DOMAIN pc /\ k \in DOMAIN seen
      /\ \A p \in Providers : /\ seen[k][p] \in Int /\ earning[p] \in Int /\ earning[p] <= Sold(p)
                               /\ Left(p) \in Int /\ Sold(p) \in Nat
                               /\ Disputed(p) \in Nat /\ Pending(p) \in Nat
                               /\ Withdrawn(p) \in Nat /\ Debits(p, {"open", "synced"}) \in Nat
  BY LeftType, PartsType DEF TellerInv, BalanceInv, TypeOK, CacheIsEarned
<1>1. \A p \in Providers : Sold(p)' = Sold(p) /\ Left(p)' = Left(p)
  <2> SUFFICES ASSUME NEW p \in Providers PROVE Sold(p)' = Sold(p) /\ Left(p)' = Left(p)
    OBVIOUS
  <2>1. phase' = phase /\ wstatus' = wstatus
    BY DEF GetWithdrawable, ReadStage, saleVars
  <2>2. SoldOrders(p)' = SoldOrders(p)
    BY <2>1 DEF SoldOrders, Of
  <2>3. {w \in Of(p, Withdrawals) : wstatus[w] \in {"COMPLETED", "PROCESSING"}}'
        = {w \in Of(p, Withdrawals) : wstatus[w] \in {"COMPLETED", "PROCESSING"}}
    BY <2>1 DEF Of
  <2>4. Sold(p)' = Sold(p) /\ Withdrawn(p)' = Withdrawn(p)
    BY <2>2, <2>3 DEF Sold, Withdrawn
  <2> QED
    BY <2>4 DEF Left
<1>2. SeenIsBacked(k)
  BY DEF TellerInv
<1> USE DEF ReadStage
<1>3. CASE ReadStage(k, "cache", "withdrawn", LAMBDA p : earning[p])
  <2>1. pc'[k] = "withdrawn" /\ \A p \in Providers : seen'[k][p] = earning[p]
    BY <1>0, <1>3
  <2> QED
    BY <1>0, <1>1, <2>1 DEF SeenIsBacked
<1>4. CASE ReadStage(k, "withdrawn", "debits", LAMBDA p : seen[k][p] - Withdrawn(p))
  <2>1. /\ pc[k] = "withdrawn" /\ pc'[k] = "debits"
        /\ \A p \in Providers : seen'[k][p] = seen[k][p] - Withdrawn(p)
    BY <1>0, <1>4
  <2>2. \A p \in Providers : seen'[k][p] <= Left(p)
    BY <1>0, <1>2, <2>1 DEF SeenIsBacked, Left
  <2> QED
    BY <1>1, <2>1, <2>2 DEF SeenIsBacked
<1>5. CASE ReadStage(k, "debits", "disputed", LAMBDA p : seen[k][p] - Debits(p, {"open", "synced"}))
  <2>1. /\ pc[k] = "debits" /\ pc'[k] = "disputed"
        /\ \A p \in Providers : seen'[k][p] = seen[k][p] - Debits(p, {"open", "synced"})
    BY <1>0, <1>5
  <2>2. \A p \in Providers : seen'[k][p] <= Left(p)
    BY <1>0, <1>2, <2>1 DEF SeenIsBacked
  <2> QED
    BY <1>1, <2>1, <2>2 DEF SeenIsBacked
<1>6. CASE ReadStage(k, "disputed", "pending", LAMBDA p : seen[k][p] - Disputed(p))
  <2>1. /\ pc[k] = "disputed" /\ pc'[k] = "pending"
        /\ \A p \in Providers : seen'[k][p] = seen[k][p] - Disputed(p)
    BY <1>0, <1>6
  <2>2. \A p \in Providers : seen'[k][p] <= Left(p)
    BY <1>0, <1>2, <2>1 DEF SeenIsBacked
  <2> QED
    BY <1>1, <2>1, <2>2 DEF SeenIsBacked
<1>7. CASE ReadStage(k, "pending", "decide", LAMBDA p : Excess(seen[k][p], Pending(p)))
  <2>1. /\ pc[k] = "pending" /\ pc'[k] = "decide"
        /\ \A p \in Providers : seen'[k][p] = Excess(seen[k][p], Pending(p))
    BY <1>0, <1>7
  <2>2. \A p \in Providers : seen'[k][p] <= 0 \/ seen'[k][p] <= Left(p)
    BY <1>0, <1>2, <2>1 DEF SeenIsBacked, Excess
  <2> QED
    BY <1>1, <2>1, <2>2 DEF SeenIsBacked
<1> QED
  BY <1>3, <1>4, <1>5, <1>6, <1>7 DEF GetWithdrawable

\* With one provider, nothing is seen of the other one: what covers a withdrawal is its own.
LEMMA CoveredIsLeft ==
    ASSUME TellerInv, OneProvider, NEW k \in Workers, Approving(k), pc[k] = "decide", Covered(k)
    PROVE  AmountOf[job[k]] <= Left(ProviderOf[job[k]])
<1> DEFINE p == ProviderOf[job[k]]
<1>1. job[k] \in Withdrawals /\ p \in Providers /\ AmountOf[job[k]] \in Nat \ {0}
  BY SellerBalanceAssumption DEF SellerBalanceAssumption, TellerInv, BalanceInv, TypeOK
<1>2. \A q \in Providers : /\ seen[k][q] \in Int /\ Left(q) \in Int
                           /\ seen[k][q] <= 0 \/ seen[k][q] <= Left(q)
  BY LeftType DEF TellerInv, SeenIsBacked, BalanceInv, TypeOK
<1>3. \A q \in Providers : q # p => seen[k][q] <= 0
  <2> SUFFICES ASSUME NEW q \in Providers, q # p PROVE seen[k][q] <= 0
    OBVIOUS
  <2>1. SoldOrders(q) = {}
    BY <1>1 DEF OneProvider, SoldOrders, Of
  <2>2. Total({}) = 0
    <3>1. Total({}) = SumOf(AmountOf, {})
      BY DEF Total, SumOf
    <3> QED
      BY <3>1, SumEmpty
  <2>3. Left(q) <= 0
    BY <2>1, <2>2, LeftType DEF Left, Sold
  <2> QED
    BY <1>2, <2>3
<1>4. AmountOf[job[k]] <= seen[k][p]
  BY <1>1, <1>2, <1>3 DEF Covered, Providers
<1> QED
  BY <1>1, <1>2, <1>4

\* An acceptance adds the request's own amount to what is withdrawn, at most.
LEMMA AcceptAdds ==
    ASSUME BalanceInv, NEW k \in Workers, Accept(k)
    PROVE  Withdrawn(ProviderOf[job[k]])' <= Withdrawn(ProviderOf[job[k]]) + AmountOf[job[k]]
<1> DEFINE p == ProviderOf[job[k]]
           W == {w \in Of(p, Withdrawals) : wstatus[w] \in {"COMPLETED", "PROCESSING"}}
           V == {w \in Of(p, Withdrawals) : wstatus'[w] \in {"COMPLETED", "PROCESSING"}}
<1>1. job[k] \in Withdrawals /\ job' = job /\ AmountOf[job[k]] \in Nat
  BY SellerBalanceAssumption DEF SellerBalanceAssumption, BalanceInv, TypeOK, Accept
<1>2. W \in SUBSET (Orders \cup Withdrawals) /\ V \in SUBSET (W \cup {job[k]})
      /\ W \cup {job[k]} \in SUBSET (Orders \cup Withdrawals)
  BY <1>1 DEF Of, Accept, BalanceInv, TypeOK
<1>3. Withdrawn(p) = Total(W) /\ Withdrawn(p)' = Total(V)
  <2>1. Withdrawn(p) = Total(W)
    BY DEF Withdrawn
  <2>2. Of(p, Withdrawals)' = Of(p, Withdrawals)
    BY <1>1 DEF Of
  <2> QED
    BY <2>1, <2>2, <1>1 DEF Withdrawn
<1> HIDE DEF W, V, p
<1>4. Total(V) <= Total(W \cup {job[k]})
  BY <1>2, TotalGrows
<1>5. Total(W \cup {job[k]}) <= Total(W) + AmountOf[job[k]]
  BY <1>1, <1>2, TotalAdd
<1>6. Total(V) \in Nat /\ Total(W) \in Nat /\ Total(W \cup {job[k]}) \in Nat
  BY <1>2, TotalType
<1>7. Withdrawn(p)' <= Withdrawn(p) + AmountOf[job[k]]
  BY <1>1, <1>3, <1>4, <1>5, <1>6
<1> QED
  BY <1>7 DEF p

LEMMA TellerInit == Init => TellerInv
<1> SUFFICES ASSUME Init PROVE TellerInv
  OBVIOUS
<1>1. BalanceInv /\ \A k \in Workers : SeenIsBacked(k)
  BY InvInit DEF Init, SeenIsBacked
<1>2. ASSUME NEW p \in Providers PROVE Withdrawn(p) <= Sold(p)
  <2>1. {w \in Of(p, Withdrawals) : wstatus[w] \in {"COMPLETED", "PROCESSING"}} = {}
    BY DEF Init, Of
  <2>2. Total({}) = 0
    <3>1. Total({}) = SumOf(AmountOf, {})
      BY DEF Total, SumOf
    <3> QED
      BY <3>1, SumEmpty
  <2> QED
    BY <2>1, <2>2, LeftType DEF Withdrawn
<1> QED
  BY <1>1, <1>2 DEF TellerInv

\* Nothing is paid for, and nobody moves: what the requests have seen stays backed, and so does
\* what is withdrawn.
LEMMA BackedStays ==
    ASSUME TellerInv, BalanceInv',
           \A o \in Orders : phase[o] # "unsold" => phase'[o] # "unsold",
           \A w \in Withdrawals : wstatus'[w] \in {"COMPLETED", "PROCESSING"} =>
                                    wstatus[w] \in {"COMPLETED", "PROCESSING"}
    PROVE  /\ \A p \in Providers : Withdrawn(p)' <= Sold(p)'
           /\ \A k \in Workers :
                 /\ pc'[k] = pc[k] /\ seen'[k] = seen[k] /\ job'[k] = job[k] /\ Approving(k)
                 => SeenIsBacked(k)'
<1>1. \A p \in Providers : Sold(p) <= Sold(p)' /\ Left(p) <= Left(p)'
  BY LeftGrows DEF TellerInv
<1>2. \A k \in Workers :
          /\ pc'[k] = pc[k] /\ seen'[k] = seen[k] /\ job'[k] = job[k] /\ Approving(k)
          => SeenIsBacked(k)'
  BY <1>1, SeenKeeps DEF TellerInv
<1>3. \A p \in Providers : Withdrawn(p)' <= Sold(p)'
  <2> SUFFICES ASSUME NEW p \in Providers PROVE Withdrawn(p)' <= Sold(p)'
    OBVIOUS
  <2>1. Withdrawn(p) <= Sold(p) /\ Sold(p) \in Nat /\ Withdrawn(p) \in Nat
    BY LeftType DEF TellerInv
  <2>2. Sold(p)' \in Nat /\ Withdrawn(p)' \in Nat
    BY LeftTypeNext
  <2>3. Left(p) <= Left(p)'
    BY <1>1
  <2> QED
    BY <2>1, <2>2, <2>3 DEF Left
<1> QED
  BY <1>2, <1>3

\* An approval is accepted within what is left; the others that are about to look, look at
\* what it leaves.
LEMMA AcceptBacked ==
    ASSUME TellerInv, BalanceInv', TakeTurns, OneApproval, NEW k \in Workers, Accept(k)
    PROVE  TellerInv'
<1>0. /\ BalanceInv /\ \A l \in Workers : Approving(l) => SeenIsBacked(l)
      /\ pc[k] = "write" /\ pc' = [pc EXCEPT ![k] = "idle"] /\ pc'[k] = "idle"
      /\ job' = job /\ seen' = seen /\ phase' = phase
      /\ \A l \in Workers : job[l] \in Withdrawals
  BY DEF TellerInv, Accept, BalanceInv, TypeOK, saleVars
<1>1. SeenIsBacked(k)'
  BY <1>0 DEF SeenIsBacked
<1>2. ASSUME NEW l \in Workers, l # k PROVE pc'[l] = pc[l] /\ seen'[l] = seen[l] /\ job'[l] = job[l]
  BY <1>0, <1>2 DEF BalanceInv, TypeOK
<1>3. ASSUME NEW l \in Workers, l # k, Approving(l)' PROVE Approving(l) \/ pc[l] = "idle"
  <2>1. job[l] = job[k] => pc[l] = "idle"
    BY <1>0, <1>3 DEF TakeTurns
  <2>2. job[l] # job[k] => wstatus'[job[l]] = wstatus[job[l]]
    BY <1>0 DEF Accept, BalanceInv, TypeOK
  <2> QED
    BY <1>0, <1>3, <2>1, <2>2 DEF Approving
<1>4. CASE ~Approving(k)
  <2>1. \A w \in Withdrawals : wstatus'[w] \in {"COMPLETED", "PROCESSING"} =>
                                wstatus[w] \in {"COMPLETED", "PROCESSING"}
    BY <1>0, <1>4 DEF Accept, Approving, BalanceInv, TypeOK
  <2>2. /\ \A p \in Providers : Withdrawn(p)' <= Sold(p)'
        /\ \A l \in Workers :
              /\ pc'[l] = pc[l] /\ seen'[l] = seen[l] /\ job'[l] = job[l] /\ Approving(l)
              => SeenIsBacked(l)'
    BY <1>0, <2>1, BackedStays
  <2>3. ASSUME NEW l \in Workers, Approving(l)' PROVE SeenIsBacked(l)'
    <3>1. CASE l = k
      BY <1>1, <3>1
    <3>2. CASE l # k /\ Approving(l)
      BY <1>2, <2>2, <3>2
    <3>3. CASE l # k /\ pc[l] = "idle"
      BY <1>2, <3>3 DEF SeenIsBacked
    <3> QED
      BY <1>3, <2>3, <3>1, <3>2, <3>3
  <2> QED
    BY <2>2, <2>3 DEF TellerInv
<1>5. CASE Approving(k)
  <2>1. PICK q \in Providers : q = ProviderOf[job[k]] /\ AmountOf[job[k]] \in Nat
    BY <1>0, SellerBalanceAssumption DEF SellerBalanceAssumption
  <2>2. AmountOf[job[k]] <= Left(q)
    BY <1>0, <1>5, <2>1 DEF SeenIsBacked
  <2>3. Withdrawn(q)' <= Withdrawn(q) + AmountOf[job[k]]
    BY <1>0, <2>1, AcceptAdds
  <2>4. \A p \in Providers : Sold(p)' = Sold(p)
    BY <1>0 DEF Sold, SoldOrders, Of
  <2>5. ASSUME NEW p \in Providers, p # q PROVE Withdrawn(p)' = Withdrawn(p)
    <3>1. {w \in Of(p, Withdrawals) : wstatus[w] \in {"COMPLETED", "PROCESSING"}}'
          = {w \in Of(p, Withdrawals) : wstatus[w] \in {"COMPLETED", "PROCESSING"}}
      BY <1>0, <2>1, <2>5 DEF Of, Accept, BalanceInv, TypeOK
    <3> QED
      BY <3>1 DEF Withdrawn
  <2>6. \A p \in Providers : /\ Withdrawn(p) <= Sold(p) /\ Sold(p) \in Nat /\ Withdrawn(p) \in Nat
                             /\ Withdrawn(p)' \in Nat
    BY LeftType, LeftTypeNext DEF TellerInv
  <2>7. ASSUME NEW p \in Providers PROVE Withdrawn(p)' <= Sold(p)'
    <3>1. CASE p = q
      <4>1. Withdrawn(q)' <= Sold(q)
        BY <2>1, <2>2, <2>3, <2>6 DEF Left
      <4> QED
        BY <3>1, <2>4, <4>1
    <3>2. CASE p # q
      BY <3>2, <2>4, <2>5, <2>6
    <3> QED
      BY <3>1, <3>2
  <2>8. ASSUME NEW l \in Workers, Approving(l)' PROVE SeenIsBacked(l)'
    <3>1. CASE l = k
      BY <1>1, <3>1
    <3>2. CASE l # k /\ pc[l] = "idle"
      BY <1>2, <3>2 DEF SeenIsBacked
    <3>3. CASE l # k /\ Approving(l)
      <4>1. pc[l] \in {"idle", "cache", "withdrawn"}
        BY <1>0, <1>5, <3>3 DEF OneApproval
      <4>2. pc[l] = "withdrawn" => \A p \in Providers : seen'[l][p] <= Sold(p)'
        BY <1>0, <2>4, <3>3 DEF SeenIsBacked
      <4> QED
        BY <1>2, <3>3, <4>1, <4>2 DEF SeenIsBacked
    <3> QED
      BY <1>3, <2>8, <3>1, <3>2, <3>3
  <2> QED
    BY <2>7, <2>8 DEF TellerInv
<1> QED
  BY <1>4, <1>5

LEMMA TellerStep ==
    ASSUME TellerInv, TakeTurns, OneApproval, OneProvider, [Next]_vars
    PROVE  TellerInv'
<1>0. /\ BalanceInv /\ BalanceInv' /\ \A k \in Workers : Approving(k) => SeenIsBacked(k)
      /\ \A k \in Workers : k \in DOMAIN pc /\ k \in DOMAIN seen /\ k \in DOMAIN job /\ job[k] \in Withdrawals
  BY InvStep DEF TellerInv, BalanceInv, TypeOK
<1> DEFINE Unpaid ==
              /\ \A o \in Orders : phase[o] # "unsold" => phase'[o] # "unsold"
              /\ \A w \in Withdrawals : wstatus'[w] \in {"COMPLETED", "PROCESSING"} =>
                                          wstatus[w] \in {"COMPLETED", "PROCESSING"}
              /\ \A w \in Withdrawals : wstatus'[w] = "NONE" <=> wstatus[w] = "NONE"
           Still(k) == pc'[k] = pc[k] /\ seen'[k] = seen[k] /\ job'[k] = job[k]
<1>1. ASSUME Unpaid, NEW k \in Workers, \A l \in Workers : l # k => Still(l),
             Approving(k)' => SeenIsBacked(k)'
      PROVE  TellerInv'
  <2>1. /\ \A p \in Providers : Withdrawn(p)' <= Sold(p)'
        /\ \A l \in Workers : Still(l) /\ Approving(l) => SeenIsBacked(l)'
    BY <1>0, <1>1, BackedStays
  <2>2. ASSUME NEW l \in Workers, l # k, Approving(l)' PROVE Approving(l)
    BY <1>0, <1>1, <2>2 DEF Approving
  <2> QED
    BY <1>0, <1>1, <2>1, <2>2 DEF TellerInv
<1>2. ASSUME NEW k \in Workers, GetWithdrawable(k) PROVE TellerInv'
  <2>1. /\ UNCHANGED <<phase, wstatus, job>>
        /\ \A l \in Workers : l # k => Still(l)
    BY <1>0, <1>2 DEF GetWithdrawable, ReadStage, saleVars
  <2>2. Approving(k)' => SeenIsBacked(k)'
    BY <1>0, <1>2, <2>1, QueryKeeps DEF Approving
  <2>3. Unpaid
    BY <2>1
  <2> HIDE DEF Unpaid, Still
  <2> QED
    BY <1>1, <2>1, <2>2, <2>3
<1>3. ASSUME NEW k \in Workers, Accept(k) PROVE TellerInv'
  BY <1>0, <1>3, AcceptBacked
<1>4. ASSUME NEW k \in Workers, NEW w \in Withdrawals, AskFor(k, w) PROVE TellerInv'
  <2>1. /\ UNCHANGED <<phase, wstatus>>
        /\ \A l \in Workers : l # k => Still(l)
        /\ pc'[k] = "cache"
    BY <1>0, <1>4 DEF AskFor, saleVars
  <2>2. SeenIsBacked(k)' /\ Unpaid
    BY <2>1 DEF SeenIsBacked
  <2> HIDE DEF Unpaid, Still
  <2> QED
    BY <1>1, <2>1, <2>2
<1>5. ASSUME NEW k \in Workers, Decide(k) PROVE TellerInv'
  <2>1. /\ job' = job /\ phase' = phase /\ pc[k] = "decide" /\ pc'[k] \in {"idle", "write"}
        /\ pc'[k] = "write" => Covered(k) /\ UNCHANGED wstatus
        /\ \/ wstatus' = wstatus
           \/ wstatus[job[k]] # "NONE" /\ wstatus' = [wstatus EXCEPT ![job[k]] = "FAILED"]
        /\ \A l \in Workers : l # k => Still(l)
    BY <1>0, <1>5 DEF Decide, saleVars
  <2>2. Unpaid
    BY <1>0, <2>1 DEF BalanceInv, TypeOK
  <2>3. Approving(k)' => SeenIsBacked(k)'
    <3>1. CASE pc'[k] = "idle"
      BY <3>1 DEF SeenIsBacked
    <3>2. CASE pc'[k] = "write" /\ Approving(k)
      <4>1. AmountOf[job[k]] <= Left(ProviderOf[job[k]]) /\ ProviderOf[job[k]] \in Providers
            /\ AmountOf[job[k]] \in Nat
        BY <1>0, <2>1, <3>2, CoveredIsLeft, SellerBalanceAssumption DEF SellerBalanceAssumption
      <4>2. \A p \in Providers : Left(p) <= Left(p)' /\ Left(p) \in Int /\ Left(p)' \in Int
        BY <1>0, <2>2, LeftGrows, LeftType, LeftTypeNext DEF Left
      <4>3. AmountOf[job[k]] <= Left(ProviderOf[job[k]])'
        BY <4>1, <4>2, <2>1
      <4> QED
        BY <2>1, <3>2, <4>3 DEF SeenIsBacked
    <3>3. CASE pc'[k] = "write" /\ ~Approving(k)
      BY <2>1, <3>3 DEF Approving
    <3> QED
      BY <2>1, <3>1, <3>2, <3>3
  <2> HIDE DEF Unpaid, Still
  <2> QED
    BY <1>1, <2>1, <2>2, <2>3
<1>6. CASE \/ \E o \in Orders : Sale(o) \/ Refresh(o)
           \/ \E w \in Withdrawals : PayoutEnds(w)
           \/ UNCHANGED vars
  <2>1. UNCHANGED tellerVars
    BY <1>6 DEF Sale, CreditEarnings, RecordPendingCredit, Deliver, OpenDispute, SettleRefund,
       Refresh, ReadCache, ReadDebits, WriteCache, MarkSynced, RefreshFails, RefreshStep, PayoutEnds, vars
  <2>2. \A o \in Orders : phase[o] # "unsold" => phase'[o] # "unsold"
    BY <1>0, <1>6 DEF Sale, CreditEarnings, RecordPendingCredit, Deliver, OpenDispute, SettleRefund,
       Refresh, ReadCache, ReadDebits, WriteCache, MarkSynced, RefreshFails, RefreshStep, PayoutEnds,
       vars, saleVars, BalanceInv, TypeOK
  <2>3. \A w \in Withdrawals :
            /\ wstatus'[w] \in {"COMPLETED", "PROCESSING"} => wstatus[w] \in {"COMPLETED", "PROCESSING"}
            /\ wstatus'[w] = "NONE" <=> wstatus[w] = "NONE"
    <3>1. CASE \E w \in Withdrawals : PayoutEnds(w)
      BY <1>0, <3>1 DEF PayoutEnds, Unchecked, BalanceInv, TypeOK
    <3>2. CASE ~\E w \in Withdrawals : PayoutEnds(w)
      BY <1>6, <3>2 DEF Sale, CreditEarnings, RecordPendingCredit, Deliver, OpenDispute, SettleRefund,
         Refresh, ReadCache, ReadDebits, WriteCache, MarkSynced, RefreshFails, RefreshStep, vars
    <3> QED
      BY <3>1, <3>2
  <2>4. /\ \A p \in Providers : Withdrawn(p)' <= Sold(p)'
        /\ \A l \in Workers : Still(l) /\ Approving(l) => SeenIsBacked(l)'
    BY <1>0, <2>2, <2>3, BackedStays
  <2>5. ASSUME NEW l \in Workers, Approving(l)' PROVE Still(l) /\ Approving(l)
    BY <1>0, <2>1, <2>3, <2>5 DEF tellerVars, Approving
  <2> HIDE DEF Still
  <2> QED
    BY <1>0, <2>4, <2>5 DEF TellerInv
<1> QED
  BY <1>2, <1>3, <1>4, <1>5, <1>6 DEF Next

\* A withdrawal is accepted only within what the provider's own sales have earned, for a
\* seller with one provider, while the requests about a withdrawal and the approvals of the
\* seller take turns, whatever refreshes, sales, settlements and requests for other withdrawals
\* run between the queries of getWithdrawable.
THEOREM PaidFromOwnProviderInTurn ==
    ASSUME OneProvider
    PROVE  Spec /\ []TakeTurns /\ []OneApproval => PaidFromOwnProvider
<1>1. Init => TellerInv
  BY TellerInit
<1>2. TellerInv /\ TakeTurns /\ OneApproval /\ [Next]_vars => TellerInv'
  BY TellerStep
<1>3. ASSUME TellerInv, TellerInv', NEW k \in Workers, Accept(k)
      PROVE  Withdrawn(ProviderOf[job[k]])'
                <= In(ProviderOf[job[k]], {"paid", "disputed", "delivered", "refunded"})
  <2> DEFINE p == ProviderOf[job[k]]
  <2>0. job[k] \in Withdrawals /\ job' = job /\ phase' = phase
    BY <1>3 DEF TellerInv, BalanceInv, TypeOK, Accept, saleVars
  <2>1. p \in Providers /\ job' = job /\ phase' = phase
    BY <2>0, SellerBalanceAssumption DEF SellerBalanceAssumption
  <2>2. Sold(p)' = Sold(p)
    BY <2>1 DEF Sold, SoldOrders, Of
  <2>3. Withdrawn(p)' <= Sold(p)'
    BY <1>3, <2>1 DEF TellerInv
  <2>4. In(p, {"paid", "disputed", "delivered", "refunded"}) = Sold(p)
    <3>1. {o \in Of(p, Orders) : phase[o] \in {"paid", "disputed", "delivered", "refunded"}}
          = SoldOrders(p)
      BY <1>3 DEF SoldOrders, Of, TellerInv, BalanceInv, TypeOK
    <3> QED
      BY <3>1 DEF In, Sold
  <2> QED
    BY <2>2, <2>3, <2>4
<1>4. TellerInv /\ TellerInv' => [\A k \in Workers : Accept(k) =>
          Withdrawn(ProviderOf[job[k]])'
             <= In(ProviderOf[job[k]], {"paid", "disputed", "delivered", "refunded"})]_vars
  BY <1>3
<1> QED
  BY <1>1, <1>2, <1>4, PTL DEF Spec, PaidFromOwnProvider
=============================================================================
