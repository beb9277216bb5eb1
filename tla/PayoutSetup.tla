------------------------------ MODULE PayoutSetup ------------------------------
(***************************************************************************)
(* Where a seller is paid.  CheckoutCapabilityService keeps a row for every *)
(* provider the seller has connected and checkout asks it which methods to  *)
(* offer; a preference row from before holds a copy of the accounts.        *)
(* Connecting and disconnecting write the copy from the rows; the profile   *)
(* page writes the preference and makes a capability of what it holds; the  *)
(* artist's page writes the preference only.                                *)
(*                                                                          *)
(* The rows of one seller, who makes one request at a time; an account is   *)
(* the PayPal address or the Chapa account number.                          *)
(***************************************************************************)
CONSTANTS Accounts

NoAccount == "none"   \* no row, null or blank
Kept      == "kept"   \* a field a request leaves out

PayoutSetupAssumption == {NoAccount, Kept} \cap Accounts = {}

Providers == {"paypal", "chapa"}
Countries == {"ethiopia", "elsewhere", "unknown"}

VARIABLES
    capability,  \* the account of each SellerPayoutCapability row
    preference,  \* the PaymentMethodPreference row
    entered,     \* history: accounts entered for a provider since it was last disconnected
    pending,     \* providers of orders that wait for their payment
    held,        \* providers that hold a balance of the seller's
    request      \* what the seller's request is about to do

vars == <<capability, preference, entered, pending, held, request>>

Rest == [do |-> "rest"]

Init ==
    /\ capability = [p \in Providers |-> NoAccount]
    /\ preference = [method |-> NoAccount, account |-> [p \in Providers |-> NoAccount]]
    /\ entered = [p \in Providers |-> {}]
    /\ pending = {} /\ held = {}
    /\ request = Rest

-----------------------------------------------------------------------------
(* What checkout offers: the buyer's methods that all sellers can be paid by. *)

Connected == {p \in Providers : capability[p] # NoAccount}

BuyerMethods(country) == IF country = "elsewhere" THEN {"paypal"} ELSE Providers

AvailableMethods(country, sellers) ==
    {p \in BuyerMethods(country) : sellers # {} /\ \A connected \in sellers : p \in connected}

-----------------------------------------------------------------------------
(* The seller's requests.                                                    *)

Asks(next)   == request = Rest /\ request' = next
Goes(do, next) == request.do = do /\ request' = next

Enter(p, a) == entered' = [entered EXCEPT ![p] = @ \cup {a}]

ConnectSellerPayout(p, a) ==
    /\ Asks([do |-> "list"])
    /\ capability' = [capability EXCEPT ![p] = a]
    /\ Enter(p, a)
    /\ UNCHANGED <<preference, pending, held>>

DisconnectSellerPayout(p) ==
    /\ p \in Connected
    /\ Asks([do |-> "balance", provider |-> p])
    /\ UNCHANGED <<capability, preference, entered, pending, held>>

\* What is available, waits for a delivery or is in dispute blocks the disconnection.
CheckBalance ==
    /\ Goes("balance", IF request.provider \in held THEN Rest
                       ELSE [request EXCEPT !.do = "delete"])
    /\ UNCHANGED <<capability, preference, entered, pending, held>>

DeleteCapability ==
    /\ Goes("delete", [do |-> "list"])
    /\ capability' = [capability EXCEPT ![request.provider] = NoAccount]
    /\ entered' = [entered EXCEPT ![request.provider] = {}]
    /\ UNCHANGED <<preference, pending, held>>

\* syncLegacyPreference: read the rows, write the preference.
ListCapabilities ==
    /\ Goes("list", [do |-> "sync", found |-> capability])
    /\ UNCHANGED <<capability, preference, entered, pending, held>>

\* Mutant of Copied: an account that is not connected any more stays.
Mut_CopiedOver(found) ==
    [p \in Providers |-> IF found[p] = NoAccount THEN preference.account[p] ELSE found[p]]

\* The rows' accounts, blank where there is no row.
Copied(found) == found

SyncLegacyPreference ==
    /\ Goes("sync", Rest)
    /\ preference' = [method |-> IF Copied(request.found)["paypal"] = NoAccount
                                    /\ Copied(request.found)["chapa"] # NoAccount
                                 THEN "chapa" ELSE "paypal",
                      account |-> Copied(request.found)]
    /\ UNCHANGED <<capability, entered, pending, held>>

\* The profile page: the preferred method, and accounts that are entered, blanked or kept;
\* the preferred method's capability is made of what the row holds now.
UpdatePaymentMethodPreference(m, given) ==
    LET account == [p \in Providers |-> IF given[p] = Kept THEN preference.account[p] ELSE given[p]]
    IN
    /\ Asks(IF account[m] = NoAccount THEN Rest
            ELSE [do |-> "mirror", provider |-> m, account |-> account[m]])
    /\ preference' = [method |-> m, account |-> account]
    /\ entered' = [p \in Providers |-> entered[p] \cup ({given[p]} \cap Accounts)]
    /\ UNCHANGED <<capability, pending, held>>

MirrorCapability ==
    /\ Goes("mirror", Rest)
    /\ capability' = [capability EXCEPT ![request.provider] = request.account]
    /\ UNCHANGED <<preference, entered, pending, held>>

\* The artist's page: the provider is told from the form of the account; a row that exists
\* keeps its method, and no capability follows.
UpdatePaymentMethod(p, a) ==
    /\ Asks(Rest)
    /\ preference' = [method |-> IF preference.method = NoAccount THEN p ELSE preference.method,
                      account |-> [preference.account EXCEPT ![p] = a]]
    /\ Enter(p, a)
    /\ UNCHANGED <<capability, pending, held>>

-----------------------------------------------------------------------------
(* Orders: placed while the method is offered, paid or cancelled later; and  *)
(* withdrawals.                                                              *)

PlaceOrder(country, p) ==
    /\ p \in AvailableMethods(country, {Connected})
    /\ pending' = pending \cup {p}
    /\ UNCHANGED <<capability, preference, entered, held, request>>

EndOrder(p) ==
    /\ p \in pending
    /\ pending' = pending \ {p}
    /\ held' \in {held, held \cup {p}}
    /\ UNCHANGED <<capability, preference, entered, request>>

Withdraw(p) ==
    /\ p \in held
    /\ held' = held \ {p}
    /\ UNCHANGED <<capability, preference, entered, pending, request>>

-----------------------------------------------------------------------------
Next ==
    \/ CheckBalance \/ DeleteCapability \/ ListCapabilities \/ SyncLegacyPreference
    \/ MirrorCapability
    \/ \E p \in Providers :
          \/ DisconnectSellerPayout(p) \/ EndOrder(p) \/ Withdraw(p)
          \/ \E a \in Accounts : ConnectSellerPayout(p, a) \/ UpdatePaymentMethod(p, a)
          \/ \E given \in [Providers -> Accounts \cup {NoAccount, Kept}] :
                UpdatePaymentMethodPreference(p, given)
          \/ \E c \in Countries : PlaceOrder(c, p)

Spec == Init /\ [][Next]_vars
-----------------------------------------------------------------------------
(* Properties.                                                               *)

AccountOrNone == Accounts \cup {NoAccount}

Requests ==
    {Rest} \cup [do : {"list"}] \cup [do : {"balance", "delete"}, provider : Providers]
    \cup [do : {"sync"}, found : [Providers -> AccountOrNone]]
    \cup [do : {"mirror"}, provider : Providers, account : Accounts]

TypeOK ==
    /\ capability \in [Providers -> AccountOrNone]
    /\ preference \in [method : Providers \cup {NoAccount}, account : [Providers -> AccountOrNone]]
    /\ entered \in [Providers -> SUBSET Accounts]
    /\ pending \subseteq Providers /\ held \subseteq Providers
    /\ request \in Requests

\* Whatever checkout offers is paid out to an account that the seller entered for that
\* provider and has not disconnected since, on whichever of the three pages: the copy in
\* the preference never brings a disconnected account back.
OfferedAsEntered ==
    \A country \in Countries : \A p \in AvailableMethods(country, {Connected}) :
        capability[p] \in entered[p]
=============================================================================
