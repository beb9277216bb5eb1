------------------------------- MODULE Settings -------------------------------
(***************************************************************************)
(* The platform's settings: documents of fields that start from seeds and   *)
(* are updated by administrators, what the settings pages show of them, and *)
(* the values the services use.  Each of these has defaults of its own for  *)
(* a document or a field that is missing.  An update reads the document,    *)
(* puts its fields on it and writes it back whole, in another statement.    *)
(*                                                                          *)
(* The documents do not meet: a behaviour is about one.                     *)
(***************************************************************************)
EXTENDS Naturals, FiniteSets

CONSTANTS Admins,    \* updates served at the same time
          Given,     \* values an update may give a field
          Touched,   \* the fields updates give a value
          MaxGiven,  \* bound on the fields of one update
          Ages       \* hours a pending order has been waiting

SettingsAssumption == Given \cup Ages \subseteq Nat /\ MaxGiven \in Nat

VARIABLES
    doc,      \* which document this is
    stored,   \* Settings.value; no fields: there is no such row
    request,  \* what an update is about to write
    age,      \* hours since an order was placed that waits for its payment
    status    \* and its status

orderVars == <<age, status>>
vars == <<doc, stored, request, orderVars>>

Documents == {"platform", "payment", "order", "collection"}
Missing   == [f \in {} |-> 0]
Done      == [step |-> "done"]

\* {...under, ...over}
Spread(over, under) ==
    [f \in DOMAIN over \cup DOMAIN under |-> IF f \in DOMAIN over THEN over[f] ELSE under[f]]

-----------------------------------------------------------------------------
(* The defaults: in the seeds, on the pages, under an update, in use.        *)

OrderDefaults      == [orderExpirationHours |-> 24, autoCancelPendingOrdersDays |-> 7]
CollectionDefaults == [maxCollectionsPerUser |-> 50, maxArtworksPerCollection |-> 100,
                       minArtworksForPublish |-> 3]
WithdrawalDefaults == [minWithdrawalAmount |-> 10, minWithdrawalAmountPaypal |-> 10,
                       minWithdrawalAmountChapa |-> 100, maxWithdrawalAmount |-> 0,
                       maxWithdrawalAmountPaypal |-> 0, maxWithdrawalAmountChapa |-> 0,
                       paymentTimeoutMinutes |-> 30]

Seeds ==
    [platform   |-> [platformCommissionRate |-> 10],
     payment    |-> Spread([holdingPeriodDays |-> 7, platformCommissionRate |-> 10],
                           WithdrawalDefaults),
     order      |-> OrderDefaults,
     collection |-> CollectionDefaults]

PageDefaults == [Seeds EXCEPT !.payment = WithdrawalDefaults]

UpdateDefaults ==
    [PageDefaults EXCEPT !.payment =
        [minWithdrawalAmount |-> 10, maxWithdrawalAmount |-> 0, paymentTimeoutMinutes |-> 30]]

\* The values read field by field have a default for each field.
ValueDefaults == Seeds

Or(document, defaults) == IF document = Missing THEN defaults[doc] ELSE document

\* getSetting on the pages, one document at a time or all of them.
GetSettings == Or(stored, PageDefaults)

\* value || default: zero is a value like none at all.
Value(field) ==
    IF field \in DOMAIN stored /\ stored[field] # 0 THEN stored[field] ELSE ValueDefaults[doc][field]

\* Limits that use zero for none default to zero.
SettingsValues == [f \in DOMAIN ValueDefaults[doc] |-> Value(f)]

-----------------------------------------------------------------------------
Init ==
    /\ doc \in Documents
    /\ stored = Missing
    /\ request = [a \in Admins |-> Done]
    /\ age = 0 /\ status = "PENDING"

\* initializeDefaultSettings, when the module starts; it may fail and is not tried again
\* before the next start.
InitializeDefaultSettings ==
    /\ stored = Missing
    /\ stored' = Seeds[doc]
    /\ UNCHANGED <<doc, request, orderVars>>

\* What requests may give; some fields of a stored document are in none.
Dtos ==
    LET fields == Touched \cap DOMAIN PageDefaults[doc]
    IN  UNION {[fs -> Given] : fs \in {s \in SUBSET fields : Cardinality(s) \in 1..MaxGiven}}

OrElse(dto, field, current) ==
    IF field \in DOMAIN dto /\ dto[field] # 0 THEN dto[field] ELSE current

\* The legacy amounts follow PayPal's, over what the request gives for them.
LegacyAmounts(dto, current) ==
    IF doc # "payment" THEN Missing
    ELSE [minWithdrawalAmount |-> OrElse(dto, "minWithdrawalAmountPaypal", current.minWithdrawalAmount),
          maxWithdrawalAmount |-> OrElse(dto, "maxWithdrawalAmountPaypal", current.maxWithdrawalAmount)]

\* Mutant of Updated: what the request gives for a legacy amount stays.
Mut_LegacyGiven(dto, current) == Spread(dto, Spread(LegacyAmounts(dto, current), current))

Updated(dto, current) == Spread(LegacyAmounts(dto, current), Spread(dto, current))

Update(a) ==
    /\ request[a] = Done
    /\ \E dto \in Dtos :
          request' = [request EXCEPT ![a] =
              [step |-> "write", value |-> Updated(dto, Or(stored, UpdateDefaults))]]
    /\ UNCHANGED <<doc, stored, orderVars>>

SetSetting(a) ==
    /\ request[a] # Done
    /\ stored' = request[a].value
    /\ request' = [request EXCEPT ![a] = Done]
    /\ UNCHANGED <<doc, orderVars>>

-----------------------------------------------------------------------------
(* The order scheduler, which is who uses the order settings.                *)

Grow ==
    /\ doc = "order"
    /\ age' \in {h \in Ages : h > age}
    /\ UNCHANGED <<doc, stored, request, status>>

Cancel(field, hours) ==
    /\ doc = "order" /\ status = "PENDING"
    /\ SettingsValues[field] # 0
    /\ age > SettingsValues[field] * hours
    /\ status' = "CANCELLED"
    /\ UNCHANGED <<doc, stored, request, age>>

CancelExpiredOrders     == Cancel("orderExpirationHours", 1)
AutoCancelPendingOrders == Cancel("autoCancelPendingOrdersDays", 24)

-----------------------------------------------------------------------------
Next ==
    \/ InitializeDefaultSettings
    \/ \E a \in Admins : Update(a) \/ SetSetting(a)
    \/ Grow \/ CancelExpiredOrders \/ AutoCancelPendingOrders

Spec == Init /\ [][Next]_vars
-----------------------------------------------------------------------------
(* Properties.                                                               *)

Documented(value) == /\ DOMAIN value \subseteq DOMAIN Seeds[doc]
                     /\ \A f \in DOMAIN value : value[f] \in Nat

TypeOK ==
    /\ doc \in Documents
    /\ Documented(stored)
    /\ \A a \in Admins : request[a] = Done \/ Documented(request[a].value)
    /\ age \in Ages \cup {0}
    /\ status \in {"PENDING", "CANCELLED"}

\* What the settings pages show, other than a zero, is what the services use, although the
\* defaults are written down in five places and a document may be missing or lack fields.
UsedIsShown ==
    \A f \in DOMAIN GetSettings : GetSettings[f] # 0 => SettingsValues[f] = GetSettings[f]

\* The amounts of the time before there were two currencies are PayPal's, unless those
\* were set to zero.
LegacyFollowsPayPal ==
    doc = "payment" =>
        \A pair \in {<<"minWithdrawalAmount", "minWithdrawalAmountPaypal">>,
                     <<"maxWithdrawalAmount", "maxWithdrawalAmountPaypal">>} :
            pair[2] \in DOMAIN stored /\ stored[pair[2]] # 0 => stored[pair[1]] = stored[pair[2]]

\* The copies of a setting agree, whatever is given for them and whichever updates overlap
\* and overwrite each other.
CopiesAgree == UsedIsShown /\ LegacyFollowsPayPal

\* The scheduler cancels a pending order only under a setting that is not zero: zero is
\* documented as no expiration, and as disabled.
DisabledExpiryCancelsNothing ==
    [][status' # status /\ stored # Missing =>
          \/ stored.orderExpirationHours > 0 /\ age > stored.orderExpirationHours
          \/ stored.autoCancelPendingOrdersDays > 0
                /\ age > 24 * stored.autoCancelPendingOrdersDays]_vars
=============================================================================
