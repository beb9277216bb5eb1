# TLA+ models of the art store backend

The backend is one NestJS server over one PostgreSQL database (Prisma). Buyers
order artworks and pay through PayPal or Chapa, sellers ship them and withdraw
their earnings, administrators decide disputes and approve withdrawals. This
directory models the part where money, ownership and parcels change hands:
orders and their payment, shipments and their tracking, disputes and refunds, the
seller's balance, withdrawals and their payouts; and the parts around it: the
checkout and its quotes, the accounts sellers are paid to, the catalogue and the
lists computed from it, what users keep, the blog, the settings and the paged
lists. TLC checks the models on small instances, TLAPS proves the main results for
every value of the constants. `PROJECT.json` maps each definition
to the lines it stands for and lists runs, mutants, hazards and theorems.

## 1. The system

### Components

| Component (under `src/src/apps` unless said) | State it keeps | Operations that change state | What makes it correct |
|---|---|---|---|
| `order`: OrderService, OrderSchedulerService | Order, OrderItem, its transactions; Artwork.status; earnings and ledger rows of the sellers | createOrder, prepareCheckout, completeOrder, cancellation crons | a sale is paid for, booked completely and once, its artworks leave the shelf, nothing unpaid stays pending |
| `payment`: PaymentService, PayPal and Chapa services, webhooks | Transaction; the gateways keep charges and payouts | initializePayment, verifyPayment, payout batch and item webhooks | a verification books what the gateway captured and nothing else |
| `checkout`: pricing and capability | the quote in a transaction's metadata; SellerPayoutCapability; its copy PaymentMethodPreference | createQuote, assertQuoteUsable, resolveCheckoutMethods, connect, disconnect | what is charged was quoted and is still live; a method is offered only if every seller is connected to it, by an account not disconnected since |
| `delivery-confirmation` | DeliveryConfirmation, Dispute | confirmDelivery | one receipt per order; it releases the seller's hold or opens a dispute |
| `disputes`: DisputesService, RefundGatewayService | Dispute, Refund | resolve for the seller, record, waive, confirm, cancel, complete refund | money goes to exactly one side, after the return, and the books agree |
| `balance`: BalanceService | SellerLedgerEntry, User.earningPaypal, User.earningChapa | pending credit, release, cancel, refund debit, refreshEarningCache, getWithdrawable | never offers money that is not the seller's |
| `artist`, `withdrawals` | Withdrawal, WITHDRAWAL transactions | requestWithdrawal, updateStatus | a withdrawal is paid once, within the balance, and shown as what it is |
| `fedex`: FedExService, tracking scheduler and mapper; `profile` where it starts a retry | Shipment; FedEx keeps labels and scans | createShipmentsForOrder, createShipment, retryShipment, retryPendingShipmentsForArtist, hourly poll, manual sync | every paid order has a row that can be retried; the row shows what was scanned under its number since it exists, and shows it in the end |
| `artwork` | Artwork.status and isApproved, comments, likes | submission, moderation, edit, deletion, like, comment | what is public was made public by its status endpoint; what is on sale is found wherever it should be listed |
| `artist`, `feed`, `talent-type`: lists of artists and similar artworks | none: computed at every request | ban, deactivation, removal of a user change them | they agree on who and what is on sale |
| `cart`, `favorites`, `follow`, `collections` | CartItem, Favorite, Follow, Collection | find, count, then create, update or delete; publishing | a list outgrows its limit by no more than the overlap of requests, no row with a unique key is there twice |
| `blog` | BlogPost, BlogVote, BlogShare, BlogComment | writing, moderation, votes, shares, comments | counters follow the rows, a published post has a date |
| `settings` | documents of a key-value table | update, seed, defaults on every reading | what is shown is what is used, 0 means what its description says |
| paged lists of `order`, `transactions`, `disputes`, `withdrawals`, `artwork`, `blog`, `users`, ... | none | a page and a count, in the order asked for | pages miss only what left the list or its place in it |
| `src/src/libraries/currency` | the cached exchange rate | fetch, fall back, convert | a charge uses no rate older than cache and quote allow |
| `profile`, `users` | User, PaymentMethodPreference | field updates, deactivation, removal | as far as others look at them: above |
| `category`, `analytics`, auth, S3, e-mail, logging | rows of one table, or none | field updates, reads, I/O | left out |

### How they interact

- `verifyPayment` asks the gateway, then calls `completeOrder` in the same
  process. So do `POST /orders/:id/complete` (without asking a gateway) and
  repeated verifications by a returning or reloading browser.
- `completeOrder` writes Order, Transaction, Artwork, User.earning*, the ledger
  (`recordPendingCredit`), a SELLER_PAYMENT row that serves as its idempotency
  marker, PlatformEarning and the shipments, one statement after the other and
  outside any transaction.
- `confirmDelivery` writes the receipt in one transaction and releases the hold
  or opens the dispute; the dispute endpoints settle the same order, artworks
  and ledger rows. A settled refund starts `refreshEarningCache` without waiting.
- `completeOrder` starts the labels of a FedEx order and catches what they throw; a
  saved profile starts `retryPendingShipmentsForArtist` without waiting. The hourly
  poll asks FedEx for scans and writes the statuses that retries decide on.
- `requestWithdrawal` and `updateStatus` call `getWithdrawable`, which reads the
  cache, the withdrawals, the ledger and the disputes.
- PayPal calls back by webhook about payouts. Nothing calls back about charges,
  and there is no Chapa webhook.
- The crons write orders by id, beside all of this; how old an order may grow they
  read from the settings at each sweep.
- `prepareCheckout` makes one order per seller and links them in the metadata of
  their transactions; `initializePayment`, `verifyPayment`, `completeOrder`,
  `confirmDelivery` and the settlements read that document, extend it and write it back
  whole.
- `createOrder` asks `resolveCheckoutMethods`, which reads the sellers' connections;
  the profile and artist pages write the preference those were once copied to.
- Orders, receipts, settlements and the status endpoint, which asks only for a session,
  write the artwork's status by id, and every public list filters by that status, by isApproved, or by both. A deleted
  artwork or user takes rows of most tables with it (cascades of the schema).

### What is hard

One event loop serves every request: code between two awaits runs alone, every
await lets any other request in. Almost every handler reads a row, decides on
it, and later updates it by id without looking again. Gateways may act and their
answer be lost; webhooks come late and in any order; a statement may fail in the
middle of a sequence; the process may restart there. `PROJECT.json` lists these
hazards at their lines, each with the properties that would catch it.

## 2. Modules

| Module | Models | State and actions against the code |
|---|---|---|
| `OrderPayment` | `order.service.ts` (createOrder, completeOrder), `payment.service.ts` (initializePayment, verifyPayment), `order-scheduler.service.ts`, `delivery-confirmation.service.ts`, the ledger's hold | A worker is one request, its `pc` the await it is about to perform. One action is one statement with the code up to the next: `CheckSeller`, `CreditSeller`, `FindPending`, `WritePending`, `WriteSellerTx` are the seller loop of completeOrder, in its order |
| `MCOrderPayment` | finite instances | |
| `OrderPayment_proofs` | theorems | |
| `DisputeWorkflow` | `disputes.service.ts`, `refund-gateway.service.ts`, the ledger writes of the settlement | A request reads the dispute (`Request`, with the endpoint's guard) and writes later (`SellerWins`, `RecordBuyerWins`, ...). A `$transaction` is one action but for the settlement, which looks up and creates ledger rows before it locks anything: `SettlementLooks` is each look-up with its create, seen by others at the commit, `SettleRefund` |
| `MCDisputeWorkflow` | two disputes for TLC, the requests about one in turn, about the other overlapping | |
| `DisputePromise` | the abstract specification: who gets the disputed money, and when | four phases, three places for the money |
| `DisputeWorkflow_proofs` | theorems, among them the refinement | |
| `WithdrawalPayout` | `withdrawals.service.ts` (updateStatus, createWithdrawalTransaction), the payout calls of both gateways, the webhook handlers of `payment.service.ts` | a worker is an admin request or a webhook; `batch` is PayPal's own record of a payout, `hooks` its webhooks on their way |
| `MCWithdrawalPayout` | finite instances | |
| `WithdrawalPayout_proofs` | theorems | |
| `SellerBalance` | `balance.service.ts` (getWithdrawable query by query, refreshEarningCache), the checks of requestWithdrawal and updateStatus | an order is reduced to what it does to the balance, a payout to its end |
| `MCSellerBalance` | finite instances | |
| `SellerBalance_proofs` | theorems | |
| `Shipment` | `fedex.service.ts` (labels, outcomes, retries), `fedex-tracking.scheduler.ts`, `fedex-tracking.mapper.ts` | the row of one seller in one order; a worker is a request, a background retry or a poll, `stage` the await it is about to perform; `scans` is what FedEx knows of each parcel, `past` what it knows of earlier ones with the same number, each scan dated before or after the cut; `Resolve`, `Trusted` and `Computed` are the mapper and the poll's choice of what counts |
| `MCShipment` | finite instances | |
| `Shipment_proofs` | theorems | |
| `UserLists` | `cart`, `favorites`, `follow`, `collections` services, likes of `artwork.service.ts` | one list, of one of six kinds; a request finds and counts in one action (`AddToCart`, `AddToFavorites`, ...) and writes in the next (`InsertRow`, `SetQuantity`, `DeleteRow`) |
| `BlogPost` | `blog.service.ts`, votes, shares, comments | one post; a vote is `Vote` (reads), `WriteVote` (the row), `CountVote` (the counter); a decision is `Update` and `WriteDecision` |
| `Catalogue` | `artwork.service.ts` (create, updateStatus, remove, comments, findAll, trending), what orders, receipts, disputes and the feed do with artworks | status and isApproved of each artwork; one action per writer, two for completeOrder (`CompleteOrder` pays, `MarkArtworksSold` sells); the lists are operators |
| `ArtistLists` | `artist.service.ts`, `talent-type.service.ts`, `users.service.ts`, `profile.service.ts` (deactivation), similar artworks and hot collections | extends `Catalogue`; ranked lists are sequences cut at their limit |
| `Checkout` | `prepareCheckout`, `checkout-pricing.service.ts`, `exchange-rate.service.ts`, the metadata in `initializePayment` | `PrepareGroup` is one pass of the loop over sellers; a payment reads the metadata (`Initialize`), writes it (`WriteQuote`), asks the gateway (`StartCharge`), reads and writes it again. `BeginComplete` and `FinishComplete`, and the same of receipts and settlements, are the other writers of the document |
| `PayoutSetup` | `checkout-capability.service.ts`, the payment preference of `profile.service.ts` and `artist.service.ts` | the rows of one seller; `CheckBalance`, `DeleteCapability`, `ListCapabilities`, `SyncLegacyPreference` are the awaits of a disconnection |
| `Settings` | `settings.service.ts`, the crons' use of it | one document; `Update` reads and computes, `SetSetting` writes; the pages and the services read through `GetSettings` and `SettingsValues`, each with its defaults |
| `Listings` | the paged lists of twelve services | a list is its tables, filters, sorts and number of statements; a reader turns pages while rows come, change their status or what the list is sorted by, and go |
| `Platform` | the seven modules above side by side | one moves in each behaviour |
| `MCPlatform` | finite instances | |
| `Platform_proofs` | theorems about the parts, and about the platform | each part is an instance of its module, as in `Platform` |
| `Places` | lemmas on lists in any order, which rows leave and come to and in which they change their place | |
| `Sums` | lemmas on the sums of balances, payouts and lost answers | |

The modules overlap on purpose: `OrderPayment` has the receipt and the end of a
dispute as far as they write the order; `DisputeWorkflow` starts where its
`complain` receipt ends; `SellerBalance` summarises the orders of the first, the
settlements of the second and the payouts of `WithdrawalPayout` (`PayoutEnds`),
and in turn is the constant `Balance` of that module. `Shipment` starts where
`completeOrder` of the first calls createShipmentsForOrder; `Checkout` ends where a
charge of `OrderPayment` begins. `Platform` does not connect its parts: what one takes
from another (an artwork in a cart is sold, an order of a provider is placed) is a
free move of its environment there, so that an interleaving of two parts shows no
more than the two alone. It has a `scene`, the part that moves.

Operators named `Mut_*` are variants of the operator after them with a plausible
bug. No specification uses them; `PROJECT.json` says which property each breaks.

### Abstractions

- The order of awaits is the code's. A `$transaction` is one action where its first
  statement locks the row it updates. The settlement of a refund does not: it finds and
  creates the debit, the cancellation and the adjustment, rows without a unique key,
  before its first update, so its look-ups are steps of their own (`rows`, `creates`).
- An order has one seller. The loop over sellers repeats the same statements for
  disjoint rows.
- The two crons differ in cutoff and table of settings only and share one sweep.
- Initialising a payment twice opens a second charge at PayPal: several
  `Attempts` may belong to one order.
- The transaction rows that follow their order's status, e-mails, audit events
  and User.earning (the sum of the two provider columns) are left out; the metadata
  of a transaction is in `Checkout` only.
- `refundCreate` can only fail: Refund.orderId is unique and a linked row exists
  whenever the endpoint accepts. The action is kept with that failure.
- Disputes start as confirmDelivery opens them. Rows of before the migration to
  the return workflow (an IN_PROGRESS dispute with a refund being processed) are
  accepted by `Reconciling` as the code does, and are not initial states.
- Statement failures and restarts between statements are modelled where the
  sequence is long and unprotected (`OrderPayment`) and around the settlement of
  a dispute. `SellerBalance` lets a refresh fail at each of its steps.
- `SlowHold = FALSE` closes the window between a credit and its hold, to look at
  the refreshes alone. Local variables that are dead are reset.
- The gateways are external and modelled by what the code makes of their
  answers: PayPal approves and captures on verification, Chapa takes or declines
  the money itself. A PayPal payout ends paid, failed, or unclaimed and then paid
  or returned, with one webhook per subscribed event and change. Whether a
  gateway answers success again for a refund it has made is a constant
  (`Replays`; TRUE admits the refusal as well).
- `Shipment`: an address, a package and a profile are complete or not, and a profile
  stays complete. Track lists a parcel's scans in one of two orders; the newest may be
  missing for a while (`behind`), and the latest status may be that of the last or last
  but one scan. A number may have scans of an earlier parcel (`Recycled`, any lists of
  dated scans), the parcel's own are newer than the row. The order stays PAID and within the 90 days the retry looks back;
  the seller's account exists. The seller has one package, which travels under one
  label at a time. FedEx's codes are reduced to one per kind of scan (AF, AR and DP
  map like IT) and HL, which the mapper does not know. The stored copies of scans,
  estimated deliveries, the sandbox's mock numbers, batches and restarts are left out.
- `UserLists`: a list of one user; its items are artworks, or the ids of collections
  or users. What others do to an item is `ItemSold` and `ItemDeleted`.
- `BlogPost`: text, pictures and slugs are left out, a reader has one request at a
  time; requests of the author and of administrators are served by `Staff`.
- `Catalogue`: an artwork's number is its place in the order of creation; views, likes and favourites are
  constants, and so is a user's heat score in `ArtistLists`. Price filters and text
  search are left out. `letThrough` remembers what the status endpoint has made
  public; the endpoint asks for a session and for nothing else. A dispute is about some of the artworks of its order.
- `Checkout`: prices and rates are small numbers, a total is their product; rounding
  to minor units is left out. Payments, completions and what follows start after the
  preparation has answered. Of a metadata document its quote, siblings and reference are
  kept; what completions, receipts and settlements add to it nothing here reads.
- `PayoutSetup`: an account is one value, the PayPal address or the Chapa number; a
  seller makes one request at a time and the process does not restart in it.
- `Settings`: numbers only; the payment gateways' document, which no service reads, is
  left out.
- `Listings`: what comes before the date in the order of a list, a post's priority or any
  field of an artwork or a post that a request names, is one number (`rank`), which an edit
  may change; ties go by date, or as the database likes at each page. A row's content is
  its owner, status, provider and rank.
- The fallback for a database without the payoutBatchId column, signature
  checks and the PENDING and ONHOLD notices of a payout are left out.

## 3. Runs

| Run | Instance | Checks | States |
|---|---|---|---|
| `order_seq` | 1 request at a time, 2 orders (Chapa, PayPal and FedEx) of one buyer, gateway exceptions, clients completing orders | `TypeOK` `CreditedOnce` `PaidIsOffTheShelf` `HoldFollowsTheOrder` | 1,099,652 |
| `order_faults` | 2 requests, 1 order with 2 PayPal charges, every fault, deadlock checked | `SoldIsCaptured` `NoHoldWithoutEarnings` | 917,554 |
| `order_live` | 2 requests, 1 Chapa and FedEx order, gateway exceptions, fairness | `SaleIsBooked` `OverdueIsCancelled` `VerifiedIsBooked` | 44,837 |
| `order_credited_twice` | 2 requests, 1 charge, no fault | `CreditedOnce` is violated | |
| `dispute_seq` | two disputes, one with 1 request at a time, one with 2; lost answers, failing settlements, restarts | `BooksFollowTheCase` `RefundIsRecoverable` `AlwaysAWayOn` `KeepsPromise` of the first, `OverlapIsBacked` of the second | 201,200 |
| `dispute_cancel_race` | 2 requests | `NoCancelAfterRefund` is violated | |
| `payout_seq` | 1 request or item webhook at a time, a bank, a manual and a PayPal withdrawal of 2, 3 and 2 out of a balance of 4, 2 batches, 2 lost answers, fairness | `TypeOK` `PaidOnce` `NeverOverpaid` `PaidIsBooked` `CompletedWasSent` `FinishedPayoutIsNoticed` | 372,967 |
| `balance_seq` | 1 request at a time, 2 orders, 2 withdrawals, one provider, their refreshes concurrent | `TypeOK` `AvailableIsBacked` `PaidFromOwnProvider` | 2,104,526 |
| `balance_debited` | 2 orders, 1 withdrawal | `RefundIsDebitedOnce` is violated | |
| `shipment_seq` | 1 request, retry or poll at a time, 2 labels whose numbers were used before, the second one's since the cut, up to 3 scans with exceptions, fairness | `TypeOK` `EveryPaidOrderHasARow` `StatusIsEarned` `ForwardOnly` `CompletedProfileIsRetried` `DeliveryIsNoticed` | 153,088 |
| `platform` | the seven parts of `Platform`, one moving | `PlatformTypeOK` and, of the parts, `ListsWithinLimits` `CountersFollowTheRows` `PublishedHasADate` `PublicWasLetThrough` `OnSaleIsFound` `ChargedAsQuoted` `NothingRemainsMeansAllPaid` `OfferedAsEntered` `CopiesAgree` `PagesMissOnlyWhatMoved` | 4,925,972 |
| `settings_zero` | one administrator, the order settings, an order 30 and 200 hours old | `DisabledExpiryCancelsNothing` is violated | |

Why the bounds are enough: a race in this code needs two requests that read the
same row, and one row. Two charges of one order are the least that lets one be captured while
the other is refused. Two batches are a payout and its retry. `MaxCredits` caps
the earnings increments of one order at one more than is right (2) or at more
than two workers reach (3); `MaxBatches` caps payouts, `MaxLost` the answers that are
lost: `PaidOnce` and `NeverOverpaid` allow one payment more for each of them, as the
code takes a lost answer for a failure that may be retried. `MaxLabels` 2 is a label and
its replacement; `MaxScans` 3 lets a parcel go out, meet an exception and arrive;
`Follows` gives the order in which FedEx scans, `Recycled` the scans an earlier parcel
left under a number: those of the first label end before the cut, those of its
replacement after it, a delivery each. Amounts 2, 3 and 2 with a balance of 4
let any one through: the bank's and PayPal's together are the balance, the manual one
fits alone, so that one payout too many, or the rejection of one that was sent, shows.
Everything else is finite.

In `platform` every limit is 1 and two requests overlap on three items, so that each
finds the last place free and both take it. Two readers share one post, with two
shares and two comments. The catalogue has two artworks of two artists and two
orders, one of which may buy both; comments on all artworks together are at most one
(`MaxComments`), and one owner edits categories (`Edited`). Two seller groups, one per
gateway, meet rates 2 and 3; a quote lives 1 tick, the cache 2, time
ends at 3 (`MaxTime`), which lets a quote expire that was made with an old rate;
`MaxCharges` 1 is a payment of either order, and two requests overlap on the metadata of
both, which may be paid, received (`MaxReceipts` 2), disputed and settled. One seller has two accounts to enter
at two providers. Two administrators give up to two fields 0 or 20 (`MaxGiven`). A
page has one row, a table at most three (`MaxRows`) with two ranks to be edited to
(`Ranks`), and one of them is edited or goes while the pages are read (`MaxChanges`); what
is edited before that is free.

`CHECK_DEADLOCK FALSE` stands where the system comes to rest: a resolved case, a
store whose orders are all settled, a list that is full.

Fairness. `WF(Serve(w))`: the event loop finishes a request it has accepted.
`WF(Sweep)`: the crons come back every hour and every night. `SF(Deliver)`: PayPal
repeats a webhook until it is acknowledged, and a server busy with one request
still accepts another, which a bounded number of workers hides. `SF(BackgroundRetry)`: the
retry a saved profile starts gets its turn. `SF(HourlyPoll)`: the cron comes back
every hour and finds a turn. `SF(Answer)`: FedEx answers a poll now and then,
refusals apart. `WF(FedExLists)`: it lists every scan in the end. Nothing is
assumed about buyers, sellers, administrators, time or PayPal's decisions.

## 4. What the models show that the code does not prevent

Four disagreements have a run and a finding: the seller credited twice by
overlapping verifications (`order.service.ts:787` calls the check idempotent);
Buyer Wins cancelled after the refund went out (`DISPUTE_REFUND_WORKFLOW.md:151`
forbids it); a refund that lowers the balance twice, in the cache and in the
ledger; and an order expiration set to 0, documented as disabled, that the crons read as
24 hours (`settings.service.ts:668`).

Others were met with the same modules and have no run of their own:

- a verification repeated after the receipt turns COMPLETED, DISPUTED or REFUNDED
  back into PAID, since only PAID is looked for;
- a cron cancels by id an order that was paid between its two statements;
- a receipt confirmed before the hold is written leaves that hold for ever (`HoldFollowsTheOrder`
  holds when no receipt comes before the booking is over);
- two orders created while an artwork is APPROVED can both be paid;
- two settlements of one refund may both look for the debit before either commits, and
  write two, as when Complete Refund is pressed twice and the gateway answers the second
  call as a replay; `DISPUTE_REFUND_WORKFLOW.md:183` says that money moves exactly once
  (`OverlapIsBacked` bounds the debits by the requests, `DebitedOnce` is proved while none is
  overtaken); so may the cancellation of the hold and the adjustment of the commission;
- overlapping decisions can change a resolved dispute or leave a case that no
  endpoint accepts (`ResolvedIsFinal` and `AlwaysAWayOn` hold while no request is
  overtaken);
- a withdrawal approved twice at once pays twice (`PaidOnce` holds while the
  requests about one withdrawal take turns); approvals of two withdrawals that overlap may
  both be covered by a balance that is enough for one;
- a payout webhook that overtakes the batch id it names finds no row, is acknowledged and
  dropped; unless another webhook of it follows, the row stays PROCESSING until an
  administrator completes it by hand, which nothing compares with what PayPal did;
- a payout marked FAILED because its answer was lost may be retried and pay
  again; so may one that a late webhook of an earlier batch marks FAILED;
- an administrator may reject a PayPal withdrawal whose payout is out
  (`withdrawals.service.ts:414` accepts PROCESSING, the log at 650 says the funds remain
  available): its amount is withdrawn again, and the late webhook then makes the rejected
  withdrawal COMPLETED without looking at the balance; `NeverOverpaid` allows for it;
- an approval's own update can replace what a fast webhook wrote;
- between the credit and its hold the money of an undelivered order can be
  withdrawn; getWithdrawable reads five moments; an order in dispute is
  subtracted twice; an approval compares with the sum of both providers;
- the poll counts the scans since the row was created, less an hour
  (`fedex-tracking.mapper.ts:87-99`), while its comment speaks of this label's lifecycle
  (`fedex-tracking.scheduler.ts:327`): a label that replaces another leaves that date as it
  is, so that what an earlier parcel with the new number did meanwhile counts, and
  `StatusIsEarned` is about what was told under the number;
- a poll writes the status of the label it read onto a row that has a new label
  since (`StatusIsEarned` holds while no poll, retry or label is overtaken,
  `EveryPaidOrderHasARow` always);
- EXCEPTION stands for a label that failed and for a parcel in trouble: a retry, or
  a repeated verification, buys a second label for a parcel under way, and a failed
  one clears its number. POST /fedex/shipments replaces a label in any status;
- where FedEx lists its newest scan first, a delivery exception listed after the
  delivery makes a delivered parcel read as what preceded that exception, although the mapper
  calls its computation forward-only; `ForwardOnly` and `DeliveryIsNoticed` are
  therefore about parcels that met no exception;
- a shipment that waits for an address while its seller's retry has already looked
  for waiting rows stays until the next retry;
- overlapping requests fill a cart, favourites or a collection beyond their limits, by
  fewer rows than there are requests (`ListsWithinLimits`); likes have no unique key;
- one reader's overlapping votes move a counter away from the rows for ever
  (`CountersFollowTheRows` holds for readers with one request each), and two
  overlapping decisions on a post can leave it published without a date;
- anyone who is signed in may set an artwork's status, its artist included
  (`artwork.controller.ts:168` asks for a session only, `artwork.service.ts:1081` for nothing),
  over a sale or a dispute too;
- an owner may delete an artwork in dispute: the dispute goes with it and the order
  stays DISPUTED; deleting a user deletes the artworks, the ledger and the shipments;
- a banned artist's artworks stay on sale and in the catalogue, only the lists of
  artists hide them; artworks' and artists' trending lists ignore bans;
- the best-selling artists count PAID orders of artworks that are still APPROVED,
  although payment makes an artwork SOLD; no request records the views the most viewed
  artists are ranked by; similar artworks are taken in no order, twice the limit, and
  ranked then; the feed is cut after each of its parts was limited;
- when a later seller's order cannot be made, prepareCheckout leaves the earlier ones
  PENDING and unlinked; a payment may be initialised for an order in any status; of two
  initialisations that overlap one loses the other's Chapa reference; an order that is
  COMPLETED, DISPUTED or REFUNDED counts as one that remains to be paid;
- a restart between a disconnection and its copy leaves the account in the preference,
  and the profile page connects it again; overlapping connections do the same;
- the profile page connects a Chapa number without a bank code, or with the code of the
  account before; the artist page connects nothing;
- a provider is disconnected while an order through it waits for its payment
  (`PAYMENT_AND_PAYOUT_ARCHITECTURE.md`, Disconnection Rule): the balance it brings has
  no account;
- the gateways' `enabled` switch is stored and never read; the platform's and the
  payment document each hold a commission rate; the legacy minimum of a withdrawal is
  stored and never enforced;
- rows that tie in what a list of posts or artworks is sorted by have no fixed order, so that
  one may be on two pages and another on none even if nothing changes;
- users.findOne shows the latest ten withdrawals of everybody; some lists treat a row
  without provider as PayPal's and others as nobody's; a user's transactions omit orders
  made with an e-mail address only; the cart and favourites skip by the limit asked for and
  take at most 100.

## 5. Proofs

TLAPS proves, for any orders, charges, artworks and number of requests:

- `OrderPayment_proofs!TypeCorrect`, from `OrderPaymentAssumption`.
- `SoldIsCapturedAlways`: if clients do not complete orders themselves
  (`~OpenComplete`), what is sold is captured, with every fault. The status
  alone is not inductive: a request past its verification marks the order PAID
  later. `CapturedInv` adds that such a request, and one that holds a receipt,
  works on a captured order, and that a disputed order is captured.
- `SaleIsBookedAlways`: without statement failures and restarts no overlap of
  requests loses a credit, hold, marker or commission. `BookedInv` says that the
  rows appear in the order of the loop (`RowsInOrder`) and that an order which is
  sold, or whose receipt was opened when it was, is booked or some request is
  booking it. `ProgressStep` states what a step may do to each order, action by
  action; `BookedStep` derives the invariant from it.

- `NoHoldWithoutEarningsAlways`, under every fault and any overlap: a credit increments
  the earnings first and its hold and marker are written after, so `EarningsCover`
  counts, for each order, the requests past the increment with the rows they have still
  to write, and bounds the two together by the earnings.
- `PaidIsOffTheShelfAlways`, without statement failures and restarts, when no artwork is
  in two orders (`OwnArtworks`; the two orders that pass the check of createOrder
  together are what it leaves out): `ShelfInv` says that the artworks of an order marked
  PAID are SOLD, or that a request is between the two statements.
- `CreditedOnceInTurn`, without statement failures, under `OneLoop`: for each order one
  request at a time is between finding no marker row and writing it. Only that stretch of
  the seller loop has to take turns, verifications, cancellations, receipts and the rest of
  completeOrder overlap. `OnceInv` says that the earnings go up only for an order without a
  marker row, which the same request then writes.
- `HoldFollowsTheOrderInTurn`, without statement failures, under `ReceiptWaits`: no receipt
  of an order is under way while a request is still booking the order. `ReceiptInv`, on top
  of `BookedInv`, says that a receipt finds its order booked and that the hold is settled
  with the status, `RowComesFirst` that nothing happens to an order before its row is there.

and for any number of requests about a dispute:

- `DisputeWorkflow_proofs!TypeCorrect` and `DebitIsBackedAlways`, for any overlap.
  `DebitInv` counts the committed debits together with those open settlements have
  created: a request that creates one has found none committed, so that each committed
  debit and each open one has a request of its own to count against; and past the
  look-up of the hold the credit is settled, or the settlement brings its cancellation.
- `DebitedOnceInTurn`, one debit, under `NoneOvertaken` below.
- under `NoneOvertaken`, `BooksFollowTheCaseAlways`, `CaseNeverStuck` (money
  follows the return, `RefundIsRecoverable`, `AlwaysAWayOn`), `ResolvedIsFinalAlways` and
  `RefundIsRecoverableInTurn`, `KeepsPromiseAlways`, the refinement of `DisputePromise`: initial states map to
  initial states, each action to a step of the promise or a stutter. A request changes the
  case only while no other one is under way, what a version number in its rows would
  enforce; they may be accepted, refused and lost together. `CaseInv`
  adds to the books what each status says of the refund row
  (`RowsFollowTheCase`) and that what each request has read still holds when
  it writes (`ReadsAreFresh`), the clause that a request that is overtaken breaks.

and for any number of requests, retries and polls about a shipment:

- `Shipment_proofs!EveryPaidOrderHasARowAlways`, with any failure of FedEx and any
  overlap: `RowInv` says that while a paid order has no row some request is going to
  write one. Rows are never deleted (`RowStays`); a request promises a row from the
  moment it marks the order paid, and each await keeps the promise (`PromiseKept`).
- `Shipment_proofs!TypeCorrect`, for any overlap: a request that has computed a status
  holds one, with the scan it was taken from (`LoadsOK`).
- `StatusIsEarnedInTurn` and `ForwardOnlyInTurn`, under `NoneOvertaken`: while a poll has
  read the row, a retry has found that it may be retried, or a label is issued and not yet
  stored (`Relies`), no other request changes the row. `EarnedInv` says that a row's status
  was told by a scan since the cut that a poll of its number can reckon with (`Reckons`), and
  that what a request carries across an await still holds (`Knows`). What a poll can reckon
  with is not simply what it sees: the latest status counts by the date of another scan.
  It is what is listed since the cut, or known and not listed yet, and it only grows.
  For the rest, a poll knows the row it read and its parcel, a retry that the row
  may be retried, a label that it is newer than the row's. The mapper is a fold over the
  scans, newest first; `FoldEnds` takes the fold apart, `ComputedIsSaid` and
  `ComputedIsForward` say what comes out of it for any list of scans.

and for any withdrawals, amounts, balance, batches and lost answers:

- `WithdrawalPayout_proofs!TypeCorrect`, for any overlap of requests and webhooks.
- `PaidIsBookedInTurn` (what a bank answered is COMPLETED with one row, whatever failed
  before), under `TakeTurns`: at no time are two requests or webhooks about the *same*
  withdrawal being served, as a lock on its row would have it. Those about different
  withdrawals overlap freely. The hypothesis is about the behaviour and not about the
  number of workers: where it stops holding, nothing is claimed.
- `CompletedWasSentInTurn` (nothing is shown as paid that no provider took), under
  `TakeTurns` and `HooksWait`: no webhook of a payout is received while its batch id is
  being stored. TLC shows that turns alone are not enough, by the webhook that is dropped
  (section 4).
- `PaidOnceInTurn`, under `TakeTurns` and `OneKind`, which lets PayPal send the webhooks of
  batches or those of items and not both. A payment is counted against the answers that
  were lost. Where both webhooks come, the second one about a payout that failed can meet
  the retry which the first made possible.
- `NeverOverpaidInTurn`, under `TakeTurns`, `OneKind` and `OneApproval`: between the look at
  the balance and the row that says so, no other approval looks at the balance. Payments
  are counted against lost answers and the payouts that were rejected while they were out.

  Their invariants are split by row and by request: `WireAgrees`, `RowHears` and `RowDead` say what
  one row promises, `RequestAgrees` that what one request has read of its row still holds. A
  step touches only the row it is about (`ServeFrame`, `RowKept`), so under `TakeTurns` it
  leaves alone what the other requests know. What binds two withdrawals is their sum:
  `WithinBalance` bounds what is paid and what is promised together, and an approval adds
  to it no more than the balance it saw has left.

for any orders, withdrawals and amounts of a seller:

- `SellerBalance_proofs!TypeCorrect`.
- `AvailableIsBackedAlways`, for any overlap of refreshes, settlements and withdrawals.
  `BalanceInv` says that each ledger row follows its order (`LedgerFollows`) and that
  the cache, and every value a refresh has computed and not written, is at most what
  orders that are sold have earned (`CacheIsEarned`).
- `PaidFromOwnProviderInTurn`, with one provider, under `TakeTurns` (as for the payouts) and
  `OneApproval`: from its look at what has been withdrawn to the row it writes, an approval
  meets no other one. Requests for new withdrawals overlap with everything. `TellerInv`
  says that no more is withdrawn than was sold, and that what an approval has read of the
  balance still bounds what it may pay (`SeenIsBacked`).

The sums of both are folds over sets, and the prover cannot instantiate an induction
theorem whose parameter is a predicate. `Sums` proves an induction over the subsets of a
finite set with a *set* in the place of the predicate (`SubsetInduction`, by a smallest
counterexample), and from it what a sum does when one element changes, when elements are
added, and when one function is below another.

and of the parts around, in `Platform_proofs`:

- the lists of a user, `TypeCorrect` and `ListsWithinLimitsAlways`, for any items, limits
  and number of requests. `Size < Limit` is checked when a request starts and is no
  longer true when it writes, so `SizeInv` counts the requests about to insert
  together with the rows; `LikesInv` does the same for each item.
- the checkout, `ChargedAsQuotedAlways` and `NothingRemainsAlways`, from
  `CheckoutAssumption`, for any sellers, prices, rates, lifetimes and payments at once:
  `CheckoutInv` says that the metadata hold the locked amount of the order (`Quoted`),
  that what a payment, a completion, a receipt or a settlement has read of them still holds what
  matters (`Carried`), that once the checkout is ready every order, and every such request
  under way, knows the siblings (`Linked`): whichever copy is written back last, they are in
  it. `Followed` adds that a PAID order's transaction is completed.
- the accounts of a seller, `SetupTypeCorrect` and `OfferedAsEnteredAlways`, for any
  accounts: `HeldInv` says of the preference, and of what a request has read of either
  table, that it holds accounts that were entered and not disconnected, but for the
  preference while it is about to be written again.
- the catalogue, `PublicWasLetThroughAlways` and `FlagFollowsAlways`, for any artworks and
  orders: `ShopInv` says that what is on sale, sold or in dispute, and what an order has
  bought, was once made public by the status endpoint, by whomever, and that what is on sale
  carries the flag.
  `OnSaleIsFoundAlways`, for any scores, bans and removals: `Owned` adds that what exists
  has an artist who does, and that the comments, which enter a score, are counted. An
  artwork's place in a ranked list is how many come before it; `PlacesDiffer` says that no
  two take the same place, and `RankedHasAll` that the list therefore leaves none out.
- the blog, `PublishedHasADateInTurn` when decisions do not overlap (`OneDecision`), and
  `CountersFollowTheRowsInTurn` for any number of readers, each with one request at a time
  (`OwnRequests`): `CountInv` says that the counter differs from the rows by exactly the
  statements still to be executed, one request at most for each reader.
- the settings, `CopiesAgreeAlways`, for any values and any overlap of updates: a document
  that `Fits` (its copies are equal) is what every update writes and every default gives.
- the paged lists, `PagesMissOnlyWhatMovedAlways`, for any list, filter, sort, page size and
  number of changes: `PageInv` bounds what the reader has missed so far, the wanted rows
  that are no longer on the list or have moved up to the pages that are behind
  (`MissedIsMoved`), and says of the number of pages that it was right but for what came
  since (`CountIsRecent`). `Places` shows, for any order, that a row that leaves the list
  moves up one other row at most, and none if it stood after those pages (`OneMovesUp`),
  that a row that comes moves up none (`NoneMovesUp`), that a row that changes its place is
  one that leaves and one that comes (`MissedMoved`), and how many rows are left after the
  last page (`AfterTheFirst`). Rows that were tied when a page was read are not counted:
  where a list leaves ties to the database, no bound holds for them.

- their types, `PlatformTypeCorrect`, from `TypeCorrect`, `PostTypeCorrect`,
  `ListsTypeCorrect`, `CartTypeCorrect`, `SetupTypeCorrect`, `SettingsTypeCorrect` and
  `PagesTypeCorrect`. Some of the types say more than they seem to. The votes of a post
  are natural numbers because `CountInv` makes them the number of their voters: two
  overlapping requests of one reader could take the same vote back twice. An update of the
  payment document reads the legacy amounts, so `Valued` says that no document and no
  default it may find is without them. An amount that is charged is a price at a rate
  some provider answered, and the age of that rate is no negative number, because
  `CartTypes` says that no quote is from the future. A list that is ranked and cut is a
  sequence of what it ranks: `RankingExists` shows that any finite set can be put in the
  order of any scores, without which the CHOOSE in `Top` would mean nothing, and
  `TopIsBest` what the cut leaves.

`PlatformMovesItsParts` shows that a behaviour of `Platform` is a behaviour of each part,
and the `Platform...` corollaries carry the results to the properties the run checks.

The runs that check the properties of section 4's races have one worker, since two break
them; the theorems say how much of that is needed. Where the hypothesis is about a behaviour
(`TakeTurns`, `OneLoop`, `ReceiptWaits`, `NoneOvertaken`, `OneApproval`, `HooksWait`), the
theorem holds for any number of workers as long as the behaviour keeps to it, and a lock or a
version number in that one place would make it do so. Each allows behaviours in which two
requests are under way, and two workers break the property without it.

Only model-checked is liveness (`OverdueIsCancelled`, `VerifiedIsBooked`, `FinishedPayoutIsNoticed`,
`CompletedProfileIsRetried`, `DeliveryIsNoticed`): the prover has no rule for fairness here.

## 6. Plan

1. Done: `OrderPayment`, `DisputeWorkflow` with `DisputePromise`, `WithdrawalPayout`,
   `SellerBalance`, `Shipment`, the parts of `Platform`; their runs; the theorems of
   section 5.
2. Several sellers inside one order of `OrderPayment`.

Runs are kept few: a question that fits the instance of an existing run joins it.

### Not modelled

Categories and other reference data, analytics (sums of other parts' rows; the heat score
is a constant), the statistics of transactions, orders and artists, a refund row written
by an administrator, uploads, e-mail, logging and the better-auth configuration: no
state that another part decides on. Of the modelled parts: getOrderById and getUserOrders,
the return queue of disputes, a collection's artworks ordered by age, minimum and
maximum withdrawals, FedEx rates and the validation of addresses, text, pictures and
search, rounding of money.

## 7. Checking it

`tlc -config <run>.cfg <module>` for each run of `PROJECT.json`; `tlapm M.tla`
for the theorems of each `*_proofs` module M.
