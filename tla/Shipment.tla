------------------------------- MODULE Shipment -------------------------------
(***************************************************************************)
(* The shipment row of one seller in one order: the FedEx label that pays   *)
(* for it (FedExService), its retries, and the tracking poll that copies    *)
(* FedEx's scans into its status (FedExTrackingScheduler and its mapper).   *)
(*                                                                          *)
(* A worker is one request, one background retry or one poll; its stage     *)
(* names the await it is about to perform.  A parcel is a tracking number   *)
(* FedEx has issued; FedEx scans it whatever the row says.                  *)
(***************************************************************************)
EXTENDS Naturals, SequencesExt

CONSTANTS Workers,   \* requests, background retries and polls served at a time
          MaxLabels, \* bound on the labels FedEx issues
          MaxScans,  \* bound on the scans of a parcel
          Recycled,  \* the scans a number may have from an earlier parcel, when it
                     \* is issued before the order has its row, and after
          Follows    \* the codes a scan may have after one with this code

Codes == {"OC", "PU", "IT", "OD", "DL", "DE", "RS", "CA", "HL"}

\* A scan is dated: old if that is before the cut, an hour before the row was created.
\* A label that replaces another leaves the row, and so the cut, as they are.
Scan == [code : Codes, old : BOOLEAN]

ShipmentAssumption ==
    /\ MaxLabels \in Nat /\ MaxScans \in Nat
    /\ Recycled \in [BOOLEAN -> SUBSET Seq(Scan)]
    /\ Follows \in [Codes \cup {"none"} -> SUBSET Codes]

ASSUME ShipmentAssumption

Parcels  == 1..MaxLabels
NoParcel == 0

VARIABLES
    row,      \* is there a Shipment row?
    status,   \* Shipment.status
    tracking, \* Shipment.trackingNumber; label and master number go with it
    paid,     \* the order has been marked PAID
    profile,  \* is the seller's shipping profile complete?
    due,      \* a background retry has been started and not been served
    made,     \* FedEx: how many labels it has issued
    scans,    \* FedEx: the codes of a parcel's scans, oldest first
    past,     \* FedEx: the scans an earlier parcel left under its number
    behind,   \* FedEx: the parcels whose last scan Track does not list yet
    newestFirst, \* FedEx: the order in which Track lists them
    stage, task  \* the await a worker is at, and what it carries there

rowVars   == <<row, status, tracking>>
shopVars  == <<paid, profile, due>>
fedexVars == <<made, scans, past, behind, newestFirst>>
vars == <<rowVars, shopVars, fedexVars, stage, task>>

Moving    == {"PICKED_UP", "IN_TRANSIT", "OUT_FOR_DELIVERY", "DELIVERED"}
Retriable == {"PENDING_ADDRESS", "EXCEPTION"}
Statuses  == Moving \cup Retriable \cup {"LABEL_CREATED", "CANCELLED"}
Kinds  == {"none", "order", "post", "retry", "ensure", "pending", "sync"}
Stages == {"idle", "artist", "find", "label", "lookup", "update", "insert",
           "failFind", "failUpdate", "failInsert", "failById",
           "ensure", "pending", "reread", "origin", "track", "apply"}

Task(k, p, s, r) == [kind |-> k, parcel |-> p, status |-> s, ready |-> r]
Job(kind) == Task(kind, NoParcel, "same", FALSE)
Nothing == Job("none")

Init ==
    /\ row = FALSE /\ status = "LABEL_CREATED" /\ tracking = NoParcel
    /\ paid = FALSE /\ profile \in BOOLEAN /\ due = FALSE
    /\ made = 0 /\ newestFirst \in BOOLEAN
    /\ scans = [p \in Parcels |-> <<>>] /\ past = [p \in Parcels |-> <<>>]
    /\ behind = {}
    /\ stage = [k \in Workers |-> "idle"]
    /\ task = [k \in Workers |-> Nothing]

Go(k, from, to) == stage[k] = from /\ stage' = [stage EXCEPT ![k] = to]
Carry(k, what) == task' = [task EXCEPT ![k] = what]
Begin(k, to, what) == Go(k, "idle", to) /\ Carry(k, what)
Finish(k, from) == Go(k, from, "idle") /\ Carry(k, Nothing)

\* Leaving createShipmentsForOrder: retryPendingShipmentsForArtist has a second loop.
Leave(k, from) ==
    \/ task[k].kind = "ensure" /\ Go(k, from, "pending") /\ UNCHANGED task
    \/ task[k].kind # "ensure" /\ Finish(k, from)

\* What is carried no further is forgotten.
Persist(k, from, s) ==
    /\ Go(k, from, "failFind")
    /\ Carry(k, Task(task[k].kind, NoParcel, s, FALSE))

-----------------------------------------------------------------------------
(* Requests.                                                                 *)

\* completeOrder of a FedEx order, the first time or again.
CompleteOrder(k) ==
    /\ Begin(k, "artist", Job("order"))
    /\ paid' = TRUE
    /\ UNCHANGED <<rowVars, profile, due, fedexVars>>

\* POST /fedex/shipments asks neither the order nor the row.
PostShipment(k) ==
    /\ Begin(k, "label", Job("post"))
    /\ UNCHANGED <<rowVars, shopVars, fedexVars>>

\* POST /fedex/shipments/:id/retry.
RetryShipment(k) ==
    /\ row /\ status \in Retriable
    /\ Begin(k, "origin", Job("retry"))
    /\ UNCHANGED <<rowVars, shopVars, fedexVars>>

\* Mutant of SaveProfile: nothing is retried.
Mut_SaveProfileOnly ==
    /\ ~profile /\ profile' = TRUE
    /\ UNCHANGED <<rowVars, paid, due, fedexVars, stage, task>>

\* A saved address must be complete; saving it starts a retry in the background.
SaveProfile ==
    /\ profile' = TRUE /\ due' = TRUE
    /\ UNCHANGED <<rowVars, paid, fedexVars, stage, task>>

\* retryPendingShipmentsForArtist, in the background or by its endpoint.
RetryPending(k) ==
    /\ profile
    /\ Begin(k, "ensure", Job("ensure"))
    /\ due' \in {due, FALSE}
    /\ UNCHANGED <<rowVars, paid, profile, fedexVars>>

EnsureOrders(k) ==
    /\ Go(k, "ensure", IF paid /\ ~row THEN "artist" ELSE "pending")
    /\ UNCHANGED <<rowVars, shopVars, fedexVars, task>>

FindPending(k) ==
    /\ IF row /\ status = "PENDING_ADDRESS"
       THEN /\ Go(k, "pending", "reread")
            /\ Carry(k, Job("pending"))
       ELSE Finish(k, "pending")
    /\ UNCHANGED <<rowVars, shopVars, fedexVars>>

\* Its retryShipment reads the row again; what it throws is persisted.
Reread(k) ==
    /\ \/ status \in Retriable /\ Go(k, "reread", "origin") /\ UNCHANGED task
       \/ status \notin Retriable /\ Persist(k, "reread", "EXCEPTION")
    /\ UNCHANGED <<rowVars, shopVars, fedexVars>>

ReadOrigin(k) ==
    /\ \/ profile /\ Go(k, "origin", "label") /\ UNCHANGED task
       \/ ~profile /\ task[k].kind = "retry" /\ Finish(k, "origin")
       \/ ~profile /\ task[k].kind = "pending" /\ Persist(k, "origin", "EXCEPTION")
    /\ UNCHANGED <<rowVars, shopVars, fedexVars>>

-----------------------------------------------------------------------------
(* createShipmentsForOrder and createShipment.                               *)

ReadArtist(k) ==
    /\ Go(k, "artist", "find")
    /\ Carry(k, Task(task[k].kind, NoParcel, "same", profile))
    /\ UNCHANGED <<rowVars, shopVars, fedexVars>>

FindShipment(k) ==
    /\ \/ row /\ status \notin Retriable /\ Leave(k, "find")
       \/ /\ ~row \/ status \in Retriable
          /\ IF task[k].ready
             THEN Go(k, "find", "label") /\ Carry(k, Job(task[k].kind))
             ELSE Persist(k, "find", "PENDING_ADDRESS")
    /\ UNCHANGED <<rowVars, shopVars, fedexVars>>

\* Mutant of Failed: a label that failed leaves no trace.
Mut_FailedSilently(k, from) == Leave(k, from)

\* What the caller of createShipment does with its failure.
Failed(k, from) ==
    \/ task[k].kind \in {"order", "ensure"} /\ Persist(k, from, "EXCEPTION")
    \/ task[k].kind \in {"retry", "pending"} /\ Go(k, from, "failById") /\ UNCHANGED task
    \/ task[k].kind = "post" /\ Finish(k, from)

\* An incomplete order or package, or FedEx, refuses; or FedEx issues a label, which
\* may still be lost: no document in the answer, no download, no upload.
LabelRefused(k) ==
    /\ Failed(k, "label")
    /\ UNCHANGED <<rowVars, shopVars, fedexVars>>

LabelIssued(k) ==
    /\ made < MaxLabels /\ made' = made + 1
    /\ \E list \in Recycled[row] : past' = [past EXCEPT ![made + 1] = list]
    /\ \/ Failed(k, "label")
       \/ /\ Go(k, "label", "lookup")
          /\ Carry(k, Task(task[k].kind, made + 1, "same", FALSE))
    /\ UNCHANGED <<rowVars, shopVars, scans, behind, newestFirst>>

Lookup(k) ==
    /\ Go(k, "lookup", IF row THEN "update" ELSE "insert")
    /\ UNCHANGED <<rowVars, shopVars, fedexVars, task>>

LabelStored(k) ==
    row' = TRUE /\ status' = "LABEL_CREATED" /\ tracking' = task[k].parcel

\* An update by id; an insert fails if another request was first: one row per seller.
StoreLabel(k) ==
    /\ \/ LabelStored(k) /\ Leave(k, "update")
       \/ ~row /\ LabelStored(k) /\ Leave(k, "insert")
       \/ row /\ UNCHANGED rowVars /\ Failed(k, "insert")
    /\ UNCHANGED <<shopVars, fedexVars>>

-----------------------------------------------------------------------------
(* persistShipmentOutcome, and the catch of retryShipment.                   *)

FindOutcome(k) ==
    /\ \/ ~row /\ Go(k, "failFind", "failInsert") /\ UNCHANGED task
       \/ row /\ status \in Retriable /\ Go(k, "failFind", "failUpdate") /\ UNCHANGED task
       \/ row /\ status \notin Retriable /\ Leave(k, "failFind")
    /\ UNCHANGED <<rowVars, shopVars, fedexVars>>

OutcomeStored(k) ==
    row' = TRUE /\ status' = task[k].status /\ tracking' = NoParcel

StoreOutcome(k) ==
    /\ \/ OutcomeStored(k) /\ Leave(k, "failUpdate")
       \/ ~row /\ OutcomeStored(k) /\ Leave(k, "failInsert")
       \/ row /\ UNCHANGED rowVars /\ Finish(k, "failInsert")
    /\ UNCHANGED <<shopVars, fedexVars>>

\* The number of an earlier label stays in the row.
StoreException(k) ==
    /\ status' = "EXCEPTION"
    /\ \/ task[k].kind = "retry" /\ Finish(k, "failById")
       \/ task[k].kind = "pending" /\ Persist(k, "failById", "EXCEPTION")
    /\ UNCHANGED <<row, tracking, shopVars, fedexVars>>

-----------------------------------------------------------------------------
(* The mapper: FedEx's codes as statuses.                                    *)

\* mapFedExCodeToStatus: an unknown code says nothing.
Mapped(code) ==
    CASE code = "OC" -> "LABEL_CREATED"
      [] code = "PU" -> "PICKED_UP"
      [] code = "IT" -> "IN_TRANSIT"
      [] code = "OD" -> "OUT_FOR_DELIVERY"
      [] code = "DL" -> "DELIVERED"
      [] code \in {"DE", "RS"} -> "EXCEPTION"
      [] code = "CA" -> "CANCELLED"
      [] OTHER -> "none"

Rank(s) ==
    CASE s = "LABEL_CREATED"    -> 1
      [] s = "PICKED_UP"        -> 2
      [] s = "IN_TRANSIT"       -> 3
      [] s = "OUT_FOR_DELIVERY" -> 4
      [] s = "DELIVERED"        -> 5
      [] OTHER                  -> 0

\* resolveShipmentStatus: forward only, but FedEx's exceptions and cancellations
\* always apply, and from an exception any progress is forward.
Resolve(s, code) ==
    LET to == Mapped(code) IN
    IF to # "none" /\ \/ to \in {"EXCEPTION", "CANCELLED"}
                      \/ s \in Retriable
                      \/ s \notin {"DELIVERED", "CANCELLED"} /\ Rank(to) >= Rank(s)
    THEN to ELSE s

\* Mutant of Trusted: the latest status is believed whatever its age.
Mut_TrustedAlways(list, latest) == list # <<>>

\* The latest status has no date: it counts if the first listed scan with its code is dated
\* since the cut, or the first of all if no scan has its code.
Trusted(list, latest) ==
    LET sameCode == {i \in DOMAIN list : list[i].code = latest}
        dating   == IF sameCode = {} THEN DOMAIN list ELSE sameCode
    IN latest # "none" /\ dating # {} /\ ~list[Min(dating)].old

\* What one more listed scan says: one from before the cut says nothing.
Heard(so_far, scan) == IF scan.old THEN so_far ELSE Resolve(so_far, scan.code)

\* Mutant of Computed: only the latest status is looked at.
Mut_ComputedLatest(s, list, latest) ==
    IF Trusted(list, latest) THEN Resolve("LABEL_CREATED", latest) ELSE "LABEL_CREATED"

\* computeShipmentStatusFromTrack: everything the scans since the cut say, from the start.
Computed(s, list, latest) ==
    LET start == IF s = "EXCEPTION" THEN "EXCEPTION" ELSE "LABEL_CREATED"
        first == IF Trusted(list, latest) THEN Resolve(start, latest) ELSE start
    IN IF s \in {"CANCELLED", "PENDING_ADDRESS"} THEN s
       ELSE FoldLeft(Heard, first, list)

-----------------------------------------------------------------------------
(* The tracking poll.                                                        *)

\* Mutant of Polled: a parcel out for delivery is thought to be done.
Mut_PolledUntilOut(s) == s \in {"LABEL_CREATED", "PICKED_UP", "IN_TRANSIT", "EXCEPTION"}

Polled(s) == s \notin {"DELIVERED", "CANCELLED", "PENDING_ADDRESS"}

\* Number and status are read here, and only here.
ReadForSync(k) ==
    /\ row /\ tracking # NoParcel
    /\ Begin(k, "track", Task("sync", tracking, status, FALSE))
    /\ UNCHANGED <<rowVars, shopVars, fedexVars>>

\* The hourly cron, and POST /fedex/shipments/:id/sync-tracking.
PollTracking(k) == Polled(status) /\ ReadForSync(k)
SyncTracking(k) == ReadForSync(k)

TrackFails(k) ==
    /\ Finish(k, "track")
    /\ UNCHANGED <<rowVars, shopVars, fedexVars>>

\* What FedEx knows under a number, oldest first; the parcel's own scans are never old.
Known(p) == past[p] \o [i \in DOMAIN scans[p] |-> [code |-> scans[p][i], old |-> FALSE]]

Listed(p) == IF p \in behind THEN Front(Known(p)) ELSE Known(p)
Ordered(p) == IF newestFirst THEN Reverse(Listed(p)) ELSE Listed(p)

\* The latest status may lag one scan behind the list, or be one scan ahead of it.
Latest(p) ==
    IF Known(p) = <<>> THEN {"none"}
    ELSE {Known(p)[i].code : i \in {j \in DOMAIN Known(p) :
              IF p \in behind THEN j = Len(Known(p)) ELSE j + 1 >= Len(Known(p))}}

TrackAnswers(k) ==
    /\ Go(k, "track", "apply")
    /\ \E latest \in Latest(task[k].parcel) :
          LET new == Computed(task[k].status, Ordered(task[k].parcel), latest) IN
          Carry(k, Task("sync", NoParcel, IF new = task[k].status THEN "same" ELSE new, FALSE))
    /\ UNCHANGED <<rowVars, shopVars, fedexVars>>

\* Mutant of ApplyTrack: the marker for no change is written as well.
Mut_ApplyTrackRaw(k) ==
    /\ Finish(k, "apply")
    /\ status' = task[k].status
    /\ UNCHANGED <<row, tracking, shopVars, fedexVars>>

\* The status is written by id, unless it is the one that was read.
ApplyTrack(k) ==
    /\ Finish(k, "apply")
    /\ status' = IF task[k].status = "same" THEN status ELSE task[k].status
    /\ UNCHANGED <<row, tracking, shopVars, fedexVars>>

LastScan(p) == IF scans[p] = <<>> THEN "none" ELSE scans[p][Len(scans[p])]
OnItsWay(p) == LastScan(p) \notin {"none", "DL", "RS", "CA"}

\* The seller has one package: it travels under one label at a time.
FedExScans(p) ==
    /\ p <= made /\ Len(scans[p]) < MaxScans
    /\ \A q \in Parcels \ {p} : ~OnItsWay(q)
    /\ \E code \in Follows[LastScan(p)] : scans' = [scans EXCEPT ![p] = Append(@, code)]
    /\ behind' \in {behind \cup {p}, behind \ {p}}
    /\ UNCHANGED <<rowVars, shopVars, made, past, newestFirst, stage, task>>

\* The scan that was missing is listed.
FedExLists(p) ==
    /\ p \in behind /\ behind' = behind \ {p}
    /\ UNCHANGED <<rowVars, shopVars, made, scans, past, newestFirst, stage, task>>

-----------------------------------------------------------------------------
Serve(k) ==
    \/ EnsureOrders(k) \/ FindPending(k) \/ Reread(k) \/ ReadOrigin(k)
    \/ ReadArtist(k) \/ FindShipment(k) \/ LabelRefused(k) \/ LabelIssued(k)
    \/ Lookup(k) \/ StoreLabel(k) \/ FindOutcome(k) \/ StoreOutcome(k)
    \/ StoreException(k) \/ TrackFails(k) \/ TrackAnswers(k) \/ ApplyTrack(k)

Accept(k) ==
    \/ CompleteOrder(k) \/ PostShipment(k) \/ RetryShipment(k) \/ RetryPending(k)
    \/ PollTracking(k) \/ SyncTracking(k)

Next ==
    \/ \E k \in Workers : Accept(k) \/ Serve(k)
    \/ SaveProfile
    \/ \E p \in Parcels : FedExScans(p) \/ FedExLists(p)

Spec == Init /\ [][Next]_vars

\* The event loop finishes what it accepted, the background retry that a saved profile
\* starts is served, the cron returns every hour, and FedEx answers it now and then and
\* lists every scan in the end.
BackgroundRetry == \E k \in Workers : RetryPending(k) /\ due /\ ~due'
HourlyPoll      == \E k \in Workers : PollTracking(k)
Answer          == \E k \in Workers : TrackAnswers(k)

FairSpec ==
    /\ Spec
    /\ \A k \in Workers : WF_vars(Serve(k))
    /\ \A p \in Parcels : WF_vars(FedExLists(p))
    /\ SF_vars(BackgroundRetry) /\ SF_vars(HourlyPoll) /\ SF_vars(Answer)
-----------------------------------------------------------------------------
(* Properties.                                                               *)

TypeOK ==
    /\ row \in BOOLEAN /\ status \in Statuses
    /\ tracking \in Parcels \cup {NoParcel}
    /\ paid \in BOOLEAN /\ profile \in BOOLEAN /\ due \in BOOLEAN
    /\ made \in 0..MaxLabels /\ newestFirst \in BOOLEAN
    /\ scans \in [Parcels -> Seq(Codes)] /\ past \in [Parcels -> Seq(Scan)]
    /\ behind \in SUBSET Parcels
    /\ stage \in [Workers -> Stages]
    /\ task \in [Workers -> [kind : Kinds, parcel : Parcels \cup {NoParcel},
                             status : Statuses \cup {"same"}, ready : BOOLEAN]]

OwnStatuses(p) == {Mapped(scans[p][i]) : i \in DOMAIN scans[p]}

\* What the scans since the cut tell under the parcel's number, its own among them.
Told(p) ==
    {Mapped(Known(p)[i].code) : i \in {j \in DOMAIN Known(p) : ~Known(p)[j].old}}
Smooth(p) == Told(p) \cap {"EXCEPTION", "CANCELLED"} = {}

\* createShipmentsForOrder "always persists a shipment row": whatever fails on the way,
\* a paid order that is not being worked on has a row, so that it can be retried.
EveryPaidOrderHasARow ==
    paid /\ (\A k \in Workers : task[k].kind \notin {"order", "ensure"}) => row

\* The row never claims progress that no scan since its cut tells under the number of its
\* label, however often labels are replaced, whatever was scanned before, and however FedEx
\* dates its latest status.
StatusIsEarned ==
    status \in Moving \cup {"CANCELLED"} => tracking # NoParcel /\ status \in Told(tracking)

\* While no exception is told of a parcel its status only moves forward, however FedEx
\* orders its scans and whether its latest status lags behind them or runs ahead.
ForwardOnly ==
    [][tracking # NoParcel /\ tracking' = tracking /\ Smooth(tracking)
         => Rank(status') >= Rank(status)]_vars

\* A shipment that waits for its seller's address is taken up once the address is there.
CompletedProfileIsRetried ==
    (profile /\ row /\ status = "PENDING_ADDRESS") ~> (status # "PENDING_ADDRESS")

\* A delivered parcel that met no exception is shown as delivered, or has been replaced.
DeliveryUnseen ==
    /\ tracking # NoParcel /\ status # "DELIVERED"
    /\ Smooth(tracking) /\ "DELIVERED" \in OwnStatuses(tracking)
DeliveryIsNoticed == DeliveryUnseen ~> ~DeliveryUnseen
=============================================================================
