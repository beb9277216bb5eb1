--------------------------- MODULE MCDisputeWorkflow ---------------------------
(***************************************************************************)
(* Two disputes for TLC: the requests about the one take turns, those about *)
(* the other overlap.  They share nothing, so a behaviour moves one.        *)
(***************************************************************************)
EXTENDS DisputeWorkflow

CONSTANT Overlapping   \* the requests about the other dispute

VARIABLES
    turns,  \* is it the first dispute that moves?
    otherDispute, otherOutcome, otherConfirmed, otherWaived, otherRefund, otherLinked,
    otherOrder, otherArt, otherRows, otherReturned, otherCreates, otherPc

Other == INSTANCE DisputeWorkflow WITH
            Workers <- Overlapping, dispute <- otherDispute, outcome <- otherOutcome,
            confirmed <- otherConfirmed, waived <- otherWaived, refund <- otherRefund,
            linked <- otherLinked, order <- otherOrder, art <- otherArt, rows <- otherRows,
            returned <- otherReturned, creates <- otherCreates, pc <- otherPc

otherVars == <<otherDispute, otherOutcome, otherConfirmed, otherWaived, otherRefund, otherLinked,
               otherOrder, otherArt, otherRows, otherReturned, otherCreates, otherPc>>

ASSUME Other!DisputeAssumption

TwoInit == turns \in BOOLEAN /\ Init /\ Other!Init

TwoNext ==
    /\ UNCHANGED turns
    /\ \/ turns /\ Next /\ UNCHANGED otherVars
       \/ ~turns /\ Other!Next /\ UNCHANGED vars

TwoSpec == TwoInit /\ [][TwoNext]_<<turns, vars, otherVars>>

\* However requests overlap, with stale decisions, replayed refunds, rollbacks and restarts,
\* the settlement's look-ups keep the debits to one per request, each for money the buyer
\* has and a credit no longer held.
OverlapIsBacked == Other!DebitIsBacked
=============================================================================
