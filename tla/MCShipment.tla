------------------------------ MODULE MCShipment ------------------------------
(* Finite instances of Shipment for TLC.                                     *)
EXTENDS Shipment

\* A number that is new with its row was used long ago; the one of a label that replaces
\* another has been used since the cut.
LongAgo  == <<[code |-> "IT", old |-> TRUE], [code |-> "DL", old |-> TRUE]>>
SinceCut == <<[code |-> "IT", old |-> TRUE], [code |-> "DL", old |-> FALSE]>>
Reused == [issuedForRow \in BOOLEAN |-> {IF issuedForRow THEN SinceCut ELSE LongAgo}]

\* A parcel is taken out and delivered; it may meet an exception before that, or be
\* cancelled.
WithExceptions ==
    [code \in Codes \cup {"none"} |->
        CASE code = "none" -> {"OD", "CA"}
          [] code = "OD"   -> {"DL", "DE"}
          [] code = "DE"   -> {"DL"}
          [] OTHER         -> {}]
=============================================================================
