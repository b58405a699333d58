------------------------ MODULE AtLeastOnceDelivery ------------------------
(***************************************************************************)
(* What an incremental export promises (docs/modules/36): what was         *)
(* recorded reaches the collector, from the first on and without a gap.    *)
(* Whether it reaches it once or more often is not said.                   *)
(***************************************************************************)
EXTENDS Naturals

VARIABLES recorded,   \* how many events there are
          delivered   \* the positions of those that the collector has

deliveryVars == <<recorded, delivered>>

DeliveryInit == recorded = 0 /\ delivered = {}

RecordOne == recorded' = recorded + 1 /\ UNCHANGED delivered

\* The collector takes events up to the n-th, among them new ones.
Deliver ==
  \E n \in 1..recorded :
    /\ n \notin delivered
    /\ delivered' = 1..n
    /\ UNCHANGED recorded

DeliveryNext == RecordOne \/ Deliver

DeliverySpec == DeliveryInit /\ [][DeliveryNext]_deliveryVars /\ WF_deliveryVars(Deliver)
=============================================================================
