------------------------------ MODULE Delivery ------------------------------
(***************************************************************************)
(* What the steering machine of a turn promises the delivery hook          *)
(* (foreign.DeliveryHook: Reserve, Resolve, QueueFallback), seen as the    *)
(* fate of each delegate request.                                          *)
(*                                                                         *)
(* One request at a time is reserved, and nothing is reserved any more     *)
(* once a request has fallen back or its delivery is in doubt: a later     *)
(* request must not reach the provider before an earlier one that did not. *)
(* A fate other than "reserved" is for ever.                               *)
(***************************************************************************)
CONSTANT Requests

VARIABLE fate

Fates == {"new", "reserved", "injected", "fallback", "unknown", "untrackable"}

DeliveryInit == fate = [r \in Requests |-> "new"]

InFlight == {r \in Requests : fate[r] = "reserved"}
Fresh    == {r \in Requests : fate[r] = "new"}
LaneOpen == \A r \in Requests : fate[r] \in {"new", "reserved", "injected"}

(* hook.Reserve, with the lane free. *)
Reserve(r) ==
  /\ LaneOpen /\ InFlight = {}
  /\ fate' = [fate EXCEPT ![r] = "reserved"]

(* hook.Resolve(Injected) of the reserved request, then Reserve of the next. *)
InjectAndReserve(r, next) ==
  /\ LaneOpen
  /\ fate' = [fate EXCEPT ![r] = "injected", ![next] = "reserved"]

(* hook.QueueFallback of requests that were never reserved. *)
Divert(Q) ==
  /\ Q # {}
  /\ fate' = [r \in Requests |-> IF r \in Q THEN "fallback" ELSE fate[r]]

(* The reserved request gets its verdict, and requests waiting behind it may
   be handed to the queue. *)
Settle(r, v, Q) ==
  /\ v \in {"injected", "fallback", "unknown", "untrackable"}
  /\ fate' = [q \in Requests |-> IF q = r THEN v
                                 ELSE IF q \in Q THEN "fallback" ELSE fate[q]]

DeliveryNext ==
  \/ \E r \in Fresh : Reserve(r)
  \/ \E r \in InFlight, next \in Fresh : InjectAndReserve(r, next)
  \/ \E Q \in SUBSET Fresh : Divert(Q)
  \/ \E r \in InFlight, v \in Fates, Q \in SUBSET Fresh : Settle(r, v, Q)

DeliverySpec == DeliveryInit /\ [][DeliveryNext]_fate
=============================================================================
