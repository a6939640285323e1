------------------------------ MODULE Handoff ------------------------------
(***************************************************************************)
(* What the prefetch buffer of the frontier promises: every item that a    *)
(* prefetch thread offers is settled at most once, either by being handed  *)
(* to a harvester or by being given back through the timeout handler.      *)
(* Threads, queue, timers and shutdown do not appear here; TimeoutSupplier *)
(* is shown to implement this specification.                               *)
(***************************************************************************)
CONSTANT Elements

VARIABLE item

ItemState == {"absent", "offered", "delivered", "timedOut"}

TypeOK == item \in [Elements -> ItemState]

Init == item = [e \in Elements |-> "absent"]

Offer(e) ==
    /\ item[e] = "absent"
    /\ item' = [item EXCEPT ![e] = "offered"]

Deliver(e) ==
    /\ item[e] = "offered"
    /\ item' = [item EXCEPT ![e] = "delivered"]

TimeOut(e) ==
    /\ item[e] = "offered"
    /\ item' = [item EXCEPT ![e] = "timedOut"]

Next == \E e \in Elements : Offer(e) \/ Deliver(e) \/ TimeOut(e)

Spec == Init /\ [][Next]_item
=============================================================================
