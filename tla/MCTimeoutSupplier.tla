------------------------- MODULE MCTimeoutSupplier -------------------------
(***************************************************************************)
(* Two producers, two consumers, three elements and a queue of one slot:   *)
(* producers block on the full queue, their timers fire while they are     *)
(* blocked, and close() finds elements in every stage.                     *)
(***************************************************************************)
EXTENDS TimeoutSupplier, TLC

Symmetry == Permutations(Elements) \cup Permutations(Producers) \cup Permutations(Consumers)
=============================================================================
