----------------------------- MODULE MCHeights -----------------------------
(* Two validators (F = 0, Q = 2), two heights with two rounds each, and a  *)
(* block of each validator on every block of the height below.             *)
EXTENDS CoreReduction

CONSTANTS s1, s2

MCValidators == {s1, s2}
MCValList == (0 :> s1) @@ (1 :> s2)

(* A block is its author, its height and the author of its parent. *)
MCBlocks == {genesis} \cup (MCValidators \X {1}) \cup (MCValidators \X {2} \X MCValidators)
MCNumber == [b \in MCBlocks |-> IF b = genesis THEN 0 ELSE b[2]]
MCParentHash ==
  [b \in MCBlocks |-> IF b = genesis \/ b[2] = 1 THEN genesis ELSE <<b[3], 1>>]
MCCoinbase == [b \in MCBlocks |-> IF b = genesis THEN noAddress ELSE b[1]]
=============================================================================
