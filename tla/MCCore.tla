------------------------------- MODULE MCCore -------------------------------
(* Four validators (F = 1, Q = 3), two rounds of the first height, and a   *)
(* block of each of the two leaders.                                       *)
EXTENDS CoreReduction

CONSTANTS s1, s2, s3, s4

MCValidators == {s1, s2, s3, s4}
MCValList == (0 :> s1) @@ (1 :> s2) @@ (2 :> s3) @@ (3 :> s4)

(* A block is its author and its height. *)
MCBlocks == {genesis} \cup ({s1, s2} \X {1})
MCNumber == [b \in MCBlocks |-> IF b = genesis THEN 0 ELSE b[2]]
MCParentHash == [b \in MCBlocks |-> genesis]
MCCoinbase == [b \in MCBlocks |-> IF b = genesis THEN noAddress ELSE b[1]]

(* No block is inserted: every validator stays at the first height. *)
OneHeight == \A n \in Validators : chain[n] = Genesis

(* The scenario of MCLocks.cfg: in round 0 only s1 gets as far as a lock,  *)
(* in round 1 only s2.                                                     *)
Leads == IF view[s2].round = 0 THEN s1 ELSE s2

(* Until the leader of the round has locked, no one changes the view, and  *)
(* only the leader locks; then every validator times out.                  *)
Directed ==
  /\ QuorumAtOnce
  /\ UNCHANGED chain
  /\ \A n \in Validators : lockedBlock'[n] # lockedBlock[n] => n = Leads
  /\ IF \E n \in Validators : view[n].round = 0 /\ lockedBlock[s1] # Nil
     THEN view' # view
     ELSE UNCHANGED view
=============================================================================
