----------------------------- MODULE MCRestart -----------------------------
(* The instance of MCCore, directed at one scenario: s1, s2 and s3 decide  *)
(* the block of s1 in round 0, where only s1 sees the decision; then s1 is *)
(* silent, s2 and s3 restart, and s2 leads round 1.                        *)
EXTENDS CoreRestart

CONSTANTS s1, s2, s3, s4

MCValidators == {s1, s2, s3, s4}
MCValList == (0 :> s1) @@ (1 :> s2) @@ (2 :> s3) @@ (3 :> s4)

MCBlocks == {genesis} \cup ({s1, s2} \X {1})
MCNumber == [b \in MCBlocks |-> IF b = genesis THEN 0 ELSE b[2]]
MCParentHash == [b \in MCBlocks |-> genesis]
MCCoinbase == [b \in MCBlocks |-> IF b = genesis THEN noAddress ELSE b[1]]


Deciding ==
  /\ UNCHANGED <<view, state[s4]>>
  /\ \A n \in Validators : state'[n] >= state[n]

Restarting ==
  /\ UNCHANGED <<view, state[s1]>>
  /\ lockedBlock' # lockedBlock

Round1 ==
  /\ UNCHANGED <<view[s1], state[s1]>>
  /\ IF \E n \in {s2, s3, s4} : view[n].round = 0
     THEN view' # view
     ELSE UNCHANGED view /\ \A n \in Validators : state'[n] >= state[n]

Directed ==
  /\ QuorumAtOnce
  /\ UNCHANGED chain
  /\ CASE committed[s1] = {} -> Deciding
       [] committed[s1] # {} /\ (\E n \in {s2, s3} : view[n].round = 0 /\ lockedBlock[n] # Nil)
            -> Restarting
       [] OTHER -> Round1
=============================================================================
