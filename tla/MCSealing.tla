----------------------------- MODULE MCSealing -----------------------------
(* Two tasks of the miner at the first height, so that one may replace the *)
(* other, one at the second, and a block of another miner at the first.    *)
EXTENDS Sealing, TLC

CONSTANTS a1, b1, a2, x1

MCOwn == {a1, b1, a2}
MCForeign == {x1}
MCnumber == a1 :> 1 @@ b1 :> 1 @@ x1 :> 1 @@ a2 :> 2
===========================================================================
