---------------------------- MODULE CoreRestart ----------------------------
(***************************************************************************)
(* The core with validators that stop and start again (Core.Stop,          *)
(* Core.Start).  What a node keeps is what roundState has written to its   *)
(* database, and its blockchain.                                           *)
(***************************************************************************)
EXTENDS CoreReduction

(* Start runs startNewRound with no round state.  reload reads back        *)
(* prepareQC, lockQC and committedQC, each stored when it was set; the     *)
(* view is not stored, so the round is 0 again.  reload restores the       *)
(* locked block as well, but this is not a view change, so Unlock clears   *)
(* it with the node and the pending request before the round begins.       *)
Restart(n) ==
  /\ EnterView(n, [height |-> number[chain[n]] + 1, round |-> 0], FALSE)
  /\ highQC' = [highQC EXCEPT ![n] = NoQC]
  /\ UNCHANGED <<committedQC, committed>>

RestartNext == Next \/ \E n \in Validators : Restart(n)

RestartSpec == Init /\ [][RestartNext]_vars
===========================================================================
