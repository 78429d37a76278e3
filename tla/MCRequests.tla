----------------------------- MODULE MCRequests -----------------------------
(***************************************************************************)
(* The core of one node as its own goroutines see it.  A behaviour is one  *)
(* of Requests, with two blocks of the miner at height 1, one at height 2  *)
(* and one at height 3, or one of Lifecycle, with three starts of the      *)
(* engine.  The two share no state.                                        *)
(***************************************************************************)
EXTENDS Requests, TLC

CONSTANTS a1, b1, a2, a3, MaxStarts

ASSUME MaxStartsAssumption == MaxStarts \in Nat

MCBlocks == {a1, b1, a2, a3}
MCnumber == a1 :> 1 @@ b1 :> 1 @@ a2 :> 2 @@ a3 :> 3

VARIABLES
  component,   \* "requests" or "lifecycle"
  coreStarted, api, current, sub, closed, events, loop, reads

engineVars == <<coreStarted, api, current, sub, closed, events, loop, reads>>

E == INSTANCE Lifecycle WITH posted <- events

MCInit == component \in {"requests", "lifecycle"} /\ Init /\ E!Init

MCNext ==
  \/ component = "requests" /\ Next /\ UNCHANGED <<component, engineVars>>
  \/ component = "lifecycle" /\ E!Next /\ UNCHANGED <<component, vars>>

MCSpec == MCInit /\ [][MCNext]_<<component, vars, engineVars>> /\ Fairness /\ E!Fairness

---------------------------------------------------------------------------
(* A started engine has a round state and an event loop that reads the     *)
(* subscription of this start (Lifecycle!StartedIsServed).                 *)
StartedIsServed == E!StartedIsServed

(* An engine that is stopped for good has no event loop left               *)
(* (Lifecycle!StopEndsLoops).                                              *)
StopEndsLoops == E!StopEndsLoops
===========================================================================
