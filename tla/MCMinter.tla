----------------------------- MODULE MCMinter -----------------------------
(***************************************************************************)
(* A raft node.  A behaviour is one of Minter, with one transaction and    *)
(* three blocks, own or of other nodes, so that a block that lost its      *)
(* place to another's has to be minted again; or one of RaftLoop, with the *)
(* capacities of the code.  The two share no state.                        *)
(***************************************************************************)
EXTENDS Minter

VARIABLES
  component,   \* "minter" or "loops"
  event, heads, invalids, waiting, posting, mined, elected

waitVars == <<event, heads, invalids, waiting, posting, mined, elected>>

(* chainHeadChan and invalidRaftOrderingChan; blockProposalC with the      *)
(* blocks that minedBroadcastLoop and serveLocalProposals have in hand.    *)
L == INSTANCE RaftLoop WITH
       HeadRoom <- 10, InvalidRoom <- 1, Room <- 12,
       sending <- event, proposals <- mined, leader <- elected

MCInit == component \in {"minter", "loops"} /\ Init /\ L!Init

MCNext ==
  \/ component = "minter" /\ Next /\ UNCHANGED <<component, waitVars>>
  \/ component = "loops" /\ L!Next /\ UNCHANGED <<component, vars>>

MCSpec == MCInit /\ [][MCNext]_<<component, vars, waitVars>> /\ Fairness /\ L!Fairness

---------------------------------------------------------------------------
(* Once raft keeps a leader, the raft loop gets rid of every event that it *)
(* sends to the minter (RaftLoop!RaftLoopFree).                            *)
RaftLoopFree == L!RaftLoopFree
===========================================================================
