---------------------------- MODULE MCTransport ----------------------------
(* A proposal of the leader for everyone, a vote of a replica for the      *)
(* leader, and a vote of the leader for itself.                            *)
EXTENDS Transport, TLC

CONSTANTS leader, replica, proposal, vote, ownVote

MCNodes == {leader, replica}
MCMessages == {proposal, vote, ownVote}
MCsender == proposal :> leader @@ vote :> replica @@ ownVote :> leader
MCtarget == proposal :> Everyone @@ vote :> leader @@ ownVote :> leader
MCMaxSends == proposal :> 2 @@ vote :> 1 @@ ownVote :> 1
===========================================================================
