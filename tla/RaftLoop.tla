------------------------------ MODULE RaftLoop ------------------------------
(***************************************************************************)
(* Who waits for whom in a raft node: the raft loop (raft/handler.go,      *)
(* eventLoop), which drives raft's clock and its messages, sends to two    *)
(* channels of the minter; their reader, the minter's event loop, waits    *)
(* for minter.mu; mintNewBlock holds it while it posts a block             *)
(* (raft/minter.go); and the block goes through minedBroadcastLoop and     *)
(* blockProposalC to serveLocalProposals, which waits for raft.            *)
(*                                                                         *)
(* Only the waiting is modelled, with the code's capacities; which blocks  *)
(* there are and what becomes of them is in Minter, which implements this  *)
(* module.                                                                 *)
(***************************************************************************)
EXTENDS Naturals

CONSTANTS
  HeadRoom,     \* the capacity of chainHeadChan
  InvalidRoom,  \* the capacity of invalidRaftOrderingChan
  Room          \* how many mined blocks fit between mux.Post and raft

VARIABLES
  sending,    \* what the raft loop is sending: "none", "head" or "invalid"
  heads,      \* how many events chainHeadChan holds
  invalids,   \* how many events invalidRaftOrderingChan holds
  waiting,    \* is the event loop waiting for minter.mu?
  posting,    \* is mintNewBlock in mux.Post, holding minter.mu?
  proposals,  \* how many mined blocks are on their way to raft
  leader      \* does raft have a leader that this node knows?

vars == <<sending, heads, invalids, waiting, posting, proposals, leader>>

---------------------------------------------------------------------------
(* applyNewChainHead: a block that extends the chain has become its head,  *)
(* and InsertChain announces it; any other is reported as invalid.         *)
Apply ==
  /\ sending = "none"
  /\ sending' \in {"head", "invalid"}
  /\ UNCHANGED <<heads, invalids, waiting, posting, proposals, leader>>

SendHead ==
  /\ sending = "head" /\ heads < HeadRoom
  /\ sending' = "none"
  /\ heads' = heads + 1
  /\ UNCHANGED <<invalids, waiting, posting, proposals, leader>>

SendInvalid ==
  /\ sending = "invalid" /\ invalids < InvalidRoom
  /\ sending' = "none"
  /\ invalids' = invalids + 1
  /\ UNCHANGED <<heads, waiting, posting, proposals, leader>>

---------------------------------------------------------------------------
(* minter.eventLoop takes an event from one of the channels, and then      *)
(* minter.mu.                                                              *)
ReceiveHead ==
  /\ ~waiting /\ heads > 0
  /\ heads' = heads - 1
  /\ waiting' = TRUE
  /\ UNCHANGED <<sending, invalids, posting, proposals, leader>>

IgnoreInvalid == FALSE /\ UNCHANGED vars
ReceiveInvalid ==
  /\ ~waiting /\ invalids > 0
  /\ invalids' = invalids - 1
  /\ waiting' = TRUE
  /\ UNCHANGED <<sending, heads, posting, proposals, leader>>

Update ==
  /\ waiting /\ ~posting
  /\ waiting' = FALSE
  /\ UNCHANGED <<sending, heads, invalids, posting, proposals, leader>>

---------------------------------------------------------------------------
(* mintNewBlock takes minter.mu and posts its block: mux.Post returns when *)
(* minedBroadcastLoop has taken it.                                        *)
Mint ==
  /\ ~posting
  /\ posting' = TRUE
  /\ UNCHANGED <<sending, heads, invalids, waiting, proposals, leader>>

Posted ==
  /\ posting /\ proposals < Room
  /\ proposals' = proposals + 1
  /\ posting' = FALSE
  /\ UNCHANGED <<sending, heads, invalids, waiting, leader>>

(* serveLocalProposals: Propose blocks until raft, which needs a leader,   *)
(* accepts the block.  Leaders go and come (external).                     *)
Propose ==
  /\ proposals > 0 /\ leader
  /\ proposals' = proposals - 1
  /\ UNCHANGED <<sending, heads, invalids, waiting, posting, leader>>

ChangeLeader ==
  /\ leader' = ~leader
  /\ UNCHANGED <<sending, heads, invalids, waiting, posting, proposals>>

---------------------------------------------------------------------------
Init ==
  /\ sending = "none"
  /\ heads = 0 /\ invalids = 0
  /\ waiting = FALSE /\ posting = FALSE
  /\ proposals = 0
  /\ leader = FALSE

Next ==
  \/ Apply \/ SendHead \/ SendInvalid
  \/ ReceiveHead \/ ReceiveInvalid \/ Update
  \/ Mint \/ Posted \/ Propose \/ ChangeLeader

Spec == Init /\ [][Next]_vars

(* The goroutines run.  A select takes none of its ready channels for ever *)
(* and no other, and sync.Mutex lets no goroutine wait for ever while      *)
(* another takes it again and again.                                       *)
Fairness ==
  /\ WF_vars(SendHead) /\ WF_vars(SendInvalid)
  /\ SF_vars(ReceiveHead) /\ SF_vars(ReceiveInvalid) /\ SF_vars(Update)
  /\ WF_vars(Posted) /\ WF_vars(Propose)

FairSpec == Spec /\ Fairness

---------------------------------------------------------------------------
(* The raft loop is not stuck on a channel of the minter for good: once    *)
(* raft keeps a leader, so that the minter's own blocks get out of the way *)
(* of minter.mu, every event is sent.                                      *)
RaftLoopFree == <>[]leader => (sending # "none" ~> sending = "none")

(* The same without a leader, which it may take this very loop to elect.   *)
RaftLoopNeverWaits == sending # "none" ~> sending = "none"
===========================================================================
