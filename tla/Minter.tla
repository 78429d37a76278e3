------------------------------- MODULE Minter -------------------------------
(***************************************************************************)
(* The raft minter of one node: the speculative chain of blocks it has     *)
(* minted and that raft has not ordered yet (raft/speculative_chain.go),   *)
(* the event loop and the minting goroutine that share it under minter.mu  *)
(* (raft/minter.go), and the raft loop that applies the ordered blocks     *)
(* (raft/handler.go).                                                      *)
(*                                                                         *)
(* A block is named by its place in blocks, the genesis block by 0.  Raft  *)
(* is external: while it has a leader it orders a proposed block, or loses *)
(* it, and other nodes mint blocks on a head they have seen, which may be  *)
(* out of date.                                                            *)
(***************************************************************************)
EXTENDS Naturals, Sequences, SequencesExt

CONSTANTS
  Txs,         \* transactions
  Room,        \* how many mined blocks fit between mux.Post and raft
  HeadRoom,    \* the capacity of chainHeadChan
  InvalidRoom, \* the capacity of invalidRaftOrderingChan
  MaxBlocks,   \* bound: how many blocks are minted
  MaxRoles     \* bound: how often the node becomes minter

ASSUME MinterAssumption ==
  /\ Room \in Nat \ {0} /\ HeadRoom \in Nat \ {0} /\ InvalidRoom \in Nat \ {0}
  /\ MaxBlocks \in Nat /\ MaxRoles \in Nat

VARIABLES
  blocks,      \* every block minted: its parent, its txs, is it our own?
  (* minter and its speculativeChain *)
  minting, head, unappliedBlocks, expectedInvalidBlockHashes, proposedTxes,
  mu,          \* is minter.mu held by a mintNewBlock that is posting?
  loop,        \* the event loop: in its select, or an event in hand with the
               \*   value of minting it has loaded
  mint,        \* the minting goroutine: "wait", "lock", or "post"
  shouldMine, request,   \* the two ring channels: is a request in them?
  chainHeadChan, invalidRaftOrderingChan,
  txPreChan,   \* how many transactions the event loop has not heard of
  (* the node around it *)
  sending,     \* the event that the raft loop is sending to the minter
  leader,      \* does raft have a leader that this node knows?
  proposals,   \* the mined blocks on their way to raft
  ordered,     \* the blocks raft has ordered and this node has to apply
  currentBlock, stored,  \* the head of the blockchain, the blocks it has
  pool,        \* pending transactions
  roles        \* how often the node has become minter

specVars == <<head, unappliedBlocks, expectedInvalidBlockHashes, proposedTxes>>
loopVars == <<loop, mint, mu, shouldMine, request>>
chanVars == <<chainHeadChan, invalidRaftOrderingChan, txPreChan>>
raftVars == <<ordered, sending, leader, currentBlock, stored>>
nodeVars == <<proposals, raftVars, pool>>
vars == <<blocks, minting, specVars, loopVars, chanVars, nodeVars, roles>>

Block == 1 .. Len(blocks)
Parent(b) == blocks[b].parent
TxsOf(b) == blocks[b].txs
TxsOfAll(S) == UNION {TxsOf(b) : b \in S}

(* The events of chainHeadChan and invalidRaftOrderingChan. *)
Event(chan, b, h) == [chan |-> chan, block |-> b, headBlock |-> h]
None == Event("none", 0, 0)
Select == [ev |-> None, accept |-> FALSE]

(* The transactions in a block and its ancestors: they have a used nonce. *)
Ancestors[b \in Nat] == IF b = 0 THEN {} ELSE {b} \cup Ancestors[Parent(b)]
Spent(b) == TxsOfAll(Ancestors[b])

---------------------------------------------------------------------------
(* speculativeChain *)

Clear(b) ==
  /\ head' = b
  /\ unappliedBlocks' = <<>>
  /\ expectedInvalidBlockHashes' = {}
  /\ proposedTxes' = {}

Extend(b, txs) ==
  /\ head' = b
  /\ proposedTxes' = proposedTxes \cup txs
  /\ unappliedBlocks' = Append(unappliedBlocks, b)
  /\ UNCHANGED expectedInvalidBlockHashes

(* Nobody proposed a block, or this one was expected, or another node      *)
(* minted.                                                                 *)
KeepSpeculating(b) ==
  /\ unappliedBlocks' = IF unappliedBlocks = <<>> THEN <<>> ELSE Tail(unappliedBlocks)
  /\ head' = IF unappliedBlocks = <<>> THEN b ELSE head
  /\ proposedTxes' = proposedTxes \ TxsOf(b)
  /\ UNCHANGED expectedInvalidBlockHashes
Accept(b) ==
  \/ /\ unappliedBlocks = <<>>
     /\ head' = b
     /\ UNCHANGED <<unappliedBlocks, expectedInvalidBlockHashes, proposedTxes>>
  \/ /\ unappliedBlocks # <<>> /\ Head(unappliedBlocks) = b
     /\ unappliedBlocks' = Tail(unappliedBlocks)
     /\ proposedTxes' = proposedTxes \ TxsOf(b)
     /\ UNCHANGED <<head, expectedInvalidBlockHashes>>
  \/ /\ unappliedBlocks # <<>> /\ Head(unappliedBlocks) # b
     /\ Clear(b)

(* Pops blocks up to the invalid one; those after it join the guard. *)
UnwindFrom(invalid, headBlock) ==
  LET keep == SelectInSeq(unappliedBlocks, LAMBDA b : b = invalid) - 1
      kept == IF keep < 0 THEN <<>> ELSE SubSeq(unappliedBlocks, 1, keep)
      popped == Range(unappliedBlocks) \ Range(kept)
  IN  IF invalid \in expectedInvalidBlockHashes
      THEN /\ expectedInvalidBlockHashes' = expectedInvalidBlockHashes \ {invalid}
           /\ UNCHANGED <<head, unappliedBlocks, proposedTxes>>
      ELSE /\ unappliedBlocks' = kept
           /\ head' = IF popped = {} THEN head
                      ELSE IF kept = <<>> THEN headBlock ELSE Last(kept)
           /\ proposedTxes' = proposedTxes \ TxsOfAll(popped)
           /\ expectedInvalidBlockHashes' =
                expectedInvalidBlockHashes \cup (popped \ {invalid})

---------------------------------------------------------------------------
(* handleRoleChange: minter.start and minter.stop *)

RequestMinting == shouldMine' = TRUE

Start ==
  /\ ~minting /\ roles < MaxRoles
  /\ minting' = TRUE
  /\ roles' = roles + 1
  /\ RequestMinting
  /\ UNCHANGED <<blocks, specVars, loop, mint, mu, request, chanVars, nodeVars>>

Stop ==
  /\ minting /\ ~mu
  /\ Clear(currentBlock)
  /\ minting' = FALSE
  /\ UNCHANGED <<blocks, loopVars, chanVars, nodeVars, roles>>

---------------------------------------------------------------------------
(* The event loop of the minter.  It loads minting before it takes mu. *)

ChainHead ==
  /\ loop = Select /\ chainHeadChan # <<>>
  /\ loop' = [ev |-> Head(chainHeadChan), accept |-> minting]
  /\ chainHeadChan' = Tail(chainHeadChan)
  /\ UNCHANGED <<blocks, minting, specVars, mint, mu, shouldMine, request,
                 invalidRaftOrderingChan, txPreChan, nodeVars, roles>>

UpdateQuietly ==
  /\ loop.ev.chan = "head" /\ loop.accept /\ ~mu
  /\ Accept(loop.ev.block)
  /\ loop' = Select
  /\ UNCHANGED <<blocks, minting, mint, mu, shouldMine, request, chanVars, nodeVars, roles>>
UpdatePerNewHead ==
  /\ loop.ev.chan = "head" /\ loop.accept /\ ~mu
  /\ Accept(loop.ev.block)
  /\ loop' = Select
  /\ RequestMinting
  /\ UNCHANGED <<blocks, minting, mint, mu, request, chanVars, nodeVars, roles>>

SetHeadUnlocked ==
  /\ loop.ev.chan = "head" /\ ~loop.accept
  /\ head' = loop.ev.block
  /\ loop' = Select
  /\ UNCHANGED <<blocks, minting, unappliedBlocks, expectedInvalidBlockHashes,
                 proposedTxes, mint, mu, shouldMine, request, chanVars, nodeVars, roles>>
SetHead ==
  /\ loop.ev.chan = "head" /\ ~loop.accept /\ ~mu
  /\ head' = loop.ev.block
  /\ loop' = Select
  /\ UNCHANGED <<blocks, minting, unappliedBlocks, expectedInvalidBlockHashes,
                 proposedTxes, mint, mu, shouldMine, request, chanVars, nodeVars, roles>>

(* A transaction enters the pool, which tells the event loop. *)
AddTx(tx) ==
  /\ tx \notin pool /\ \A b \in Block : tx \notin TxsOf(b)
  /\ pool' = pool \cup {tx}
  /\ txPreChan' = txPreChan + 1
  /\ UNCHANGED <<blocks, minting, specVars, loopVars, chainHeadChan, invalidRaftOrderingChan,
                 proposals, raftVars, roles>>

NewTx ==
  /\ loop = Select /\ txPreChan > 0
  /\ txPreChan' = txPreChan - 1
  /\ shouldMine' = (shouldMine \/ minting)
  /\ UNCHANGED <<blocks, minting, specVars, loop, mint, mu, request, chainHeadChan,
                 invalidRaftOrderingChan, nodeVars, roles>>

InvalidOrdering ==
  /\ loop = Select /\ invalidRaftOrderingChan # <<>>
  /\ loop' = [ev |-> Head(invalidRaftOrderingChan), accept |-> FALSE]
  /\ invalidRaftOrderingChan' = Tail(invalidRaftOrderingChan)
  /\ UNCHANGED <<blocks, minting, specVars, mint, mu, shouldMine, request, chainHeadChan,
                 txPreChan, nodeVars, roles>>

(* The raft loop reports only blocks that HasBlock denies, and a node does *)
(* not store what it mints: the block is never in the database.            *)
UpdatePerInvalidOrdering ==
  /\ loop.ev.chan = "invalid" /\ ~mu
  /\ IF loop.ev.block \in stored
     THEN UnwindFrom(loop.ev.block, loop.ev.headBlock)
     ELSE UNCHANGED specVars
  /\ loop' = Select
  /\ UNCHANGED <<blocks, minting, mint, mu, shouldMine, request, chanVars, nodeVars, roles>>

---------------------------------------------------------------------------
(* mintingLoop, throttle and mintNewBlock *)

Throttle ==
  /\ shouldMine
  /\ shouldMine' = FALSE
  /\ request' = TRUE
  /\ UNCHANGED <<blocks, minting, specVars, loop, mint, mu, chanVars, nodeVars, roles>>

Tick ==
  /\ mint = "wait" /\ request
  /\ request' = FALSE
  /\ mint' = IF minting THEN "lock" ELSE "wait"
  /\ UNCHANGED <<blocks, minting, specVars, loop, mu, shouldMine, chanVars, nodeVars, roles>>

(* The pending transactions that are neither proposed nor spent. *)
GetTransactions == (pool \ proposedTxes) \ Spent(head)

MintNewBlock ==
  /\ mint = "lock" /\ ~mu
  /\ \/ /\ GetTransactions = {}
        /\ mint' = "wait"
        /\ UNCHANGED <<blocks, specVars, mu>>
     \/ /\ GetTransactions # {} /\ Len(blocks) < MaxBlocks
        /\ blocks' = Append(blocks, [parent |-> head, txs |-> GetTransactions, own |-> TRUE])
        /\ Extend(Len(blocks) + 1, GetTransactions)
        /\ mint' = "post"
        /\ mu' = TRUE
  /\ UNCHANGED <<minting, loop, shouldMine, request, chanVars, nodeVars, roles>>

(* mux.Post returns when minedBroadcastLoop has taken the block: it and    *)
(* serveLocalProposals hold one each, blockProposalC ten in between.       *)
Posted ==
  /\ mint = "post" /\ Len(proposals) < Room
  /\ proposals' = Append(proposals, Last(unappliedBlocks))
  /\ mint' = "wait"
  /\ mu' = FALSE
  /\ UNCHANGED <<blocks, minting, specVars, loop, shouldMine, request, chanVars, raftVars,
                 pool, roles>>

---------------------------------------------------------------------------
(* Raft (external).  Its leader goes and comes.  Propose blocks until      *)
(* there is one.                                                           *)
ChangeLeader ==
  /\ leader' = ~leader
  /\ UNCHANGED <<blocks, minting, specVars, loopVars, chanVars, proposals, ordered, sending,
                 currentBlock, stored, pool, roles>>

Propose(lost) ==
  /\ leader /\ proposals # <<>>
  /\ proposals' = Tail(proposals)
  /\ ordered' = IF lost THEN ordered ELSE Append(ordered, Head(proposals))
  /\ UNCHANGED <<blocks, minting, specVars, loopVars, chanVars, sending, leader, currentBlock,
                 stored, pool, roles>>

(* What another node may take for the head of its speculative chain: a     *)
(* block that was the head of the chain after some prefix of the order, or *)
(* one that it has minted itself.                                          *)
Heads ==
  stored
  \cup {FoldLeft(LAMBDA h, b : IF Parent(b) = h THEN b ELSE h, currentBlock,
                 SubSeq(ordered, 1, i)) : i \in DOMAIN ordered}
  \cup {b \in Block : ~blocks[b].own}

(* The other node puts a transaction in its block that this node knows     *)
(* too, or only others.                                                    *)
OtherMints ==
  /\ leader /\ Len(blocks) < MaxBlocks
  /\ \E h \in Heads :
     \E txs \in {{}} \cup {{tx} : tx \in (pool \cup TxsOfAll(Block)) \ Spent(h)} :
       blocks' = Append(blocks, [parent |-> h, txs |-> txs, own |-> FALSE])
  /\ ordered' = Append(ordered, Len(blocks) + 1)
  /\ UNCHANGED <<minting, specVars, loopVars, chanVars, proposals, sending, leader,
                 currentBlock, stored, pool, roles>>

(* The raft loop applies the next ordered block, which is new to it unless *)
(* the node restarts (module RaftApply).  applyNewChainHead makes a block  *)
(* that extends the chain its head, which InsertChain announces, and       *)
(* reports any other as invalid.                                           *)
ApplyEntry ==
  LET b == Head(ordered)
  IN  /\ sending = None /\ ordered # <<>>
      /\ \/ /\ Parent(b) = currentBlock
            /\ currentBlock' = b
            /\ stored' = stored \cup {b}
            /\ pool' = pool \ TxsOf(b)
            /\ sending' = Event("head", b, b)
         \/ /\ Parent(b) # currentBlock
            /\ sending' = Event("invalid", b, currentBlock)
            /\ UNCHANGED <<currentBlock, stored, pool>>
      /\ ordered' = Tail(ordered)
      /\ UNCHANGED <<blocks, minting, specVars, loopVars, chanVars, proposals, leader, roles>>

(* The raft loop waits for room in the channel. *)
Send ==
  /\ \/ /\ sending.chan = "head" /\ Len(chainHeadChan) < HeadRoom
        /\ chainHeadChan' = Append(chainHeadChan, sending)
        /\ UNCHANGED invalidRaftOrderingChan
     \/ /\ sending.chan = "invalid" /\ Len(invalidRaftOrderingChan) < InvalidRoom
        /\ invalidRaftOrderingChan' = Append(invalidRaftOrderingChan, sending)
        /\ UNCHANGED chainHeadChan
  /\ sending' = None
  /\ UNCHANGED <<blocks, minting, specVars, loopVars, txPreChan, proposals, ordered, leader,
                 currentBlock, stored, pool, roles>>

---------------------------------------------------------------------------
Init ==
  /\ blocks = <<>> /\ minting = FALSE
  /\ head = 0 /\ unappliedBlocks = <<>>
  /\ expectedInvalidBlockHashes = {} /\ proposedTxes = {}
  /\ mu = FALSE /\ loop = Select /\ mint = "wait"
  /\ shouldMine = FALSE /\ request = FALSE
  /\ chainHeadChan = <<>> /\ invalidRaftOrderingChan = <<>> /\ txPreChan = 0
  /\ proposals = <<>> /\ ordered = <<>> /\ sending = None /\ leader = FALSE
  /\ currentBlock = 0 /\ stored = {0}
  /\ pool = {} /\ roles = 0

Next ==
  \/ Start \/ Stop
  \/ ChainHead \/ UpdatePerNewHead \/ SetHead \/ NewTx
  \/ InvalidOrdering \/ UpdatePerInvalidOrdering
  \/ \E tx \in Txs : AddTx(tx)
  \/ Throttle \/ Tick \/ MintNewBlock \/ Posted
  \/ ChangeLeader \/ \E lost \in BOOLEAN : Propose(lost)
  \/ OtherMints \/ ApplyEntry \/ Send

(* The goroutines run; raft accepts or drops what it is given, but only    *)
(* while it has a leader.                                                  *)
Fairness ==
  /\ WF_vars(ChainHead) /\ WF_vars(UpdatePerNewHead) /\ WF_vars(SetHead)
  /\ WF_vars(NewTx) /\ WF_vars(InvalidOrdering) /\ WF_vars(UpdatePerInvalidOrdering)
  /\ WF_vars(Throttle) /\ WF_vars(Tick) /\ WF_vars(MintNewBlock) /\ WF_vars(Posted)
  /\ WF_vars(\E lost \in BOOLEAN : Propose(lost))
  /\ WF_vars(ApplyEntry) /\ WF_vars(Send)

Spec == Init /\ [][Next]_vars /\ Fairness

---------------------------------------------------------------------------
(* Properties                                                              *)

(* The blacklist that keeps a transaction from being minted twice is the   *)
(* transactions of the outstanding blocks: it neither leaks, so that a     *)
(* transaction would never be minted again, nor forgets one.               *)
TxsTracked == proposedTxes = TxsOfAll(Range(unappliedBlocks))

(* A minter does not sit on transactions: once raft keeps a leader, every  *)
(* one that it could put in a block is put in one, or spent, unless it     *)
(* stops minting; no interleaving of heads and requests swallows the last  *)
(* requestMinting.                                                         *)
TxsAreMinted ==
  <>[]leader =>
    ((minting /\ GetTransactions # {}) ~>
       (~minting \/ GetTransactions = {} \/ Len(blocks) = MaxBlocks))

(* The goroutines of the minter and of the raft loop wait for each other   *)
(* as RaftLoop says, whatever the blocks are: a step of this module is a   *)
(* step of that one or leaves its state alone.                             *)
R == INSTANCE RaftLoop WITH
       sending <- sending.chan,
       heads <- Len(chainHeadChan),
       invalids <- Len(invalidRaftOrderingChan),
       waiting <- loop # Select,
       posting <- mu,
       proposals <- Len(proposals)

ImplementsRaftLoop == R!Spec

(* "The parent always points the last speculative block or the head of the *)
(* blockchain if there are not speculative blocks" (unwindFrom), once no   *)
(* new head is on its way to the minter.                                   *)
ParentIsCurrent ==
  IF unappliedBlocks # <<>> THEN head = Last(unappliedBlocks)
  ELSE sending = None /\ chainHeadChan = <<>> /\ loop = Select => head = currentBlock

(* "If the block is not in our db, exit. Someone else mined this."         *)
(* (updateSpeculativeChainPerInvalidOrdering)                              *)
SomeoneElseMined ==
  \A i \in DOMAIN invalidRaftOrderingChan :
    LET b == invalidRaftOrderingChan[i].block
    IN  b \notin stored => ~blocks[b].own
=============================================================================
