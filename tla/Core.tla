-------------------------------- MODULE Core --------------------------------
(***************************************************************************)
(* The consensus core (consensus/hotstuff/core) of every validator at      *)
(* once: the round state of each node, the handlers of the eight message   *)
(* types, requests, timeouts, final-committed events, and the local chain  *)
(* that blocks are inserted into asynchronously.                           *)
(*                                                                         *)
(* The network is the set of all messages ever sent.  A node may handle    *)
(* any of them at any time, more than once or never, so loss, delay,       *)
(* duplication, reordering, the backlog's replay of future messages and a  *)
(* node that has stopped for good are all behaviours of the model.         *)
(*                                                                         *)
(* A ProposedBlock stands for its own hash: two are equal exactly when     *)
(* their hashes are.  Sealing a block does not change its hash, so a block *)
(* and its sealed form are one value here.                                 *)
(***************************************************************************)
EXTENDS ValidatorSet

CONSTANTS
  Blocks,       \* every block some miner may build, the genesis included
  Genesis,
  number,       \* header.Number of a block
  parentHash,   \* the block header.ParentHash refers to
  coinbase,     \* header.Coinbase, the validator whose miner built the block
  GenesisNode,  \* the ProposedBlock 0x12345 of the genesis certificate
  Nil,
  MaxRound      \* bound: rounds of one height go from 0 to MaxRound

ASSUME BlocksAssumption ==
  /\ Genesis \in Blocks
  /\ number \in [Blocks -> Nat]
  /\ number[Genesis] = 0
  /\ parentHash \in [Blocks -> Blocks]
  /\ coinbase \in [Blocks -> Validators \cup {NoAddress}]
  /\ \A b \in Blocks \ {Genesis} : number[b] = number[parentHash[b]] + 1
  /\ \A b \in Blocks : coinbase[b] = NoAddress <=> b = Genesis

ASSUME NilAssumption ==
  /\ Nil \notin Blocks
  /\ MaxRound \in Nat

VARIABLES
  view,            \* roundState.height and roundState.round
  state,           \* roundState.state
  lastChained,     \* roundState.lastChainedBlock
  pendingRequest,  \* roundState.pendingRequest
  node,            \* roundState.node, the ProposedBlock being decided
  lockedBlock,     \* roundState.LockedBlock(): Nil unless proposalLocked
  highQC, prepareQC, lockQC, committedQC,
  newViews, prepareVotes, preCommitVotes, commitVotes,  \* the MessageSets
  chain,           \* the head of the node's blockchain
  committed,       \* blocks the node has handed to backend.Commit
  msgs             \* every consensus message ever sent

proposalVars == <<pendingRequest, node, lockedBlock>>
certVars == <<highQC, prepareQC, lockQC, committedQC>>
voteVars == <<newViews, prepareVotes, preCommitVotes, commitVotes>>
roundVars == <<view, lastChained>>
ledgerVars == <<chain, committed>>
vars == <<state, proposalVars, certVars, voteVars, roundVars, ledgerVars, msgs>>

---------------------------------------------------------------------------
(* Round states and message types.                                         *)

AcceptRequest == 1
HighQC == 2
Prepared == 3
PreCommitted == 4
Committed == 5

VoteCodes == {"PrepareVote", "PreCommitVote", "CommitVote"}

(* Views are ordered by height, then by round: View.Cmp. *)
Before(v, w) ==
  \/ v.height < w.height
  \/ v.height = w.height /\ v.round < w.round

(* valSet.CalcProposer, as startNewRound calls it: the proposer follows    *)
(* from the author of the last chained block and the round.                *)
Proposer(n) == RoundRobinSelector(coinbase[lastChained[n]], view[n].round)

IsProposer(n) == Proposer(n) = n

(* A signed message of node n at its current view. *)
Message(n, code, body) ==
  [code |-> code, src |-> n, view |-> view[n], body |-> body]

(* A certificate that is nil. *)
NoQC == [code |-> "None"]

(* buildRoundStartQC: an unsigned certificate for the last chained block. *)
BuildRoundStartQC(b) ==
  [code |-> "PrepareVote",
   view |-> [height |-> number[b], round |-> 0],
   node |-> IF b = Genesis THEN GenesisNode ELSE b,
   proposer |-> coinbase[b],
   signed |-> FALSE]

(* MessageSet.Add keeps one message per sender, the latest. *)
Add(set, m) == {x \in set : x.src # m.src} \cup {m}

---------------------------------------------------------------------------
(* The checks of utils.go and prepare.go.                                  *)

CheckView(n, v) == v = view[n]

CheckMsgSource(n, m) == m.src = Proposer(n)

CheckMsgDest(n) == IsProposer(n)

(* The certificate a message of each type has to carry. *)
QCCode(code) ==
  CASE code = "Commit" -> "PreCommitVote"
    [] code = "Decide" -> "CommitVote"
    [] OTHER -> "PrepareVote"

VerifyQC(n, m, qc) ==
  qc.view.height # 0 =>
    /\ qc.code = QCCode(m.code)
    /\ m.code \in {"NewView", "Prepare"} => ~Before(m.view, qc.view)
    /\ m.code \in {"PreCommit", "Commit", "Decide"} =>
         /\ qc.view = m.view
         /\ qc.proposer = Proposer(n)
         /\ node[n] # Nil
         /\ node[n] = qc.node
    /\ qc.signed

(* The proposal extends the local chain, and is the locked block if there  *)
(* is one.                                                                 *)
CheckBlockNoLock(n, b) ==
  number[b] = number[lastChained[n]] + 1 /\ parentHash[b] = lastChained[n]
CheckBlock(n, b) ==
  /\ number[b] = number[lastChained[n]] + 1
  /\ parentHash[b] = lastChained[n]
  /\ lockedBlock[n] # Nil => b = lockedBlock[n]

SafeNode(n, nd, qc) ==
  /\ qc.node = nd.parent
  /\ lockQC[n] # NoQC =>
       \/ lockQC[n].node = nd.parent
       \/ Before(lockQC[n].view, qc.view)

(* A vote has to equal the UnsignedVote of the receiver's own node. *)
CheckVote(n, m) == node[n] # Nil /\ m.body = node[n]

(* BLSRecoverAggSig: tbls.Recover needs the shares of T = Q signers of the *)
(* expected vote.                                                          *)
BLSRecover(n, votes) ==
  LET valid == {m \in votes : m.view = view[n] /\ m.body = node[n]}
  IN  Cardinality({m.src : m \in valid}) >= Q

HasQuorum(votes) == Cardinality(votes) >= Q

(* messagesToQC *)
RoundlessQC(n, code) ==
  [code |-> code, view |-> [view[n] EXCEPT !.round = 0], node |-> node[n],
   proposer |-> Proposer(n), signed |-> TRUE]
MessagesToQC(n, code) ==
  [code |-> code, view |-> view[n], node |-> node[n],
   proposer |-> Proposer(n), signed |-> TRUE]

---------------------------------------------------------------------------
(* startNewRound                                                           *)

(* updateRoundState: only a node without a prepareQC takes the certificate *)
(* of its last chained block.                                              *)
AlwaysRoundStartQC(n) == BuildRoundStartQC(chain[n])
RoundStartQC(n) ==
  IF prepareQC[n] # NoQC THEN prepareQC[n] ELSE BuildRoundStartQC(chain[n])

(* updateRoundState, Unlock (unless the view changes within a height), a   *)
(* fresh state and the NewView message of sendNewView.                     *)
EnterView(n, v, changeView) ==
  /\ view' = [view EXCEPT ![n] = v]
  /\ lastChained' = [lastChained EXCEPT ![n] = chain[n]]
  /\ newViews' = [newViews EXCEPT ![n] = {}]
  /\ prepareVotes' = [prepareVotes EXCEPT ![n] = {}]
  /\ preCommitVotes' = [preCommitVotes EXCEPT ![n] = {}]
  /\ commitVotes' = [commitVotes EXCEPT ![n] = {}]
  /\ state' = [state EXCEPT ![n] = AcceptRequest]
  /\ IF changeView
     THEN UNCHANGED proposalVars
     ELSE /\ pendingRequest' = [pendingRequest EXCEPT ![n] = Nil]
          /\ node' = [node EXCEPT ![n] = Nil]
          /\ lockedBlock' = [lockedBlock EXCEPT ![n] = Nil]
  /\ msgs' = msgs \cup {[code |-> "NewView", src |-> n, view |-> v,
                         body |-> RoundStartQC(n)]}
  /\ prepareQC' = [prepareQC EXCEPT ![n] = RoundStartQC(n)]
  /\ UNCHANGED <<lockQC, chain>>

(* The local chain has reached the node's height: move to the next one. *)
CatchUp(n) ==
  /\ number[chain[n]] >= view[n].height
  /\ EnterView(n, [height |-> number[chain[n]] + 1, round |-> 0], FALSE)

(* Same height, later round: the lock stays. *)
UnlockingChangeView(n, round) ==
  /\ number[chain[n]] = view[n].height - 1
  /\ EnterView(n, [view[n] EXCEPT !.round = round], FALSE)
ChangeView(n, round) ==
  /\ number[chain[n]] = view[n].height - 1
  /\ round # 0
  /\ round >= view[n].round
  /\ EnterView(n, [view[n] EXCEPT !.round = round], TRUE)

(* handleTimeoutMsg: the round timer, or a late timer event of an earlier  *)
(* round, which carries no view.                                           *)
Timeout(n) ==
  /\ \/ CatchUp(n)
     \/ view[n].round < MaxRound /\ ChangeView(n, view[n].round + 1)
  /\ UNCHANGED <<highQC, committedQC, committed>>

(* handleFinalCommitted: the blockchain announced a new head. *)
FinalCommitted(n) ==
  /\ CatchUp(n)
  /\ UNCHANGED <<highQC, committedQC, committed>>
---------------------------------------------------------------------------
(* Prepare phase                                                           *)

(* sendPrepare proposes the locked block, or else the miner's request. *)
Proposal(n, request) ==
  IF lockedBlock[n] # Nil THEN lockedBlock[n] ELSE request

SendPrepare(n, qc, request) ==
  LET b == Proposal(n, request)
      nd == [parent |-> qc.node, block |-> b]
  IN  IF IsProposer(n) /\ b # Nil /\ number[b] = view[n].height
      THEN /\ node' = [node EXCEPT ![n] = nd]
           /\ msgs' = msgs \cup
                {Message(n, "Prepare", [node |-> nd, qc |-> qc])}
      ELSE UNCHANGED <<node, msgs>>

(* getHighQC: a certificate of the highest view; map order breaks ties. *)
AnyQC(qc, set) == \E m \in set : m.body = qc
IsHighQC(qc, set) ==
  /\ \E m \in set : m.body = qc
  /\ \A m \in set : ~Before(qc.view, m.body.view)

HandleNewView(n, m) ==
  LET received == Add(newViews[n], m)
  IN  /\ m.code = "NewView"
      /\ CheckView(n, m.view)
      /\ CheckMsgDest(n)
      /\ VerifyQC(n, m, m.body)
      /\ newViews' = [newViews EXCEPT ![n] = received]
      /\ \/ /\ HasQuorum(received) /\ state[n] < HighQC
            /\ \E qc \in {x.body : x \in received} :
                 /\ IsHighQC(qc, received)
                 /\ highQC' = [highQC EXCEPT ![n] = qc]
                 /\ SendPrepare(n, qc, pendingRequest[n])
            /\ state' = [state EXCEPT ![n] = HighQC]
         \/ /\ ~(HasQuorum(received) /\ state[n] < HighQC)
            /\ UNCHANGED <<highQC, node, state, msgs>>
      /\ UNCHANGED <<pendingRequest, lockedBlock, prepareQC, lockQC, committedQC,
                     prepareVotes, preCommitVotes, commitVotes, roundVars, ledgerVars>>

(* handleRequest: the miner's block for the current height.  A request for *)
(* a later height, or one that comes in state AcceptRequest, is queued and *)
(* offered again; one for an earlier height is dropped.                    *)
HandleRequest(n, b) ==
  /\ coinbase[b] = n
  /\ number[b] = view[n].height
  /\ parentHash[b] = lastChained[n]
  /\ pendingRequest[n] = Nil
  /\ pendingRequest' = [pendingRequest EXCEPT ![n] = b]
  /\ \/ state[n] = HighQC /\ SendPrepare(n, highQC[n], b)
     \/ state[n] > HighQC /\ UNCHANGED <<node, msgs>>
  /\ UNCHANGED <<state, lockedBlock, certVars, voteVars, roundVars, ledgerVars>>

(* sendVote signs the UnsignedVote of a ProposedBlock, if there is one. *)
SendVote(n, code, nd) ==
  msgs' = IF nd = Nil THEN msgs ELSE msgs \cup {Message(n, code, nd)}

HandlePrepare(n, m) ==
  LET nd == m.body.node
  IN  /\ m.code = "Prepare"
      /\ CheckView(n, m.view)
      /\ CheckMsgSource(n, m)
      /\ CheckBlock(n, nd.block)
      /\ VerifyQC(n, m, m.body.qc)
      /\ SafeNode(n, nd, m.body.qc)
      /\ \/ /\ IsProposer(n) /\ state[n] = HighQC
            /\ SendVote(n, "PrepareVote", node[n])
            /\ UNCHANGED <<node, state>>
         \/ /\ ~IsProposer(n) /\ state[n] < HighQC
            /\ node' = [node EXCEPT ![n] = nd]
            /\ state' = [state EXCEPT ![n] = HighQC]
            /\ SendVote(n, "PrepareVote", nd)
      /\ UNCHANGED <<pendingRequest, lockedBlock, certVars, voteVars, roundVars, ledgerVars>>

---------------------------------------------------------------------------
(* Pre-commit phase                                                        *)

HandlePrepareVote(n, m) ==
  LET votes == Add(prepareVotes[n], m)
      qc == MessagesToQC(n, "PrepareVote")
      complete == HasQuorum(votes) /\ state[n] = HighQC /\ BLSRecover(n, votes)
  IN  /\ m.code = "PrepareVote"
      /\ CheckView(n, m.view)
      /\ CheckVote(n, m)
      /\ CheckMsgDest(n)
      /\ prepareVotes' = [prepareVotes EXCEPT ![n] = votes]
      /\ \/ /\ complete
            /\ prepareQC' = [prepareQC EXCEPT ![n] = qc]
            /\ state' = [state EXCEPT ![n] = Prepared]
            /\ msgs' = msgs \cup {Message(n, "PreCommit", qc)}
         \/ ~complete /\ UNCHANGED <<prepareQC, state, msgs>>
      /\ UNCHANGED <<proposalVars, highQC, lockQC, committedQC, newViews,
                     preCommitVotes, commitVotes, roundVars, ledgerVars>>

HandlePreCommit(n, m) ==
  /\ m.code = "PreCommit"
  /\ CheckView(n, m.view)
  /\ CheckMsgSource(n, m)
  /\ VerifyQC(n, m, m.body)
  /\ \/ /\ IsProposer(n) /\ state[n] = Prepared
        /\ UNCHANGED <<prepareQC, state>>
     \/ /\ ~IsProposer(n) /\ state[n] = HighQC
        /\ prepareQC' = [prepareQC EXCEPT ![n] = m.body]
        /\ state' = [state EXCEPT ![n] = Prepared]
  /\ SendVote(n, "PreCommitVote", node[n])
  /\ UNCHANGED <<proposalVars, highQC, lockQC, committedQC, voteVars,
                 roundVars, ledgerVars>>

---------------------------------------------------------------------------
(* Commit phase                                                            *)

(* acceptLockQC, roundState.Lock *)
AcceptLockQC(n, qc) ==
  /\ node[n] # Nil
  /\ lockQC' = [lockQC EXCEPT ![n] = qc]
  /\ lockedBlock' = [lockedBlock EXCEPT ![n] = node[n].block]
  /\ state' = [state EXCEPT ![n] = PreCommitted]

HandlePreCommitVote(n, m) ==
  LET votes == Add(preCommitVotes[n], m)
      qc == MessagesToQC(n, "PreCommitVote")
      complete == HasQuorum(votes) /\ state[n] < PreCommitted /\ BLSRecover(n, votes)
  IN  /\ m.code = "PreCommitVote"
      /\ CheckView(n, m.view)
      /\ CheckVote(n, m)
      /\ CheckMsgDest(n)
      /\ preCommitVotes' = [preCommitVotes EXCEPT ![n] = votes]
      /\ \/ /\ complete
            /\ AcceptLockQC(n, qc)
            /\ msgs' = msgs \cup {Message(n, "Commit", qc)}
         \/ ~complete /\ UNCHANGED <<lockQC, lockedBlock, state, msgs>>
      /\ UNCHANGED <<pendingRequest, node, highQC, prepareQC, committedQC, newViews,
                     prepareVotes, commitVotes, roundVars, ledgerVars>>

(* handleCommit compares the view of the certificate, not of the message. *)
HandleCommit(n, m) ==
  /\ m.code = "Commit"
  /\ CheckView(n, m.body.view)
  /\ CheckMsgSource(n, m)
  /\ VerifyQC(n, m, m.body)
  /\ \/ /\ IsProposer(n) /\ state[n] < Committed
        /\ UNCHANGED <<lockQC, lockedBlock, state>>
     \/ /\ ~IsProposer(n) /\ state[n] < PreCommitted
        /\ AcceptLockQC(n, m.body)
  /\ SendVote(n, "CommitVote", node[n])
  /\ UNCHANGED <<pendingRequest, node, highQC, prepareQC, committedQC, voteVars,
                 roundVars, ledgerVars>>

---------------------------------------------------------------------------
(* Decide phase                                                            *)

HandleCommitVote(n, m) ==
  LET votes == Add(commitVotes[n], m)
      qc == MessagesToQC(n, "CommitVote")
      complete == HasQuorum(votes) /\ state[n] = PreCommitted /\ BLSRecover(n, votes)
  IN  /\ m.code = "CommitVote"
      /\ CheckView(n, m.view)
      /\ CheckMsgDest(n)
      /\ CheckVote(n, m)
      /\ lockedBlock[n] # Nil
      /\ commitVotes' = [commitVotes EXCEPT ![n] = votes]
      /\ \/ /\ complete
            /\ lockedBlock[n] = node[n].block   \* SetSealedBlock
            /\ committedQC' = [committedQC EXCEPT ![n] = qc]
            /\ state' = [state EXCEPT ![n] = Committed]
            /\ msgs' = msgs \cup
                 {Message(n, "Decide", [block |-> lockedBlock[n], qc |-> qc])}
         \/ /\ ~(complete /\ lockedBlock[n] = node[n].block)
            /\ UNCHANGED <<committedQC, state, msgs>>
      /\ UNCHANGED <<proposalVars, highQC, prepareQC, lockQC, newViews, prepareVotes,
                     preCommitVotes, roundVars, ledgerVars>>

CheckDecide(n, m) ==
  /\ lockedBlock[n] # Nil
  /\ m.body.block = lockedBlock[n]
  /\ node[n] # Nil
  /\ node[n] = m.body.qc.node
  /\ node[n].block = m.body.block

(* commit -> backend.Commit: the block leaves the core. *)
CommitRequest(n) ==
  committed' = [committed EXCEPT ![n] = @ \cup {pendingRequest[n]}]
Commit(n) == committed' = [committed EXCEPT ![n] = @ \cup {lockedBlock[n]}]

(* handleDecide ends in startNewRound(0), which catches up when the local  *)
(* chain has the block already and does nothing otherwise.                 *)
HandleDecide(n, m) ==
  LET leads == IsProposer(n) /\ state[n] = Committed
      follows == ~IsProposer(n) /\ state[n] = PreCommitted
  IN  /\ m.code = "Decide"
      /\ CheckView(n, m.view)
      /\ CheckMsgSource(n, m)
      /\ VerifyQC(n, m, m.body.qc)
      /\ CheckDecide(n, m)
      /\ IF leads \/ follows THEN Commit(n) ELSE UNCHANGED committed
      /\ IF follows THEN committedQC' = [committedQC EXCEPT ![n] = m.body.qc]
                    ELSE UNCHANGED committedQC
      /\ \/ CatchUp(n)
         \/ /\ number[chain[n]] < view[n].height
            /\ state' = IF follows THEN [state EXCEPT ![n] = Committed] ELSE state
            /\ UNCHANGED <<proposalVars, prepareQC, lockQC, voteVars, roundVars,
                           chain, msgs>>
      /\ UNCHANGED highQC

---------------------------------------------------------------------------
(* The blockchain (external): a block that some validator has committed is *)
(* inserted on top of the local head, by the node's own worker or fetcher  *)
(* or by synchronisation from a peer.                                      *)
InsertBlock(n, b) ==
  /\ \E p \in Validators : b \in committed[p]
  /\ parentHash[b] = chain[n]
  /\ b # Genesis
  /\ chain' = [chain EXCEPT ![n] = b]
  /\ UNCHANGED <<state, proposalVars, certVars, voteVars, roundVars, committed, msgs>>

---------------------------------------------------------------------------
(* Every node has run Start at the genesis block with an empty database.   *)
Init ==
  LET qc == BuildRoundStartQC(Genesis)
      v == [height |-> 1, round |-> 0]
      OfEach(x) == [n \in Validators |-> x]
  IN  /\ view = OfEach(v)
      /\ state = OfEach(AcceptRequest)
      /\ lastChained = OfEach(Genesis)
      /\ pendingRequest = OfEach(Nil)
      /\ node = OfEach(Nil)
      /\ lockedBlock = OfEach(Nil)
      /\ highQC = OfEach(NoQC)
      /\ prepareQC = OfEach(qc)
      /\ lockQC = OfEach(NoQC)
      /\ committedQC = OfEach(NoQC)
      /\ newViews = OfEach({})
      /\ prepareVotes = OfEach({})
      /\ preCommitVotes = OfEach({})
      /\ commitVotes = OfEach({})
      /\ chain = OfEach(Genesis)
      /\ committed = OfEach({})
      /\ msgs = {[code |-> "NewView", src |-> n, view |-> v, body |-> qc] :
                   n \in Validators}

Next ==
  \E n \in Validators :
    \/ \E m \in msgs :
         \/ HandleNewView(n, m)
         \/ HandlePrepare(n, m)
         \/ HandlePrepareVote(n, m)
         \/ HandlePreCommit(n, m)
         \/ HandlePreCommitVote(n, m)
         \/ HandleCommit(n, m)
         \/ HandleCommitVote(n, m)
         \/ HandleDecide(n, m)
    \/ \E b \in Blocks : HandleRequest(n, b) \/ InsertBlock(n, b)
    \/ Timeout(n)
    \/ FinalCommitted(n)

Spec == Init /\ [][Next]_vars

---------------------------------------------------------------------------
(* Properties                                                              *)

Views == [height : Nat \ {0}, round : Nat]
Codes == {"NewView", "Prepare", "PreCommit", "Commit", "Decide"} \cup VoteCodes

IsNode(x) == x.block \in Blocks
IsQC(x) == /\ x.code \in VoteCodes
           /\ x.view \in [height : Nat, round : Nat]
           /\ x.signed \in BOOLEAN

(* Every message has the payload that its code announces. *)
MessageOK(m) ==
  /\ m.code \in Codes
  /\ m.src \in Validators
  /\ m.view \in Views
  /\ m.code \in VoteCodes => IsNode(m.body)
  /\ m.code \in {"NewView", "PreCommit", "Commit"} => IsQC(m.body)
  /\ m.code = "Prepare" => IsNode(m.body.node) /\ IsQC(m.body.qc)
  /\ m.code = "Decide" => m.body.block \in Blocks /\ IsQC(m.body.qc)

RoundOK ==
  /\ view \in [Validators -> Views]
  /\ state \in [Validators -> AcceptRequest .. Committed]
  /\ lastChained \in [Validators -> Blocks]
  /\ pendingRequest \in [Validators -> Blocks \cup {Nil}]
  /\ lockedBlock \in [Validators -> Blocks \cup {Nil}]
  /\ DOMAIN node = Validators
  /\ \A n \in Validators : node[n] # Nil => IsNode(node[n])
  /\ chain \in [Validators -> Blocks]
  /\ committed \in [Validators -> SUBSET Blocks]

CertificatesOK ==
  /\ DOMAIN highQC = Validators
  /\ DOMAIN prepareQC = Validators
  /\ DOMAIN lockQC = Validators
  /\ DOMAIN committedQC = Validators
  /\ \A n \in Validators :
       /\ highQC[n] # NoQC => IsQC(highQC[n])
       /\ IsQC(prepareQC[n])
       /\ lockQC[n] # NoQC => IsQC(lockQC[n])
       /\ committedQC[n] # NoQC => IsQC(committedQC[n])

VotesOK ==
  /\ DOMAIN newViews = Validators
  /\ DOMAIN prepareVotes = Validators
  /\ DOMAIN preCommitVotes = Validators
  /\ DOMAIN commitVotes = Validators
  /\ \A n \in Validators :
       /\ \A m \in newViews[n] : m \in msgs /\ m.code = "NewView"
       /\ \A m \in prepareVotes[n] : m \in msgs /\ m.code = "PrepareVote"
       /\ \A m \in preCommitVotes[n] : m \in msgs /\ m.code = "PreCommitVote"
       /\ \A m \in commitVotes[n] : m \in msgs /\ m.code = "CommitVote"

(* A leader that may still propose has a highQC to propose on. *)
HighQCReady ==
  \A n \in Validators : IsProposer(n) /\ state[n] = HighQC => IsQC(highQC[n])

(* The round state of every validator and the messages are well formed:    *)
(* no handler stores a malformed block, view or certificate, a MessageSet  *)
(* holds messages of its own type that were really sent, every message has *)
(* the payload of its type, and sendPrepare never meets a nil highQC.      *)
TypeOK ==
  /\ RoundOK
  /\ CertificatesOK
  /\ VotesOK
  /\ HighQCReady
  /\ \A m \in msgs : MessageOK(m)

(* No two validators hand different blocks of the same height to the       *)
(* blockchain (core/decide.go commit): the ledger does not fork.           *)
Agreement ==
  \A p, q \in Validators : \A b \in committed[p], c \in committed[q] :
    number[b] = number[c] => b = c

(* The certificates the messages carry. *)
Certificates ==
  {m.body : m \in {x \in msgs : x.code \in {"NewView", "PreCommit", "Commit"}}}
  \cup {m.body.qc : m \in {x \in msgs : x.code \in {"Prepare", "Decide"}}}

(* A phase of a view certifies one proposal: the state guards of the       *)
(* handlers let a validator vote once per phase, so no view ever yields    *)
(* certificates of the same code for two ProposedBlocks.                   *)
NoConflictingQC ==
  \A x, y \in {qc \in Certificates : qc.signed} :
    x.code = y.code /\ x.view = y.view => x.node = y.node

(* What getHighQC picks from Q NewViews covers every lock: a proposal      *)
(* passes safeNode (core/prepare.go) at every validator that is in its     *)
(* view and has not locked a block there, whichever messages it missed.    *)
ProposalsAreSafe ==
  \A m \in msgs : \A n \in Validators :
    m.code = "Prepare" /\ m.view = view[n] /\ state[n] < PreCommitted =>
      SafeNode(n, m.body.node, m.body.qc)

(* A validator gives up the block it has locked only when its chain has    *)
(* reached that height: until then no handler replaces or clears it.       *)
LockHeld ==
  [][\A n \in Validators :
       lockedBlock[n] # Nil /\ lockedBlock'[n] # lockedBlock[n] =>
         number[chain[n]] >= view[n].height]_vars

(* The certificates that NewView and safeNode rely on never go back to an  *)
(* earlier view, whatever late message a handler accepts.                  *)
CertificatesAdvance ==
  [][\A n \in Validators :
       /\ ~Before(prepareQC'[n].view, prepareQC[n].view)
       /\ lockQC[n] # NoQC =>
            lockQC'[n] # NoQC /\ ~Before(lockQC'[n].view, lockQC[n].view)]_vars

(* "We use timeout in every view to ensure consensus liveness" (timer.go): *)
(* whichever Q validators of a height stay up, there is a block that       *)
(* checkBlock lets all of them vote for, so that a later round can decide. *)
LocksLeaveAChoice ==
  \A S \in SUBSET Validators :
    Cardinality(S) = Q /\ (\A m, n \in S : lastChained[m] = lastChained[n]) =>
      \E b \in Blocks : \A n \in S : CheckBlock(n, b)

(* The ledger that the validators build together: blocks any of them has   *)
(* committed are decided, and the local chains grow along them.  Deciding  *)
(* and chaining blocks is all the core ever does to it.                    *)
Abstract == INSTANCE Ledger WITH
  Nodes <- Validators,
  decided <- {Genesis} \cup UNION {committed[n] : n \in Validators},
  head <- chain

ImplementsLedger == Abstract!Spec
===========================================================================
