------------------------------ MODULE CoreInv ------------------------------
(***************************************************************************)
(* The inductive invariants of Core: SafetyInv, behind Agreement, and      *)
(* CertInv, behind the properties of certificates.                         *)
(*                                                                         *)
(* Agreement.  A validator that votes for a commit has locked the block,   *)
(* the lock lasts as long as the height, and while it lasts the validator  *)
(* votes for no other block.  Hence it gives commit votes to one block per *)
(* height only, and two quorums cannot decide two blocks.  Neither         *)
(* safeNode nor the certificates of earlier rounds take part in the        *)
(* argument: the equality with the locked block that checkBlock asks for   *)
(* carries it alone.                                                       *)
(***************************************************************************)
EXTENDS Core

(* The lock is the block of the current proposal (roundState.Lock,         *)
(* sendPrepare and checkBlock).                                            *)
LockIsProposal ==
  \A n \in Validators : lockedBlock[n] # Nil => node[n].block = lockedBlock[n]

(* The height follows the last chained block, and the proposal is for it.  *)
HeightsMatch ==
  \A n \in Validators :
    /\ view[n].height = number[lastChained[n]] + 1
    /\ node[n] # Nil => number[node[n].block] = view[n].height

CommitVotes == {m \in msgs : m.code = "CommitVote"}

(* The sender of m has left m's height, or P holds there. *)
WhileAt(m, P) ==
  \/ m.view.height < view[m.src].height
  \/ m.view.height = view[m.src].height /\ P

(* The leader that sends Commit has locked a block. *)
CommitSentLocked ==
  \A m \in msgs :
    m.code = "Commit" => m.body.view = m.view /\ WhileAt(m, lockedBlock[m.src] # Nil)

(* So has whoever votes for it, and the vote is for that block. *)
CommitVoteLocked ==
  \A m \in CommitVotes : WhileAt(m, lockedBlock[m.src] = m.body.block)

OneCommitVotePerHeight ==
  \A x, y \in CommitVotes :
    x.src = y.src /\ x.view.height = y.view.height => x.body.block = y.body.block

(* A quorum has sent commit votes for b at its height. *)
Supported(b) ==
  \E S \in SUBSET Validators :
    /\ Cardinality(S) >= Q
    /\ \A p \in S : \E m \in CommitVotes :
         m.src = p /\ m.body.block = b /\ m.view.height = number[b]

DecidedSupported ==
  /\ \A m \in msgs : m.code = "Decide" => Supported(m.body.block)
  /\ \A n \in Validators : \A b \in committed[n] : Supported(b)

SafetyInv ==
  /\ LockIsProposal
  /\ HeightsMatch
  /\ CommitSentLocked
  /\ CommitVoteLocked
  /\ OneCommitVotePerHeight
  /\ DecidedSupported

---------------------------------------------------------------------------
(* CertInv, behind NoConflictingQC, CertificatesAdvance and                *)
(* ProposalsAreSafe.  The state of a validator only grows within a view,   *)
(* and from HighQC on its proposal is fixed, so it gives one vote of each  *)
(* kind per view; a certificate stands for the votes of a quorum; and a    *)
(* validator's NewViews carry a prepareQC at least as high as every        *)
(* pre-commit vote it has sent.                                            *)

(* The proposal of n is that of its view, and stays so: a leader that has  *)
(* proposed has a request or a lock, which a further request does not      *)
(* displace.                                                               *)
Fixed(n) ==
  /\ state[n] >= HighQC
  /\ IsProposer(n) =>
       /\ node[n] = [parent |-> highQC[n].node, block |-> node[n].block]
       /\ pendingRequest[n] # Nil \/ lockedBlock[n] # Nil

(* The sender of m has left m's view, or P holds there. *)
InView(m, P) ==
  \/ Before(m.view, view[m.src])
  \/ m.view = view[m.src] /\ P

(* What a validator has sent in its current view agrees with its state. *)
SentOK(m) ==
  /\ InView(m, TRUE)
  /\ m.code = "Prepare" =>
       /\ m.body.node = [parent |-> m.body.qc.node, block |-> m.body.node.block]
       /\ InView(m, Fixed(m.src) /\ node[m.src] = m.body.node)
  /\ m.code = "PrepareVote" => InView(m, Fixed(m.src) /\ node[m.src] = m.body)
  /\ m.code = "PreCommitVote" =>
       InView(m, state[m.src] >= Prepared /\ node[m.src] = m.body)
  /\ m.code = "Commit" => InView(m, state[m.src] >= PreCommitted)
  /\ m.code = "CommitVote" =>
       InView(m, state[m.src] >= PreCommitted /\ node[m.src] = m.body)

Votes == {m \in msgs : m.code \in VoteCodes}

OneVotePerPhase ==
  \A x, y \in Votes :
    x.src = y.src /\ x.view = y.view /\ x.code = y.code => x.body = y.body

VoteInv ==
  /\ \A m \in msgs : SentOK(m)
  /\ OneVotePerPhase

(* A quorum has sent the votes that a certificate stands for. *)
Backed(qc) ==
  \E S \in SUBSET Validators :
    /\ Cardinality(S) >= Q
    /\ \A p \in S : \E m \in Votes :
         m.src = p /\ m.code = qc.code /\ m.view = qc.view /\ m.body = qc.node

(* A certificate of a code: only the one that a validator builds from the  *)
(* genesis block is unsigned.                                              *)
CertOK(qc, code) ==
  qc.code = code /\ (qc.signed \/ (code = "PrepareVote" /\ qc.view.height = 0))

(* The certificates in messages and round states are those of quorums, and *)
(* of the view and phase in which they are used.                           *)
CertificateOK(m) ==
  /\ m.code = "NewView" => CertOK(m.body, "PrepareVote")
  /\ m.code = "PreCommit" => m.body.view = m.view /\ CertOK(m.body, "PrepareVote")
  /\ m.code = "Commit" => CertOK(m.body, "PreCommitVote")

Held(n) == {prepareQC[n]} \cup ({highQC[n], lockQC[n]} \ {NoQC})

BackedInv ==
  /\ \A m \in msgs : CertificateOK(m)
  /\ \A n \in Validators :
       /\ CertOK(prepareQC[n], "PrepareVote")
       /\ lockQC[n] # NoQC => CertOK(lockQC[n], "PreCommitVote")
  /\ \A qc \in Certificates \cup UNION {Held(n) : n \in Validators} :
       qc.signed => Backed(qc)

(* No certificate is ahead of its holder's view, and a lock certificate of *)
(* the view is held from PreCommitted on only.                             *)
NotAhead(n) ==
  /\ ~Before(view[n], prepareQC[n].view)
  /\ state[n] = Prepared => prepareQC[n].view = view[n] /\ prepareQC[n].node = node[n]
  /\ lockQC[n] # NoQC =>
       /\ ~Before(view[n], lockQC[n].view)
       /\ state[n] < PreCommitted => lockQC[n].view # view[n]

(* qc covers the pre-commit vote m: it is of a later view, or of that view *)
(* and for the proposal voted for.                                         *)
Covers(qc, m) ==
  \/ Before(m.view, qc.view)
  \/ m.view = qc.view /\ m.body = qc.node

VotesCovered ==
  \A m \in msgs : m.code = "PreCommitVote" =>
    /\ Covers(prepareQC[m.src], m)
    /\ \A x \in msgs :
         x.code = "NewView" /\ x.src = m.src /\ Before(m.view, x.view) => Covers(x.body, m)

(* qc is not below the certificates in the NewViews of a quorum. *)
Highest(qc, v) ==
  /\ CertOK(qc, "PrepareVote")
  /\ \E S \in SUBSET Validators :
       /\ Cardinality(S) >= Q
       /\ \A p \in S : \E m \in msgs :
            /\ m.code = "NewView" /\ m.src = p /\ m.view = v
            /\ ~Before(qc.view, m.body.view)

(* What a leader proposes on is the highest of a quorum. *)
ProposalsHighest ==
  /\ \A n \in Validators :
       /\ \A x, y \in newViews[n] : x.src = y.src => x = y
       /\ \A x \in newViews[n] : x.view = view[n]
       /\ IsProposer(n) /\ state[n] = HighQC => Highest(highQC[n], view[n])
  /\ \A m \in msgs : m.code = "Prepare" => Highest(m.body.qc, m.view)

CertInv ==
  /\ VoteInv
  /\ BackedInv
  /\ \A n \in Validators : NotAhead(n)
  /\ VotesCovered
  /\ ProposalsHighest

(* What every handler of core/ preserves, taken together: locks and commit *)
(* votes agree per height, and certificates, votes and proposals per view. *)
InductiveInv == SafetyInv /\ CertInv
===========================================================================
