--------------------------- MODULE CoreReduction ---------------------------
(***************************************************************************)
(* What the model-checking instances of Core share: a view of the state    *)
(* that forgets what no handler can read any more, and a constraint that   *)
(* lets a leader collect a quorum of messages without interruption.        *)
(***************************************************************************)
EXTENDS CoreInv, TLC

CONSTANTS noAddress, nil, genesis, genesisNode

(* The proposer of a view; the block before it has been committed. *)
Leader(v) ==
  LET decided == UNION {committed[p] : p \in Validators}
      last == IF v.height = 1 THEN Genesis
              ELSE CHOOSE b \in decided : number[b] = v.height - 1
  IN  RoundRobinSelector(coinbase[last], v.round)

(* A message is dead once no validator can pass checkView with it, or, for *)
(* a message only the leader reads, once the leader is past the phase that *)
(* counts it.                                                              *)
Live(m) ==
  LET l == Leader(m.view)
      At(s) == view[l] = m.view /\ state[l] < s
  IN  CASE m.code = "NewView" -> Before(view[l], m.view) \/ At(HighQC)
        [] m.code = "PrepareVote" -> At(Prepared)
        [] m.code = "PreCommitVote" -> At(PreCommitted)
        [] m.code = "CommitVote" -> At(Committed)
        [] OTHER -> \E n \in Validators : ~Before(m.view, view[n])

(* The TLC VIEW.  A MessageSet is not read once its phase is over, highQC  *)
(* only by a leader that still waits for a request, committedQC never.     *)
ReducedView ==
  LET Until(f, s) == [n \in Validators |-> IF state[n] >= s THEN {} ELSE f[n]]
      Waiting(n) == state[n] = HighQC /\ IsProposer(n)
  IN  <<state, proposalVars, prepareQC, lockQC, roundVars, ledgerVars,
        {m \in msgs : Live(m)},
        [n \in Validators |-> IF Waiting(n) THEN highQC[n] ELSE NoQC],
        Until(newViews, HighQC), Until(prepareVotes, Prepared),
        Until(preCommitVotes, PreCommitted), Until(commitVotes, Committed)>>

(* The TLC ACTION_CONSTRAINT.  A vote that does not complete a quorum only *)
(* joins a set that nothing else reads, so it may be handled just before   *)
(* the vote that does, and the order within the quorum does not matter.    *)
Index(n) == CHOOSE i \in 0 .. Size - 1 : valList[i] = n

Fills(n, old, new, code) ==
  LET available(i) ==
        {m \in msgs : m.code = code /\ m.view = view[n] /\ Index(m.src) >= i}
  IN  /\ Cardinality(old) < Q
      /\ \E m \in new \ old :
           /\ \A x \in old : Index(x.src) < Index(m.src)
           /\ Cardinality(old) + Cardinality(available(Index(m.src))) >= Q

Collects(n, old, new, code) ==
  /\ old = new \/ new = {} \/ Fills(n, old, new, code)
  /\ old # {} /\ Cardinality(old) < Q => new # old

QuorumAtOnce ==
  /\ \A n \in Validators :
       /\ Collects(n, newViews[n], newViews'[n], "NewView")
       /\ Collects(n, prepareVotes[n], prepareVotes'[n], "PrepareVote")
       /\ Collects(n, preCommitVotes[n], preCommitVotes'[n], "PreCommitVote")
       /\ Collects(n, commitVotes[n], commitVotes'[n], "CommitVote")
  /\ vars # vars'
===========================================================================
