---------------------------- MODULE CoreProofs ----------------------------
(***************************************************************************)
(* Proofs about Core, for any validators, blocks and number of rounds:     *)
(* types, agreement from SafetyInv, the properties of certificates from    *)
(* CertInv, and the refinement of Ledger.                                  *)
(***************************************************************************)
EXTENDS CoreInv, TLAPS

---------------------------------------------------------------------------
(* Types                                                                   *)

(* The state after Start is well typed. *)
LEMMA TypeInit == Init => TypeOK
<1> SUFFICES ASSUME Init PROVE TypeOK
  BY Zenon
<1>1. IsQC(BuildRoundStartQC(Genesis))
  BY Zenon, BlocksAssumption DEF IsQC, BuildRoundStartQC, VoteCodes
<1>2. RoundOK
  BY BlocksAssumption, NilAssumption DEF Init, RoundOK, Views, AcceptRequest, Committed
<1>3. CertificatesOK
  BY Zenon, <1>1 DEF Init, CertificatesOK
<1>4. VotesOK
  BY Zenon DEF Init, VotesOK
<1>5. \A m \in msgs : MessageOK(m)
  BY <1>1 DEF Init, MessageOK, Views, Codes, VoteCodes
<1>6. HighQCReady
  BY DEF Init, HighQCReady, AcceptRequest, HighQC
<1> QED
  BY Zenon, <1>2, <1>3, <1>4, <1>5, <1>6 DEF TypeOK

(* The states that the handlers move to. *)
LEMMA States ==
  /\ HighQC \in AcceptRequest .. Committed
  /\ Prepared \in AcceptRequest .. Committed
  /\ PreCommitted \in AcceptRequest .. Committed
  /\ Committed \in AcceptRequest .. Committed
  /\ Prepared # HighQC /\ PreCommitted # HighQC /\ Committed # HighQC
BY DEF AcceptRequest, HighQC, Prepared, PreCommitted, Committed

(* Every step preserves the type invariant. *)
LEMMA TypeNext == TypeOK /\ [Next]_vars => TypeOK'
(* The certificates that the handlers build are well formed. *)
<1>BuiltQCs.
  ASSUME RoundOK, NEW n \in Validators
  PROVE  /\ \A code \in VoteCodes : IsQC(MessagesToQC(n, code))
         /\ \A b \in Blocks : IsQC(BuildRoundStartQC(b))
  BY Zenon, <1>BuiltQCs, BlocksAssumption DEF RoundOK, Views, IsQC, MessagesToQC, BuildRoundStartQC, VoteCodes
(* A message of n with a payload of the announced type is well formed. *)
<1>SentMessages.
  ASSUME RoundOK, NEW n \in Validators
  PROVE  /\ \A code \in VoteCodes : \A x : IsNode(x) => MessageOK(Message(n, code, x))
         /\ \A code \in {"NewView", "PreCommit", "Commit"} : \A x :
              IsQC(x) => MessageOK(Message(n, code, x))
         /\ \A nd, qc : IsNode(nd) /\ IsQC(qc) =>
              MessageOK(Message(n, "Prepare", [node |-> nd, qc |-> qc]))
         /\ \A b \in Blocks : \A qc : IsQC(qc) =>
              MessageOK(Message(n, "Decide", [block |-> b, qc |-> qc]))
  BY <1>SentMessages DEF RoundOK, Message, MessageOK, Codes, VoteCodes
(* sendVote sends a well-formed vote or nothing. *)
<1>SendVoteType.
  ASSUME TypeOK, NEW n \in Validators, NEW code \in VoteCodes, NEW nd,
         nd # Nil => IsNode(nd), SendVote(n, code, nd)
  PROVE  /\ \A m \in msgs' : MessageOK(m)
         /\ msgs \subseteq msgs'
  <2> USE <1>SendVoteType
  <2>1. nd # Nil => MessageOK(Message(n, code, nd))
    BY Zenon, <1>SentMessages DEF TypeOK
  <2> QED
    BY Zenon, <2>1 DEF TypeOK, SendVote
(* A handler within a round changes the state, the proposal and the lock   *)
(* of its own validator only.                                              *)
<1>RoundFrame.
  ASSUME TypeOK, NEW n \in Validators, NEW s \in AcceptRequest .. Committed,
         UNCHANGED <<view, lastChained, pendingRequest, chain>>,
         committed' \in [Validators -> SUBSET Blocks],
         state' = state \/ state' = [state EXCEPT ![n] = s],
         node' = node \/ \E nd : IsNode(nd) /\ node' = [node EXCEPT ![n] = nd],
         lockedBlock' = lockedBlock
           \/ \E b \in Blocks : lockedBlock' = [lockedBlock EXCEPT ![n] = b]
  PROVE  RoundOK'
  <2> USE <1>RoundFrame
  <2>1. state' \in [Validators -> AcceptRequest .. Committed]
    BY DEF TypeOK, RoundOK
  <2>2. lockedBlock' \in [Validators -> Blocks \cup {Nil}]
    BY DEF TypeOK, RoundOK
  <2>3. DOMAIN node' = Validators /\ \A p \in Validators : node'[p] # Nil => IsNode(node'[p])
    <3>1. CASE node' = node
      BY Zenon, <3>1 DEF TypeOK, RoundOK
    <3>2. ASSUME NEW nd, IsNode(nd), node' = [node EXCEPT ![n] = nd]
          PROVE  /\ DOMAIN node' = Validators
                 /\ \A p \in Validators : node'[p] # Nil => IsNode(node'[p])
      BY Zenon, <3>2 DEF TypeOK, RoundOK
    <3> QED
      BY Zenon, <3>1, <3>2
  <2> QED
    BY Zenon, <2>1, <2>2, <2>3 DEF TypeOK, RoundOK, IsNode
(* It stores at most one certificate, and leaves highQC to handleNewView. *)
<1>CertificateFrame.
  ASSUME TypeOK, NEW n \in Validators, NEW qc, IsQC(qc), UNCHANGED highQC,
         prepareQC' = prepareQC \/ prepareQC' = [prepareQC EXCEPT ![n] = qc],
         lockQC' = lockQC \/ lockQC' = [lockQC EXCEPT ![n] = qc],
         committedQC' = committedQC \/ committedQC' = [committedQC EXCEPT ![n] = qc]
  PROVE  CertificatesOK'
  <2> USE <1>CertificateFrame
  <2>1. DOMAIN prepareQC' = Validators /\ \A p \in Validators : IsQC(prepareQC'[p])
    BY Zenon DEF TypeOK, CertificatesOK
  <2>2. DOMAIN lockQC' = Validators /\ \A p \in Validators : lockQC'[p] # NoQC => IsQC(lockQC'[p])
    BY Zenon DEF TypeOK, CertificatesOK
  <2>3. /\ DOMAIN committedQC' = Validators
        /\ \A p \in Validators : committedQC'[p] # NoQC => IsQC(committedQC'[p])
    BY Zenon DEF TypeOK, CertificatesOK
  <2> QED
    BY Zenon, <2>1, <2>2, <2>3 DEF TypeOK, CertificatesOK, IsQC
(* A leader leaves state HighQC only forwards, a replica needs no highQC. *)
<1>HighQCFrame.
  ASSUME TypeOK, NEW n \in Validators, NEW s, UNCHANGED <<view, lastChained, highQC>>,
         \/ state' = state
         \/ state' = [state EXCEPT ![n] = s] /\ (s # HighQC \/ ~IsProposer(n))
  PROVE  HighQCReady'
  <2> USE <1>HighQCFrame
  <2>1. \A p \in Validators : IsProposer(p)' <=> IsProposer(p)
    BY Zenon DEF IsProposer, Proposer
  <2>2. \A p \in Validators : IsProposer(p) /\ state'[p] = HighQC => state[p] = HighQC
    BY Zenon DEF TypeOK, RoundOK
  <2> QED
    BY Zenon, <2>1, <2>2 DEF TypeOK, HighQCReady, IsQC
(* startNewRound, whatever its caller does to the commit certificate. *)
<1>EnterViewType.
  ASSUME TypeOK, NEW n \in Validators, NEW v \in Views, NEW changeView \in BOOLEAN,
         EnterView(n, v, changeView), UNCHANGED highQC,
         committed' \in [Validators -> SUBSET Blocks],
         DOMAIN committedQC' = Validators,
         \A p \in Validators : committedQC'[p] # NoQC => IsQC(committedQC'[p])
  PROVE  TypeOK'
  <2> USE <1>EnterViewType
  <2>1. IsQC(RoundStartQC(n))
    BY Zenon, <1>BuiltQCs DEF TypeOK, RoundOK, CertificatesOK, RoundStartQC
  <2>2. RoundOK'
    <3>1. /\ (view \in [Validators -> Views])'
          /\ (state \in [Validators -> AcceptRequest .. Committed])'
          /\ (lastChained \in [Validators -> Blocks])'
          /\ (chain \in [Validators -> Blocks])'
      BY DEF TypeOK, RoundOK, EnterView, AcceptRequest, Committed
    <3>2. /\ (pendingRequest \in [Validators -> Blocks \cup {Nil}])'
          /\ (lockedBlock \in [Validators -> Blocks \cup {Nil}])'
          /\ (DOMAIN node = Validators)'
          /\ (\A p \in Validators : node[p] # Nil => IsNode(node[p]))'
      <4>1. CASE changeView
        BY Zenon, <4>1 DEF TypeOK, RoundOK, EnterView, proposalVars, IsNode
      <4>2. CASE ~changeView
        BY Zenon, <4>2 DEF TypeOK, RoundOK, EnterView, IsNode
      <4> QED
        BY Zenon, <4>1, <4>2
    <3> QED
      BY Zenon, <3>1, <3>2 DEF RoundOK
  <2>3. CertificatesOK'
    BY Zenon, <2>1 DEF TypeOK, CertificatesOK, EnterView, IsQC
  <2>4. VotesOK'
    BY Zenon DEF TypeOK, VotesOK, EnterView
  <2>5. (\A m \in msgs : MessageOK(m))'
    <3> DEFINE nv == [code |-> "NewView", src |-> n, view |-> v, body |-> RoundStartQC(n)]
    <3>1. MessageOK(nv)
      BY Zenon, <2>1 DEF MessageOK, Codes, VoteCodes
    <3>2. \A m \in msgs' : MessageOK(m)
      BY Zenon, <3>1 DEF TypeOK, EnterView
    <3> QED
      BY Zenon, <3>2 DEF MessageOK
  <2>6. HighQCReady'
    <3> SUFFICES ASSUME NEW p \in Validators, IsProposer(p)', state'[p] = HighQC
                 PROVE  IsQC(highQC'[p])
      BY Zenon DEF HighQCReady, IsQC
    <3>1. p # n /\ state[p] = HighQC
      <4>1. state' = [state EXCEPT ![n] = AcceptRequest]
        BY Zenon DEF EnterView
      <4> QED
        BY <4>1 DEF TypeOK, RoundOK, AcceptRequest, HighQC
    <3>2. IsProposer(p)
      BY Zenon, <3>1 DEF EnterView, TypeOK, RoundOK, IsProposer, Proposer
    <3> QED
      BY Zenon, <3>1, <3>2 DEF TypeOK, HighQCReady
  <2> QED
    BY Zenon, <2>2, <2>3, <2>4, <2>5, <2>6 DEF TypeOK
(* startNewRound on a chain that has reached the height. *)
<1>CatchUpType.
  ASSUME TypeOK, NEW n \in Validators, CatchUp(n), UNCHANGED highQC,
         committed' \in [Validators -> SUBSET Blocks],
         DOMAIN committedQC' = Validators,
         \A p \in Validators : committedQC'[p] # NoQC => IsQC(committedQC'[p])
  PROVE  TypeOK'
  <2> USE <1>CatchUpType
  <2> DEFINE v == [height |-> number[chain[n]] + 1, round |-> 0]
  <2>1. v \in Views
    BY BlocksAssumption DEF TypeOK, RoundOK, Views
  <2>2. EnterView(n, v, FALSE)
    BY Zenon DEF CatchUp
  <2> QED
    BY Zenon, <2>1, <2>2, <1>EnterViewType
(* handleTimeoutMsg and handleFinalCommitted. *)
<1>TimeoutType.
  ASSUME TypeOK, NEW n \in Validators, Timeout(n) \/ FinalCommitted(n)
  PROVE  TypeOK'
  <2> USE <1>TimeoutType
  <2>1. /\ committed' \in [Validators -> SUBSET Blocks]
        /\ DOMAIN committedQC' = Validators
        /\ \A p \in Validators : committedQC'[p] # NoQC => IsQC(committedQC'[p])
        /\ UNCHANGED highQC
    BY Zenon DEF TypeOK, RoundOK, CertificatesOK, Timeout, FinalCommitted, IsQC
  <2>2. CASE CatchUp(n)
    BY Zenon, <2>1, <2>2, <1>CatchUpType
  <2>3. CASE ChangeView(n, view[n].round + 1)
    <3> DEFINE v == [view[n] EXCEPT !.round = view[n].round + 1]
    <3>1. v \in Views
      BY DEF TypeOK, RoundOK, Views
    <3>2. EnterView(n, v, TRUE)
      BY Zenon, <2>3 DEF ChangeView
    <3> QED
      BY Zenon, <2>1, <3>1, <3>2, <1>EnterViewType
  <2> QED
    BY Zenon, <2>2, <2>3 DEF Timeout, FinalCommitted
(* sendPrepare stores and broadcasts a well-formed proposal or does nothing. *)
<1>SendPrepareType.
  ASSUME TypeOK, NEW n \in Validators, NEW qc, IsQC(qc),
         NEW request \in Blocks \cup {Nil}, SendPrepare(n, qc, request)
  PROVE  /\ DOMAIN node' = Validators
         /\ \A p \in Validators : node'[p] # Nil => IsNode(node'[p])
         /\ \A m \in msgs' : MessageOK(m)
         /\ msgs \subseteq msgs'
  <2> USE <1>SendPrepareType
  <2> DEFINE b == Proposal(n, request)
             nd == [parent |-> qc.node, block |-> b]
  <2>1. CASE b = Nil \/ UNCHANGED <<node, msgs>>
    BY Zenon, <2>1 DEF TypeOK, RoundOK, SendPrepare
  <2>2. CASE b # Nil /\ ~UNCHANGED <<node, msgs>>
    <3>1. IsNode(nd)
      BY Zenon, <2>2 DEF TypeOK, RoundOK, Proposal, IsNode
    <3>2. MessageOK(Message(n, "Prepare", [node |-> nd, qc |-> qc]))
      BY Zenon, <3>1, <1>SentMessages DEF TypeOK
    <3>3. /\ node' = [node EXCEPT ![n] = nd]
          /\ msgs' = msgs \cup {Message(n, "Prepare", [node |-> nd, qc |-> qc])}
      BY Zenon, <2>2 DEF SendPrepare
    <3> QED
      BY Zenon, <3>1, <3>2, <3>3 DEF TypeOK, RoundOK
  <2> QED
    BY Zenon, <2>1, <2>2
(* handleNewView, with the choice of the highQC. *)
<1>HandleNewViewType.
  ASSUME TypeOK, NEW n \in Validators, NEW m \in msgs, HandleNewView(n, m)
  PROVE  TypeOK'
  <2> USE <1>HandleNewViewType
  <2> DEFINE received == Add(newViews[n], m)
  <2>1. \A x \in received : x \in msgs /\ x.code = "NewView" /\ IsQC(x.body)
    BY Zenon DEF TypeOK, VotesOK, HandleNewView, Add, MessageOK
  <2>2. CASE UNCHANGED <<highQC, node, state, msgs>>
    BY Zenon, <2>1, <2>2
    DEF HandleNewView, TypeOK, RoundOK, CertificatesOK, VotesOK, HighQCReady, IsProposer,
        Proposer, roundVars, ledgerVars, IsNode, IsQC, MessageOK
  <2>3. CASE ~UNCHANGED <<highQC, node, state, msgs>>
    <3>1. PICK qc : /\ \E x \in received : qc = x.body
                    /\ highQC' = [highQC EXCEPT ![n] = qc]
                    /\ SendPrepare(n, qc, pendingRequest[n])
      BY Zenon, <2>3 DEF HandleNewView
    <3>2. IsQC(qc)
      BY Zenon, <2>1, <3>1
    <3>3. pendingRequest[n] \in Blocks \cup {Nil}
      BY Zenon DEF TypeOK, RoundOK
    <3>4. /\ DOMAIN node' = Validators
          /\ \A p \in Validators : node'[p] # Nil => IsNode(node'[p])
          /\ \A x \in msgs' : MessageOK(x)
          /\ msgs \subseteq msgs'
      BY Zenon, <3>1, <3>2, <3>3, <1>SendPrepareType
    <3>5. state' = [state EXCEPT ![n] = HighQC]
      BY Zenon, <2>3 DEF HandleNewView
    <3>6. RoundOK'
      <4>1. UNCHANGED <<view, lastChained, pendingRequest, lockedBlock, chain, committed>>
        BY Zenon DEF HandleNewView, roundVars, ledgerVars
      <4>2. state' \in [Validators -> AcceptRequest .. Committed]
        BY Zenon, <3>5, States DEF TypeOK, RoundOK
      <4> QED
        BY Zenon, <3>4, <4>1, <4>2 DEF TypeOK, RoundOK, IsNode
    <3>7. CertificatesOK'
      BY Zenon, <3>1, <3>2 DEF TypeOK, CertificatesOK, HandleNewView, IsQC
    <3>8. VotesOK'
      BY Zenon, <2>1, <3>4 DEF TypeOK, VotesOK, HandleNewView
    <3>9. HighQCReady'
      <4>1. UNCHANGED <<view, lastChained>>
        BY Zenon DEF HandleNewView, roundVars
      <4>2. \A p \in Validators : p # n => state'[p] = state[p] /\ highQC'[p] = highQC[p]
        BY Zenon, <3>1, <3>5 DEF TypeOK, RoundOK, CertificatesOK
      <4>3. highQC'[n] = qc
        BY Zenon, <3>1 DEF TypeOK, CertificatesOK
      <4> QED
        BY Zenon, <3>2, <4>1, <4>2, <4>3 DEF TypeOK, HighQCReady, IsProposer, Proposer, IsQC
    <3> QED
      BY Zenon, <3>4, <3>6, <3>7, <3>8, <3>9 DEF TypeOK, MessageOK
  <2> QED
    BY Zenon, <2>2, <2>3
(* handleRequest, with or without a proposal. *)
<1>HandleRequestType.
  ASSUME TypeOK, NEW n \in Validators, NEW b \in Blocks, HandleRequest(n, b)
  PROVE  TypeOK'
  <2> USE <1>HandleRequestType
  <2>1. /\ DOMAIN node' = Validators
        /\ \A p \in Validators : node'[p] # Nil => IsNode(node'[p])
        /\ \A m \in msgs' : MessageOK(m)
        /\ msgs \subseteq msgs'
    <3>1. CASE UNCHANGED <<node, msgs>>
      BY Zenon, <3>1 DEF TypeOK, RoundOK, IsNode, MessageOK
    <3>2. CASE ~UNCHANGED <<node, msgs>>
      <4>1. SendPrepare(n, highQC[n], b) /\ state[n] = HighQC
        BY Zenon, <3>2 DEF HandleRequest
      <4>2. IsQC(highQC[n])
        BY Zenon, <3>2, <4>1 DEF TypeOK, HighQCReady, SendPrepare
      <4> QED
        BY Zenon, <4>1, <4>2, <1>SendPrepareType
    <3> QED
      BY Zenon, <3>1, <3>2
  <2>2. RoundOK'
    BY Zenon, <2>1
    DEF TypeOK, RoundOK, HandleRequest, roundVars, ledgerVars, IsNode
  <2>3. CertificatesOK' /\ HighQCReady'
    BY Zenon DEF TypeOK, CertificatesOK, HighQCReady, HandleRequest, certVars, roundVars,
           IsProposer, Proposer, IsQC
  <2>4. VotesOK'
    BY Zenon, <2>1 DEF TypeOK, VotesOK, HandleRequest, voteVars
  <2> QED
    BY Zenon, <2>1, <2>2, <2>3, <2>4 DEF TypeOK, MessageOK
(* handlePrepare of the leader and of a replica. *)
<1>HandlePrepareType.
  ASSUME TypeOK, NEW n \in Validators, NEW m \in msgs, HandlePrepare(n, m)
  PROVE  TypeOK'
  <2> USE <1>HandlePrepareType
  <2> DEFINE nd == m.body.node
  <2>1. IsNode(nd)
    BY Zenon DEF TypeOK, HandlePrepare, MessageOK
  <2>2. SendVote(n, "PrepareVote", node[n]) \/ SendVote(n, "PrepareVote", nd)
    BY Zenon DEF HandlePrepare
  <2>4. /\ \A y \in msgs' : MessageOK(y)
        /\ msgs \subseteq msgs'
    BY Zenon, <2>1, <2>2, <1>SendVoteType DEF TypeOK, RoundOK, VoteCodes
  <2>3. /\ UNCHANGED <<view, lastChained, pendingRequest, chain, committed, lockedBlock>>
        /\ UNCHANGED <<highQC, prepareQC, lockQC, committedQC>>
        /\ \/ UNCHANGED <<node, state>>
           \/ /\ ~IsProposer(n)
              /\ node' = [node EXCEPT ![n] = nd]
              /\ state' = [state EXCEPT ![n] = HighQC]
    BY Zenon DEF HandlePrepare, certVars, roundVars, ledgerVars
  <2>5. RoundOK'
    BY Zenon, <2>1, <2>3, States, <1>RoundFrame DEF TypeOK, RoundOK
  <2>6. CertificatesOK' /\ HighQCReady'
    <3>1. CertificatesOK'
      BY Zenon, <2>3 DEF TypeOK, CertificatesOK, IsQC
    <3>2. HighQCReady'
      BY Zenon, <2>3, <1>HighQCFrame
    <3> QED
      BY Zenon, <3>1, <3>2
  <2>7. VotesOK'
    BY Zenon, <2>4 DEF TypeOK, VotesOK, HandlePrepare, voteVars
  <2> QED
    BY Zenon, <2>4, <2>5, <2>6, <2>7 DEF TypeOK, MessageOK
(* handlePrepareVote, below or at the quorum. *)
<1>HandlePrepareVoteType.
  ASSUME TypeOK, NEW n \in Validators, NEW m \in msgs, HandlePrepareVote(n, m)
  PROVE  TypeOK'
  <2> USE <1>HandlePrepareVoteType
  <2> DEFINE qc == MessagesToQC(n, "PrepareVote")
  <2>1. IsQC(qc)
    BY Zenon, <1>BuiltQCs DEF TypeOK, VoteCodes
  <2>2. MessageOK(Message(n, "PreCommit", qc))
    BY Zenon, <2>1, <1>SentMessages DEF TypeOK
  <2>3. /\ \A y \in msgs' : MessageOK(y)
        /\ msgs \subseteq msgs'
    BY Zenon, <2>2 DEF TypeOK, HandlePrepareVote
  <2>4. RoundOK' /\ CertificatesOK' /\ HighQCReady'
    <3>1. /\ UNCHANGED <<view, lastChained, pendingRequest, chain, committed, highQC, node, lockedBlock,
                          lockQC, committedQC>>
          /\ state' = state \/ state' = [state EXCEPT ![n] = Prepared]
          /\ prepareQC' = prepareQC \/ prepareQC' = [prepareQC EXCEPT ![n] = qc]
      BY Zenon DEF HandlePrepareVote, proposalVars, roundVars, ledgerVars
    <3>2. RoundOK'
      BY Zenon, <3>1, States, <1>RoundFrame DEF TypeOK, RoundOK
    <3>3. CertificatesOK'
      BY Zenon, <2>1, <3>1, <1>CertificateFrame
    <3>4. HighQCReady'
      BY Zenon, <3>1, States, <1>HighQCFrame
    <3> QED
      BY Zenon, <3>2, <3>3, <3>4
  <2>6. VotesOK'
    BY Zenon, <2>3 DEF TypeOK, VotesOK, HandlePrepareVote, Add
  <2> QED
    BY Zenon, <2>3, <2>4, <2>6 DEF TypeOK, MessageOK
(* handlePreCommit of the leader and of a replica. *)
<1>HandlePreCommitType.
  ASSUME TypeOK, NEW n \in Validators, NEW m \in msgs, HandlePreCommit(n, m)
  PROVE  TypeOK'
  <2> USE <1>HandlePreCommitType
  <2>1. IsQC(m.body)
    BY Zenon DEF TypeOK, HandlePreCommit, MessageOK
  <2>2. /\ \A y \in msgs' : MessageOK(y)
        /\ msgs \subseteq msgs'
    BY Zenon, <1>SendVoteType DEF TypeOK, RoundOK, HandlePreCommit, VoteCodes
  <2>3. RoundOK' /\ CertificatesOK' /\ HighQCReady'
    <3>1. /\ UNCHANGED <<view, lastChained, pendingRequest, chain, committed, highQC, node, lockedBlock,
                          lockQC, committedQC>>
          /\ state' = state \/ state' = [state EXCEPT ![n] = Prepared]
          /\ prepareQC' = prepareQC \/ prepareQC' = [prepareQC EXCEPT ![n] = m.body]
      BY Zenon DEF HandlePreCommit, proposalVars, roundVars, ledgerVars
    <3>2. RoundOK'
      BY Zenon, <3>1, States, <1>RoundFrame DEF TypeOK, RoundOK
    <3>3. CertificatesOK'
      BY Zenon, <2>1, <3>1, <1>CertificateFrame
    <3>4. HighQCReady'
      BY Zenon, <3>1, States, <1>HighQCFrame
    <3> QED
      BY Zenon, <3>2, <3>3, <3>4
  <2>5. VotesOK'
    BY Zenon, <2>2 DEF TypeOK, VotesOK, HandlePreCommit, voteVars
  <2> QED
    BY Zenon, <2>2, <2>3, <2>5 DEF TypeOK, MessageOK
(* handlePreCommitVote, below or at the quorum. *)
<1>HandlePreCommitVoteType.
  ASSUME TypeOK, NEW n \in Validators, NEW m \in msgs, HandlePreCommitVote(n, m)
  PROVE  TypeOK'
  <2> USE <1>HandlePreCommitVoteType
  <2> DEFINE qc == MessagesToQC(n, "PreCommitVote")
  <2>1. IsQC(qc)
    BY Zenon, <1>BuiltQCs DEF TypeOK, VoteCodes
  <2>2. MessageOK(Message(n, "Commit", qc))
    BY Zenon, <2>1, <1>SentMessages DEF TypeOK
  <2>3. /\ \A y \in msgs' : MessageOK(y)
        /\ msgs \subseteq msgs'
    BY Zenon, <2>2 DEF TypeOK, HandlePreCommitVote
  <2>4. RoundOK' /\ CertificatesOK' /\ HighQCReady'
    <3>1. /\ UNCHANGED <<view, lastChained, pendingRequest, chain, committed, highQC, node, prepareQC,
                          committedQC>>
          /\ state' = state \/ state' = [state EXCEPT ![n] = PreCommitted]
          /\ lockQC' = lockQC \/ lockQC' = [lockQC EXCEPT ![n] = qc]
          /\ lockedBlock' = lockedBlock
               \/ (node[n] # Nil /\ lockedBlock' = [lockedBlock EXCEPT ![n] = node[n].block])
      BY Zenon DEF HandlePreCommitVote, AcceptLockQC, roundVars, ledgerVars
    <3>2. RoundOK'
      <4>1. node[n] # Nil => node[n].block \in Blocks
        BY Zenon DEF TypeOK, RoundOK, IsNode
      <4>2. committed' \in [Validators -> SUBSET Blocks]
        BY Zenon, <3>1 DEF TypeOK, RoundOK
      <4> QED
        BY Zenon, <3>1, <4>1, <4>2, States, <1>RoundFrame
    <3>3. CertificatesOK'
      BY Zenon, <2>1, <3>1, <1>CertificateFrame
    <3>4. HighQCReady'
      BY Zenon, <3>1, States, <1>HighQCFrame
    <3> QED
      BY Zenon, <3>2, <3>3, <3>4
  <2>6. VotesOK'
    BY Zenon, <2>3 DEF TypeOK, VotesOK, HandlePreCommitVote, Add
  <2> QED
    BY Zenon, <2>3, <2>4, <2>6 DEF TypeOK, MessageOK
(* handleCommit of the leader and of a replica. *)
<1>HandleCommitType.
  ASSUME TypeOK, NEW n \in Validators, NEW m \in msgs, HandleCommit(n, m)
  PROVE  TypeOK'
  <2> USE <1>HandleCommitType
  <2>1. IsQC(m.body)
    BY Zenon DEF TypeOK, HandleCommit, MessageOK
  <2>2. /\ \A y \in msgs' : MessageOK(y)
        /\ msgs \subseteq msgs'
    BY Zenon, <1>SendVoteType DEF TypeOK, RoundOK, HandleCommit, VoteCodes
  <2>3. RoundOK' /\ CertificatesOK' /\ HighQCReady'
    <3>1. /\ UNCHANGED <<view, lastChained, pendingRequest, chain, committed, highQC, node, prepareQC,
                          committedQC>>
          /\ state' = state \/ state' = [state EXCEPT ![n] = PreCommitted]
          /\ lockQC' = lockQC \/ lockQC' = [lockQC EXCEPT ![n] = m.body]
          /\ lockedBlock' = lockedBlock
               \/ (node[n] # Nil /\ lockedBlock' = [lockedBlock EXCEPT ![n] = node[n].block])
      BY Zenon DEF HandleCommit, AcceptLockQC, roundVars, ledgerVars
    <3>2. RoundOK'
      <4>1. node[n] # Nil => node[n].block \in Blocks
        BY Zenon DEF TypeOK, RoundOK, IsNode
      <4>2. committed' \in [Validators -> SUBSET Blocks]
        BY Zenon, <3>1 DEF TypeOK, RoundOK
      <4> QED
        BY Zenon, <3>1, <4>1, <4>2, States, <1>RoundFrame
    <3>3. CertificatesOK'
      BY Zenon, <2>1, <3>1, <1>CertificateFrame
    <3>4. HighQCReady'
      BY Zenon, <3>1, States, <1>HighQCFrame
    <3> QED
      BY Zenon, <3>2, <3>3, <3>4
  <2>5. VotesOK'
    BY Zenon, <2>2 DEF TypeOK, VotesOK, HandleCommit, voteVars
  <2> QED
    BY Zenon, <2>2, <2>3, <2>5 DEF TypeOK, MessageOK
(* handleCommitVote, below or at the quorum. *)
<1>HandleCommitVoteType.
  ASSUME TypeOK, NEW n \in Validators, NEW m \in msgs, HandleCommitVote(n, m)
  PROVE  TypeOK'
  <2> USE <1>HandleCommitVoteType
  <2> DEFINE qc == MessagesToQC(n, "CommitVote")
             body == [block |-> lockedBlock[n], qc |-> qc]
  <2>1. IsQC(qc)
    BY Zenon, <1>BuiltQCs DEF TypeOK, VoteCodes
  <2>2. lockedBlock[n] \in Blocks
    BY Zenon DEF TypeOK, RoundOK, HandleCommitVote
  <2>3. MessageOK(Message(n, "Decide", body))
    BY Zenon, <2>1, <2>2, <1>SentMessages DEF TypeOK
  <2>4. /\ \A y \in msgs' : MessageOK(y)
        /\ msgs \subseteq msgs'
    BY Zenon, <2>3 DEF TypeOK, HandleCommitVote
  <2>5. RoundOK' /\ CertificatesOK' /\ HighQCReady'
    <3>1. /\ UNCHANGED <<view, lastChained, pendingRequest, chain, committed, highQC, node, lockedBlock,
                          prepareQC, lockQC>>
          /\ state' = state \/ state' = [state EXCEPT ![n] = Committed]
          /\ committedQC' = committedQC \/ committedQC' = [committedQC EXCEPT ![n] = qc]
      BY Zenon DEF HandleCommitVote, proposalVars, roundVars, ledgerVars
    <3>2. RoundOK'
      BY Zenon, <3>1, States, <1>RoundFrame DEF TypeOK, RoundOK
    <3>3. CertificatesOK'
      BY Zenon, <2>1, <3>1, <1>CertificateFrame
    <3>4. HighQCReady'
      BY Zenon, <3>1, States, <1>HighQCFrame
    <3> QED
      BY Zenon, <3>2, <3>3, <3>4
  <2>7. VotesOK'
    BY Zenon, <2>4 DEF TypeOK, VotesOK, HandleCommitVote, Add
  <2> QED
    BY Zenon, <2>4, <2>5, <2>7 DEF TypeOK, MessageOK
(* handleDecide, with or without the catch-up at its end. *)
<1>HandleDecideType.
  ASSUME TypeOK, NEW n \in Validators, NEW m \in msgs, HandleDecide(n, m)
  PROVE  TypeOK'
  <2> USE <1>HandleDecideType
  <2>1. IsQC(m.body.qc)
    BY Zenon DEF TypeOK, HandleDecide, MessageOK
  <2>2. lockedBlock[n] \in Blocks
    BY Zenon DEF TypeOK, RoundOK, HandleDecide, CheckDecide
  <2>3. committed' \in [Validators -> SUBSET Blocks]
    <3>1. UNCHANGED committed \/ Commit(n)
      BY Zenon DEF HandleDecide
    <3> QED
      BY <2>2, <3>1 DEF TypeOK, RoundOK, Commit
  <2>4. /\ DOMAIN committedQC' = Validators
        /\ \A p \in Validators : committedQC'[p] # NoQC => IsQC(committedQC'[p])
    BY Zenon, <2>1 DEF TypeOK, CertificatesOK, HandleDecide, IsQC
  <2>5. CASE CatchUp(n)
    <3>1. UNCHANGED highQC
      BY Zenon DEF HandleDecide
    <3> QED
      BY Zenon, <2>3, <2>4, <2>5, <3>1, <1>CatchUpType
  <2>6. CASE ~CatchUp(n)
    <3>1. /\ state' = state \/ state' = [state EXCEPT ![n] = Committed]
          /\ UNCHANGED <<proposalVars, highQC, prepareQC, lockQC, voteVars, roundVars, chain, msgs>>
      BY Zenon, <2>6 DEF HandleDecide
    <3>2. RoundOK'
      BY Zenon, <2>3, <3>1, States, <1>RoundFrame DEF proposalVars, roundVars
    <3>3. CertificatesOK'
      BY Zenon, <2>4, <3>1 DEF TypeOK, CertificatesOK, IsQC
    <3>4. HighQCReady'
      BY Zenon, <3>1, States, <1>HighQCFrame DEF roundVars
    <3>5. VotesOK' /\ \A x \in msgs' : MessageOK(x)
      BY Zenon, <3>1 DEF TypeOK, VotesOK, voteVars
    <3> QED
      BY Zenon, <3>2, <3>3, <3>4, <3>5 DEF TypeOK, MessageOK
  <2> QED
    BY Zenon, <2>5, <2>6
(* A block inserted into the local chain. *)
<1>InsertBlockType.
  ASSUME TypeOK, NEW n \in Validators, NEW b \in Blocks, InsertBlock(n, b)
  PROVE  TypeOK'
  <2> USE <1>InsertBlockType
  <2>1. RoundOK'
    BY Zenon DEF TypeOK, RoundOK, InsertBlock, proposalVars, roundVars, IsNode
  <2>2. CertificatesOK' /\ HighQCReady'
    BY Zenon DEF TypeOK, CertificatesOK, HighQCReady, InsertBlock, certVars, roundVars,
           IsProposer, Proposer, IsQC
  <2>3. VotesOK' /\ \A x \in msgs' : MessageOK(x)
    BY Zenon DEF TypeOK, VotesOK, InsertBlock, voteVars
  <2> QED
    BY Zenon, <2>1, <2>2, <2>3 DEF TypeOK, MessageOK
(* Nothing changes. *)
<1>StutterType. TypeOK /\ UNCHANGED vars => TypeOK'
  <2> SUFFICES ASSUME TypeOK, UNCHANGED vars PROVE TypeOK'
    BY Zenon
  <2>1. RoundOK' /\ CertificatesOK' /\ HighQCReady'
    BY Zenon DEF vars, proposalVars, certVars, roundVars, ledgerVars, TypeOK, RoundOK,
           CertificatesOK, HighQCReady, IsProposer, Proposer, IsNode, IsQC
  <2>2. VotesOK' /\ \A x \in msgs' : MessageOK(x)
    BY Zenon DEF vars, voteVars, TypeOK, VotesOK
  <2> QED
    BY Zenon, <2>1, <2>2 DEF TypeOK, MessageOK
<1> SUFFICES ASSUME TypeOK, [Next]_vars PROVE TypeOK'
  BY Zenon
<1>1. CASE UNCHANGED vars
  BY Zenon, <1>1, <1>StutterType
<1>2. ASSUME NEW n \in Validators, NEW m \in msgs, HandleNewView(n, m) PROVE TypeOK'
  BY Zenon, <1>2, <1>HandleNewViewType
<1>3. ASSUME NEW n \in Validators, NEW m \in msgs, HandlePrepare(n, m) PROVE TypeOK'
  BY Zenon, <1>3, <1>HandlePrepareType
<1>4. ASSUME NEW n \in Validators, NEW m \in msgs, HandlePrepareVote(n, m) PROVE TypeOK'
  BY Zenon, <1>4, <1>HandlePrepareVoteType
<1>5. ASSUME NEW n \in Validators, NEW m \in msgs, HandlePreCommit(n, m) PROVE TypeOK'
  BY Zenon, <1>5, <1>HandlePreCommitType
<1>6. ASSUME NEW n \in Validators, NEW m \in msgs, HandlePreCommitVote(n, m) PROVE TypeOK'
  BY Zenon, <1>6, <1>HandlePreCommitVoteType
<1>7. ASSUME NEW n \in Validators, NEW m \in msgs, HandleCommit(n, m) PROVE TypeOK'
  BY Zenon, <1>7, <1>HandleCommitType
<1>8. ASSUME NEW n \in Validators, NEW m \in msgs, HandleCommitVote(n, m) PROVE TypeOK'
  BY Zenon, <1>8, <1>HandleCommitVoteType
<1>9. ASSUME NEW n \in Validators, NEW m \in msgs, HandleDecide(n, m) PROVE TypeOK'
  BY Zenon, <1>9, <1>HandleDecideType
<1>10. ASSUME NEW n \in Validators, NEW b \in Blocks, HandleRequest(n, b) PROVE TypeOK'
  BY Zenon, <1>10, <1>HandleRequestType
<1>11. ASSUME NEW n \in Validators, NEW b \in Blocks, InsertBlock(n, b) PROVE TypeOK'
  BY Zenon, <1>11, <1>InsertBlockType
<1>12. ASSUME NEW n \in Validators, Timeout(n) \/ FinalCommitted(n) PROVE TypeOK'
  BY Zenon, <1>12, <1>TimeoutType
<1> QED
  BY Zenon, <1>1, <1>2, <1>3, <1>4, <1>5, <1>6, <1>7, <1>8, <1>9, <1>10, <1>11, <1>12
  DEF Next

(* Every step of every handler keeps the round state, the certificates,    *)
(* the vote sets and the messages well formed, for any number of           *)
(* validators, blocks and rounds.                                          *)
THEOREM TypeCorrect == Spec => []TypeOK
BY TypeInit, TypeNext, PTL DEF Spec

---------------------------------------------------------------------------
(* Agreement: the invariant SafetyInv                                      *)

(* What sendVote adds to the network. *)
LEMMA SendVoteStep ==
  ASSUME NEW n, NEW code, NEW nd, SendVote(n, code, nd)
  PROVE  /\ msgs \subseteq msgs'
         /\ \A m \in msgs' \ msgs : m = Message(n, code, nd) /\ nd # Nil
BY Zenon DEF SendVote

(* acceptLockQC locks the block of the current proposal.  A validator that *)
(* had a lock keeps the same one, so its earlier votes stand.              *)
LEMMA LockStep ==
  ASSUME TypeOK, SafetyInv, NEW n \in Validators, NEW qc, AcceptLockQC(n, qc)
  PROVE  /\ lockedBlock'[n] = node[n].block
         /\ lockedBlock'[n] \in Blocks
         /\ \A p \in Validators : lockedBlock[p] # Nil => lockedBlock'[p] = lockedBlock[p]
         /\ \A p \in Validators : p # n => lockedBlock'[p] = lockedBlock[p]
BY Zenon DEF TypeOK, RoundOK, SafetyInv, LockIsProposal, AcceptLockQC, IsNode

(* The invariant holds after Start. *)
LEMMA SafetyInit == Init => SafetyInv
<1> SUFFICES ASSUME Init PROVE SafetyInv
  BY Zenon
<1>1. \A m \in msgs : m.code = "NewView"
  <2>1. \E v, qc : msgs = {[code |-> "NewView", src |-> n, view |-> v, body |-> qc] :
                             n \in Validators}
    BY Zenon DEF Init
  <2> QED
    BY <2>1
<1>2. LockIsProposal /\ HeightsMatch
  <2>1. \A n \in Validators : /\ lockedBlock[n] = Nil /\ node[n] = Nil
                              /\ view[n].height = 1 /\ lastChained[n] = Genesis
    BY Zenon DEF Init
  <2>2. number[Genesis] + 1 = 1
    BY BlocksAssumption
  <2>3. LockIsProposal
    BY Zenon, <2>1 DEF LockIsProposal
  <2>4. HeightsMatch
    BY Zenon, <2>1, <2>2 DEF HeightsMatch
  <2> QED
    BY Zenon, <2>3, <2>4
<1>3. CommitSentLocked /\ CommitVoteLocked /\ OneCommitVotePerHeight
  BY Zenon, <1>1 DEF CommitSentLocked, CommitVoteLocked, OneCommitVotePerHeight, CommitVotes
<1>4. DecidedSupported
  <2>1. \A n \in Validators : committed[n] = {}
    BY Zenon DEF Init
  <2> QED
    BY Zenon, <1>1, <2>1 DEF DecidedSupported
<1> QED
  BY Zenon, <1>2, <1>3, <1>4 DEF SafetyInv

(* Every step preserves the invariant. *)
LEMMA SafetyNext == TypeOK /\ SafetyInv /\ [Next]_vars => SafetyInv'
(* Commit votes are never lost, so support lasts. *)
<1>SupportLasts.
  ASSUME msgs \subseteq msgs', NEW b, Supported(b)
  PROVE  Supported(b)'
  BY <1>SupportLasts DEF Supported, CommitVotes
(* New Decide messages and commits have to be supported. *)
<1>DecidedStep.
  ASSUME DecidedSupported, msgs \subseteq msgs',
         \A m \in msgs' \ msgs : m.code = "Decide" => Supported(m.body.block),
         \A n \in Validators : \A b \in committed'[n] : b \in committed[n] \/ Supported(b)
  PROVE  DecidedSupported'
  BY Zenon, <1>DecidedStep, <1>SupportLasts DEF DecidedSupported
(* A step that keeps the views, and the locks that are set, keeps what the *)
(* messages sent so far rely on.                                           *)
<1>LocksKept.
  ASSUME TypeOK, SafetyInv, UNCHANGED view,
         \A p \in Validators : lockedBlock[p] # Nil => lockedBlock'[p] = lockedBlock[p]
  PROVE  /\ \A x \in msgs : x.code = "Commit" =>
              x.body.view = x.view /\ WhileAt(x, lockedBlock'[x.src] # Nil)
         /\ \A x \in CommitVotes : WhileAt(x, lockedBlock'[x.src] = x.body.block)
  <2> USE <1>LocksKept
  <2>1. \A x \in msgs : x.src \in Validators
    BY Zenon DEF TypeOK, MessageOK
  <2>2. \A x \in CommitVotes : x.body.block # Nil
    BY Zenon, NilAssumption DEF CommitVotes, TypeOK, MessageOK, VoteCodes, IsNode
  <2>3. ASSUME NEW x \in msgs, x.code = "Commit"
        PROVE  x.body.view = x.view /\ WhileAt(x, lockedBlock'[x.src] # Nil)
    BY Zenon, <2>1, <2>3 DEF SafetyInv, CommitSentLocked, WhileAt
  <2>4. ASSUME NEW x \in CommitVotes PROVE WhileAt(x, lockedBlock'[x.src] = x.body.block)
    <3>1. x.src \in Validators /\ WhileAt(x, lockedBlock[x.src] = x.body.block)
      BY Zenon, <2>1, <2>4 DEF CommitVotes, SafetyInv, CommitVoteLocked
    <3> QED
      BY Zenon, <2>2, <2>4, <3>1 DEF WhileAt
  <2> QED
    BY Zenon, <2>3, <2>4
(* The first half of it, read after the step. *)
<1>CommitSentStep.
  ASSUME UNCHANGED view,
         \A x \in msgs' : x.code = "Commit" =>
           x.body.view = x.view /\ WhileAt(x, lockedBlock'[x.src] # Nil)
  PROVE  CommitSentLocked'
  BY Zenon, <1>CommitSentStep DEF CommitSentLocked, WhileAt
(* The second half, when the step adds no commit vote. *)
<1>CommitVoteStep.
  ASSUME OneCommitVotePerHeight, UNCHANGED view, CommitVotes' = CommitVotes,
         \A x \in CommitVotes : WhileAt(x, lockedBlock'[x.src] = x.body.block)
  PROVE  CommitVoteLocked' /\ OneCommitVotePerHeight'
  <2> USE <1>CommitVoteStep
  <2>1. CommitVoteLocked'
    BY Zenon DEF CommitVoteLocked, WhileAt
  <2>2. OneCommitVotePerHeight'
    BY Zenon DEF OneCommitVotePerHeight
  <2> QED
    BY Zenon, <2>1, <2>2
(* A step that keeps views and locks, commits nothing and sends no message *)
(* of the last two phases does not disturb what the votes rely on.         *)
<1>QuietStep.
  ASSUME SafetyInv, msgs \subseteq msgs',
         \A m \in msgs' \ msgs : m.code \notin {"Commit", "CommitVote", "Decide"},
         UNCHANGED <<view, lockedBlock, committed>>
  PROVE  /\ CommitSentLocked'
         /\ CommitVoteLocked'
         /\ OneCommitVotePerHeight'
         /\ DecidedSupported'
  <2> USE <1>QuietStep
  <2>1. CommitVotes' = CommitVotes
    BY Zenon DEF CommitVotes
  <2>2. CommitSentLocked'
    BY Zenon DEF SafetyInv, CommitSentLocked, WhileAt
  <2>3. CommitVoteLocked' /\ OneCommitVotePerHeight'
    BY Zenon, <2>1 DEF SafetyInv, CommitVoteLocked, OneCommitVotePerHeight, WhileAt
  <2>4. DecidedSupported'
    BY Zenon, <1>DecidedStep DEF SafetyInv, DecidedSupported
  <2> QED
    BY Zenon, <2>2, <2>3, <2>4
(* sendPrepare proposes the locked block if there is one, and a block of   *)
(* the current height.                                                     *)
<1>SendPrepareSafe.
  ASSUME TypeOK, SafetyInv, NEW n \in Validators, NEW qc, NEW request,
         SendPrepare(n, qc, request), UNCHANGED <<view, lastChained, lockedBlock, committed>>
  PROVE  SafetyInv'
  <2> USE <1>SendPrepareSafe
  <2>1. /\ msgs \subseteq msgs'
        /\ \A m \in msgs' \ msgs : m.code = "Prepare"
    BY DEF SendPrepare, Message
  <2>2. LockIsProposal'
    BY DEF TypeOK, RoundOK, SafetyInv, LockIsProposal, SendPrepare, Proposal
  <2>3. HeightsMatch'
    BY DEF TypeOK, RoundOK, SafetyInv, HeightsMatch, SendPrepare
  <2> QED
    BY Zenon, <2>1, <2>2, <2>3, <1>QuietStep DEF SafetyInv
(* handleNewView at most proposes. *)
<1>HandleNewViewSafe.
  ASSUME TypeOK, SafetyInv, NEW n \in Validators, NEW m \in msgs, HandleNewView(n, m)
  PROVE  SafetyInv'
  <2> USE <1>HandleNewViewSafe
  <2>1. UNCHANGED <<view, lastChained, lockedBlock, committed>>
    BY Zenon DEF HandleNewView, roundVars, ledgerVars
  <2>2. UNCHANGED <<node, msgs>> \/ \E qc : SendPrepare(n, qc, pendingRequest[n])
    BY Zenon DEF HandleNewView
  <2>3. CASE UNCHANGED <<node, msgs>>
    BY Zenon, <2>1, <2>3, <1>QuietStep DEF SafetyInv, LockIsProposal, HeightsMatch
  <2> QED
    BY Zenon, <2>1, <2>2, <2>3, <1>SendPrepareSafe
(* handleRequest at most proposes. *)
<1>HandleRequestSafe.
  ASSUME TypeOK, SafetyInv, NEW n \in Validators, NEW b \in Blocks, HandleRequest(n, b)
  PROVE  SafetyInv'
  <2> USE <1>HandleRequestSafe
  <2>1. UNCHANGED <<view, lastChained, lockedBlock, committed>>
    BY Zenon DEF HandleRequest, roundVars, ledgerVars
  <2>2. UNCHANGED <<node, msgs>> \/ SendPrepare(n, highQC[n], b)
    BY Zenon DEF HandleRequest
  <2>3. CASE UNCHANGED <<node, msgs>>
    BY Zenon, <2>1, <2>3, <1>QuietStep DEF SafetyInv, LockIsProposal, HeightsMatch
  <2> QED
    BY Zenon, <2>1, <2>2, <2>3, <1>SendPrepareSafe
(* A replica accepts a proposal only for the locked block: checkBlock. *)
<1>HandlePrepareSafe.
  ASSUME TypeOK, SafetyInv, NEW n \in Validators, NEW m \in msgs, HandlePrepare(n, m)
  PROVE  SafetyInv'
  <2> USE <1>HandlePrepareSafe
  <2>1. UNCHANGED <<view, lastChained, lockedBlock, committed>>
    BY Zenon DEF HandlePrepare, roundVars, ledgerVars
  <2>2. /\ msgs \subseteq msgs'
        /\ \A x \in msgs' \ msgs : x.code = "PrepareVote"
    BY SendVoteStep DEF HandlePrepare, Message
  <2>3. LockIsProposal'
    BY Zenon, <2>1 DEF TypeOK, RoundOK, SafetyInv, LockIsProposal, HandlePrepare, CheckBlock
  <2>4. HeightsMatch'
    BY Zenon, <2>1 DEF TypeOK, RoundOK, SafetyInv, HeightsMatch, HandlePrepare, CheckBlock
  <2> QED
    BY Zenon, <2>1, <2>2, <2>3, <2>4, <1>QuietStep DEF SafetyInv
(* The pre-commit phase touches neither locks nor proposals. *)
<1>HandlePrepareVoteSafe.
  ASSUME TypeOK, SafetyInv, NEW n \in Validators, NEW m \in msgs,
         HandlePrepareVote(n, m) \/ HandlePreCommit(n, m)
  PROVE  SafetyInv'
  <2> USE <1>HandlePrepareVoteSafe
  <2>1. UNCHANGED <<view, lastChained, lockedBlock, node, committed>>
    BY Zenon DEF HandlePrepareVote, HandlePreCommit, proposalVars, roundVars, ledgerVars
  <2>2. /\ msgs \subseteq msgs'
        /\ \A x \in msgs' \ msgs : x.code \in {"PreCommit", "PreCommitVote"}
    BY SendVoteStep DEF HandlePrepareVote, HandlePreCommit, Message
  <2> QED
    BY Zenon, <2>1, <2>2, <1>QuietStep DEF SafetyInv, LockIsProposal, HeightsMatch
(* An inserted block changes no round state. *)
<1>InsertBlockSafe.
  ASSUME SafetyInv, NEW n \in Validators, NEW b \in Blocks, InsertBlock(n, b)
  PROVE  SafetyInv'
  <2> USE <1>InsertBlockSafe
  <2>1. UNCHANGED <<view, lastChained, lockedBlock, node, committed, msgs>>
    BY Zenon DEF InsertBlock, proposalVars, roundVars
  <2> QED
    BY Zenon, <2>1, <1>QuietStep DEF SafetyInv, LockIsProposal, HeightsMatch
(* startNewRound keeps the lock within a height and drops it only when the *)
(* height grows, which leaves every vote of the old height behind.         *)
<1>EnterViewSafe.
  ASSUME TypeOK, SafetyInv, NEW n \in Validators, NEW v \in Views,
         NEW changeView \in BOOLEAN, EnterView(n, v, changeView),
         v.height = number[chain[n]] + 1,
         changeView => v.height = view[n].height,
         ~changeView => v.height > view[n].height,
         \A p \in Validators : \A b \in committed'[p] : b \in committed[p] \/ Supported(b)
  PROVE  SafetyInv'
  <2> USE <1>EnterViewSafe
  <2>1. /\ msgs \subseteq msgs'
        /\ \A m \in msgs' \ msgs : m.code = "NewView"
    BY DEF EnterView
  <2>2. /\ view'[n] = v
        /\ lastChained'[n] = chain[n]
        /\ \A p \in Validators : p # n =>
             view'[p] = view[p] /\ lastChained'[p] = lastChained[p]
    BY Zenon DEF TypeOK, RoundOK, EnterView
  <2>3. /\ changeView => UNCHANGED <<node, lockedBlock>>
        /\ ~changeView => node'[n] = Nil /\ lockedBlock'[n] = Nil
        /\ \A p \in Validators : p # n => node'[p] = node[p] /\ lockedBlock'[p] = lockedBlock[p]
    BY Zenon DEF TypeOK, RoundOK, EnterView, proposalVars
  <2>4. \A p \in Validators : view[p].height \in Nat /\ view'[p].height \in Nat
    BY Zenon, <2>2 DEF TypeOK, RoundOK, Views
  <2>5. LockIsProposal'
    BY Zenon, <2>3 DEF SafetyInv, LockIsProposal
  <2>6. HeightsMatch'
    BY <2>2, <2>3 DEF SafetyInv, HeightsMatch
  <2>7. \A p \in Validators :
          \/ view[p].height < view'[p].height
          \/ view[p].height = view'[p].height /\ lockedBlock'[p] = lockedBlock[p]
    BY Zenon, <2>2, <2>3
  <2>8. \A m \in msgs : m.src \in Validators /\ m.view.height \in Nat
    BY Zenon DEF TypeOK, MessageOK, Views
  <2>9. CommitSentLocked'
    BY <2>1, <2>4, <2>7, <2>8 DEF SafetyInv, CommitSentLocked, WhileAt
  <2>10. CommitVotes' = CommitVotes
    BY Zenon, <2>1 DEF CommitVotes
  <2>11. CommitVoteLocked'
    BY <2>4, <2>7, <2>8, <2>10 DEF SafetyInv, CommitVoteLocked, WhileAt, CommitVotes
  <2>12. OneCommitVotePerHeight'
    BY Zenon, <2>10 DEF SafetyInv, OneCommitVotePerHeight
  <2>13. DecidedSupported'
    BY Zenon, <2>1, <1>DecidedStep DEF SafetyInv
  <2> QED
    BY Zenon, <2>5, <2>6, <2>9, <2>11, <2>12, <2>13 DEF SafetyInv
(* startNewRound at a later height. *)
<1>CatchUpSafe.
  ASSUME TypeOK, SafetyInv, NEW n \in Validators, CatchUp(n),
         \A p \in Validators : \A b \in committed'[p] : b \in committed[p] \/ Supported(b)
  PROVE  SafetyInv'
  <2> USE <1>CatchUpSafe
  <2> DEFINE v == [height |-> number[chain[n]] + 1, round |-> 0]
  <2>1. number[chain[n]] \in Nat /\ view[n].height \in Nat
    BY Zenon, BlocksAssumption DEF TypeOK, RoundOK, Views
  <2>2. v \in Views /\ v.height = number[chain[n]] + 1 /\ v.height > view[n].height
    BY <2>1 DEF CatchUp, Views
  <2>3. EnterView(n, v, FALSE)
    BY Zenon DEF CatchUp
  <2> HIDE DEF v
  <2> QED
    BY Zenon, <2>2, <2>3, <1>EnterViewSafe
(* handleTimeoutMsg and handleFinalCommitted. *)
<1>TimeoutSafe.
  ASSUME TypeOK, SafetyInv, NEW n \in Validators, Timeout(n) \/ FinalCommitted(n)
  PROVE  SafetyInv'
  <2> USE <1>TimeoutSafe
  <2>1. \A p \in Validators : \A b \in committed'[p] : b \in committed[p]
    BY Zenon DEF Timeout, FinalCommitted
  <2>2. CASE CatchUp(n)
    BY Zenon, <2>1, <2>2, <1>CatchUpSafe
  <2>3. CASE ChangeView(n, view[n].round + 1)
    <3> DEFINE v == [view[n] EXCEPT !.round = view[n].round + 1]
    <3>1. v \in Views /\ v.height = view[n].height
      BY DEF TypeOK, RoundOK, Views
    <3>2. v.height = number[chain[n]] + 1
      BY <2>3, <3>1, BlocksAssumption DEF ChangeView, TypeOK, RoundOK, Views
    <3>3. EnterView(n, v, TRUE)
      BY Zenon, <2>3 DEF ChangeView
    <3> HIDE DEF v
    <3> QED
      BY Zenon, <2>1, <3>1, <3>2, <3>3, <1>EnterViewSafe
  <2> QED
    BY Zenon, <2>2, <2>3 DEF Timeout, FinalCommitted
(* The leader locks before it sends Commit. *)
<1>HandlePreCommitVoteSafe.
  ASSUME TypeOK, SafetyInv, NEW n \in Validators, NEW m \in msgs, HandlePreCommitVote(n, m)
  PROVE  SafetyInv'
  <2> USE <1>HandlePreCommitVoteSafe
  <2> DEFINE qc == MessagesToQC(n, "PreCommitVote")
  <2>1. UNCHANGED <<view, lastChained, node, committed>>
    BY Zenon DEF HandlePreCommitVote, roundVars, ledgerVars
  <2>2. CASE UNCHANGED <<lockedBlock, msgs>>
    BY Zenon, <2>1, <2>2, <1>QuietStep DEF SafetyInv, LockIsProposal, HeightsMatch
  <2>3. CASE AcceptLockQC(n, qc) /\ msgs' = msgs \cup {Message(n, "Commit", qc)}
    <3>1. LockIsProposal'
      BY Zenon, <2>1, <2>3, LockStep DEF SafetyInv, LockIsProposal
    <3>2. HeightsMatch'
      BY Zenon, <2>1 DEF SafetyInv, HeightsMatch
    <3>3. \A p \in Validators : lockedBlock[p] # Nil => lockedBlock'[p] = lockedBlock[p]
      BY Zenon, <2>3, LockStep
    <3>4. lockedBlock'[n] # Nil
      BY Zenon, <2>3, LockStep, NilAssumption
    <3>5. CommitSentLocked'
      <4> DEFINE c == Message(n, "Commit", qc)
      <4>1. c.src = n /\ c.view = view[n] /\ c.body.view = view[n]
        BY Zenon DEF Message, MessagesToQC
      <4>2. c.body.view = c.view /\ WhileAt(c, lockedBlock'[c.src] # Nil)
        BY Zenon, <3>4, <4>1 DEF WhileAt
      <4>3. msgs' = msgs \cup {c}
        BY Zenon, <2>3
      <4> HIDE DEF c
      <4> QED
        BY Zenon, <2>1, <3>3, <4>2, <4>3, <1>LocksKept, <1>CommitSentStep
    <3>6. CommitVotes' = CommitVotes
      BY <2>3 DEF CommitVotes, Message
    <3>7. CommitVoteLocked' /\ OneCommitVotePerHeight'
      BY Zenon, <2>1, <3>3, <3>6, <1>LocksKept, <1>CommitVoteStep DEF SafetyInv
    <3>8. DecidedSupported'
      BY <2>1, <2>3, <1>DecidedStep DEF SafetyInv, Message
    <3> QED
      BY Zenon, <3>1, <3>2, <3>5, <3>7, <3>8 DEF SafetyInv
  <2> QED
    BY Zenon, <2>2, <2>3 DEF HandlePreCommitVote
(* Whoever votes for a commit holds the lock on the block voted for: a     *)
(* replica locks it in the same step, the leader did when it sent Commit.  *)
<1>HandleCommitSafe.
  ASSUME TypeOK, SafetyInv, NEW n \in Validators, NEW m \in msgs, HandleCommit(n, m)
  PROVE  SafetyInv'
  <2> USE <1>HandleCommitSafe
  <2> DEFINE vote == Message(n, "CommitVote", node[n])
  <2>1. UNCHANGED <<view, lastChained, node, committed>>
    BY Zenon DEF HandleCommit, roundVars, ledgerVars
  <2>2. /\ lockedBlock'[n] = node[n].block
        /\ lockedBlock'[n] \in Blocks
        /\ \A p \in Validators : lockedBlock[p] # Nil => lockedBlock'[p] = lockedBlock[p]
        /\ \A p \in Validators : p # n => lockedBlock'[p] = lockedBlock[p]
    <3>1. CASE AcceptLockQC(n, m.body)
      BY Zenon, <3>1, LockStep
    <3>2. CASE IsProposer(n) /\ UNCHANGED lockedBlock
      <4>1. m.src = n /\ m.code = "Commit" /\ m.body.view = view[n]
        BY Zenon, <3>2 DEF HandleCommit, IsProposer, CheckMsgSource, CheckView
      <4>2. lockedBlock[n] # Nil
        BY <4>1 DEF SafetyInv, CommitSentLocked, WhileAt, TypeOK, RoundOK, Views
      <4> QED
        BY Zenon, <3>2, <4>2 DEF TypeOK, RoundOK, SafetyInv, LockIsProposal
    <3> QED
      BY Zenon, <3>1, <3>2 DEF HandleCommit
  <2>3. /\ msgs \subseteq msgs'
        /\ msgs' \subseteq msgs \cup {vote}
    BY Zenon DEF HandleCommit, SendVote
  <2>4. vote.code = "CommitVote"
    BY Zenon DEF Message
  <2>5. LockIsProposal'
    BY Zenon, <2>1, <2>2 DEF SafetyInv, LockIsProposal
  <2>6. HeightsMatch'
    BY Zenon, <2>1 DEF SafetyInv, HeightsMatch
  <2>8. CommitVotes \subseteq CommitVotes' /\ CommitVotes' \subseteq CommitVotes \cup {vote}
    BY Zenon, <2>3 DEF CommitVotes
  <2>9. /\ vote.src = n
        /\ vote.view = view[n]
        /\ vote.body.block = lockedBlock'[n]
    BY Zenon, <2>2 DEF Message
  <2> HIDE DEF vote
  <2>7. CommitSentLocked'
    BY Zenon, <2>1, <2>2, <2>3, <2>4, <1>LocksKept, <1>CommitSentStep
  <2>10. \A x \in CommitVotes : WhileAt(x, lockedBlock'[x.src] = x.body.block)
    BY Zenon, <2>1, <2>2, <1>LocksKept
  <2>11. CommitVoteLocked'
    BY Zenon, <2>1, <2>8, <2>9, <2>10 DEF CommitVoteLocked, WhileAt
  <2>12. OneCommitVotePerHeight'
    <3>1. \A x \in CommitVotes :
            x.src = n /\ x.view.height = view[n].height => x.body.block = lockedBlock'[n]
      <4>1. view[n].height \in Nat
        BY Zenon DEF TypeOK, RoundOK, Views
      <4> QED
        BY <2>10, <4>1 DEF WhileAt
    <3> QED
      BY <2>8, <2>9, <3>1 DEF SafetyInv, OneCommitVotePerHeight
  <2>13. DecidedSupported'
    BY Zenon, <2>1, <2>3, <2>4, <1>DecidedStep DEF SafetyInv
  <2> QED
    BY Zenon, <2>5, <2>6, <2>7, <2>11, <2>12, <2>13 DEF SafetyInv
(* A commit certificate is assembled from the votes of a quorum. *)
<1>HandleCommitVoteSafe.
  ASSUME TypeOK, SafetyInv, NEW n \in Validators, NEW m \in msgs, HandleCommitVote(n, m)
  PROVE  SafetyInv'
  <2> USE <1>HandleCommitVoteSafe
  <2> DEFINE votes == Add(commitVotes[n], m)
             body == [block |-> lockedBlock[n], qc |-> MessagesToQC(n, "CommitVote")]
  <2>1. UNCHANGED <<view, lastChained, node, lockedBlock, committed>>
    BY Zenon DEF HandleCommitVote, proposalVars, roundVars, ledgerVars
  <2>2. CASE UNCHANGED msgs
    BY Zenon, <2>1, <2>2, <1>QuietStep DEF SafetyInv, LockIsProposal, HeightsMatch
  <2>3. CASE /\ BLSRecover(n, votes)
             /\ lockedBlock[n] = node[n].block
             /\ msgs' = msgs \cup {Message(n, "Decide", body)}
    <3>1. votes \subseteq CommitVotes
      BY Zenon DEF TypeOK, VotesOK, HandleCommitVote, Add, CommitVotes
    <3>2. Supported(lockedBlock[n])
      <4> DEFINE valid == {x \in votes : x.view = view[n] /\ x.body = node[n]}
                 S == {x.src : x \in valid}
      <4>1. S \in SUBSET Validators
        BY Zenon, <3>1 DEF TypeOK, MessageOK, CommitVotes
      <4>2. Cardinality(S) >= Q
        BY Zenon, <2>3 DEF BLSRecover
      <4>3. number[node[n].block] = view[n].height
        BY Zenon DEF HandleCommitVote, CheckVote, SafetyInv, HeightsMatch
      <4>4. \A p \in S : \E x \in CommitVotes :
              x.src = p /\ x.body.block = lockedBlock[n] /\ x.view.height = number[lockedBlock[n]]
        <5>1. \A x \in valid : x \in CommitVotes /\ x.body.block = lockedBlock[n] /\ x.view = view[n]
          BY Zenon, <2>3, <3>1
        <5>2. number[lockedBlock[n]] = view[n].height
          BY Zenon, <2>3, <4>3
        <5> HIDE DEF valid
        <5> QED
          BY Zenon, <5>1, <5>2
      <4> HIDE DEF S
      <4> QED
        BY Zenon, <4>1, <4>2, <4>4 DEF Supported
    <3>3. LockIsProposal' /\ HeightsMatch'
      BY Zenon, <2>1 DEF SafetyInv, LockIsProposal, HeightsMatch
    <3> DEFINE decide == Message(n, "Decide", body)
    <3>8. decide.code = "Decide" /\ msgs' = msgs \cup {decide}
      BY Zenon, <2>3 DEF Message
    <3> HIDE DEF decide
    <3>4. CommitVotes' = CommitVotes
      BY Zenon, <3>8 DEF CommitVotes
    <3>5. CommitSentLocked'
      BY Zenon, <2>1, <3>8, <1>LocksKept, <1>CommitSentStep
    <3>6. CommitVoteLocked' /\ OneCommitVotePerHeight'
      BY Zenon, <2>1, <3>4, <1>LocksKept, <1>CommitVoteStep DEF SafetyInv
    <3>7. DecidedSupported'
      <4>1. decide.body.block = lockedBlock[n]
        BY Zenon DEF decide, Message
      <4> QED
        BY Zenon, <2>1, <3>2, <3>8, <4>1, <1>DecidedStep DEF SafetyInv
    <3> QED
      BY Zenon, <3>3, <3>5, <3>6, <3>7 DEF SafetyInv
  <2> QED
    BY Zenon, <2>2, <2>3 DEF HandleCommitVote
(* handleDecide commits a supported block. *)
<1>HandleDecideSafe.
  ASSUME TypeOK, SafetyInv, NEW n \in Validators, NEW m \in msgs, HandleDecide(n, m)
  PROVE  SafetyInv'
  <2> USE <1>HandleDecideSafe
  <2>1. Supported(lockedBlock[n])
    BY Zenon DEF HandleDecide, CheckDecide, SafetyInv, DecidedSupported
  <2>2. \A p \in Validators : \A b \in committed'[p] : b \in committed[p] \/ Supported(b)
    <3>1. UNCHANGED committed \/ Commit(n)
      BY Zenon DEF HandleDecide
    <3> QED
      BY <2>1, <3>1 DEF TypeOK, RoundOK, Commit
  <2>3. CASE CatchUp(n)
    BY Zenon, <2>2, <2>3, <1>CatchUpSafe
  <2>4. CASE ~CatchUp(n)
    <3>1. UNCHANGED <<view, lastChained, node, lockedBlock, msgs>>
      BY Zenon, <2>4 DEF HandleDecide, proposalVars, roundVars
    <3>2. LockIsProposal' /\ HeightsMatch'
      BY Zenon, <3>1 DEF SafetyInv, LockIsProposal, HeightsMatch
    <3>3. CommitSentLocked' /\ CommitVoteLocked' /\ OneCommitVotePerHeight'
      <4>1. CommitVotes' = CommitVotes
        BY Zenon, <3>1 DEF CommitVotes
      <4> QED
        BY Zenon, <3>1, <4>1, <1>LocksKept, <1>CommitSentStep, <1>CommitVoteStep DEF SafetyInv
    <3>4. DecidedSupported'
      BY Zenon, <2>2, <3>1, <1>DecidedStep DEF SafetyInv
    <3> QED
      BY Zenon, <3>2, <3>3, <3>4 DEF SafetyInv
  <2> QED
    BY Zenon, <2>3, <2>4
<1> SUFFICES ASSUME TypeOK, SafetyInv, [Next]_vars PROVE SafetyInv'
  BY Zenon
<1>1. CASE UNCHANGED vars
  <2>1. UNCHANGED <<view, lastChained, lockedBlock, node, committed, msgs>>
    BY Zenon, <1>1 DEF vars, proposalVars, roundVars, ledgerVars
  <2> QED
    BY Zenon, <2>1, <1>QuietStep DEF SafetyInv, LockIsProposal, HeightsMatch
<1>2. ASSUME NEW n \in Validators, NEW m \in msgs, HandleNewView(n, m) PROVE SafetyInv'
  BY Zenon, <1>2, <1>HandleNewViewSafe
<1>3. ASSUME NEW n \in Validators, NEW m \in msgs, HandlePrepare(n, m) PROVE SafetyInv'
  BY Zenon, <1>3, <1>HandlePrepareSafe
<1>4. ASSUME NEW n \in Validators, NEW m \in msgs,
             HandlePrepareVote(n, m) \/ HandlePreCommit(n, m)
      PROVE SafetyInv'
  BY Zenon, <1>4, <1>HandlePrepareVoteSafe
<1>5. ASSUME NEW n \in Validators, NEW m \in msgs, HandlePreCommitVote(n, m) PROVE SafetyInv'
  BY Zenon, <1>5, <1>HandlePreCommitVoteSafe
<1>6. ASSUME NEW n \in Validators, NEW m \in msgs, HandleCommit(n, m) PROVE SafetyInv'
  BY Zenon, <1>6, <1>HandleCommitSafe
<1>7. ASSUME NEW n \in Validators, NEW m \in msgs, HandleCommitVote(n, m) PROVE SafetyInv'
  BY Zenon, <1>7, <1>HandleCommitVoteSafe
<1>8. ASSUME NEW n \in Validators, NEW m \in msgs, HandleDecide(n, m) PROVE SafetyInv'
  BY Zenon, <1>8, <1>HandleDecideSafe
<1>9. ASSUME NEW n \in Validators, NEW b \in Blocks, HandleRequest(n, b) PROVE SafetyInv'
  BY Zenon, <1>9, <1>HandleRequestSafe
<1>10. ASSUME NEW n \in Validators, NEW b \in Blocks, InsertBlock(n, b) PROVE SafetyInv'
  BY Zenon, <1>10, <1>InsertBlockSafe
<1>11. ASSUME NEW n \in Validators, Timeout(n) \/ FinalCommitted(n) PROVE SafetyInv'
  BY Zenon, <1>11, <1>TimeoutSafe
<1> QED
  BY Zenon, <1>1, <1>2, <1>3, <1>4, <1>5, <1>6, <1>7, <1>8, <1>9, <1>10, <1>11 DEF Next

(* A lock changes only in a step of a validator whose chain has reached    *)
(* the height of the lock.                                                 *)
LEMMA LockStepHeld ==
  ASSUME TypeOK, SafetyInv, [Next]_vars, NEW p \in Validators,
         lockedBlock[p] # Nil, lockedBlock'[p] # lockedBlock[p]
  PROVE  number[chain[p]] >= view[p].height
<1>1. CASE UNCHANGED lockedBlock
  BY Zenon, <1>1
<1>2. ASSUME NEW n \in Validators, NEW qc, AcceptLockQC(n, qc)
      PROVE  number[chain[p]] >= view[p].height
  BY Zenon, <1>2, LockStep
<1>3. ASSUME NEW n \in Validators, CatchUp(n)
      PROVE  number[chain[p]] >= view[p].height
  BY Zenon, <1>3 DEF CatchUp, EnterView, TypeOK, RoundOK
<1>4. ASSUME NEW n \in Validators, NEW m \in msgs,
             HandleNewView(n, m) \/ HandlePrepare(n, m) \/ HandlePrepareVote(n, m)
               \/ HandlePreCommit(n, m) \/ HandleCommitVote(n, m)
      PROVE  UNCHANGED lockedBlock
  BY Zenon, <1>4
  DEF HandleNewView, HandlePrepare, HandlePrepareVote, HandlePreCommit, HandleCommitVote,
      proposalVars
<1>5. ASSUME NEW n \in Validators, NEW b \in Blocks, HandleRequest(n, b) \/ InsertBlock(n, b)
      PROVE  UNCHANGED lockedBlock
  BY Zenon, <1>5 DEF HandleRequest, InsertBlock, proposalVars
<1>6. ASSUME NEW n \in Validators, NEW m \in msgs,
             HandlePreCommitVote(n, m) \/ HandleCommit(n, m)
      PROVE  UNCHANGED lockedBlock \/ \E qc : AcceptLockQC(n, qc)
  BY Zenon, <1>6 DEF HandlePreCommitVote, HandleCommit
<1>7. ASSUME NEW n \in Validators, NEW m \in msgs, HandleDecide(n, m)
      PROVE  UNCHANGED lockedBlock \/ CatchUp(n)
  BY Zenon, <1>7 DEF HandleDecide, proposalVars
<1>8. ASSUME NEW n \in Validators, Timeout(n) \/ FinalCommitted(n)
      PROVE  UNCHANGED lockedBlock \/ CatchUp(n)
  BY Zenon, <1>8 DEF Timeout, FinalCommitted, ChangeView, EnterView, proposalVars
<1>9. CASE UNCHANGED vars
  BY Zenon, <1>9 DEF vars, proposalVars
<1> QED
  BY Zenon, <1>1, <1>2, <1>3, <1>4, <1>5, <1>6, <1>7, <1>8, <1>9 DEF Next

---------------------------------------------------------------------------
(* Views and votes                                                         *)

AllViews == [height : Nat, round : Nat]

(* View.Cmp is a strict total order. *)
LEMMA BeforeOrder ==
  /\ \A v \in AllViews : ~Before(v, v)
  /\ \A u, v, w \in AllViews : Before(u, v) /\ Before(v, w) => Before(u, w)
  /\ \A v, w \in AllViews : Before(v, w) \/ v = w \/ Before(w, v)
BY DEF AllViews, Before

LEMMA ViewsOfState ==
  ASSUME TypeOK
  PROVE  /\ \A p \in Validators : view[p] \in AllViews
         /\ \A m \in msgs : m.src \in Validators /\ m.view \in AllViews
BY Zenon DEF TypeOK, RoundOK, MessageOK, Views, AllViews

(* What a step may do to a validator: move it to a later view, or keep the *)
(* view and its leader, not lower the state, and keep a fixed proposal.    *)
Keeps(p) ==
  \/ Before(view[p], view'[p])
  \/ /\ view'[p] = view[p]
     /\ state'[p] >= state[p]
     /\ Fixed(p) => Fixed(p)' /\ node'[p] = node[p]
     /\ state[p] >= Prepared => node'[p] = node[p]

---------------------------------------------------------------------------
(* The steps of one validator                                              *)

HandleMessage(n, m) ==
  \/ HandleNewView(n, m) \/ HandlePrepare(n, m) \/ HandlePrepareVote(n, m)
  \/ HandlePreCommit(n, m) \/ HandlePreCommitVote(n, m) \/ HandleCommit(n, m)
  \/ HandleCommitVote(n, m) \/ HandleDecide(n, m)

StepOf(n) ==
  \/ \E m \in msgs : HandleMessage(n, m)
  \/ \E b \in Blocks : HandleRequest(n, b) \/ InsertBlock(n, b)
  \/ Timeout(n)
  \/ FinalCommitted(n)

LEMMA NextIsStepOf == Next => \E n \in Validators : StepOf(n)
BY Zenon DEF Next, StepOf, HandleMessage

(* The round state of p, as far as certificates depend on it, is kept. *)
Same(p) ==
  /\ view'[p] = view[p] /\ lastChained'[p] = lastChained[p] /\ state'[p] = state[p]
  /\ pendingRequest'[p] = pendingRequest[p] /\ node'[p] = node[p]
  /\ lockedBlock'[p] = lockedBlock[p] /\ newViews'[p] = newViews[p]
  /\ highQC'[p] = highQC[p] /\ prepareQC'[p] = prepareQC[p] /\ lockQC'[p] = lockQC[p]

(* startNewRound is a step of one validator to a later view. *)
LEMMA EntersLaterView ==
  ASSUME TypeOK, SafetyInv, NEW n \in Validators,
         CatchUp(n) \/ ChangeView(n, view[n].round + 1)
  PROVE  \E v \in Views, changeView \in BOOLEAN :
           EnterView(n, v, changeView) /\ Before(view[n], v)
<1>1. view[n] \in Views /\ number[chain[n]] \in Nat
  BY Zenon, BlocksAssumption DEF TypeOK, RoundOK
<1>2. CASE CatchUp(n)
  <2> DEFINE v == [height |-> number[chain[n]] + 1, round |-> 0]
  <2>1. v \in Views /\ Before(view[n], v)
    BY <1>1, <1>2 DEF CatchUp, Views, Before
  <2>2. EnterView(n, v, FALSE)
    BY Zenon, <1>2 DEF CatchUp
  <2> HIDE DEF v
  <2> QED
    BY Zenon, <2>1, <2>2
<1>3. CASE ChangeView(n, view[n].round + 1)
  <2> DEFINE v == [view[n] EXCEPT !.round = view[n].round + 1]
  <2>1. v \in Views /\ Before(view[n], v)
    BY <1>1 DEF Views, Before
  <2>2. EnterView(n, v, TRUE)
    BY Zenon, <1>3 DEF ChangeView
  <2> HIDE DEF v
  <2> QED
    BY Zenon, <2>1, <2>2
<1> QED
  BY Zenon, <1>2, <1>3

(* What it leaves of the round state: the prepareQC of a node is never nil. *)
LEMMA EnterViewStep ==
  ASSUME TypeOK, NEW n \in Validators, NEW v, NEW changeView,
         EnterView(n, v, changeView), UNCHANGED highQC
  PROVE  /\ view'[n] = v /\ state'[n] = AcceptRequest /\ newViews'[n] = {}
         /\ UNCHANGED <<lockQC, highQC>>
         /\ \A p \in Validators : prepareQC'[p] = prepareQC[p]
         /\ msgs' = msgs \cup {[code |-> "NewView", src |-> n, view |-> v,
                                body |-> prepareQC[n]]}
         /\ \A p \in Validators : p # n => Same(p)
<1>1. prepareQC[n] # NoQC
  BY DEF TypeOK, CertificatesOK, IsQC, NoQC, VoteCodes
<1>2. RoundStartQC(n) = prepareQC[n]
  BY Zenon, <1>1 DEF RoundStartQC
<1>3. UNCHANGED <<lockQC, highQC>> /\ \A p \in Validators : prepareQC'[p] = prepareQC[p]
  BY Zenon, <1>2 DEF EnterView, TypeOK, CertificatesOK
<1>4. /\ pendingRequest' = pendingRequest \/ pendingRequest' = [pendingRequest EXCEPT ![n] = Nil]
      /\ node' = node \/ node' = [node EXCEPT ![n] = Nil]
      /\ lockedBlock' = lockedBlock \/ lockedBlock' = [lockedBlock EXCEPT ![n] = Nil]
  BY Zenon DEF EnterView, proposalVars
<1>5. \A p \in Validators : p # n =>
        /\ pendingRequest'[p] = pendingRequest[p] /\ node'[p] = node[p]
        /\ lockedBlock'[p] = lockedBlock[p]
  BY Zenon, <1>4 DEF TypeOK, RoundOK
<1>6. \A p \in Validators : p # n =>
        /\ view'[p] = view[p] /\ lastChained'[p] = lastChained[p] /\ state'[p] = state[p]
        /\ newViews'[p] = newViews[p]
  BY Zenon DEF EnterView, TypeOK, RoundOK, VotesOK
<1>7. view'[n] = v /\ state'[n] = AcceptRequest /\ newViews'[n] = {}
  BY Zenon DEF EnterView, TypeOK, RoundOK, VotesOK
<1>8. msgs' = msgs \cup {[code |-> "NewView", src |-> n, view |-> v, body |-> prepareQC[n]]}
  BY Zenon, <1>2 DEF EnterView
<1>9. \A p \in Validators : p # n => Same(p)
  BY Zenon, <1>3, <1>5, <1>6 DEF Same
<1> QED
  BY Zenon, <1>3, <1>7, <1>8, <1>9

(* Every step is a step of one validator. *)
LEMMA OthersSame ==
  ASSUME TypeOK, SafetyInv, NEW n \in Validators, StepOf(n), NEW p \in Validators, p # n
  PROVE  Same(p)
<1>1. ASSUME UNCHANGED highQC, CatchUp(n) \/ ChangeView(n, view[n].round + 1) PROVE Same(p)
  BY Zenon, <1>1, EntersLaterView, EnterViewStep
<1>2. ASSUME NEW m \in msgs, HandleNewView(n, m) PROVE Same(p)
  <2>1. /\ UNCHANGED <<view, lastChained, pendingRequest, lockedBlock, prepareQC, lockQC>>
        /\ \E x : newViews' = [newViews EXCEPT ![n] = x]
        /\ state' = state \/ state' = [state EXCEPT ![n] = HighQC]
        /\ highQC' = highQC \/ \E x : highQC' = [highQC EXCEPT ![n] = x]
        /\ node' = node \/ \E x : node' = [node EXCEPT ![n] = x]
    BY Zenon, <1>2 DEF HandleNewView, SendPrepare, roundVars
  <2> QED
    BY Zenon, <2>1 DEF Same, TypeOK, RoundOK, CertificatesOK, VotesOK
<1>3. ASSUME NEW m \in msgs, HandlePrepare(n, m) PROVE Same(p)
  <2>1. /\ UNCHANGED <<view, lastChained, pendingRequest, lockedBlock, highQC, prepareQC, lockQC, newViews>>
        /\ state' = state \/ state' = [state EXCEPT ![n] = HighQC]
        /\ node' = node \/ \E x : node' = [node EXCEPT ![n] = x]
    BY Zenon, <1>3 DEF HandlePrepare, roundVars, certVars, voteVars
  <2> QED
    BY Zenon, <2>1 DEF Same, TypeOK, RoundOK
<1>4. ASSUME NEW m \in msgs, HandlePrepareVote(n, m) \/ HandlePreCommit(n, m) PROVE Same(p)
  <2>1. /\ UNCHANGED <<view, lastChained, pendingRequest, node, lockedBlock, highQC, lockQC, newViews>>
        /\ state' = state \/ state' = [state EXCEPT ![n] = Prepared]
        /\ prepareQC' = prepareQC \/ \E x : prepareQC' = [prepareQC EXCEPT ![n] = x]
    BY Zenon, <1>4 DEF HandlePrepareVote, HandlePreCommit, roundVars, proposalVars, voteVars
  <2> QED
    BY Zenon, <2>1 DEF Same, TypeOK, RoundOK, CertificatesOK
<1>5. ASSUME NEW m \in msgs, HandlePreCommitVote(n, m) \/ HandleCommit(n, m) PROVE Same(p)
  <2>1. /\ UNCHANGED <<view, lastChained, pendingRequest, node, highQC, prepareQC, newViews>>
        /\ state' = state \/ state' = [state EXCEPT ![n] = PreCommitted]
        /\ lockQC' = lockQC \/ \E x : lockQC' = [lockQC EXCEPT ![n] = x]
        /\ lockedBlock' = lockedBlock \/ \E x : lockedBlock' = [lockedBlock EXCEPT ![n] = x]
    BY Zenon, <1>5 DEF HandlePreCommitVote, HandleCommit, AcceptLockQC, roundVars, voteVars
  <2> QED
    BY Zenon, <2>1 DEF Same, TypeOK, RoundOK, CertificatesOK
<1>6. ASSUME UNCHANGED <<view, lastChained, pendingRequest, node, lockedBlock, highQC, prepareQC, lockQC, newViews>>,
             state' = state \/ state' = [state EXCEPT ![n] = Committed]
      PROVE  Same(p)
  BY Zenon, <1>6 DEF Same, TypeOK, RoundOK
<1>7. ASSUME NEW m \in msgs, HandleCommitVote(n, m) PROVE Same(p)
  BY Zenon, <1>6, <1>7 DEF HandleCommitVote, roundVars, proposalVars
<1>8. ASSUME NEW m \in msgs, HandleDecide(n, m) PROVE Same(p)
  BY Zenon, <1>1, <1>6, <1>8 DEF HandleDecide, roundVars, proposalVars, voteVars
<1>9. ASSUME NEW b \in Blocks, HandleRequest(n, b) PROVE Same(p)
  <2>1. /\ UNCHANGED <<view, lastChained, state, lockedBlock, highQC, prepareQC, lockQC, newViews>>
        /\ pendingRequest' = [pendingRequest EXCEPT ![n] = b]
        /\ node' = node \/ \E x : node' = [node EXCEPT ![n] = x]
    BY Zenon, <1>9 DEF HandleRequest, SendPrepare, roundVars, certVars, voteVars
  <2> QED
    BY Zenon, <2>1 DEF Same, TypeOK, RoundOK
<1>10. ASSUME NEW b \in Blocks, InsertBlock(n, b) PROVE Same(p)
  BY Zenon, <1>6, <1>10 DEF InsertBlock, roundVars, certVars, voteVars, proposalVars
<1>11. ASSUME Timeout(n) \/ FinalCommitted(n) PROVE Same(p)
  BY Zenon, <1>1, <1>11 DEF Timeout, FinalCommitted
<1> QED
  BY Zenon, <1>2, <1>3, <1>4, <1>5, <1>7, <1>8, <1>9, <1>10, <1>11 DEF StepOf, HandleMessage

---------------------------------------------------------------------------
(* One vote per view and phase                                             *)

(* A step of n keeps what it has sent true and adds only true messages. *)
SendsOK(n) ==
  /\ msgs \subseteq msgs'
  /\ Keeps(n)
  /\ \A m \in msgs' \ msgs : m.view = view'[m.src] /\ SentOK(m)'

LEMMA StateInt ==
  ASSUME TypeOK, NEW n \in Validators PROVE state[n] \in Int /\ state[n] >= AcceptRequest
BY DEF TypeOK, RoundOK, AcceptRequest, Committed

LEMMA StepSendsOK ==
  ASSUME TypeOK, TypeOK', SafetyInv, VoteInv, NEW self \in Validators, StepOf(self)
  PROVE  SendsOK(self)
(* A message of the current view, by what its code asks of the sender. *)
<1>SentNow.
  ASSUME NEW n, NEW m, m.src = n, m.view = view'[n],
         m.code = "Prepare" =>
           /\ m.body.node = [parent |-> m.body.qc.node, block |-> m.body.node.block]
           /\ Fixed(n)' /\ node'[n] = m.body.node,
         m.code = "PrepareVote" => Fixed(n)' /\ node'[n] = m.body,
         m.code = "PreCommitVote" => state'[n] >= Prepared /\ node'[n] = m.body,
         m.code = "Commit" => state'[n] >= PreCommitted,
         m.code = "CommitVote" => state'[n] >= PreCommitted /\ node'[n] = m.body
  PROVE  m.view = view'[m.src] /\ SentOK(m)'
  BY <1>SentNow, Zenon DEF SentOK, InView
(* A step of n that keeps its view, its proposal and its highQC. *)
<1>KeepsInRound.
  ASSUME NEW n \in Validators,
         view'[n] = view[n], lastChained'[n] = lastChained[n],
         node'[n] = node[n], highQC'[n] = highQC[n], state[n] \in Int, state'[n] \in Int,
         state'[n] >= state[n],
         pendingRequest'[n] = pendingRequest[n] \/ pendingRequest'[n] # Nil,
         lockedBlock'[n] = lockedBlock[n] \/ lockedBlock'[n] # Nil
  PROVE  Keeps(n)
  <2> USE <1>KeepsInRound
  <2>1. IsProposer(n)' <=> IsProposer(n)
    BY Zenon DEF IsProposer, Proposer
  <2>2. Fixed(n) => Fixed(n)'
    BY <2>1 DEF Fixed, HighQC
  <2> QED
    BY Zenon, <2>2 DEF Keeps
(* Before HighQC nothing is fixed yet. *)
<1>KeepsEarly.
  ASSUME NEW n \in Validators, view'[n] = view[n], state[n] \in Int, state'[n] \in Int,
         state'[n] >= state[n], state[n] < HighQC
  PROVE  Keeps(n)
  BY <1>KeepsEarly DEF Keeps, Fixed, HighQC, Prepared
(* sendPrepare on the certificate that n keeps as its highQC. *)
<1>SendPrepareVotes.
  ASSUME TypeOK, NEW n \in Validators, NEW qc, NEW request,
         SendPrepare(n, qc, request), ~UNCHANGED <<node, msgs>>,
         UNCHANGED <<view, lastChained, lockedBlock>>, highQC'[n] = qc,
         state'[n] = HighQC, pendingRequest'[n] = request
  PROVE  /\ msgs \subseteq msgs'
         /\ IsProposer(n)
         /\ node'[n] = [parent |-> qc.node, block |-> Proposal(n, request)]
         /\ Fixed(n)'
         /\ \A m \in msgs' \ msgs :
              /\ m.view = view'[m.src] /\ SentOK(m)'
              /\ m.code = "Prepare" /\ m.src = n /\ m.body.qc = qc
  <2> USE <1>SendPrepareVotes
  <2> DEFINE b == Proposal(n, request)
             nd == [parent |-> qc.node, block |-> b]
             p == Message(n, "Prepare", [node |-> nd, qc |-> qc])
  <2>1. IsProposer(n) /\ b # Nil /\ node' = [node EXCEPT ![n] = nd] /\ msgs' = msgs \cup {p}
    BY Zenon DEF SendPrepare
  <2>2. node'[n] = nd
    BY Zenon, <2>1 DEF TypeOK, RoundOK
  <2>3. request # Nil \/ lockedBlock[n] # Nil
    BY Zenon, <2>1 DEF Proposal
  <2>4. nd.parent = qc.node /\ nd.block = b
    BY Zenon
  <2>5. Fixed(n)'
    BY <2>2, <2>3, <2>4 DEF Fixed, HighQC
  <2>6. nd = [parent |-> qc.node, block |-> nd.block]
    BY Zenon, <2>4
  <2>7. ASSUME NEW x \in msgs' \ msgs
        PROVE  /\ x.view = view'[x.src] /\ SentOK(x)'
               /\ x.code = "Prepare" /\ x.src = n /\ x.body.qc = qc
    <3>1. /\ x.code = "Prepare" /\ x.src = n /\ x.view = view'[n]
          /\ x.body.node = nd /\ x.body.qc = qc
      BY <2>1 DEF Message
    <3> HIDE DEF p, nd
    <3>2. x.body.node = [parent |-> x.body.qc.node, block |-> x.body.node.block]
      BY Zenon, <2>6, <3>1
    <3>3. x.view = view'[x.src] /\ SentOK(x)'
      BY Zenon, <2>2, <2>5, <3>1, <3>2, <1>SentNow
    <3> QED
      BY Zenon, <3>1, <3>3
  <2>8. node'[n] = [parent |-> qc.node, block |-> Proposal(n, request)]
    BY Zenon, <2>2
  <2> HIDE DEF p, nd, b
  <2> QED
    BY Zenon, <2>1, <2>5, <2>7, <2>8
<1>HandleNewViewVotes.
  ASSUME TypeOK, TypeOK', NEW n \in Validators, NEW m \in msgs, HandleNewView(n, m)
  PROVE  SendsOK(n)
  <2> USE <1>HandleNewViewVotes
  <2>1. UNCHANGED <<view, lastChained, pendingRequest, lockedBlock>>
    BY Zenon DEF HandleNewView, roundVars
  <2>2. CASE UNCHANGED <<highQC, node, state, msgs>>
    BY <2>1, <2>2, StateInt, <1>KeepsInRound DEF SendsOK
  <2>3. CASE ~UNCHANGED <<highQC, node, state, msgs>>
    <3>1. PICK qc : /\ highQC' = [highQC EXCEPT ![n] = qc]
                    /\ SendPrepare(n, qc, pendingRequest[n])
                    /\ state[n] < HighQC /\ state' = [state EXCEPT ![n] = HighQC]
      BY Zenon, <2>3 DEF HandleNewView
    <3>2. state'[n] = HighQC /\ highQC'[n] = qc
      BY Zenon, <3>1 DEF TypeOK, RoundOK, CertificatesOK
    <3>3. Keeps(n)
      BY <2>1, <3>1, <3>2, StateInt, <1>KeepsEarly DEF HighQC
    <3>4. CASE UNCHANGED <<node, msgs>>
      BY Zenon, <3>3, <3>4 DEF SendsOK
    <3>5. CASE ~UNCHANGED <<node, msgs>>
      BY Zenon, <2>1, <3>1, <3>2, <3>3, <3>5, <1>SendPrepareVotes DEF SendsOK
    <3> QED
      BY Zenon, <3>4, <3>5
  <2> QED
    BY Zenon, <2>2, <2>3
(* A further request makes a leader that has proposed propose the same. *)
<1>HandleRequestVotes.
  ASSUME TypeOK, TypeOK', SafetyInv, NEW n \in Validators, NEW b \in Blocks,
         HandleRequest(n, b)
  PROVE  SendsOK(n)
  <2> USE <1>HandleRequestVotes
  <2>1. /\ UNCHANGED <<view, lastChained, lockedBlock, state, highQC>>
        /\ pendingRequest[n] = Nil /\ pendingRequest'[n] = b /\ b # Nil
    BY Zenon, NilAssumption DEF HandleRequest, roundVars, certVars, TypeOK, RoundOK
  <2>2. CASE UNCHANGED <<node, msgs>>
    BY <2>1, <2>2, StateInt, <1>KeepsInRound DEF SendsOK
  <2>3. CASE ~UNCHANGED <<node, msgs>>
    <3>1. SendPrepare(n, highQC[n], b) /\ state[n] = HighQC
      BY Zenon, <2>3 DEF HandleRequest
    <3>2. /\ msgs \subseteq msgs'
          /\ IsProposer(n)
          /\ node'[n] = [parent |-> highQC[n].node, block |-> Proposal(n, b)]
          /\ Fixed(n)'
          /\ \A m \in msgs' \ msgs : m.view = view'[m.src] /\ SentOK(m)'
      BY <2>1, <2>3, <3>1, <1>SendPrepareVotes, SMTT(20)
    <3>3. ASSUME Fixed(n) PROVE node'[n] = node[n]
      <4>1. /\ node[n] = [parent |-> highQC[n].node, block |-> node[n].block]
            /\ lockedBlock[n] # Nil
        BY Zenon, <2>1, <3>2, <3>3 DEF Fixed
      <4>2. node[n].block = Proposal(n, b)
        BY Zenon, <4>1 DEF Proposal, SafetyInv, LockIsProposal
      <4> QED
        BY Zenon, <3>2, <4>1, <4>2
    <3>4. Keeps(n)
      BY <2>1, <3>1, <3>2, <3>3, StateInt, SMTT(20) DEF Keeps, HighQC, Prepared
    <3> QED
      BY Zenon, <3>2, <3>4 DEF SendsOK
  <2> QED
    BY Zenon, <2>2, <2>3
(* The leader votes for the proposal it has sent, a replica for the first  *)
(* that it accepts in the view.                                            *)
<1>HandlePrepareVotes.
  ASSUME TypeOK, TypeOK', VoteInv, NEW n \in Validators, NEW m \in msgs, HandlePrepare(n, m)
  PROVE  SendsOK(n)
  <2> USE <1>HandlePrepareVotes
  <2>1. UNCHANGED <<view, lastChained, pendingRequest, lockedBlock, highQC>>
    BY Zenon DEF HandlePrepare, roundVars, certVars
  <2>2. m.code = "Prepare" /\ m.view = view[n] /\ m.src = Proposer(n)
    BY Zenon DEF HandlePrepare, CheckView, CheckMsgSource
  <2>3. CASE IsProposer(n)
    <3>1. SendVote(n, "PrepareVote", node[n]) /\ UNCHANGED <<node, state>>
      BY Zenon, <2>3 DEF HandlePrepare
    <3>2. m.src = n
      BY Zenon, <2>2, <2>3 DEF IsProposer
    <3>3. ~Before(m.view, view[n])
      BY Zenon, <2>2, ViewsOfState, BeforeOrder
    <3>4. Fixed(n)
      BY Zenon, <2>2, <3>2, <3>3 DEF VoteInv, SentOK, InView
    <3>5. Fixed(n)' /\ node'[n] = node[n]
      BY Zenon, <2>1, <3>1, <3>4 DEF Fixed, IsProposer, Proposer
    <3>6. \A x \in msgs' \ msgs : x.view = view'[x.src] /\ SentOK(x)'
      <4> SUFFICES ASSUME NEW x \in msgs' \ msgs PROVE x.view = view'[x.src] /\ SentOK(x)'
        BY Zenon
      <4>1. x.code = "PrepareVote" /\ x.src = n /\ x.view = view'[n] /\ x.body = node'[n]
        BY <2>1, <3>1, SendVoteStep DEF Message
      <4> QED
        BY Zenon, <3>5, <4>1, <1>SentNow
    <3> QED
      BY <2>1, <3>1, <3>6, SendVoteStep, StateInt, <1>KeepsInRound, SMTT(20) DEF SendsOK
  <2>4. CASE ~IsProposer(n)
    <3> DEFINE nd == m.body.node
    <3>1. /\ SendVote(n, "PrepareVote", nd) /\ state[n] < HighQC
          /\ node' = [node EXCEPT ![n] = nd] /\ state' = [state EXCEPT ![n] = HighQC]
      BY Zenon, <2>4 DEF HandlePrepare
    <3>2. node'[n] = nd /\ state'[n] = HighQC
      BY Zenon, <3>1 DEF TypeOK, RoundOK
    <3>3. Fixed(n)'
      BY <2>1, <2>4, <3>2 DEF Fixed, IsProposer, Proposer, HighQC
    <3>4. \A x \in msgs' \ msgs : x.view = view'[x.src] /\ SentOK(x)'
      <4> SUFFICES ASSUME NEW x \in msgs' \ msgs PROVE x.view = view'[x.src] /\ SentOK(x)'
        BY Zenon
      <4>1. x.code = "PrepareVote" /\ x.src = n /\ x.view = view'[n] /\ x.body = node'[n]
        BY <2>1, <3>1, <3>2, SendVoteStep DEF Message
      <4> QED
        BY Zenon, <3>3, <4>1, <1>SentNow
    <3>5. Keeps(n)
      BY <2>1, <3>1, <3>2, StateInt, <1>KeepsEarly DEF HighQC
    <3> QED
      BY Zenon, <3>1, <3>4, <3>5, SendVoteStep DEF SendsOK
  <2> QED
    BY Zenon, <2>3, <2>4
(* The pre-commit phase: votes go out in state Prepared. *)
<1>HandlePreCommitVotes.
  ASSUME TypeOK, TypeOK', NEW n \in Validators, NEW m \in msgs,
         HandlePrepareVote(n, m) \/ HandlePreCommit(n, m)
  PROVE  SendsOK(n)
  <2> USE <1>HandlePreCommitVotes
  <2>1. UNCHANGED <<view, lastChained, pendingRequest, lockedBlock, highQC, node>>
    BY Zenon DEF HandlePrepareVote, HandlePreCommit, roundVars, proposalVars
  <2>2. state'[n] = state[n] \/ (state[n] = HighQC /\ state'[n] = Prepared)
    BY Zenon DEF HandlePrepareVote, HandlePreCommit, TypeOK, RoundOK
  <2>3. state[n] \in Int /\ state'[n] \in Int /\ state'[n] >= state[n]
    BY <2>2, StateInt DEF HighQC, Prepared
  <2>4. Keeps(n)
    BY Zenon, <2>1, <2>3, <1>KeepsInRound
  <2>5. CASE HandlePrepareVote(n, m)
    <3>1. /\ msgs \subseteq msgs'
          /\ \A x \in msgs' \ msgs : x.code = "PreCommit" /\ x.src = n /\ x.view = view'[n]
      BY <2>1, <2>5 DEF HandlePrepareVote, Message
    <3>2. \A x \in msgs' \ msgs : x.view = view'[x.src] /\ SentOK(x)'
      BY Zenon, <3>1, <1>SentNow
    <3> QED
      BY Zenon, <2>4, <3>1, <3>2 DEF SendsOK
  <2>6. CASE HandlePreCommit(n, m)
    <3>1. SendVote(n, "PreCommitVote", node[n]) /\ state'[n] = Prepared
      BY Zenon, <2>6 DEF HandlePreCommit, TypeOK, RoundOK
    <3>2. state'[n] >= Prepared
      BY <3>1 DEF Prepared
    <3>3. \A x \in msgs' \ msgs :
            x.code = "PreCommitVote" /\ x.src = n /\ x.view = view'[n] /\ x.body = node'[n]
      BY <2>1, <3>1, SendVoteStep DEF Message
    <3> QED
      BY Zenon, <2>4, <3>1, <3>2, <3>3, SendVoteStep, <1>SentNow DEF SendsOK
  <2> QED
    BY Zenon, <2>5, <2>6
(* The commit phase: Commit and the votes for it go out from PreCommitted  *)
(* on; the leader is there since it sent Commit.                           *)
<1>HandleCommitVotes.
  ASSUME TypeOK, TypeOK', SafetyInv, VoteInv, NEW n \in Validators, NEW m \in msgs,
         HandlePreCommitVote(n, m) \/ HandleCommit(n, m)
  PROVE  SendsOK(n)
  <2> USE <1>HandleCommitVotes
  <2>1. UNCHANGED <<view, lastChained, pendingRequest, highQC, node>>
    BY Zenon DEF HandlePreCommitVote, HandleCommit, roundVars
  <2>2. \/ UNCHANGED <<lockedBlock, state>>
        \/ /\ state[n] < PreCommitted /\ state' = [state EXCEPT ![n] = PreCommitted]
           /\ \E qc : AcceptLockQC(n, qc)
    BY Zenon DEF HandlePreCommitVote, HandleCommit, AcceptLockQC
  <2>3. /\ state'[n] = state[n] \/ (state[n] < PreCommitted /\ state'[n] = PreCommitted)
        /\ lockedBlock'[n] = lockedBlock[n] \/ lockedBlock'[n] # Nil
    BY Zenon, <2>2, LockStep, NilAssumption DEF TypeOK, RoundOK
  <2>4. state[n] \in Int /\ state'[n] \in Int /\ state'[n] >= state[n]
    BY <2>3, StateInt DEF PreCommitted
  <2>5. Keeps(n)
    BY Zenon, <2>1, <2>3, <2>4, <1>KeepsInRound
  <2>6. CASE HandlePreCommitVote(n, m)
    <3>1. /\ msgs \subseteq msgs'
          /\ \A x \in msgs' \ msgs :
               /\ x.code = "Commit" /\ x.src = n /\ x.view = view'[n]
               /\ state'[n] = PreCommitted
      <4>1. \/ msgs' = msgs
            \/ /\ \E qc : msgs' = msgs \cup {Message(n, "Commit", qc)}
               /\ state' = [state EXCEPT ![n] = PreCommitted]
        BY Zenon, <2>6 DEF HandlePreCommitVote, AcceptLockQC
      <4>2. state' = [state EXCEPT ![n] = PreCommitted] => state'[n] = PreCommitted
        BY Zenon DEF TypeOK, RoundOK
      <4> QED
        BY <2>1, <4>1, <4>2 DEF Message
    <3>2. \A x \in msgs' \ msgs : state'[n] >= PreCommitted
      BY <3>1 DEF PreCommitted
    <3>3. \A x \in msgs' \ msgs : x.view = view'[x.src] /\ SentOK(x)'
      BY Zenon, <3>1, <3>2, <1>SentNow
    <3> QED
      BY Zenon, <2>5, <3>1, <3>3 DEF SendsOK
  <2>7. CASE HandleCommit(n, m)
    <3>1. state'[n] >= PreCommitted
      <4>1. CASE IsProposer(n)
        <5>1. m.code = "Commit" /\ m.src = n /\ m.body.view = view[n]
          BY Zenon, <2>7, <4>1 DEF HandleCommit, CheckView, CheckMsgSource, IsProposer
        <5>2. m.view = view[n]
          BY Zenon, <5>1 DEF SafetyInv, CommitSentLocked
        <5>3. ~Before(m.view, view[n])
          BY Zenon, <5>2, ViewsOfState, BeforeOrder
        <5>4. state[n] >= PreCommitted
          BY Zenon, <5>1, <5>3 DEF VoteInv, SentOK, InView
        <5> QED
          BY <2>4, <5>4 DEF PreCommitted
      <4>2. CASE ~IsProposer(n)
        <5>1. state' = [state EXCEPT ![n] = PreCommitted]
          BY Zenon, <2>7, <4>2 DEF HandleCommit, AcceptLockQC
        <5> QED
          BY <5>1, SMTT(20) DEF TypeOK, RoundOK, PreCommitted
      <4> QED
        BY Zenon, <4>1, <4>2
    <3>2. SendVote(n, "CommitVote", node[n])
      BY Zenon, <2>7 DEF HandleCommit
    <3>3. \A x \in msgs' \ msgs :
            x.code = "CommitVote" /\ x.src = n /\ x.view = view'[n] /\ x.body = node'[n]
      BY <2>1, <3>2, SendVoteStep DEF Message
    <3>4. \A x \in msgs' \ msgs : x.view = view'[x.src] /\ SentOK(x)'
      BY Zenon, <3>1, <3>3, <1>SentNow
    <3> QED
      BY Zenon, <2>5, <3>2, <3>4, SendVoteStep DEF SendsOK
  <2> QED
    BY Zenon, <2>6, <2>7
(* startNewRound sends a NewView of the view that it enters. *)
<1>EnterViewVotes.
  ASSUME TypeOK, TypeOK', SafetyInv, NEW n \in Validators, UNCHANGED highQC,
         CatchUp(n) \/ ChangeView(n, view[n].round + 1)
  PROVE  SendsOK(n)
  <2> USE <1>EnterViewVotes
  <2>1. PICK v \in Views, changeView \in BOOLEAN :
          EnterView(n, v, changeView) /\ Before(view[n], v)
    BY Zenon, EntersLaterView
  <2>2. /\ view'[n] = v
        /\ msgs' = msgs \cup {[code |-> "NewView", src |-> n, view |-> v, body |-> prepareQC[n]]}
    BY Zenon, <2>1, EnterViewStep
  <2>3. Keeps(n)
    BY Zenon, <2>1, <2>2 DEF Keeps
  <2>4. \A x \in msgs' \ msgs : x.code = "NewView" /\ x.src = n /\ x.view = view'[n]
    BY <2>2
  <2>5. \A x \in msgs' \ msgs : x.view = view'[x.src] /\ SentOK(x)'
    BY Zenon, <2>4, <1>SentNow
  <2> QED
    BY Zenon, <2>2, <2>3, <2>5 DEF SendsOK
(* Deciding and inserting blocks send no vote. *)
<1>HandleDecideVotes.
  ASSUME TypeOK, TypeOK', SafetyInv, NEW n \in Validators,
         \/ \E m \in msgs : HandleCommitVote(n, m) \/ HandleDecide(n, m)
         \/ \E b \in Blocks : InsertBlock(n, b)
         \/ Timeout(n) \/ FinalCommitted(n)
  PROVE  SendsOK(n)
  <2> USE <1>HandleDecideVotes
  <2>1. CASE UNCHANGED highQC /\ (CatchUp(n) \/ ChangeView(n, view[n].round + 1))
    BY Zenon, <2>1, <1>EnterViewVotes
  <2>2. ASSUME UNCHANGED <<view, lastChained, pendingRequest, highQC, node, lockedBlock>>,
               \/ state' = state
               \/ state[n] = PreCommitted /\ state' = [state EXCEPT ![n] = Committed]
        PROVE  Keeps(n)
    <3>1. state'[n] = state[n] \/ (state[n] = PreCommitted /\ state'[n] = Committed)
      BY Zenon, <2>2 DEF TypeOK, RoundOK
    <3>2. state[n] \in Int /\ state'[n] \in Int /\ state'[n] >= state[n]
      BY <3>1, StateInt, SMTT(20) DEF PreCommitted, Committed
    <3> QED
      BY Zenon, <2>2, <3>2, <1>KeepsInRound
  <2>3. ASSUME NEW m \in msgs, HandleCommitVote(n, m) PROVE SendsOK(n)
    <3>1. UNCHANGED <<view, lastChained, pendingRequest, highQC, node, lockedBlock>>
      BY Zenon, <2>3 DEF HandleCommitVote, roundVars, proposalVars
    <3>2. \/ state' = state
          \/ state[n] = PreCommitted /\ state' = [state EXCEPT ![n] = Committed]
      BY Zenon, <2>3 DEF HandleCommitVote
    <3>3. /\ msgs \subseteq msgs'
          /\ \A x \in msgs' \ msgs : x.code = "Decide" /\ x.src = n /\ x.view = view'[n]
      <4>1. msgs' = msgs \/ \E body : msgs' = msgs \cup {Message(n, "Decide", body)}
        BY Zenon, <2>3 DEF HandleCommitVote
      <4> QED
        BY <3>1, <4>1 DEF Message
    <3>4. \A x \in msgs' \ msgs : x.view = view'[x.src] /\ SentOK(x)'
      BY Zenon, <3>3, <1>SentNow
    <3> QED
      BY Zenon, <2>2, <3>1, <3>2, <3>3, <3>4 DEF SendsOK
  <2>4. ASSUME NEW m \in msgs, HandleDecide(n, m), ~CatchUp(n) PROVE SendsOK(n)
    <3>1. UNCHANGED <<view, lastChained, pendingRequest, highQC, node, lockedBlock, msgs>>
      BY Zenon, <2>4 DEF HandleDecide, roundVars, proposalVars
    <3>2. \/ state' = state
          \/ state[n] = PreCommitted /\ state' = [state EXCEPT ![n] = Committed]
      BY Zenon, <2>4 DEF HandleDecide
    <3> QED
      BY Zenon, <2>2, <3>1, <3>2 DEF SendsOK
  <2>5. ASSUME NEW b \in Blocks, InsertBlock(n, b) PROVE SendsOK(n)
    BY Zenon, <2>2, <2>5 DEF InsertBlock, roundVars, proposalVars, certVars, SendsOK
  <2>6. ASSUME NEW m \in msgs, HandleDecide(n, m) PROVE UNCHANGED highQC
    BY Zenon, <2>6 DEF HandleDecide
  <2>7. ASSUME Timeout(n) \/ FinalCommitted(n)
        PROVE  UNCHANGED highQC /\ (CatchUp(n) \/ ChangeView(n, view[n].round + 1))
    BY Zenon, <2>7 DEF Timeout, FinalCommitted
  <2> QED
    BY Zenon, <2>1, <2>3, <2>4, <2>5, <2>6, <2>7
<1> QED
  BY Zenon, <1>HandleNewViewVotes, <1>HandleRequestVotes, <1>HandlePrepareVotes, <1>HandlePreCommitVotes,
     <1>HandleCommitVotes, <1>HandleDecideVotes DEF StepOf, HandleMessage

LEMMA VoteInit == Init => VoteInv
<1> SUFFICES ASSUME Init PROVE VoteInv
  BY Zenon
<1>1. \A m \in msgs : m.code = "NewView" /\ m.src \in Validators /\ m.view = view[m.src]
  <2>1. \E v, qc : /\ view = [n \in Validators |-> v]
                   /\ msgs = {[code |-> "NewView", src |-> n, view |-> v, body |-> qc] :
                                n \in Validators}
    BY Zenon DEF Init
  <2> QED
    BY <2>1
<1>2. \A m \in msgs : SentOK(m)
  BY Zenon, <1>1 DEF SentOK, InView
<1>3. Votes = {}
  BY Zenon, <1>1 DEF Votes, VoteCodes
<1> QED
  BY Zenon, <1>2, <1>3 DEF VoteInv, OneVotePerPhase

LEMMA VoteNext ==
  ASSUME TypeOK, TypeOK', SafetyInv, VoteInv, [Next]_vars PROVE VoteInv'
(* A message already sent still agrees with its sender. *)
<1>SentKept.
  ASSUME TypeOK, TypeOK', NEW m \in msgs, SentOK(m), Keeps(m.src)
  PROVE  SentOK(m)'
  <2> USE <1>SentKept
  <2> DEFINE p == m.src
  <2>1. p \in Validators /\ m.view \in AllViews /\ view[p] \in AllViews /\ view'[p] \in AllViews
    BY Zenon, ViewsOfState DEF TypeOK, RoundOK, Views, AllViews
  <2>2. Before(m.view, view[p]) \/ m.view = view[p]
    BY Zenon DEF SentOK, InView
  <2>3. CASE Before(m.view, view'[p])
    BY Zenon, <2>3 DEF SentOK, InView
  <2>4. CASE ~Before(m.view, view'[p])
    <3>1. view'[p] = view[p] /\ m.view = view[p] /\ ~Before(m.view, view[p])
      BY Zenon, <2>1, <2>2, <2>4, BeforeOrder DEF Keeps
    <3>2. ~Before(view[p], view'[p])
      BY Zenon, <3>1
    <3>3. /\ state'[p] >= state[p]
          /\ Fixed(p) => Fixed(p)' /\ node'[p] = node[p]
          /\ state[p] >= Prepared => node'[p] = node[p]
      BY Zenon, <3>2 DEF Keeps
    <3>4. state[p] \in Int /\ state'[p] \in Int
      BY <2>1, SMTT(20) DEF TypeOK, RoundOK, AcceptRequest, Committed
    <3>5. m.code = "Prepare" => Fixed(p)' /\ node'[p] = m.body.node
      BY Zenon, <3>1, <3>3 DEF SentOK, InView
    <3>6. m.code = "PrepareVote" => Fixed(p)' /\ node'[p] = m.body
      BY Zenon, <3>1, <3>3 DEF SentOK, InView
    <3>7. m.code = "PreCommitVote" => state'[p] >= Prepared /\ node'[p] = m.body
      BY <3>1, <3>3, <3>4 DEF SentOK, InView, Prepared
    <3>8. m.code = "CommitVote" => state'[p] >= PreCommitted /\ node'[p] = m.body
      BY <3>1, <3>3, <3>4, SMTT(20) DEF SentOK, InView, PreCommitted, Prepared
    <3>9. m.code = "Commit" => state'[p] >= PreCommitted
      BY <3>1, <3>3, <3>4 DEF SentOK, InView, PreCommitted
    <3> QED
      BY Zenon, <3>1, <3>5, <3>6, <3>7, <3>8, <3>9 DEF SentOK, InView
  <2> QED
    BY Zenon, <2>3, <2>4
(* Votes stay unique when what is added agrees with its sender. *)
<1>VotesStep.
  ASSUME TypeOK, TypeOK', VoteInv, msgs \subseteq msgs',
         \A p \in Validators : Keeps(p),
         \A m \in msgs' \ msgs : m.view = view'[m.src] /\ SentOK(m)'
  PROVE  VoteInv'
  <2> USE <1>VotesStep
  <2>1. \A m \in msgs' : SentOK(m)'
    BY Zenon, <1>SentKept, ViewsOfState DEF VoteInv
  <2>2. \A m \in msgs' : m.src \in Validators /\ m.view \in AllViews
    BY Zenon DEF TypeOK, MessageOK, Views, AllViews
  <2>3. ASSUME NEW x \in Votes', NEW y \in Votes', x \notin msgs,
               x.src = y.src, x.view = y.view, x.code = y.code
        PROVE  x.body = y.body
    <3>1. x \in msgs' /\ y \in msgs' /\ x.code \in VoteCodes
      BY Zenon DEF Votes
    <3>2. y.view = view'[y.src] /\ ~Before(y.view, y.view)
      BY Zenon, <2>2, <2>3, <3>1, BeforeOrder
    <3>3. y.body = node'[y.src]
      BY Zenon, <2>1, <2>3, <3>1, <3>2 DEF SentOK, InView, VoteCodes
    <3>4. x.body = node'[x.src]
      BY Zenon, <2>1, <2>3, <3>1, <3>2 DEF SentOK, InView, VoteCodes
    <3> QED
      BY Zenon, <2>3, <3>3, <3>4
  <2>4. ASSUME NEW x \in Votes', NEW y \in Votes', x \in msgs, y \in msgs,
               x.src = y.src, x.view = y.view, x.code = y.code
        PROVE  x.body = y.body
    BY Zenon, <2>4 DEF VoteInv, OneVotePerPhase, Votes
  <2>5. OneVotePerPhase'
    BY Zenon, <2>3, <2>4 DEF OneVotePerPhase
  <2> QED
    BY Zenon, <2>1, <2>5 DEF VoteInv
<1>SameKeeps.
  ASSUME TypeOK, NEW p \in Validators, Same(p) PROVE Keeps(p)
  <2> USE <1>SameKeeps
  <2>1. state[p] \in Int
    BY DEF TypeOK, RoundOK, AcceptRequest, Committed
  <2>2. Fixed(p)' <=> Fixed(p)
    BY Zenon DEF Same, Fixed, IsProposer, Proposer
  <2> QED
    BY <2>1, <2>2 DEF Same, Keeps
<1>1. CASE UNCHANGED vars
  <2>1. UNCHANGED <<view, lastChained, state, pendingRequest, node, lockedBlock, highQC,
                    prepareQC, lockQC, newViews, msgs>>
    BY Zenon, <1>1 DEF vars, proposalVars, certVars, voteVars, roundVars
  <2>2. \A p \in Validators : Keeps(p)
    BY Zenon, <2>1, <1>SameKeeps DEF Same
  <2> QED
    BY Zenon, <2>1, <2>2, <1>VotesStep
<1>2. ASSUME NEW n \in Validators, StepOf(n) PROVE VoteInv'
  <2>1. SendsOK(n)
    BY Zenon, <1>2, StepSendsOK
  <2>2. \A p \in Validators : Keeps(p)
    BY Zenon, <1>2, <2>1, OthersSame, <1>SameKeeps DEF SendsOK
  <2> QED
    BY Zenon, <2>1, <2>2, <1>VotesStep DEF SendsOK
<1> QED
  BY Zenon, <1>1, <1>2, NextIsStepOf

---------------------------------------------------------------------------
(* Certificates are backed by quorums and advance                          *)

(* The certificate in a message. *)
Carried(m) ==
  {qc \in {m.body} : m.code \in {"NewView", "PreCommit", "Commit"}}
    \cup {qc \in {m.body.qc} : m.code \in {"Prepare", "Decide"}}

LEMMA CarriedCertificates ==
  \A qc : qc \in Certificates <=> \E m \in msgs : qc \in Carried(m)
BY Zenon DEF Certificates, Carried

(* A validator keeps its prepareQC or takes one of its view and proposal. *)
PrepareQCStep(n) ==
  \/ /\ prepareQC'[n] = prepareQC[n]
     /\ state'[n] = Prepared =>
          state[n] = Prepared /\ view'[n] = view[n] /\ node'[n] = node[n]
  \/ /\ view'[n] = view[n] /\ node'[n] = node[n]
     /\ state[n] = HighQC /\ state'[n] = Prepared
     /\ \E qc : /\ prepareQC'[n] = qc /\ qc.view = view[n] /\ qc.node = node[n]
                /\ CertOK(qc, "PrepareVote") /\ (qc.signed => Backed(qc)')

(* It keeps its lockQC or takes one of its view. *)
LockQCStep(n) ==
  \/ /\ lockQC'[n] = lockQC[n]
     /\ \/ Before(view[n], view'[n])
        \/ view'[n] = view[n] /\ (state'[n] < PreCommitted => state[n] < PreCommitted)
  \/ /\ view'[n] = view[n] /\ state'[n] = PreCommitted
     /\ \E qc : /\ lockQC'[n] = qc /\ qc # NoQC /\ qc.view = view[n]
                /\ CertOK(qc, "PreCommitVote") /\ (qc.signed => Backed(qc)')

(* What it sends carries certificates of quorums, its NewViews the         *)
(* prepareQC, and its pre-commit votes are for the proposal it prepared.   *)
MessagesStep(n) ==
  \A m \in msgs' \ msgs :
    /\ m.src = n /\ m.view = view'[n]
    /\ CertificateOK(m)
    /\ \A qc \in Carried(m) : qc.signed => Backed(qc)'
    /\ m.code = "NewView" => m.body = prepareQC[n]
    /\ m.code = "PreCommitVote" => state'[n] = Prepared /\ m.body = node'[n]

CertStep(n) ==
  /\ PrepareQCStep(n)
  /\ LockQCStep(n)
  /\ highQC'[n] = highQC[n] \/ highQC'[n] \in Certificates
  /\ MessagesStep(n)

LEMMA BackedLasts ==
  ASSUME msgs \subseteq msgs', NEW qc, Backed(qc) PROVE Backed(qc)'
BY DEF Backed, Votes

(* The certificate of a message that was sent. *)
LEMMA CarriedBacked ==
  ASSUME BackedInv, msgs \subseteq msgs', NEW m \in msgs, NEW qc \in Carried(m), qc.signed
  PROVE  Backed(qc)'
<1>1. qc \in Certificates
  BY Zenon, CarriedCertificates
<1> QED
  BY Zenon, <1>1, BackedLasts DEF BackedInv

LEMMA StepCerts ==
  ASSUME TypeOK, SafetyInv, BackedInv, NEW self \in Validators, StepOf(self) PROVE CertStep(self)
(* messagesToQC: the votes that BLSRecoverAggSig accepts are a quorum's. *)
<1>QuorumBacks.
  ASSUME TypeOK, NEW n \in Validators, NEW code \in VoteCodes, NEW votes,
         \A m \in votes : m \in msgs /\ m.code = code, BLSRecover(n, votes)
  PROVE  \E qc : /\ qc = MessagesToQC(n, code) /\ Backed(qc)
                 /\ qc.code = code /\ qc.view = view[n] /\ qc.node = node[n]
                 /\ qc.signed /\ CertOK(qc, code)
  <2> USE <1>QuorumBacks
  <2> DEFINE qc == MessagesToQC(n, code)
             valid == {m \in votes : m.view = view[n] /\ m.body = node[n]}
             S == {m.src : m \in valid}
  <2>1. /\ qc.code = code /\ qc.view = view[n] /\ qc.node = node[n] /\ qc.signed = TRUE
    BY Zenon DEF MessagesToQC
  <2>2. Cardinality(S) >= Q
    BY Zenon DEF BLSRecover
  <2>3. S \in SUBSET Validators
    BY Zenon DEF TypeOK, MessageOK
  <2>4. \A m \in valid :
          m \in Votes /\ m.code = qc.code /\ m.view = qc.view /\ m.body = qc.node
    BY Zenon, <2>1 DEF Votes
  <2> HIDE DEF qc, valid
  <2>5. \A p \in S : \E m \in Votes :
          m.src = p /\ m.code = qc.code /\ m.view = qc.view /\ m.body = qc.node
    BY Zenon, <2>4
  <2> HIDE DEF S
  <2>6. Backed(qc)
    BY Zenon, <2>2, <2>3, <2>5 DEF Backed
  <2>7. CertOK(qc, code)
    BY Zenon, <2>1 DEF CertOK
  <2> QED
    BY Zenon, <2>1, <2>6, <2>7 DEF qc
(* A step that touches neither certificate and sends nothing. *)
<1>QuietCerts.
  ASSUME NEW n, prepareQC'[n] = prepareQC[n], lockQC'[n] = lockQC[n],
         highQC'[n] = highQC[n], UNCHANGED <<view, node>>,
         state[n] \in Int, state'[n] \in Int, state'[n] >= state[n],
         state'[n] = Prepared => state[n] = Prepared, MessagesStep(n)
  PROVE  CertStep(n)
  BY <1>QuietCerts, SMTT(20) DEF CertStep, PrepareQCStep, LockQCStep, PreCommitted
<1>NothingSent.
  ASSUME NEW n, UNCHANGED msgs PROVE MessagesStep(n)
  BY Zenon, <1>NothingSent DEF MessagesStep
(* A message without certificate. *)
<1>VoteSent.
  ASSUME NEW n, NEW code \in VoteCodes, NEW nd, SendVote(n, code, nd), UNCHANGED view,
         code = "PreCommitVote" => state'[n] = Prepared /\ nd = node'[n]
  PROVE  MessagesStep(n)
  <2> USE <1>VoteSent
  <2> SUFFICES ASSUME NEW m \in msgs' \ msgs
               PROVE  /\ m.src = n /\ m.view = view'[n]
                      /\ CertificateOK(m)
                      /\ \A qc \in Carried(m) : qc.signed => Backed(qc)'
                      /\ m.code = "NewView" => m.body = prepareQC[n]
                      /\ m.code = "PreCommitVote" => state'[n] = Prepared /\ m.body = node'[n]
    BY Zenon DEF MessagesStep
  <2>1. m.src = n /\ m.view = view'[n] /\ m.code = code /\ m.body = nd
    BY SendVoteStep DEF Message
  <2>2. m.code \in VoteCodes
    BY Zenon, <2>1
  <2>3. CertificateOK(m) /\ Carried(m) = {}
    BY Zenon, <2>2 DEF CertificateOK, Carried, VoteCodes
  <2> QED
    BY Zenon, <2>1, <2>2, <2>3 DEF VoteCodes
(* One message with one certificate, which a quorum backs. *)
<1>CertSent.
  ASSUME NEW n, NEW x, NEW qc, msgs' \subseteq msgs \cup {x}, x.src = n, x.view = view'[n],
         CertificateOK(x), Carried(x) = {qc}, qc.signed => Backed(qc)',
         x.code # "PreCommitVote", x.code = "NewView" => x.body = prepareQC[n]
  PROVE  MessagesStep(n)
  <2> USE <1>CertSent
  <2>1. \A m \in msgs' \ msgs : m = x
    BY Zenon
  <2> QED
    BY Zenon, <2>1 DEF MessagesStep
(* sendPrepare sends the certificate it is given. *)
<1>SendPrepareCerts.
  ASSUME NEW n, NEW qc, NEW request, SendPrepare(n, qc, request), UNCHANGED view,
         qc.signed => Backed(qc)'
  PROVE  MessagesStep(n)
  <2> USE <1>SendPrepareCerts
  <2>1. CASE UNCHANGED msgs
    BY Zenon, <2>1, <1>NothingSent
  <2>2. CASE ~UNCHANGED msgs
    <3>1. PICK nd : msgs' = msgs \cup {Message(n, "Prepare", [node |-> nd, qc |-> qc])}
      BY Zenon, <2>2 DEF SendPrepare
    <3>2. PICK x : x = Message(n, "Prepare", [node |-> nd, qc |-> qc])
      BY Zenon
    <3>3. x.code = "Prepare" /\ x.src = n /\ x.view = view'[n] /\ x.body.qc = qc
      BY Zenon, <3>2 DEF Message
    <3>4. CertificateOK(x) /\ Carried(x) = {qc}
      BY Zenon, <3>3 DEF CertificateOK, Carried
    <3> QED
      BY Zenon, <3>1, <3>2, <3>3, <3>4, <1>CertSent
  <2> QED
    BY Zenon, <2>1, <2>2
<1>HandleNewViewCerts.
  ASSUME TypeOK, BackedInv, NEW n \in Validators, NEW m \in msgs, HandleNewView(n, m)
  PROVE  CertStep(n)
  <2> USE <1>HandleNewViewCerts
  <2> DEFINE received == Add(newViews[n], m)
  <2>1. UNCHANGED <<view, prepareQC, lockQC>>
    BY Zenon DEF HandleNewView, roundVars
  <2>2. \A x \in received : x \in msgs /\ x.code = "NewView"
    BY Zenon DEF TypeOK, VotesOK, HandleNewView, Add
  <2>3. CASE UNCHANGED <<highQC, node, state, msgs>>
    BY <2>1, <2>3, StateInt, <1>QuietCerts, <1>NothingSent
  <2>4. CASE ~UNCHANGED <<highQC, node, state, msgs>>
    <3>1. PICK qc : /\ \E x \in received : qc = x.body
                    /\ highQC' = [highQC EXCEPT ![n] = qc]
                    /\ SendPrepare(n, qc, pendingRequest[n])
                    /\ state[n] < HighQC /\ state' = [state EXCEPT ![n] = HighQC]
      BY Zenon, <2>4 DEF HandleNewView
    <3>2. \E x \in msgs : qc \in Carried(x)
      BY Zenon, <2>2, <3>1 DEF Carried
    <3>3. qc \in Certificates /\ highQC'[n] = qc
      BY Zenon, <3>1, <3>2, CarriedCertificates DEF TypeOK, CertificatesOK
    <3>4. msgs \subseteq msgs'
      BY Zenon, <3>1 DEF SendPrepare
    <3>5. MessagesStep(n)
      BY Zenon, <2>1, <3>1, <3>2, <3>4, CarriedBacked, <1>SendPrepareCerts
    <3>6. state'[n] = HighQC
      BY Zenon, <3>1 DEF TypeOK, RoundOK
    <3>7. PrepareQCStep(n)
      BY <2>1, <3>6 DEF PrepareQCStep, HighQC, Prepared
    <3>8. LockQCStep(n)
      BY <2>1, <3>1, StateInt DEF LockQCStep, HighQC, PreCommitted
    <3> QED
      BY Zenon, <3>3, <3>5, <3>7, <3>8 DEF CertStep
  <2> QED
    BY Zenon, <2>3, <2>4
<1>HandleRequestCerts.
  ASSUME TypeOK, BackedInv, NEW n \in Validators, NEW b \in Blocks, HandleRequest(n, b)
  PROVE  CertStep(n)
  <2> USE <1>HandleRequestCerts
  <2>1. UNCHANGED <<view, prepareQC, lockQC, highQC, state>>
    BY Zenon DEF HandleRequest, roundVars, certVars
  <2>2. CASE UNCHANGED <<node, msgs>>
    BY <2>1, <2>2, StateInt, <1>QuietCerts, <1>NothingSent
  <2>3. CASE ~UNCHANGED <<node, msgs>>
    <3>1. SendPrepare(n, highQC[n], b) /\ state[n] = HighQC
      BY Zenon, <2>3 DEF HandleRequest
    <3>2. IsProposer(n) /\ msgs \subseteq msgs'
      BY Zenon, <2>3, <3>1 DEF SendPrepare
    <3>3. highQC[n] # NoQC
      BY <3>1, <3>2 DEF TypeOK, HighQCReady, IsQC, NoQC, VoteCodes
    <3>4. PICK qc : qc = highQC[n]
      BY Zenon
    <3>5. qc.signed => Backed(qc)
      BY <3>3, <3>4 DEF BackedInv, Held
    <3>6. MessagesStep(n)
      BY Zenon, <2>1, <3>1, <3>2, <3>4, <3>5, BackedLasts, <1>SendPrepareCerts
    <3>7. PrepareQCStep(n) /\ LockQCStep(n)
      BY <2>1, <3>1, SMTT(20) DEF PrepareQCStep, LockQCStep, HighQC, Prepared
    <3> QED
      BY Zenon, <2>1, <3>6, <3>7 DEF CertStep
  <2> QED
    BY Zenon, <2>2, <2>3
<1>HandlePrepareCerts.
  ASSUME TypeOK, NEW n \in Validators, NEW m \in msgs, HandlePrepare(n, m)
  PROVE  CertStep(n)
  <2> USE <1>HandlePrepareCerts
  <2>1. UNCHANGED <<view, prepareQC, lockQC, highQC>>
    BY Zenon DEF HandlePrepare, roundVars, certVars
  <2>2. \E nd : SendVote(n, "PrepareVote", nd)
    BY Zenon DEF HandlePrepare
  <2>3. MessagesStep(n)
    BY Zenon, <2>1, <2>2, <1>VoteSent DEF VoteCodes
  <2>4. \/ UNCHANGED <<node, state>>
        \/ state[n] < HighQC /\ state'[n] = HighQC
    BY Zenon DEF HandlePrepare, TypeOK, RoundOK
  <2>5. PrepareQCStep(n)
    BY <2>1, <2>4, SMTT(20) DEF PrepareQCStep, HighQC, Prepared
  <2>6. LockQCStep(n)
    BY <2>1, <2>4, StateInt DEF LockQCStep, HighQC, PreCommitted
  <2> QED
    BY Zenon, <2>1, <2>3, <2>5, <2>6 DEF CertStep
(* The leader's prepareQC is backed by the votes it has counted. *)
<1>HandlePrepareVoteCerts.
  ASSUME TypeOK, NEW n \in Validators, NEW m \in msgs, HandlePrepareVote(n, m)
  PROVE  CertStep(n)
  <2> USE <1>HandlePrepareVoteCerts
  <2> DEFINE votes == Add(prepareVotes[n], m)
  <2>1. UNCHANGED <<view, node, lockQC, highQC>>
    BY Zenon DEF HandlePrepareVote, roundVars, proposalVars
  <2>2. CASE UNCHANGED <<prepareQC, state, msgs>>
    BY <2>1, <2>2, StateInt, <1>QuietCerts, <1>NothingSent
  <2>3. CASE ~UNCHANGED <<prepareQC, state, msgs>>
    <3>1. /\ BLSRecover(n, votes) /\ state[n] = HighQC
          /\ prepareQC' = [prepareQC EXCEPT ![n] = MessagesToQC(n, "PrepareVote")]
          /\ state' = [state EXCEPT ![n] = Prepared]
          /\ msgs' = msgs \cup {Message(n, "PreCommit", MessagesToQC(n, "PrepareVote"))}
      BY Zenon, <2>3 DEF HandlePrepareVote
    <3>2. \A x \in votes : x \in msgs /\ x.code = "PrepareVote"
      BY Zenon DEF TypeOK, VotesOK, HandlePrepareVote, Add
    <3> HIDE DEF votes
    <3>3. PICK qc : /\ qc = MessagesToQC(n, "PrepareVote") /\ Backed(qc)
                    /\ qc.view = view[n] /\ qc.node = node[n] /\ CertOK(qc, "PrepareVote")
      BY Zenon, <3>1, <3>2, <1>QuorumBacks DEF VoteCodes
    <3>4. Backed(qc)'
      BY Zenon, <3>1, <3>3, BackedLasts
    <3>5. prepareQC'[n] = qc /\ state'[n] = Prepared
      BY Zenon, <3>1, <3>3 DEF TypeOK, RoundOK, CertificatesOK
    <3>6. MessagesStep(n)
      <4>1. PICK x : x = Message(n, "PreCommit", qc)
        BY Zenon
      <4>2. x.code = "PreCommit" /\ x.src = n /\ x.view = view[n] /\ x.body = qc
        BY Zenon, <4>1 DEF Message
      <4>3. CertificateOK(x) /\ Carried(x) = {qc}
        BY Zenon, <3>3, <4>2 DEF CertificateOK, Carried
      <4> QED
        BY Zenon, <2>1, <3>1, <3>3, <3>4, <4>1, <4>2, <4>3, <1>CertSent
    <3>7. PrepareQCStep(n)
      BY Zenon, <2>1, <3>1, <3>3, <3>4, <3>5 DEF PrepareQCStep
    <3>8. LockQCStep(n)
      BY <2>1, <3>1, <3>5 DEF LockQCStep, HighQC, PreCommitted
    <3> QED
      BY Zenon, <2>1, <3>6, <3>7, <3>8 DEF CertStep
  <2> QED
    BY Zenon, <2>2, <2>3
(* A replica takes the prepareQC of its leader. *)
<1>HandlePreCommitCerts.
  ASSUME TypeOK, BackedInv, NEW n \in Validators, NEW m \in msgs, HandlePreCommit(n, m)
  PROVE  CertStep(n)
  <2> USE <1>HandlePreCommitCerts
  <2>1. UNCHANGED <<view, node, lockQC, highQC>>
    BY Zenon DEF HandlePreCommit, roundVars, proposalVars
  <2>2. SendVote(n, "PreCommitVote", node[n]) /\ state'[n] = Prepared
    BY Zenon DEF HandlePreCommit, TypeOK, RoundOK
  <2>3. MessagesStep(n)
    BY Zenon, <2>1, <2>2, <1>VoteSent DEF VoteCodes
  <2>4. m.code = "PreCommit" /\ m.body.view = view[n] /\ CertOK(m.body, "PrepareVote")
    BY Zenon DEF HandlePreCommit, CheckView, BackedInv, CertificateOK
  <2>5. m.body.view.height # 0
    BY Zenon, <2>4 DEF TypeOK, RoundOK, Views
  <2>6. m.body.node = node[n]
    BY Zenon, <2>4, <2>5 DEF HandlePreCommit, VerifyQC
  <2>7. msgs \subseteq msgs'
    BY Zenon, <2>2, SendVoteStep
  <2>8. m.body.signed => Backed(m.body)'
    <3>1. m.body \in Carried(m)
      BY Zenon, <2>4 DEF Carried
    <3> QED
      BY Zenon, <2>7, <3>1, CarriedBacked
  <2>9. \/ UNCHANGED prepareQC /\ state[n] = Prepared
        \/ prepareQC'[n] = m.body /\ state[n] = HighQC
    BY Zenon DEF HandlePreCommit, TypeOK, CertificatesOK
  <2>10. PrepareQCStep(n)
    BY Zenon, <2>1, <2>2, <2>4, <2>6, <2>8, <2>9 DEF PrepareQCStep
  <2>11. LockQCStep(n)
    BY <2>1, <2>2, <2>9 DEF LockQCStep, HighQC, Prepared, PreCommitted
  <2> QED
    BY Zenon, <2>1, <2>3, <2>10, <2>11 DEF CertStep
(* The leader's lockQC is backed by the votes it has counted. *)
<1>HandlePreCommitVoteCerts.
  ASSUME TypeOK, NEW n \in Validators, NEW m \in msgs, HandlePreCommitVote(n, m)
  PROVE  CertStep(n)
  <2> USE <1>HandlePreCommitVoteCerts
  <2> DEFINE votes == Add(preCommitVotes[n], m)
  <2>1. UNCHANGED <<view, node, prepareQC, highQC>>
    BY Zenon DEF HandlePreCommitVote, roundVars
  <2>2. CASE UNCHANGED <<lockQC, state, msgs>>
    BY <2>1, <2>2, StateInt, <1>QuietCerts, <1>NothingSent
  <2>3. CASE ~UNCHANGED <<lockQC, state, msgs>>
    <3>1. /\ BLSRecover(n, votes)
          /\ lockQC' = [lockQC EXCEPT ![n] = MessagesToQC(n, "PreCommitVote")]
          /\ state' = [state EXCEPT ![n] = PreCommitted]
          /\ msgs' = msgs \cup {Message(n, "Commit", MessagesToQC(n, "PreCommitVote"))}
      BY Zenon, <2>3 DEF HandlePreCommitVote, AcceptLockQC
    <3>2. \A x \in votes : x \in msgs /\ x.code = "PreCommitVote"
      BY Zenon DEF TypeOK, VotesOK, HandlePreCommitVote, Add
    <3> HIDE DEF votes
    <3>3. PICK qc : /\ qc = MessagesToQC(n, "PreCommitVote") /\ Backed(qc)
                    /\ qc.view = view[n] /\ CertOK(qc, "PreCommitVote")
      BY Zenon, <3>1, <3>2, <1>QuorumBacks DEF VoteCodes
    <3>4. Backed(qc)' /\ qc # NoQC
      BY <3>1, <3>3, BackedLasts DEF CertOK, NoQC
    <3>5. lockQC'[n] = qc /\ state'[n] = PreCommitted
      BY Zenon, <3>1, <3>3 DEF TypeOK, RoundOK, CertificatesOK
    <3>6. MessagesStep(n)
      <4>1. PICK x : x = Message(n, "Commit", qc)
        BY Zenon
      <4>2. x.code = "Commit" /\ x.src = n /\ x.view = view[n] /\ x.body = qc
        BY Zenon, <4>1 DEF Message
      <4>3. CertificateOK(x) /\ Carried(x) = {qc}
        BY Zenon, <3>3, <4>2 DEF CertificateOK, Carried
      <4> QED
        BY Zenon, <2>1, <3>1, <3>3, <3>4, <4>1, <4>2, <4>3, <1>CertSent
    <3>7. PrepareQCStep(n)
      BY <2>1, <3>5 DEF PrepareQCStep, PreCommitted, Prepared
    <3>8. LockQCStep(n)
      BY Zenon, <2>1, <3>3, <3>4, <3>5 DEF LockQCStep
    <3> QED
      BY Zenon, <2>1, <3>6, <3>7, <3>8 DEF CertStep
  <2> QED
    BY Zenon, <2>2, <2>3
(* A replica takes the lockQC of its leader. *)
<1>HandleCommitCerts.
  ASSUME TypeOK, BackedInv, NEW n \in Validators, NEW m \in msgs, HandleCommit(n, m)
  PROVE  CertStep(n)
  <2> USE <1>HandleCommitCerts
  <2>1. UNCHANGED <<view, node, prepareQC, highQC>>
    BY Zenon DEF HandleCommit, roundVars
  <2>2. SendVote(n, "CommitVote", node[n])
    BY Zenon DEF HandleCommit
  <2>3. MessagesStep(n)
    BY Zenon, <2>1, <2>2, <1>VoteSent DEF VoteCodes
  <2>4. m.code = "Commit" /\ m.body.view = view[n] /\ CertOK(m.body, "PreCommitVote")
    BY Zenon DEF HandleCommit, CheckView, BackedInv, CertificateOK
  <2>5. m.body.signed => Backed(m.body)'
    <3>1. m.body \in Carried(m) /\ msgs \subseteq msgs'
      BY Zenon, <2>2, <2>4, SendVoteStep DEF Carried
    <3> QED
      BY Zenon, <3>1, CarriedBacked
  <2>6. m.body # NoQC
    BY <2>4 DEF CertOK, NoQC
  <2>7. \/ UNCHANGED <<lockQC, state>>
        \/ lockQC'[n] = m.body /\ state'[n] = PreCommitted
    BY Zenon DEF HandleCommit, AcceptLockQC, TypeOK, RoundOK, CertificatesOK
  <2>8. PrepareQCStep(n)
    BY <2>1, <2>7 DEF PrepareQCStep, PreCommitted, Prepared
  <2>9. LockQCStep(n)
    BY Zenon, <2>1, <2>4, <2>5, <2>6, <2>7 DEF LockQCStep
  <2> QED
    BY Zenon, <2>1, <2>3, <2>8, <2>9 DEF CertStep
(* Neither certificate changes in the decide phase. *)
<1>DecidePhaseCerts.
  ASSUME TypeOK, NEW n \in Validators, UNCHANGED <<view, node, prepareQC, lockQC, highQC>>,
         \/ state' = state
         \/ state[n] = PreCommitted /\ state' = [state EXCEPT ![n] = Committed],
         MessagesStep(n)
  PROVE  CertStep(n)
  <2> USE <1>DecidePhaseCerts
  <2>1. state'[n] = state[n] \/ (state[n] = PreCommitted /\ state'[n] = Committed)
    BY Zenon DEF TypeOK, RoundOK
  <2>2. state[n] \in Int /\ state'[n] \in Int /\ state'[n] >= state[n]
    BY <2>1, StateInt DEF PreCommitted, Committed
  <2>3. state'[n] = Prepared => state[n] = Prepared
    BY <2>1 DEF Prepared, Committed
  <2> QED
    BY Zenon, <2>2, <2>3, <1>QuietCerts
<1>HandleCommitVoteCerts.
  ASSUME TypeOK, NEW n \in Validators, NEW m \in msgs, HandleCommitVote(n, m)
  PROVE  CertStep(n)
  <2> USE <1>HandleCommitVoteCerts
  <2> DEFINE votes == Add(commitVotes[n], m)
             certificate == MessagesToQC(n, "CommitVote")
             body == [block |-> lockedBlock[n], qc |-> certificate]
  <2>1. UNCHANGED <<view, node, prepareQC, lockQC, highQC>>
    BY Zenon DEF HandleCommitVote, roundVars, proposalVars
  <2>2. \/ state' = state
        \/ state[n] = PreCommitted /\ state' = [state EXCEPT ![n] = Committed]
    BY Zenon DEF HandleCommitVote
  <2>3. CASE UNCHANGED msgs
    BY Zenon, <2>1, <2>2, <2>3, <1>DecidePhaseCerts, <1>NothingSent
  <2>4. CASE ~UNCHANGED msgs
    <3>1. BLSRecover(n, votes) /\ msgs' = msgs \cup {Message(n, "Decide", body)}
      BY Zenon, <2>4 DEF HandleCommitVote
    <3>2. \A x \in votes : x \in msgs /\ x.code = "CommitVote"
      BY Zenon DEF TypeOK, VotesOK, HandleCommitVote, Add
    <3> HIDE DEF votes
    <3>3. PICK qc : qc = certificate /\ Backed(qc)
      BY Zenon, <3>1, <3>2, <1>QuorumBacks DEF VoteCodes
    <3>4. Backed(qc)'
      BY Zenon, <3>1, <3>3, BackedLasts
    <3>5. MessagesStep(n)
      <4>1. PICK x : x = Message(n, "Decide", body)
        BY Zenon
      <4>2. x.code = "Decide" /\ x.src = n /\ x.view = view[n] /\ x.body.qc = qc
        BY Zenon, <3>3, <4>1 DEF Message
      <4>3. CertificateOK(x) /\ Carried(x) = {qc}
        BY Zenon, <4>2 DEF CertificateOK, Carried
      <4> QED
        BY Zenon, <2>1, <3>1, <3>4, <4>1, <4>2, <4>3, <1>CertSent
    <3> QED
      BY Zenon, <2>1, <2>2, <3>5, <1>DecidePhaseCerts
  <2> QED
    BY Zenon, <2>3, <2>4
(* The NewView carries the prepareQC of the validator. *)
<1>EnterViewCerts.
  ASSUME TypeOK, SafetyInv, BackedInv, NEW n \in Validators, UNCHANGED highQC,
         CatchUp(n) \/ ChangeView(n, view[n].round + 1)
  PROVE  CertStep(n)
  <2> USE <1>EnterViewCerts
  <2>1. PICK v \in Views, changeView \in BOOLEAN :
          EnterView(n, v, changeView) /\ Before(view[n], v)
    BY Zenon, EntersLaterView
  <2>2. PICK qc : qc = prepareQC[n]
    BY Zenon
  <2>3. /\ view'[n] = v /\ state'[n] = AcceptRequest /\ UNCHANGED <<lockQC, highQC>>
        /\ prepareQC'[n] = prepareQC[n]
        /\ msgs' = msgs \cup {[code |-> "NewView", src |-> n, view |-> v, body |-> qc]}
    BY Zenon, <2>1, <2>2, EnterViewStep
  <2>4. CertOK(qc, "PrepareVote") /\ (qc.signed => Backed(qc))
    BY <2>2 DEF BackedInv, Held
  <2>5. qc.signed => Backed(qc)'
    BY Zenon, <2>3, <2>4, BackedLasts
  <2>6. MessagesStep(n)
    <3>1. PICK x : x = [code |-> "NewView", src |-> n, view |-> v, body |-> qc]
      BY Zenon
    <3>2. x.code = "NewView" /\ x.src = n /\ x.view = view'[n] /\ x.body = qc
      BY Zenon, <2>3, <3>1
    <3>3. CertificateOK(x) /\ Carried(x) = {qc}
      BY Zenon, <2>4, <3>2 DEF CertificateOK, Carried
    <3> QED
      BY Zenon, <2>2, <2>3, <2>5, <3>1, <3>2, <3>3, <1>CertSent
  <2>7. PrepareQCStep(n)
    BY <2>3 DEF PrepareQCStep, AcceptRequest, Prepared
  <2>8. LockQCStep(n)
    BY Zenon, <2>1, <2>3 DEF LockQCStep
  <2> QED
    BY Zenon, <2>3, <2>6, <2>7, <2>8 DEF CertStep
<1>1. CASE UNCHANGED highQC /\ (CatchUp(self) \/ ChangeView(self, view[self].round + 1))
  BY Zenon, <1>1, <1>EnterViewCerts
<1>2. ASSUME NEW m \in msgs, HandleDecide(self, m) PROVE CertStep(self)
  <2>1. UNCHANGED highQC
    BY Zenon, <1>2 DEF HandleDecide
  <2>2. CASE ~CatchUp(self)
    <3>1. UNCHANGED <<view, node, prepareQC, lockQC, msgs>>
      BY Zenon, <1>2, <2>2 DEF HandleDecide, roundVars, proposalVars
    <3>2. \/ state' = state
          \/ state[self] = PreCommitted /\ state' = [state EXCEPT ![self] = Committed]
      BY Zenon, <1>2, <2>2 DEF HandleDecide
    <3> QED
      BY Zenon, <2>1, <3>1, <3>2, <1>DecidePhaseCerts, <1>NothingSent
  <2> QED
    BY Zenon, <1>1, <2>1, <2>2
<1>3. ASSUME NEW b \in Blocks, InsertBlock(self, b) PROVE CertStep(self)
  <2>1. UNCHANGED <<view, node, prepareQC, lockQC, highQC, state, msgs>>
    BY Zenon, <1>3 DEF InsertBlock, roundVars, proposalVars, certVars
  <2> QED
    BY Zenon, <2>1, <1>DecidePhaseCerts, <1>NothingSent
<1>4. ASSUME Timeout(self) \/ FinalCommitted(self)
      PROVE  UNCHANGED highQC /\ (CatchUp(self) \/ ChangeView(self, view[self].round + 1))
  BY Zenon, <1>4 DEF Timeout, FinalCommitted
<1> QED
  BY Zenon, <1>1, <1>2, <1>3, <1>4, <1>HandleNewViewCerts, <1>HandleRequestCerts, <1>HandlePrepareCerts,
     <1>HandlePrepareVoteCerts, <1>HandlePreCommitCerts, <1>HandlePreCommitVoteCerts,
     <1>HandleCommitCerts, <1>HandleCommitVoteCerts
  DEF StepOf, HandleMessage

LEMMA BackedStep ==
  ASSUME BackedInv, NEW n \in Validators, msgs \subseteq msgs', CertStep(n),
         \A p \in Validators : p # n => Same(p)
  PROVE  BackedInv'
<1>1. \A m \in msgs' : CertificateOK(m)
  BY Zenon DEF BackedInv, CertStep, MessagesStep
<1>2. \A p \in Validators :
        /\ CertOK(prepareQC'[p], "PrepareVote")
        /\ lockQC'[p] # NoQC => CertOK(lockQC'[p], "PreCommitVote")
  BY Zenon DEF BackedInv, CertStep, PrepareQCStep, LockQCStep, Same
<1>3. ASSUME NEW qc \in Certificates', qc.signed PROVE Backed(qc)'
  <2>1. PICK m \in msgs' : qc \in Carried(m)
    BY Zenon DEF Certificates, Carried
  <2>2. CASE m \in msgs
    BY Zenon, <1>3, <2>1, <2>2, CarriedBacked
  <2>3. CASE m \notin msgs
    BY Zenon, <1>3, <2>1, <2>3 DEF CertStep, MessagesStep
  <2> QED
    BY Zenon, <2>2, <2>3
<1>4. ASSUME NEW p \in Validators, NEW qc \in Held(p)', qc.signed PROVE Backed(qc)'
  <2>1. CASE qc \in Held(p) \/ qc \in Certificates
    BY Zenon, <1>4, <2>1, BackedLasts DEF BackedInv
  <2>2. CASE p # n
    BY Zenon, <2>1, <2>2 DEF Same, Held
  <2>3. CASE p = n
    <3>1. \/ qc = prepareQC'[n]
          \/ qc = highQC'[n] /\ qc # NoQC
          \/ qc = lockQC'[n] /\ qc # NoQC
      BY Zenon, <2>3 DEF Held
    <3>2. CASE qc = prepareQC'[n]
      BY Zenon, <1>4, <2>1, <2>3, <3>2 DEF CertStep, PrepareQCStep, Held
    <3>3. CASE qc = highQC'[n] /\ qc # NoQC
      BY Zenon, <1>4, <2>1, <2>3, <3>3 DEF CertStep, Held
    <3>4. CASE qc = lockQC'[n] /\ qc # NoQC
      BY Zenon, <1>4, <2>1, <2>3, <3>4 DEF CertStep, LockQCStep, Held
    <3> QED
      BY Zenon, <3>1, <3>2, <3>3, <3>4
  <2> QED
    BY Zenon, <2>2, <2>3
<1>5. \A qc \in Certificates' \cup UNION {Held(p)' : p \in Validators} :
        qc.signed => Backed(qc)'
  BY Zenon, <1>3, <1>4
<1> QED
  BY Zenon, <1>1, <1>2, <1>5 DEF BackedInv, CertificateOK, CertOK

LEMMA CertificateViews ==
  ASSUME TypeOK, NEW p \in Validators
  PROVE  /\ view[p] \in AllViews /\ prepareQC[p].view \in AllViews
         /\ lockQC[p] # NoQC => lockQC[p].view \in AllViews
BY Zenon DEF TypeOK, RoundOK, CertificatesOK, IsQC, Views, AllViews

LEMMA NotAheadStep ==
  ASSUME TypeOK, TypeOK', NEW n \in Validators, NotAhead(n), CertStep(n), Keeps(n)
  PROVE  NotAhead(n)'
<1>1. /\ view[n] \in AllViews /\ prepareQC[n].view \in AllViews
      /\ lockQC[n] # NoQC => lockQC[n].view \in AllViews
  BY Zenon, CertificateViews
<1>2. view'[n] \in AllViews
  BY Zenon DEF TypeOK, RoundOK, Views, AllViews
<1>3. Before(view[n], view'[n]) \/ view'[n] = view[n]
  BY Zenon DEF Keeps
<1>4. ~Before(view'[n], prepareQC'[n].view)
  <2>1. prepareQC'[n].view = prepareQC[n].view \/ prepareQC'[n].view = view'[n]
    BY Zenon DEF CertStep, PrepareQCStep
  <2>2. ~Before(view[n], prepareQC[n].view)
    BY Zenon DEF NotAhead
  <2> QED
    BY Zenon, <1>1, <1>2, <1>3, <2>1, <2>2, BeforeOrder
<1>5. state'[n] = Prepared => prepareQC'[n].view = view'[n] /\ prepareQC'[n].node = node'[n]
  BY Zenon DEF NotAhead, CertStep, PrepareQCStep
<1>6. ASSUME lockQC'[n] # NoQC
      PROVE  /\ ~Before(view'[n], lockQC'[n].view)
             /\ state'[n] < PreCommitted => lockQC'[n].view # view'[n]
  <2>1. CASE /\ view'[n] = view[n] /\ state'[n] = PreCommitted
             /\ lockQC'[n].view = view[n]
    BY <1>2, <2>1, BeforeOrder, SMTT(20) DEF PreCommitted
  <2>2. CASE /\ lockQC'[n] = lockQC[n]
             /\ \/ Before(view[n], view'[n])
                \/ view'[n] = view[n] /\ (state'[n] < PreCommitted => state[n] < PreCommitted)
    <3>1. lockQC[n].view \in AllViews /\ ~Before(view[n], lockQC[n].view)
      BY Zenon, <1>1, <1>6, <2>2 DEF NotAhead
    <3>2. CASE Before(view[n], view'[n])
      BY Zenon, <1>1, <1>2, <2>2, <3>1, <3>2, BeforeOrder
    <3>3. CASE view'[n] = view[n] /\ (state'[n] < PreCommitted => state[n] < PreCommitted)
      BY Zenon, <1>6, <2>2, <3>1, <3>3 DEF NotAhead
    <3> QED
      BY Zenon, <2>2, <3>2, <3>3
  <2> QED
    BY Zenon, <2>1, <2>2 DEF CertStep, LockQCStep
<1> QED
  BY Zenon, <1>4, <1>5, <1>6 DEF NotAhead

(* Neither certificate of n goes back. *)
LEMMA Advance ==
  ASSUME TypeOK, NEW n \in Validators, NotAhead(n), CertStep(n)
  PROVE  /\ ~Before(prepareQC'[n].view, prepareQC[n].view)
         /\ lockQC[n] # NoQC =>
              lockQC'[n] # NoQC /\ ~Before(lockQC'[n].view, lockQC[n].view)
<1>1. /\ view[n] \in AllViews /\ prepareQC[n].view \in AllViews
      /\ lockQC[n] # NoQC => lockQC[n].view \in AllViews
  BY Zenon, CertificateViews
<1>2. prepareQC'[n].view = prepareQC[n].view \/ prepareQC'[n].view = view[n]
  BY Zenon DEF CertStep, PrepareQCStep
<1>3. lockQC'[n] = lockQC[n] \/ (lockQC'[n] # NoQC /\ lockQC'[n].view = view[n])
  BY Zenon DEF CertStep, LockQCStep
<1> QED
  BY Zenon, <1>1, <1>2, <1>3, BeforeOrder DEF NotAhead

(* A validator's prepareQC and later NewViews cover its pre-commit votes. *)
LEMMA CoveredStep ==
  ASSUME TypeOK, TypeOK', VoteInv, VoteInv', VotesCovered, NEW n \in Validators,
         msgs \subseteq msgs', NotAhead(n)', CertStep(n),
         \A p \in Validators : p # n => Same(p)
  PROVE  VotesCovered'
<1>1. /\ \A m \in msgs : m.src \in Validators /\ m.view \in AllViews
      /\ \A m \in msgs' : m.src \in Validators /\ m.view \in AllViews
      /\ \A p \in Validators : view[p] \in AllViews /\ view'[p] \in AllViews
  BY Zenon, ViewsOfState DEF TypeOK, RoundOK, MessageOK, Views, AllViews
<1>2. \A m \in msgs' \ msgs :
        /\ m.src = n /\ m.view = view'[n]
        /\ m.code = "NewView" => m.body = prepareQC[n]
        /\ m.code = "PreCommitVote" => state'[n] = Prepared /\ m.body = node'[n]
  BY Zenon DEF CertStep, MessagesStep
<1>3. ASSUME NEW m \in msgs', m.code = "PreCommitVote" PROVE Covers(prepareQC'[m.src], m)
  <2>1. CASE m \notin msgs
    BY Zenon, <1>2, <1>3, <2>1 DEF NotAhead, Covers
  <2>2. CASE m \in msgs
    <3>1. Covers(prepareQC[m.src], m)
      BY Zenon, <1>3, <2>2 DEF VotesCovered
    <3>2. CASE prepareQC'[m.src] = prepareQC[m.src]
      BY Zenon, <3>1, <3>2
    <3>3. CASE prepareQC'[m.src] # prepareQC[m.src]
      <4>1. m.src = n
        BY Zenon, <1>1, <2>2, <3>3 DEF Same
      <4>2. state[n] = HighQC /\ prepareQC'[n].view = view[n]
        BY Zenon, <3>3, <4>1 DEF CertStep, PrepareQCStep
      <4>3. Before(m.view, view[n])
        <5>1. SentOK(m)
          BY Zenon, <2>2 DEF VoteInv
        <5>2. Before(m.view, view[n]) \/ state[n] >= Prepared
          BY Zenon, <1>3, <4>1, <5>1 DEF SentOK, InView
        <5> QED
          BY <4>2, <5>2 DEF HighQC, Prepared
      <4> QED
        BY Zenon, <4>1, <4>2, <4>3 DEF Covers
    <3> QED
      BY Zenon, <3>2, <3>3
  <2> QED
    BY Zenon, <2>1, <2>2
<1>4. ASSUME NEW m \in msgs', m.code = "PreCommitVote", NEW x \in msgs', x.code = "NewView",
             x.src = m.src, Before(m.view, x.view)
      PROVE  Covers(x.body, m)
  <2>1. CASE m \notin msgs
    <3>1. m.view = view'[x.src]
      BY Zenon, <1>2, <1>4, <2>1
    <3>2. Before(x.view, view'[x.src]) \/ x.view = view'[x.src]
      BY Zenon DEF VoteInv, SentOK, InView
    <3> QED
      BY Zenon, <1>1, <1>4, <3>1, <3>2, BeforeOrder
  <2>2. CASE m \in msgs /\ x \in msgs
    BY Zenon, <1>4, <2>2 DEF VotesCovered
  <2>3. CASE m \in msgs /\ x \notin msgs
    BY Zenon, <1>2, <1>4, <2>3 DEF VotesCovered
  <2> QED
    BY Zenon, <2>1, <2>2, <2>3
<1> QED
  BY Zenon, <1>3, <1>4 DEF VotesCovered, Covers

---------------------------------------------------------------------------
(* Proposals are made on the highest certificate of a quorum               *)

LEMMA HighestLasts ==
  ASSUME msgs \subseteq msgs', NEW qc, NEW v, Highest(qc, v) PROVE Highest(qc, v)'
BY Zenon DEF Highest, CertOK

HighestStep(n) ==
  /\ \A x, y \in newViews'[n] : x.src = y.src => x = y
  /\ \A x \in newViews'[n] : x.view = view'[n]
  /\ IsProposer(n)' /\ state'[n] = HighQC =>
       \E qc, v : qc = highQC'[n] /\ v = view'[n] /\ Highest(qc, v)'
  /\ \A m \in msgs' \ msgs : m.code = "Prepare" => Highest(m.body.qc, m.view)'

(* A step that proposes nothing and does not enter HighQC as a leader. *)
LEMMA QuietHighest ==
  ASSUME ProposalsHighest, NEW n \in Validators, msgs \subseteq msgs',
         \A m \in msgs' \ msgs : m.code # "Prepare",
         newViews'[n] = {} \/ (newViews'[n] = newViews[n] /\ view'[n] = view[n]),
         IsProposer(n)' /\ state'[n] = HighQC =>
           IsProposer(n) /\ state[n] = HighQC /\ highQC'[n] = highQC[n] /\ view'[n] = view[n]
  PROVE  HighestStep(n)
BY Zenon, HighestLasts DEF HighestStep, ProposalsHighest

LEMMA HandleRequestHighest ==
  ASSUME TypeOK, ProposalsHighest, NEW n \in Validators, NEW b \in Blocks, HandleRequest(n, b)
  PROVE  HighestStep(n)
<1>1. UNCHANGED <<view, lastChained, newViews, highQC, state>>
  BY Zenon DEF HandleRequest, roundVars, certVars, voteVars
<1>2. IsProposer(n)' <=> IsProposer(n)
  BY Zenon, <1>1 DEF IsProposer, Proposer
<1>3. CASE UNCHANGED <<node, msgs>>
  BY Zenon, <1>1, <1>2, <1>3, QuietHighest
<1>4. CASE ~UNCHANGED <<node, msgs>>
  <2>1. SendPrepare(n, highQC[n], b) /\ state[n] = HighQC
    BY Zenon, <1>4 DEF HandleRequest
  <2>2. IsProposer(n) /\ msgs \subseteq msgs'
    BY Zenon, <1>4, <2>1 DEF SendPrepare
  <2>3. PICK qc, v : qc = highQC[n] /\ v = view[n]
    BY Zenon
  <2>4. Highest(qc, v)
    BY Zenon, <2>1, <2>2, <2>3 DEF ProposalsHighest
  <2>5. Highest(qc, v)'
    BY Zenon, <2>2, <2>4, HighestLasts
  <2>6. \A x \in msgs' \ msgs : x.body.qc = qc /\ x.view = v
    BY <2>1, <2>3, SMTT(20) DEF SendPrepare, Message
  <2>7. \A x \in msgs' \ msgs : Highest(x.body.qc, x.view)'
    BY Zenon, <2>5, <2>6
  <2> QED
    BY Zenon, <1>1, <2>3, <2>5, <2>7 DEF HighestStep, ProposalsHighest
<1> QED
  BY Zenon, <1>3, <1>4

(* Within a round only handleNewView makes a leader enter HighQC. *)
LEMMA RoundHighest ==
  ASSUME ProposalsHighest, NEW n \in Validators, UNCHANGED <<view, lastChained, newViews, highQC>>,
         msgs \subseteq msgs', \A m \in msgs' \ msgs : m.code # "Prepare",
         state'[n] = HighQC => state[n] = HighQC \/ ~IsProposer(n)
  PROVE  HighestStep(n)
<1>1. IsProposer(n)' <=> IsProposer(n)
  BY Zenon DEF IsProposer, Proposer
<1> QED
  BY Zenon, <1>1, QuietHighest

LEMMA EnterViewHighest ==
  ASSUME TypeOK, SafetyInv, ProposalsHighest, NEW n \in Validators, UNCHANGED highQC,
         CatchUp(n) \/ ChangeView(n, view[n].round + 1)
  PROVE  HighestStep(n)
<1>1. PICK v \in Views, changeView \in BOOLEAN :
        EnterView(n, v, changeView) /\ Before(view[n], v)
  BY Zenon, EntersLaterView
<1>2. /\ state'[n] = AcceptRequest /\ newViews'[n] = {}
      /\ msgs' = msgs \cup {[code |-> "NewView", src |-> n, view |-> v, body |-> prepareQC[n]]}
  BY Zenon, <1>1, EnterViewStep
<1>3. state'[n] # HighQC
  BY <1>2, SMTT(20) DEF AcceptRequest, HighQC
<1>4. msgs \subseteq msgs' /\ \A m \in msgs' \ msgs : m.code # "Prepare"
  BY <1>2
<1> QED
  BY Zenon, <1>2, <1>3, <1>4, QuietHighest

LEMMA ProposalsHighestStep ==
  ASSUME ProposalsHighest, NEW n \in Validators, msgs \subseteq msgs', HighestStep(n),
         \A p \in Validators : p # n => Same(p)
  PROVE  ProposalsHighest'
<1>1. ASSUME NEW p \in Validators, p # n
      PROVE  /\ \A x, y \in newViews'[p] : x.src = y.src => x = y
             /\ \A x \in newViews'[p] : x.view = view'[p]
             /\ (IsProposer(p) /\ state[p] = HighQC => Highest(highQC[p], view[p]))'
  <2>1. Same(p)
    BY Zenon, <1>1
  <2>2. IsProposer(p)' <=> IsProposer(p)
    BY Zenon, <2>1 DEF Same, IsProposer, Proposer
  <2>3. PICK qc, v : qc = highQC[p] /\ v = view[p]
    BY Zenon
  <2>4. IsProposer(p)' /\ state'[p] = HighQC => Highest(qc, v)'
    BY Zenon, <2>1, <2>2, <2>3, HighestLasts DEF Same, ProposalsHighest
  <2>5. (IsProposer(p) /\ state[p] = HighQC => Highest(highQC[p], view[p]))'
    BY Zenon, <2>1, <2>3, <2>4 DEF Same
  <2> QED
    BY Zenon, <2>1, <2>5 DEF Same, ProposalsHighest
<1>2. /\ \A x, y \in newViews'[n] : x.src = y.src => x = y
      /\ \A x \in newViews'[n] : x.view = view'[n]
      /\ (IsProposer(n) /\ state[n] = HighQC => Highest(highQC[n], view[n]))'
  BY Zenon DEF HighestStep
<1>3. ASSUME NEW m \in msgs', m.code = "Prepare" PROVE Highest(m.body.qc, m.view)'
  BY Zenon, <1>3, HighestLasts DEF HighestStep, ProposalsHighest
<1> QED
  BY Zenon, <1>1, <1>2, <1>3 DEF ProposalsHighest

---------------------------------------------------------------------------
(* The invariant and what follows from it                                  *)

LEMMA CertInit == Init => CertInv
<1> SUFFICES ASSUME Init PROVE CertInv
  BY Zenon
<1>1. VoteInv
  BY Zenon, VoteInit
<1>2. PICK qc, v : /\ qc = BuildRoundStartQC(Genesis) /\ v = [height |-> 1, round |-> 0]
  BY Zenon
<1>3. /\ qc.code = "PrepareVote" /\ qc.view = [height |-> 0, round |-> 0]
      /\ qc.signed = FALSE
  BY Zenon, <1>2, BlocksAssumption DEF BuildRoundStartQC
<1>4. \A n \in Validators :
        /\ view[n] = v /\ prepareQC[n] = qc /\ lockQC[n] = NoQC /\ highQC[n] = NoQC
        /\ state[n] = AcceptRequest /\ newViews[n] = {}
  BY Zenon, <1>2 DEF Init
<1>5. \A m \in msgs : m.code = "NewView" /\ m.body = qc
  <2>1. msgs = {[code |-> "NewView", src |-> n, view |-> v, body |-> qc] : n \in Validators}
    BY Zenon, <1>2 DEF Init
  <2> QED
    BY <2>1
<1>6. CertOK(qc, "PrepareVote")
  BY <1>3 DEF CertOK
<1>7. BackedInv
  <2>1. \A m \in msgs : CertificateOK(m)
    BY Zenon, <1>5, <1>6 DEF CertificateOK
  <2>2. \A c \in Certificates \cup UNION {Held(n) : n \in Validators} : c = qc
    BY <1>4, <1>5 DEF Certificates, Held
  <2> QED
    BY Zenon, <1>3, <1>4, <1>6, <2>1, <2>2 DEF BackedInv
<1>8. \A n \in Validators : NotAhead(n)
  <2>1. ~Before(v, qc.view)
    BY <1>2, <1>3 DEF Before
  <2> QED
    BY <1>4, <2>1 DEF NotAhead, AcceptRequest, Prepared
<1>9. VotesCovered
  BY Zenon, <1>5 DEF VotesCovered
<1>10. ProposalsHighest
  BY <1>4, <1>5 DEF ProposalsHighest, AcceptRequest, HighQC
<1> QED
  BY Zenon, <1>1, <1>7, <1>8, <1>9, <1>10 DEF CertInv

(* What a step does to each validator's certificates. *)
LEMMA CertSteps ==
  ASSUME TypeOK, TypeOK', SafetyInv, CertInv, NEW n \in Validators, StepOf(n)
  PROVE  /\ msgs \subseteq msgs' /\ CertStep(n) /\ Keeps(n)
         /\ \A p \in Validators : p # n => Same(p)
BY Zenon, StepSendsOK, StepCerts, OthersSame DEF CertInv, SendsOK

---------------------------------------------------------------------------
(* The ledger                                                              *)

Decided == {Genesis} \cup UNION {committed[n] : n \in Validators}

Extends(b) == b # Nil => parentHash[b] \in Decided

(* The local chain consists of decided blocks, and every block on its way  *)
(* to a decision has one as its parent.                                    *)
ChainInv ==
  \A n \in Validators :
    /\ chain[n] \in Decided
    /\ lastChained[n] \in Decided
    /\ Extends(pendingRequest[n])
    /\ Extends(lockedBlock[n])
    /\ node[n] # Nil => Extends(node[n].block)

(* The chain invariant is preserved by every step of the core. *)
LEMMA ChainNext == TypeOK /\ ChainInv /\ [Next]_vars => ChainInv'
(* commit and the handlers only add to what is decided. *)
<1>DecidedGrows.
  ASSUME TypeOK, [Next]_vars
  PROVE  Decided \subseteq Decided'
  <2> USE <1>DecidedGrows
  <2>1. \A n \in Validators : committed[n] \subseteq committed'[n]
    <3>1. CASE UNCHANGED committed
      BY Zenon, <3>1
    <3>2. ASSUME NEW n \in Validators, NEW m \in msgs, HandleDecide(n, m)
          PROVE  \A p \in Validators : committed[p] \subseteq committed'[p]
      <4>1. \/ UNCHANGED committed
            \/ committed' = [committed EXCEPT ![n] = committed[n] \cup {lockedBlock[n]}]
        BY Zenon, <3>2 DEF HandleDecide, Commit
      <4>2. DOMAIN committed = Validators
        BY Zenon DEF TypeOK, RoundOK
      <4> QED
        BY Zenon, <4>1, <4>2
    <3>3. ASSUME NEW n \in Validators, NEW m \in msgs,
                 \/ HandleNewView(n, m) \/ HandlePrepare(n, m) \/ HandlePrepareVote(n, m)
                 \/ HandlePreCommit(n, m) \/ HandlePreCommitVote(n, m)
                 \/ HandleCommit(n, m) \/ HandleCommitVote(n, m)
          PROVE  UNCHANGED committed
      BY Zenon, <3>3
      DEF HandleNewView, HandlePrepare, HandlePrepareVote, HandlePreCommit,
          HandlePreCommitVote, HandleCommit, HandleCommitVote, ledgerVars
    <3>4. ASSUME NEW n \in Validators, NEW b \in Blocks,
                 HandleRequest(n, b) \/ InsertBlock(n, b)
          PROVE  UNCHANGED committed
      BY Zenon, <3>4 DEF HandleRequest, InsertBlock, ledgerVars
    <3>5. ASSUME NEW n \in Validators, Timeout(n) \/ FinalCommitted(n)
          PROVE  UNCHANGED committed
      BY Zenon, <3>5 DEF Timeout, FinalCommitted
    <3>6. CASE UNCHANGED vars
      BY Zenon, <3>6 DEF vars, ledgerVars
    <3> QED
      BY Zenon, <3>1, <3>2, <3>3, <3>4, <3>5, <3>6 DEF Next
  <2> QED
    BY Zenon, <2>1 DEF Decided
(* sendPrepare proposes the locked block or the request. *)
<1>SendPrepareChain.
  ASSUME TypeOK, ChainInv, NEW n \in Validators, NEW qc, NEW request,
         Extends(request), SendPrepare(n, qc, request)
  PROVE  \A p \in Validators : node'[p] # Nil => node'[p] = node[p] \/ Extends(node'[p].block)
  <2> USE <1>SendPrepareChain
  <2>1. PICK b : b = Proposal(n, request)
    BY Zenon
  <2>2. Extends(b)
    BY Zenon, <2>1 DEF Proposal, ChainInv
  <2>3. UNCHANGED node \/ node' = [node EXCEPT ![n] = [parent |-> qc.node, block |-> b]]
    BY Zenon, <2>1 DEF SendPrepare
  <2>4. DOMAIN node = Validators
    BY Zenon DEF TypeOK, RoundOK
  <2>5. \A p \in Validators :
          node'[p] = node[p] \/ node'[p] = [parent |-> qc.node, block |-> b]
    BY Zenon, <2>3, <2>4
  <2>6. [parent |-> qc.node, block |-> b].block = b
    BY Zenon
  <2> QED
    BY Zenon, <2>2, <2>5, <2>6
(* startNewRound takes the head of the chain for the last block. *)
<1>EnterViewChain.
  ASSUME TypeOK, ChainInv, NEW n \in Validators, NEW v, NEW changeView \in BOOLEAN,
         EnterView(n, v, changeView), Decided \subseteq Decided'
  PROVE  ChainInv'
  <2> USE <1>EnterViewChain
  <2>1. /\ UNCHANGED chain
        /\ \A p \in Validators :
             /\ lastChained'[p] \in {lastChained[p], chain[p]}
             /\ pendingRequest'[p] \in {pendingRequest[p], Nil}
             /\ lockedBlock'[p] \in {lockedBlock[p], Nil}
             /\ node'[p] \in {node[p], Nil}
    <3>1. CASE changeView
      BY Zenon, <3>1 DEF EnterView, TypeOK, RoundOK, proposalVars
    <3>2. CASE ~changeView
      BY Zenon, <3>2 DEF EnterView, TypeOK, RoundOK
    <3> QED
      BY Zenon, <3>1, <3>2
  <2> QED
    BY Zenon, <2>1 DEF ChainInv, Extends
(* The handlers that propose or accept a proposal. *)
<1>ProposalChain.
  ASSUME TypeOK, ChainInv, NEW n \in Validators, Decided \subseteq Decided',
         \/ \E m \in msgs : HandleNewView(n, m) \/ HandlePrepare(n, m)
         \/ \E b \in Blocks : HandleRequest(n, b)
  PROVE  ChainInv'
  <2> USE <1>ProposalChain
  <2>1. UNCHANGED <<chain, lastChained, lockedBlock>>
    BY Zenon DEF HandleNewView, HandlePrepare, HandleRequest, roundVars, ledgerVars
  <2>2. \A p \in Validators : pendingRequest'[p] = pendingRequest[p] \/ Extends(pendingRequest'[p])
    BY Zenon DEF HandleNewView, HandlePrepare, HandleRequest, ChainInv, Extends, TypeOK, RoundOK
  <2>3. \A p \in Validators : node'[p] # Nil => node'[p] = node[p] \/ Extends(node'[p].block)
    <3>1. ASSUME NEW m \in msgs, HandleNewView(n, m)
          PROVE  UNCHANGED node \/ \E qc : SendPrepare(n, qc, pendingRequest[n])
      BY Zenon, <3>1 DEF HandleNewView
    <3>2. ASSUME NEW b \in Blocks, HandleRequest(n, b)
          PROVE  Extends(b) /\ (UNCHANGED node \/ SendPrepare(n, highQC[n], b))
      BY Zenon, <3>2 DEF HandleRequest, ChainInv, Extends
    <3>3. ASSUME NEW m \in msgs, HandlePrepare(n, m)
          PROVE  \/ UNCHANGED node
                 \/ /\ node' = [node EXCEPT ![n] = m.body.node]
                    /\ Extends(m.body.node.block)
      BY Zenon, <3>3 DEF HandlePrepare, CheckBlock, ChainInv, Extends
    <3>4. Extends(pendingRequest[n])
      BY Zenon DEF ChainInv
    <3>5. CASE \E m \in msgs : HandleNewView(n, m)
      BY Zenon, <3>1, <3>4, <3>5, <1>SendPrepareChain
    <3>6. CASE \E b \in Blocks : HandleRequest(n, b)
      BY Zenon, <3>2, <3>6, <1>SendPrepareChain
    <3>7. CASE \E m \in msgs : HandlePrepare(n, m)
      BY Zenon, <3>3, <3>7 DEF TypeOK, RoundOK
    <3> QED
      BY Zenon, <3>5, <3>6, <3>7
  <2> QED
    BY Zenon, <2>1, <2>2, <2>3 DEF ChainInv, Extends
(* The handlers of votes and certificates only lock the current proposal. *)
<1>VoteChain.
  ASSUME TypeOK, ChainInv, NEW n \in Validators, NEW m \in msgs, Decided \subseteq Decided',
         \/ HandlePrepareVote(n, m) \/ HandlePreCommit(n, m) \/ HandlePreCommitVote(n, m)
         \/ HandleCommit(n, m) \/ HandleCommitVote(n, m)
  PROVE  ChainInv'
  <2> USE <1>VoteChain
  <2>1. UNCHANGED <<chain, lastChained, node, pendingRequest>>
    BY Zenon DEF HandlePrepareVote, HandlePreCommit, HandlePreCommitVote, HandleCommit,
           HandleCommitVote, proposalVars, roundVars, ledgerVars
  <2>2. UNCHANGED lockedBlock \/ \E qc : AcceptLockQC(n, qc)
    BY Zenon DEF HandlePrepareVote, HandlePreCommit, HandlePreCommitVote, HandleCommit,
           HandleCommitVote, proposalVars
  <2>3. \A p \in Validators :
          lockedBlock'[p] = lockedBlock[p] \/ (node[p] # Nil /\ lockedBlock'[p] = node[p].block)
    BY Zenon, <2>2 DEF AcceptLockQC, TypeOK, RoundOK
  <2> QED
    BY Zenon, <2>1, <2>3 DEF ChainInv, Extends
<1> SUFFICES ASSUME TypeOK, ChainInv, [Next]_vars PROVE ChainInv'
  BY Zenon
<1>1. Decided \subseteq Decided'
  BY Zenon, <1>DecidedGrows
<1>2. ASSUME UNCHANGED <<proposalVars, lastChained, chain>> PROVE ChainInv'
  BY Zenon, <1>1, <1>2 DEF ChainInv, Extends, proposalVars
<1>3. CASE UNCHANGED vars
  BY Zenon, <1>2, <1>3 DEF vars, roundVars, ledgerVars
<1>4. ASSUME NEW n \in Validators, CatchUp(n) PROVE ChainInv'
  BY Zenon, <1>1, <1>4, <1>EnterViewChain DEF CatchUp
<1>5. ASSUME NEW n \in Validators, Timeout(n) \/ FinalCommitted(n) PROVE ChainInv'
  BY Zenon, <1>1, <1>4, <1>5, <1>EnterViewChain DEF Timeout, FinalCommitted, ChangeView
<1>6. ASSUME NEW n \in Validators, NEW m \in msgs, HandleDecide(n, m) PROVE ChainInv'
  BY Zenon, <1>2, <1>4, <1>6 DEF HandleDecide, roundVars
<1>7. ASSUME NEW n \in Validators, NEW b \in Blocks, InsertBlock(n, b) PROVE ChainInv'
  <2>1. b \in Decided
    BY Zenon, <1>7 DEF InsertBlock, Decided
  <2>2. \A p \in Validators : chain'[p] \in {chain[p], b}
    BY Zenon, <1>7 DEF InsertBlock, TypeOK, RoundOK
  <2> QED
    BY Zenon, <1>1, <1>7, <2>1, <2>2 DEF InsertBlock, ChainInv, Extends, proposalVars, roundVars
<1> QED
  BY Zenon, <1>1, <1>3, <1>5, <1>6, <1>7, <1>ProposalChain, <1>VoteChain DEF Next

(* Every step of the core is a step of the ledger or leaves it alone. *)
LEMMA LedgerStep ==
  ASSUME TypeOK, SafetyInv, ChainInv, Agreement', [Next]_vars
  PROVE  [Abstract!Next]_<<Decided, chain>>
(* A committed block that is not decided yet is on top of a decided one,   *)
(* at a height of its own.                                                 *)
<1>CommitDecides.
  ASSUME TypeOK, SafetyInv, ChainInv, Agreement', NEW n \in Validators, NEW m \in msgs,
         HandleDecide(n, m), UNCHANGED chain
  PROVE  [Abstract!Next]_<<Decided, chain>>
  <2> USE <1>CommitDecides
  <2> DEFINE b == lockedBlock[n]
  <2>1. b \in Blocks /\ b # Genesis
    <3>1. b # Nil /\ node[n].block = b /\ node[n] # Nil
      BY Zenon DEF HandleDecide, CheckDecide
    <3>2. number[b] = view[n].height /\ view[n].height # 0
      BY Zenon, <3>1 DEF SafetyInv, HeightsMatch, TypeOK, RoundOK, Views
    <3> QED
      BY Zenon, <3>1, <3>2, BlocksAssumption DEF TypeOK, RoundOK
  <2>2. Decided' = Decided \/ (Decided' = Decided \cup {b} /\ b \in committed'[n])
    <3>1. UNCHANGED committed \/ Commit(n)
      BY Zenon DEF HandleDecide
    <3> QED
      BY <3>1, SMTT(20) DEF Commit, Decided, TypeOK, RoundOK
  <2>3. CASE b \in Decided \/ Decided' = Decided
    BY Zenon, <2>2, <2>3
  <2>4. CASE b \notin Decided /\ Decided' = Decided \cup {b} /\ b \in committed'[n]
    <3>1. parentHash[b] \in Decided
      BY Zenon, <2>1, NilAssumption DEF ChainInv, Extends
    <3>2. number[b] = number[parentHash[b]] + 1
      BY Zenon, <2>1, BlocksAssumption
    <3>3. ASSUME NEW c \in Decided PROVE number[c] # number[b]
      <4>1. CASE c = Genesis
        BY <2>1, <3>2, <4>1, BlocksAssumption
      <4>2. CASE c # Genesis
        <5>1. PICK p \in Validators : c \in committed[p]
          BY Zenon, <4>2 DEF Decided
        <5>2. c \in committed'[p]
          <6>1. UNCHANGED committed \/ Commit(n)
            BY Zenon DEF HandleDecide
          <6> QED
            BY Zenon, <5>1, <6>1 DEF Commit, TypeOK, RoundOK
        <5> QED
          BY Zenon, <2>4, <5>2 DEF Agreement
      <4> QED
        BY Zenon, <4>1, <4>2
    <3> QED
      BY Zenon, <2>1, <2>4, <3>1, <3>2, <3>3 DEF Abstract!Next, Abstract!Decide, Decided
  <2> QED
    BY Zenon, <2>2, <2>3, <2>4
<1>1. CASE UNCHANGED <<committed, chain>>
  BY Zenon, <1>1 DEF Decided
<1>2. ASSUME NEW n \in Validators, NEW m \in msgs, HandleDecide(n, m)
      PROVE  [Abstract!Next]_<<Decided, chain>>
  BY Zenon, <1>2, <1>CommitDecides DEF HandleDecide, CatchUp, EnterView
<1>3. ASSUME NEW n \in Validators, NEW b \in Blocks, InsertBlock(n, b)
      PROVE  [Abstract!Next]_<<Decided, chain>>
  BY Zenon, <1>3 DEF InsertBlock, Abstract!Next, Abstract!Adopt, Decided
<1>4. ASSUME NEW n \in Validators, NEW m \in msgs,
             \/ HandleNewView(n, m) \/ HandlePrepare(n, m) \/ HandlePrepareVote(n, m)
             \/ HandlePreCommit(n, m) \/ HandlePreCommitVote(n, m)
             \/ HandleCommit(n, m) \/ HandleCommitVote(n, m)
      PROVE  UNCHANGED <<committed, chain>>
  BY Zenon, <1>4
  DEF HandleNewView, HandlePrepare, HandlePrepareVote, HandlePreCommit,
      HandlePreCommitVote, HandleCommit, HandleCommitVote, ledgerVars
<1>5. ASSUME NEW n \in Validators, NEW b \in Blocks, HandleRequest(n, b)
      PROVE  UNCHANGED <<committed, chain>>
  BY Zenon, <1>5 DEF HandleRequest, ledgerVars
<1>6. ASSUME NEW n \in Validators, Timeout(n) \/ FinalCommitted(n)
      PROVE  UNCHANGED <<committed, chain>>
  BY Zenon, <1>6 DEF Timeout, FinalCommitted, CatchUp, ChangeView, EnterView
<1>7. CASE UNCHANGED vars
  BY Zenon, <1>1, <1>7 DEF vars, ledgerVars
<1> QED
  BY Zenon, <1>1, <1>2, <1>3, <1>4, <1>5, <1>6, <1>7 DEF Next

---------------------------------------------------------------------------
(* Quorums                                                                 *)

INSTANCE FiniteSetTheorems

(* Two quorums share a validator, for every size of the validator set: F   *)
(* and Q are those of validator/default.go.                                *)
THEOREM QuorumIntersection ==
  ASSUME NEW S \in SUBSET Validators, NEW T \in SUBSET Validators,
         Cardinality(S) >= Q, Cardinality(T) >= Q
  PROVE  S \cap T # {}
<1> SUFFICES ASSUME S \cap T = {} PROVE FALSE
  BY Zenon
<1>1. IsFiniteSet(Validators) /\ Size \in Nat /\ Size # 0
  BY Zenon, ValidatorsAssumption, FS_CardinalityType, FS_EmptySet DEF Size
<1>2. IsFiniteSet(S) /\ IsFiniteSet(T)
  BY Zenon, <1>1, FS_Subset
<1>3. Cardinality(S) \in Nat /\ Cardinality(T) \in Nat
  BY Zenon, <1>2, FS_CardinalityType
<1>4. Cardinality(S \cup T) = Cardinality(S) + Cardinality(T)
  <2>1. Cardinality(S \cap T) = 0
    BY Zenon, FS_EmptySet
  <2>2. Cardinality(S \cup T) = Cardinality(S) + Cardinality(T) - Cardinality(S \cap T)
    BY Zenon, <1>2, FS_Union
  <2> QED
    BY <1>3, <2>1, <2>2
<1>5. Cardinality(S \cup T) <= Size
  BY Zenon, <1>1, FS_Subset DEF Size
<1> QED
  BY <1>1, <1>3, <1>4, <1>5 DEF Q, F

(* A set with one message per sender has as many senders. *)
LEMMA OnePerSender ==
  ASSUME NEW received, \A x \in received : x.src \in Validators,
         \A x, y \in received : x.src = y.src => x = y, HasQuorum(received)
  PROVE  Cardinality({x.src : x \in received}) >= Q
<1> DEFINE S == {x.src : x \in received}
           f == [x \in received |-> x.src]
<1>1. IsFiniteSet(S)
  <2>1. S \subseteq Validators
    BY Zenon
  <2> QED
    BY Zenon, <2>1, ValidatorsAssumption, FS_Subset
<1>2. f \in Injection(received, S)
  BY Zenon DEF Injection, IsInjective
<1>3. IsFiniteSet(received) /\ Cardinality(received) <= Cardinality(S)
  BY Zenon, <1>1, <1>2, FS_Injection
<1>4. Cardinality(received) \in Int /\ Cardinality(S) \in Int
  BY <1>1, <1>3, FS_CardinalityType
<1>5. Q \in Int
  BY ValidatorsAssumption, FS_CardinalityType DEF Q, F, Size
<1> QED
  BY <1>3, <1>4, <1>5 DEF HasQuorum

(* getHighQC *)
LEMMA QuorumHighest ==
  ASSUME TypeOK, BackedInv, NEW v, NEW received, NEW qc,
         \A x \in received : x \in msgs /\ x.code = "NewView" /\ x.view = v,
         \A x, y \in received : x.src = y.src => x = y,
         HasQuorum(received), IsHighQC(qc, received)
  PROVE  Highest(qc, v)
<1> DEFINE S == {x.src : x \in received}
<1>1. \A x \in received : x.src \in Validators
  BY Zenon, ViewsOfState
<1>2. Cardinality(S) >= Q
  BY Zenon, <1>1, OnePerSender
<1>3. S \in SUBSET Validators
  BY Zenon, <1>1
<1>4. CertOK(qc, "PrepareVote")
  BY Zenon DEF IsHighQC, BackedInv, CertificateOK
<1>5. \A p \in S : \E m \in msgs :
        /\ m.code = "NewView" /\ m.src = p /\ m.view = v
        /\ ~Before(qc.view, m.body.view)
  BY Zenon DEF IsHighQC
<1> HIDE DEF S
<1> QED
  BY Zenon, <1>2, <1>3, <1>4, <1>5 DEF Highest

LEMMA HandleNewViewHighest ==
  ASSUME TypeOK, TypeOK', BackedInv, ProposalsHighest, NEW n \in Validators, NEW m \in msgs,
         HandleNewView(n, m)
  PROVE  HighestStep(n)
<1> DEFINE received == Add(newViews[n], m)
<1>1. UNCHANGED <<view, lastChained, pendingRequest, lockedBlock>>
  BY Zenon DEF HandleNewView, roundVars
<1>2. \A x \in received : x \in msgs /\ x.code = "NewView" /\ x.view = view[n]
  <2>1. \A x \in newViews[n] : x \in msgs /\ x.code = "NewView" /\ x.view = view[n]
    <3>1. \A x \in newViews[n] : x \in msgs /\ x.code = "NewView"
      BY Zenon DEF TypeOK, VotesOK
    <3>2. \A x \in newViews[n] : x.view = view[n]
      BY Zenon DEF ProposalsHighest
    <3> QED
      BY Zenon, <3>1, <3>2
  <2>2. m.code = "NewView" /\ m.view = view[n]
    BY Zenon DEF HandleNewView, CheckView
  <2> QED
    BY Zenon, <2>1, <2>2 DEF Add
<1>3. \A x, y \in received : x.src = y.src => x = y
  BY Zenon DEF Add, ProposalsHighest
<1>4. newViews'[n] = received
  BY Zenon DEF HandleNewView, TypeOK, VotesOK
<1> HIDE DEF received
<1>5. CASE UNCHANGED <<highQC, node, state, msgs>>
  <2>1. IsProposer(n)' => IsProposer(n)
    BY Zenon, <1>1 DEF IsProposer, Proposer
  <2> QED
    BY Zenon, <1>1, <1>2, <1>3, <1>4, <1>5, <2>1, HighestLasts DEF HighestStep, ProposalsHighest
<1>6. CASE ~UNCHANGED <<highQC, node, state, msgs>>
  <2>1. PICK qc : /\ IsHighQC(qc, received) /\ HasQuorum(received)
                  /\ highQC' = [highQC EXCEPT ![n] = qc]
                  /\ SendPrepare(n, qc, pendingRequest[n])
                  /\ state' = [state EXCEPT ![n] = HighQC]
    BY Zenon, <1>6 DEF HandleNewView, received
  <2>2. highQC'[n] = qc /\ state'[n] = HighQC
    BY Zenon, <2>1 DEF TypeOK, RoundOK, CertificatesOK
  <2>3. PICK v : v = view[n]
    BY Zenon
  <2>4. Highest(qc, v)
    BY Zenon, <1>2, <1>3, <2>1, <2>3, QuorumHighest
  <2>5. msgs \subseteq msgs'
    BY Zenon, <2>1 DEF SendPrepare
  <2>6. Highest(qc, v)'
    BY Zenon, <2>4, <2>5, HighestLasts
  <2>7. \A x \in msgs' \ msgs : x.body.qc = qc /\ x.view = v
    BY <2>1, <2>3, SMTT(20) DEF SendPrepare, Message
  <2>8. \A x \in msgs' \ msgs : Highest(x.body.qc, x.view)'
    BY Zenon, <2>6, <2>7
  <2> QED
    BY Zenon, <1>1, <1>2, <1>3, <1>4, <2>2, <2>3, <2>6, <2>8 DEF HighestStep
<1> QED
  BY Zenon, <1>5, <1>6

LEMMA StepHighest ==
  ASSUME TypeOK, TypeOK', SafetyInv, BackedInv, ProposalsHighest, NEW n \in Validators,
         StepOf(n)
  PROVE  HighestStep(n)
<1>1. CASE UNCHANGED highQC /\ (CatchUp(n) \/ ChangeView(n, view[n].round + 1))
  BY Zenon, <1>1, EnterViewHighest
<1>2. ASSUME NEW m \in msgs, HandlePrepare(n, m) PROVE HighestStep(n)
  <2>1. UNCHANGED <<view, lastChained, newViews, highQC>>
    BY Zenon, <1>2 DEF HandlePrepare, roundVars, certVars, voteVars
  <2>2. msgs \subseteq msgs' /\ \A x \in msgs' \ msgs : x.code # "Prepare"
    BY <1>2, SendVoteStep DEF HandlePrepare, Message
  <2>3. state' = state \/ ~IsProposer(n)
    BY Zenon, <1>2 DEF HandlePrepare
  <2> QED
    BY Zenon, <2>1, <2>2, <2>3, RoundHighest
<1>3. ASSUME NEW m \in msgs, HandlePrepareVote(n, m) \/ HandlePreCommit(n, m)
      PROVE  HighestStep(n)
  <2>1. UNCHANGED <<view, lastChained, newViews, highQC>>
    BY Zenon, <1>3 DEF HandlePrepareVote, HandlePreCommit, roundVars, voteVars
  <2>2. msgs \subseteq msgs' /\ \A x \in msgs' \ msgs : x.code # "Prepare"
    <3>1. \/ msgs' = msgs
          \/ \E qc : msgs' = msgs \cup {Message(n, "PreCommit", qc)}
          \/ SendVote(n, "PreCommitVote", node[n])
      BY Zenon, <1>3 DEF HandlePrepareVote, HandlePreCommit
    <3>2. CASE msgs' = msgs
      BY Zenon, <3>2
    <3>3. ASSUME NEW qc, msgs' = msgs \cup {Message(n, "PreCommit", qc)}
          PROVE  msgs \subseteq msgs' /\ \A x \in msgs' \ msgs : x.code # "Prepare"
      BY ONLY <3>3 DEF Message
    <3>4. CASE SendVote(n, "PreCommitVote", node[n])
      BY <3>4, SendVoteStep DEF Message
    <3> QED
      BY Zenon, <3>1, <3>2, <3>3, <3>4
  <2>3. state' = state \/ state'[n] = Prepared
    BY Zenon, <1>3 DEF HandlePrepareVote, HandlePreCommit, TypeOK, RoundOK
  <2> QED
    BY Zenon, <2>1, <2>2, <2>3, States, RoundHighest
<1>4. ASSUME NEW m \in msgs, HandlePreCommitVote(n, m) \/ HandleCommit(n, m)
      PROVE  HighestStep(n)
  <2>1. UNCHANGED <<view, lastChained, newViews, highQC>>
    BY Zenon, <1>4 DEF HandlePreCommitVote, HandleCommit, roundVars, voteVars
  <2>2. msgs \subseteq msgs' /\ \A x \in msgs' \ msgs : x.code # "Prepare"
    <3>1. \/ msgs' = msgs
          \/ \E qc : msgs' = msgs \cup {Message(n, "Commit", qc)}
          \/ SendVote(n, "CommitVote", node[n])
      BY Zenon, <1>4 DEF HandlePreCommitVote, HandleCommit
    <3>2. CASE msgs' = msgs
      BY Zenon, <3>2
    <3>3. ASSUME NEW qc, msgs' = msgs \cup {Message(n, "Commit", qc)}
          PROVE  msgs \subseteq msgs' /\ \A x \in msgs' \ msgs : x.code # "Prepare"
      BY ONLY <3>3 DEF Message
    <3>4. CASE SendVote(n, "CommitVote", node[n])
      BY <3>4, SendVoteStep DEF Message
    <3> QED
      BY Zenon, <3>1, <3>2, <3>3, <3>4
  <2>3. state' = state \/ state'[n] = PreCommitted
    BY Zenon, <1>4 DEF HandlePreCommitVote, HandleCommit, AcceptLockQC, TypeOK, RoundOK
  <2> QED
    BY Zenon, <2>1, <2>2, <2>3, States, RoundHighest
<1>5. ASSUME NEW m \in msgs, HandleCommitVote(n, m) PROVE HighestStep(n)
  <2>1. UNCHANGED <<view, lastChained, newViews, highQC>>
    BY Zenon, <1>5 DEF HandleCommitVote, roundVars
  <2>2. msgs \subseteq msgs' /\ \A x \in msgs' \ msgs : x.code # "Prepare"
    <3>1. msgs' = msgs \/ \E body : msgs' = msgs \cup {Message(n, "Decide", body)}
      BY Zenon, <1>5 DEF HandleCommitVote
    <3> QED
      BY <3>1 DEF Message
  <2>3. state' = state \/ state'[n] = Committed
    BY Zenon, <1>5 DEF HandleCommitVote, TypeOK, RoundOK
  <2> QED
    BY Zenon, <2>1, <2>2, <2>3, States, RoundHighest
<1>6. ASSUME NEW m \in msgs, HandleDecide(n, m) PROVE HighestStep(n)
  <2>1. UNCHANGED highQC
    BY Zenon, <1>6 DEF HandleDecide
  <2>2. CASE ~CatchUp(n)
    <3>1. UNCHANGED <<view, lastChained, newViews, msgs>>
      BY Zenon, <1>6, <2>2 DEF HandleDecide, roundVars, voteVars
    <3>2. state' = state \/ state'[n] = Committed
      BY Zenon, <1>6, <2>2 DEF HandleDecide, TypeOK, RoundOK
    <3> QED
      BY Zenon, <2>1, <3>1, <3>2, States, RoundHighest
  <2> QED
    BY Zenon, <1>1, <2>1, <2>2
<1>7. ASSUME NEW b \in Blocks, InsertBlock(n, b) PROVE HighestStep(n)
  <2>1. UNCHANGED <<view, lastChained, newViews, highQC, msgs, state>>
    BY Zenon, <1>7 DEF InsertBlock, roundVars, certVars, voteVars
  <2> QED
    BY Zenon, <2>1, RoundHighest
<1>8. ASSUME Timeout(n) \/ FinalCommitted(n)
      PROVE  UNCHANGED highQC /\ (CatchUp(n) \/ ChangeView(n, view[n].round + 1))
  BY Zenon, <1>8 DEF Timeout, FinalCommitted
<1> QED
  BY Zenon, <1>1, <1>2, <1>3, <1>4, <1>5, <1>6, <1>7, <1>8, HandleNewViewHighest,
     HandleRequestHighest
  DEF StepOf, HandleMessage

LEMMA CertNext ==
  ASSUME TypeOK, TypeOK', SafetyInv, CertInv, [Next]_vars PROVE CertInv'
<1>1. VoteInv'
  BY Zenon, VoteNext DEF CertInv
<1>2. CASE UNCHANGED vars
  <2>1. UNCHANGED <<view, lastChained, state, pendingRequest, node, lockedBlock, highQC,
                    prepareQC, lockQC, newViews, msgs>>
    BY Zenon, <1>2 DEF vars, proposalVars, certVars, voteVars, roundVars
  <2>2. BackedInv'
    <3>1. Certificates' = Certificates /\ \A n \in Validators : Held(n)' = Held(n)
      BY Zenon, <2>1 DEF Certificates, Held
    <3>2. \A qc \in Certificates' \cup UNION {Held(n)' : n \in Validators} :
            qc.signed => Backed(qc)'
      BY Zenon, <2>1, <3>1, BackedLasts DEF CertInv, BackedInv
    <3>3. \A m \in msgs' : CertificateOK(m)'
      BY Zenon, <2>1 DEF CertInv, BackedInv, CertificateOK, CertOK
    <3>4. (\A n \in Validators :
            /\ CertOK(prepareQC[n], "PrepareVote")
            /\ lockQC[n] # NoQC => CertOK(lockQC[n], "PreCommitVote"))'
      BY Zenon, <2>1 DEF CertInv, BackedInv, CertOK
    <3> QED
      BY Zenon, <3>2, <3>3, <3>4 DEF BackedInv
  <2>3. (\A n \in Validators : NotAhead(n))'
    BY Zenon, <2>1 DEF CertInv, NotAhead
  <2>4. VotesCovered'
    BY Zenon, <2>1 DEF CertInv, VotesCovered, Covers
  <2>5. ProposalsHighest'
    <3>1. PICK n \in Validators : TRUE
      BY Zenon, ValidatorsAssumption
    <3>2. HighestStep(n)
      BY Zenon, <2>1, RoundHighest DEF CertInv
    <3>3. \A p \in Validators : Same(p)
      BY Zenon, <2>1 DEF Same
    <3> QED
      BY Zenon, <2>1, <3>2, <3>3, ProposalsHighestStep DEF CertInv
  <2> QED
    BY Zenon, <1>1, <2>2, <2>3, <2>4, <2>5 DEF CertInv
<1>3. ASSUME NEW n \in Validators, StepOf(n) PROVE CertInv'
  <2>1. /\ msgs \subseteq msgs' /\ CertStep(n) /\ Keeps(n)
        /\ \A p \in Validators : p # n => Same(p)
    BY Zenon, <1>3, CertSteps
  <2>2. BackedInv'
    BY Zenon, <2>1, BackedStep DEF CertInv
  <2>3. NotAhead(n)'
    BY Zenon, <2>1, NotAheadStep DEF CertInv
  <2>4. \A p \in Validators : p # n => NotAhead(p)'
    BY <2>1, SMTT(20) DEF Same, NotAhead, CertInv
  <2>5. VotesCovered'
    BY Zenon, <1>1, <2>1, <2>3, CoveredStep DEF CertInv
  <2>6. ProposalsHighest'
    BY Zenon, <1>3, <2>1, StepHighest, ProposalsHighestStep DEF CertInv
  <2> QED
    BY Zenon, <1>1, <2>2, <2>3, <2>4, <2>5, <2>6 DEF CertInv
<1> QED
  BY Zenon, <1>2, <1>3, NextIsStepOf

---------------------------------------------------------------------------
(* Theorems                                                                *)

(* Two supported blocks of a height share a voter, so they are equal. *)
LEMMA SafetyGivesAgreement == SafetyInv => Agreement
<1> SUFFICES ASSUME SafetyInv, NEW p \in Validators, NEW q \in Validators,
                    NEW b \in committed[p], NEW c \in committed[q], number[b] = number[c]
             PROVE  b = c
  BY Zenon DEF Agreement
<1>1. Supported(b) /\ Supported(c)
  BY Zenon DEF SafetyInv, DecidedSupported
<1>2. PICK S \in SUBSET Validators :
        /\ Cardinality(S) >= Q
        /\ \A r \in S : \E m \in CommitVotes :
             m.src = r /\ m.body.block = b /\ m.view.height = number[b]
  BY Zenon, <1>1 DEF Supported
<1>3. PICK T \in SUBSET Validators :
        /\ Cardinality(T) >= Q
        /\ \A r \in T : \E m \in CommitVotes :
             m.src = r /\ m.body.block = c /\ m.view.height = number[c]
  BY Zenon, <1>1 DEF Supported
<1>4. PICK r \in S : r \in T
  BY Zenon, <1>2, <1>3, QuorumIntersection
<1> QED
  BY <1>2, <1>3, <1>4 DEF SafetyInv, OneCommitVotePerHeight

(* The inductive invariant holds in every reachable state. *)
THEOREM Safety == Spec => [](TypeOK /\ SafetyInv)
<1>1. Init => TypeOK /\ SafetyInv
  BY Zenon, TypeInit, SafetyInit
<1>2. TypeOK /\ SafetyInv /\ [Next]_vars => (TypeOK /\ SafetyInv)'
  BY Zenon, TypeNext, SafetyNext
<1> QED
  BY <1>1, <1>2, PTL DEF Spec

(* No two validators commit different blocks of one height, whatever is    *)
(* lost, delayed, duplicated or reordered, whenever timers fire, and for   *)
(* every number of validators, blocks and rounds.                          *)
THEOREM NoFork == Spec => []Agreement
BY Safety, SafetyGivesAgreement, PTL

(* A validator holds its lock until its chain has reached the height: no   *)
(* timeout, late message or other proposal makes it give up the block.     *)
THEOREM LocksAreHeld == Spec => LockHeld
<1>1. TypeOK /\ SafetyInv /\ [Next]_vars =>
        [\A n \in Validators :
           lockedBlock[n] # Nil /\ lockedBlock'[n] # lockedBlock[n] =>
             number[chain[n]] >= view[n].height]_vars
  BY Zenon, LockStepHeld
<1> QED
  BY <1>1, Safety, PTL DEF Spec, LockHeld

(* The inductive invariant holds in every reachable state. *)
LEMMA Invariance == Spec => [](TypeOK /\ SafetyInv /\ CertInv)
<1> DEFINE I == TypeOK /\ SafetyInv /\ CertInv
<1>1. Init => I
  BY Zenon, TypeInit, SafetyInit, CertInit
<1>2. I /\ [Next]_vars => I'
  BY Zenon, TypeNext, SafetyNext, CertNext
<1> QED
  BY <1>1, <1>2, PTL DEF Spec

(* Every vote, lock and certificate is where InductiveInv puts it: commit  *)
(* votes are backed by locks, certificates by quorums, decisions by both,  *)
(* and NewViews carry no prepareQC older than what their sender voted for. *)
THEOREM Certified == Spec => []InductiveInv
<1>1. TypeOK /\ SafetyInv /\ CertInv => InductiveInv
  BY Zenon DEF InductiveInv
<1> QED
  BY <1>1, Invariance, PTL

(* Two certificates of one code and view share a voter, who voted once. *)
LEMMA BackedAgree ==
  ASSUME CertInv, NEW x, NEW y, Backed(x), Backed(y), x.code = y.code, x.view = y.view
  PROVE  x.node = y.node
<1>1. PICK S \in SUBSET Validators :
        /\ Cardinality(S) >= Q
        /\ \A p \in S : \E m \in Votes :
             m.src = p /\ m.code = x.code /\ m.view = x.view /\ m.body = x.node
  BY Zenon DEF Backed
<1>2. PICK T \in SUBSET Validators :
        /\ Cardinality(T) >= Q
        /\ \A p \in T : \E m \in Votes :
             m.src = p /\ m.code = y.code /\ m.view = y.view /\ m.body = y.node
  BY Zenon DEF Backed
<1>3. PICK p \in S : p \in T
  BY Zenon, <1>1, <1>2, QuorumIntersection
<1> QED
  BY <1>1, <1>2, <1>3 DEF CertInv, VoteInv, OneVotePerPhase

(* Of one view and phase there is one certificate, whatever messages are   *)
(* delayed, repeated or handled out of order: a validator votes once.      *)
THEOREM OneQCPerPhase == Spec => []NoConflictingQC
<1>1. CertInv => NoConflictingQC
  BY Zenon, BackedAgree DEF NoConflictingQC, CertInv, BackedInv
<1> QED
  BY <1>1, Invariance, PTL

(* prepareQC and lockQC never go back to an earlier view, across timeouts, *)
(* late messages and new heights.                                          *)
THEOREM CertificatesOnlyAdvance == Spec => CertificatesAdvance
<1> DEFINE A == \A n \in Validators :
                  /\ ~Before(prepareQC'[n].view, prepareQC[n].view)
                  /\ lockQC[n] # NoQC =>
                       lockQC'[n] # NoQC /\ ~Before(lockQC'[n].view, lockQC[n].view)
<1>1. ASSUME TypeOK, TypeOK', SafetyInv, CertInv, [Next]_vars PROVE [A]_vars
  <2>1. ASSUME NEW n \in Validators, StepOf(n) PROVE A
    <3>1. CertStep(n) /\ \A p \in Validators : p # n => Same(p)
      BY Zenon, <1>1, <2>1, CertSteps
    <3>2. \A p \in Validators : p # n =>
            /\ ~Before(prepareQC'[p].view, prepareQC[p].view)
            /\ lockQC[p] # NoQC =>
                 lockQC'[p] # NoQC /\ ~Before(lockQC'[p].view, lockQC[p].view)
      BY Zenon, <1>1, <3>1, CertificateViews, BeforeOrder DEF Same
    <3>3. NotAhead(n)
      BY Zenon, <1>1 DEF CertInv
    <3> QED
      BY Zenon, <1>1, <3>1, <3>2, <3>3, Advance
  <2> QED
    BY Zenon, <1>1, <2>1, NextIsStepOf
<1>2. TypeOK /\ TypeOK' /\ SafetyInv /\ CertInv /\ [Next]_vars => [A]_vars
  BY Zenon, <1>1
<1> QED
  BY <1>2, Invariance, PTL DEF Spec, CertificatesAdvance

(* The certificate of a proposal is at or above every lock: the NewViews   *)
(* it was chosen from include one of a validator that voted for the lock.  *)
LEMMA ProposalCoversLock ==
  ASSUME TypeOK, CertInv, NEW qc, NEW v \in AllViews, Highest(qc, v), qc \in Certificates,
         NEW lock, CertOK(lock, "PreCommitVote"), Backed(lock), Before(lock.view, v),
         lock.view \in AllViews, qc.view \in AllViews
  PROVE  Before(lock.view, qc.view) \/ qc.node = lock.node
<1>1. PICK S \in SUBSET Validators :
        /\ Cardinality(S) >= Q
        /\ \A p \in S : \E m \in msgs :
             /\ m.code = "NewView" /\ m.src = p /\ m.view = v
             /\ ~Before(qc.view, m.body.view)
  BY Zenon DEF Highest
<1>2. PICK T \in SUBSET Validators :
        /\ Cardinality(T) >= Q
        /\ \A p \in T : \E m \in Votes :
             m.src = p /\ m.code = lock.code /\ m.view = lock.view /\ m.body = lock.node
  BY Zenon DEF Backed
<1>3. PICK p \in S : p \in T
  BY Zenon, <1>1, <1>2, QuorumIntersection
<1>4. PICK x \in msgs : /\ x.code = "NewView" /\ x.src = p /\ x.view = v
                        /\ ~Before(qc.view, x.body.view)
  BY Zenon, <1>1, <1>3
<1>5. PICK y \in msgs : /\ y.code = "PreCommitVote" /\ y.src = p
                        /\ y.view = lock.view /\ y.body = lock.node
  BY Zenon, <1>2, <1>3 DEF Votes, CertOK
<1>6. Before(lock.view, x.body.view) \/ (lock.view = x.body.view /\ lock.node = x.body.node)
  BY Zenon, <1>4, <1>5 DEF CertInv, VotesCovered, Covers
<1>7. x.body.view \in AllViews /\ lock.view.height # 0
  BY Zenon, <1>4, <1>5 DEF TypeOK, MessageOK, IsQC, AllViews, Views
<1>8. CASE qc.view # lock.view
  BY <1>4, <1>6, <1>7, <1>8, BeforeOrder, SMTT(20)
<1>9. CASE qc.view = lock.view
  <2>1. x.body.view = qc.view /\ x.body.node = lock.node
    BY Zenon, <1>4, <1>6, <1>9
  <2>2. qc.signed /\ qc.code = "PrepareVote"
    BY Zenon, <1>7, <1>9 DEF Highest, CertOK
  <2>3. x.body.signed /\ x.body.code = "PrepareVote"
    <3>1. CertOK(x.body, "PrepareVote")
      BY Zenon, <1>4 DEF CertInv, BackedInv, CertificateOK
    <3> QED
      BY Zenon, <1>7, <1>9, <2>1, <3>1 DEF CertOK
  <2>4. x.body \in Certificates
    BY Zenon, <1>4 DEF Certificates
  <2>5. Backed(qc) /\ Backed(x.body)
    BY Zenon, <2>2, <2>3, <2>4 DEF CertInv, BackedInv
  <2> QED
    BY Zenon, <2>1, <2>2, <2>3, <2>5, BackedAgree
<1> QED
  BY Zenon, <1>8, <1>9

(* A proposal passes safeNode at every validator of its view that is not   *)
(* past the pre-commit phase, whichever messages each of them has missed.  *)
THEOREM ProposalsAlwaysSafe == Spec => []ProposalsAreSafe
<1>1. ASSUME TypeOK, CertInv, NEW m \in msgs, NEW n \in Validators, m.code = "Prepare",
             m.view = view[n], state[n] < PreCommitted
      PROVE  SafeNode(n, m.body.node, m.body.qc)
  <2> DEFINE qc == m.body.qc
  <2>1. qc.node = m.body.node.parent
    <3>1. m.body.node = [parent |-> qc.node, block |-> m.body.node.block]
      BY Zenon, <1>1 DEF CertInv, VoteInv, SentOK
    <3> QED
      BY <3>1
  <2>2. ASSUME lockQC[n] # NoQC
        PROVE  lockQC[n].node = m.body.node.parent \/ Before(lockQC[n].view, qc.view)
    <3>1. view[n] \in AllViews /\ lockQC[n].view \in AllViews
      BY Zenon, <1>1, <2>2, CertificateViews
    <3>2. Before(lockQC[n].view, view[n])
      BY Zenon, <1>1, <2>2, <3>1, BeforeOrder DEF CertInv, NotAhead
    <3>3. CertOK(lockQC[n], "PreCommitVote")
      BY Zenon, <2>2, <1>1 DEF CertInv, BackedInv
    <3>4. Backed(lockQC[n])
      BY <2>2, <1>1, <3>3 DEF CertInv, BackedInv, Held, CertOK
    <3>5. Highest(qc, view[n]) /\ qc \in Certificates /\ qc.view \in AllViews
      BY Zenon, <1>1 DEF CertInv, ProposalsHighest, Certificates, TypeOK, MessageOK, IsQC, AllViews
    <3> HIDE DEF qc
    <3> QED
      BY Zenon, <1>1, <2>1, <3>1, <3>2, <3>3, <3>4, <3>5, ProposalCoversLock
  <2> QED
    BY Zenon, <2>1, <2>2 DEF SafeNode
<1>2. TypeOK /\ CertInv => ProposalsAreSafe
  BY Zenon, <1>1 DEF ProposalsAreSafe
<1> QED
  BY <1>2, Invariance, PTL

(* The blocks that the validators commit and chain form one ledger: each   *)
(* extends a decided block, at most one is decided per height, and local   *)
(* chains grow along them.  The core implements Ledger for every value of  *)
(* its constants.                                                          *)
THEOREM CoreImplementsLedger == Spec => ImplementsLedger
<1>1. Init => ChainInv
  BY DEF Init, ChainInv, Extends, Decided
<1>2. Spec => []ChainInv
  BY <1>1, ChainNext, Safety, PTL DEF Spec
<1>3. Init => Abstract!Init
  <2> SUFFICES ASSUME Init PROVE Abstract!Init
    BY Zenon
  <2>1. \A n \in Validators : committed[n] = {}
    BY Zenon DEF Init
  <2>2. UNION {committed[n] : n \in Validators} = {}
    BY Zenon, <2>1
  <2> QED
    BY Zenon, <2>2 DEF Init, Abstract!Init
<1>4. TypeOK /\ SafetyInv /\ ChainInv /\ Agreement' /\ [Next]_vars
        => [Abstract!Next]_<<Decided, chain>>
  BY Zenon, LedgerStep
<1> QED
  BY <1>2, <1>3, <1>4, Safety, NoFork, PTL DEF Spec, ImplementsLedger, Abstract!Spec, Decided
===========================================================================
