--------------------------- MODULE MinterProofs ---------------------------
(***************************************************************************)
(* Proofs about Minter, for any transactions, blocks and changes of role.  *)
(***************************************************************************)
EXTENDS Minter, SequenceTheorems, TLAPS

(* The outstanding blocks were minted one after the other, and no two of   *)
(* them share a transaction: that is why accept and unwindFrom may take    *)
(* the transactions of a block off the blacklist.                          *)
Outstanding ==
  /\ \E S : blocks \in Seq(S)
  /\ unappliedBlocks \in Seq(Block) /\ IsInjective(unappliedBlocks)
  /\ \A x, y \in Range(unappliedBlocks) : x # y => TxsOf(x) \cap TxsOf(y) = {}

Inv == Outstanding /\ TxsTracked

---------------------------------------------------------------------------
(* Sequences without repetition *)

LEMMA TailOf ==
  ASSUME NEW S, NEW q \in Seq(S), q # <<>>, IsInjective(q)
  PROVE  /\ Tail(q) \in Seq(S) /\ IsInjective(Tail(q))
         /\ Head(q) \in Range(q) /\ Range(Tail(q)) = Range(q) \ {Head(q)}
<1>1. /\ Len(q) \in Nat /\ Len(q) # 0 /\ Head(q) = q[1] /\ DOMAIN q = 1 .. Len(q)
      /\ Tail(q) \in Seq(S) /\ DOMAIN Tail(q) = 1 .. Len(q) - 1
      /\ \A i \in 1 .. Len(q) - 1 : Tail(q)[i] = q[i + 1]
  OBVIOUS
<1>2. \A i \in 1 .. Len(q) - 1 : i + 1 \in 1 .. Len(q) /\ i + 1 # 1
  BY <1>1
<1>3. \A i \in 1 .. Len(q) : i = 1 \/ (i - 1 \in 1 .. Len(q) - 1 /\ (i - 1) + 1 = i)
  BY <1>1
<1>4. IsInjective(Tail(q))
  BY <1>1, <1>2 DEF IsInjective
<1>5. Head(q) \in Range(q) /\ 1 \in DOMAIN q
  BY <1>1 DEF Range
<1>6. ASSUME NEW x \in Range(Tail(q)) PROVE x \in Range(q) \ {Head(q)}
  <2>1. PICK i \in 1 .. Len(q) - 1 : x = q[i + 1]
    BY <1>1, <1>6 DEF Range
  <2> QED
    BY <1>1, <1>2, <1>5, <2>1 DEF Range, IsInjective
<1>7. ASSUME NEW x \in Range(q) \ {Head(q)} PROVE x \in Range(Tail(q))
  <2>1. PICK i \in 1 .. Len(q) : x = q[i]
    BY <1>1, <1>7 DEF Range
  <2>2. i - 1 \in 1 .. Len(q) - 1 /\ Tail(q)[i - 1] = x
    BY <1>1, <1>3, <1>7, <2>1
  <2> QED
    BY <1>1, <2>2 DEF Range
<1> QED
  BY <1>1, <1>4, <1>5, <1>6, <1>7

LEMMA AppendOf ==
  ASSUME NEW S, NEW q \in Seq(S), NEW x \in S, IsInjective(q), x \notin Range(q)
  PROVE  /\ Append(q, x) \in Seq(S) /\ IsInjective(Append(q, x))
         /\ Range(Append(q, x)) = Range(q) \cup {x}
<1>1. /\ Append(q, x) \in Seq(S) /\ Len(q) \in Nat
      /\ \A i \in 1 .. Len(q) : Append(q, x)[i] = q[i]
      /\ Append(q, x)[Len(q) + 1] = x
      /\ DOMAIN q = 1 .. Len(q) /\ DOMAIN Append(q, x) = 1 .. Len(q) + 1
  OBVIOUS
<1>2. \A i \in 1 .. Len(q) + 1 : i \in 1 .. Len(q) \/ i = Len(q) + 1
  BY <1>1
<1>3. \A i \in 1 .. Len(q) : i \in 1 .. Len(q) + 1 /\ q[i] # x
  BY <1>1 DEF Range
<1>4. IsInjective(Append(q, x))
  BY <1>1, <1>2, <1>3 DEF IsInjective
<1>5. Len(q) + 1 \in 1 .. Len(q) + 1
  BY <1>1
<1>6. Range(Append(q, x)) \subseteq Range(q) \cup {x}
  BY <1>1, <1>2 DEF Range
<1>7. Range(q) \cup {x} \subseteq Range(Append(q, x))
  BY <1>1, <1>3, <1>5 DEF Range
<1> QED
  BY <1>1, <1>4, <1>6, <1>7

LEMMA PrefixOf ==
  ASSUME NEW S, NEW q \in Seq(S), NEW k \in 0 .. Len(q), IsInjective(q)
  PROVE  /\ SubSeq(q, 1, k) \in Seq(S) /\ IsInjective(SubSeq(q, 1, k))
         /\ Range(SubSeq(q, 1, k)) \subseteq Range(q)
<1>1. /\ SubSeq(q, 1, k) \in Seq(S) /\ DOMAIN SubSeq(q, 1, k) = 1 .. k
      /\ \A i \in 1 .. k : SubSeq(q, 1, k)[i] = q[i]
      /\ DOMAIN q = 1 .. Len(q) /\ 1 .. k \subseteq 1 .. Len(q)
  OBVIOUS
<1> QED
  BY <1>1 DEF Range, IsInjective

---------------------------------------------------------------------------
(* What is left on the blacklist when blocks are taken off the list *)

LEMMA Remaining ==
  ASSUME Inv, NEW rest \in SUBSET Range(unappliedBlocks)
  PROVE  proposedTxes \ TxsOfAll(Range(unappliedBlocks) \ rest) = TxsOfAll(rest)
<1>1. \A x \in rest : \A y \in Range(unappliedBlocks) \ rest : TxsOf(x) \cap TxsOf(y) = {}
  BY DEF Inv, Outstanding
<1>2. TxsOfAll(rest) \subseteq proposedTxes
  BY DEF Inv, TxsTracked, TxsOfAll
<1>3. TxsOfAll(rest) \cap TxsOfAll(Range(unappliedBlocks) \ rest) = {}
  BY <1>1 DEF TxsOfAll
<1>4. proposedTxes \subseteq TxsOfAll(rest) \cup TxsOfAll(Range(unappliedBlocks) \ rest)
  BY DEF Inv, TxsTracked, TxsOfAll
<1> QED
  BY <1>2, <1>3, <1>4

(* The blocks stay and some of the outstanding ones go. *)
LEMMA Fewer ==
  ASSUME Inv, UNCHANGED blocks, unappliedBlocks' \in Seq(Block),
         IsInjective(unappliedBlocks'),
         Range(unappliedBlocks') \subseteq Range(unappliedBlocks),
         proposedTxes' =
           proposedTxes \ TxsOfAll(Range(unappliedBlocks) \ Range(unappliedBlocks'))
  PROVE  Inv'
<1>1. proposedTxes' = TxsOfAll(Range(unappliedBlocks'))
  BY Remaining
<1>2. Block' = Block /\ \A b : TxsOf(b)' = TxsOf(b)
  BY DEF Block, TxsOf
<1>3. TxsTracked'
  BY <1>1 DEF TxsTracked, TxsOfAll, TxsOf
<1>4. Outstanding'
  BY <1>2 DEF Inv, Outstanding, TxsOf
<1> QED
  BY <1>3, <1>4 DEF Inv

(* Blocks are added, and none of them is outstanding. *)
LEMMA OthersBlocks ==
  ASSUME Inv, NEW x, blocks' = Append(blocks, x)
  PROVE  /\ \E S : blocks' \in Seq(S)
         /\ Len(blocks') = Len(blocks) + 1 /\ Len(blocks) \in Nat
         /\ Block \subseteq Block' /\ Len(blocks) + 1 \notin Block
         /\ \A b \in Block : TxsOf(b)' = TxsOf(b)
<1>1. PICK S : blocks \in Seq(S)
  BY DEF Inv, Outstanding
<1>2. blocks \in Seq(S \cup {x}) /\ blocks' \in Seq(S \cup {x})
  BY <1>1
<1>3. /\ Len(blocks) \in Nat /\ Len(blocks') = Len(blocks) + 1
      /\ \A i \in 1 .. Len(blocks) : blocks'[i] = blocks[i]
  BY <1>2
<1> QED
  BY <1>2, <1>3 DEF Block, TxsOf

LEMMA MintInv ==
  ASSUME Inv, NEW txs, txs \cap proposedTxes = {}, Extend(Len(blocks) + 1, txs),
         NEW x, x.txs = txs, blocks' = Append(blocks, x)
  PROVE  Inv'
<1>0. PICK b : b = Len(blocks) + 1
  OBVIOUS
<1>1. /\ \E S : blocks' \in Seq(S)
      /\ Len(blocks') = Len(blocks) + 1 /\ Len(blocks) \in Nat
      /\ Block \subseteq Block' /\ b \notin Block
      /\ \A k \in Block : TxsOf(k)' = TxsOf(k)
  BY <1>0, OthersBlocks
<1>2. b \in Block'
  BY <1>0, <1>1 DEF Block
<1>3. TxsOf(b)' = txs
  <2>1. PICK S : blocks \in Seq(S)
    BY DEF Inv, Outstanding
  <2>2. blocks \in Seq(S \cup {x})
    BY <2>1
  <2>3. blocks'[b] = x
    BY <1>0, <2>2
  <2> QED
    BY <2>3 DEF TxsOf
<1>4. unappliedBlocks \in Seq(Block) /\ Range(unappliedBlocks) \subseteq Block
  BY DEF Inv, Outstanding, Range
<1>5. unappliedBlocks \in Seq(Block')
  BY <1>1, <1>4, SeqDef
<1>6. /\ unappliedBlocks' \in Seq(Block') /\ IsInjective(unappliedBlocks')
      /\ Range(unappliedBlocks') = Range(unappliedBlocks) \cup {b}
  <2>1. unappliedBlocks' = Append(unappliedBlocks, b)
    BY <1>0 DEF Extend
  <2>2. b \notin Range(unappliedBlocks) /\ IsInjective(unappliedBlocks)
    BY <1>1, <1>4 DEF Inv, Outstanding
  <2> QED
    BY <1>2, <1>5, <2>1, <2>2, AppendOf
<1>7. \A y \in Range(unappliedBlocks) : TxsOf(y)' = TxsOf(y) /\ TxsOf(y) \subseteq proposedTxes
  BY <1>1, <1>4 DEF Inv, TxsTracked, TxsOfAll
<1>8. \A y, z \in Range(unappliedBlocks') : y # z => TxsOf(y)' \cap TxsOf(z)' = {}
  BY <1>3, <1>6, <1>7 DEF Inv, Outstanding
<1>9. Outstanding'
  BY <1>1, <1>6, <1>8 DEF Outstanding
<1>10. proposedTxes' = proposedTxes \cup txs
  BY DEF Extend
<1>11. UNION {TxsOf(y)' : y \in Range(unappliedBlocks')} =
         (UNION {TxsOf(y) : y \in Range(unappliedBlocks)}) \cup txs
  BY <1>3, <1>6, <1>7
<1>12. TxsTracked'
  BY <1>10, <1>11 DEF Inv, TxsTracked, TxsOfAll
<1> QED
  BY <1>9, <1>12 DEF Inv

LEMMA OtherMintsInv ==
  ASSUME Inv, NEW x, blocks' = Append(blocks, x), UNCHANGED <<unappliedBlocks, proposedTxes>>
  PROVE  Inv'
<1>1. /\ \E S : blocks' \in Seq(S)
      /\ Block \subseteq Block'
      /\ \A k \in Block : TxsOf(k)' = TxsOf(k)
  BY OthersBlocks
<1>2. unappliedBlocks \in Seq(Block) /\ Range(unappliedBlocks) \subseteq Block
  BY DEF Inv, Outstanding, Range
<1>3. unappliedBlocks' \in Seq(Block')
  BY <1>1, <1>2, SeqDef
<1>4. \A y \in Range(unappliedBlocks) : TxsOf(y)' = TxsOf(y)
  BY <1>1, <1>2
<1>5. Outstanding'
  BY <1>1, <1>3, <1>4 DEF Inv, Outstanding
<1>6. TxsTracked'
  BY <1>4 DEF Inv, TxsTracked, TxsOfAll
<1> QED
  BY <1>5, <1>6 DEF Inv

LEMMA ClearInv ==
  ASSUME Inv, NEW b, Clear(b), UNCHANGED blocks PROVE Inv'
<1>1. /\ unappliedBlocks' = <<>> /\ proposedTxes' = {}
      /\ Range(<<>>) = {} /\ <<>> \in Seq(Block) /\ IsInjective(<<>>)
  BY DEF Clear, Range, IsInjective
<1>2. proposedTxes' = proposedTxes \ TxsOfAll(Range(unappliedBlocks) \ Range(unappliedBlocks'))
  BY <1>1 DEF Inv, TxsTracked
<1> QED
  BY <1>1, <1>2, Fewer

LEMMA SameInv ==
  ASSUME Inv, UNCHANGED <<blocks, unappliedBlocks, proposedTxes>> PROVE Inv'
BY DEF Inv, Outstanding, Block, TxsTracked, TxsOfAll, TxsOf

LEMMA AcceptInv ==
  ASSUME Inv, NEW b, Accept(b), UNCHANGED blocks PROVE Inv'
<1>1. CASE unappliedBlocks # <<>> /\ Head(unappliedBlocks) = b
  <2>1. unappliedBlocks' = Tail(unappliedBlocks) /\ proposedTxes' = proposedTxes \ TxsOf(b)
    BY <1>1 DEF Accept
  <2>2. /\ unappliedBlocks' \in Seq(Block) /\ IsInjective(unappliedBlocks')
        /\ b \in Range(unappliedBlocks)
        /\ Range(unappliedBlocks') = Range(unappliedBlocks) \ {b}
    BY <1>1, <2>1, TailOf DEF Inv, Outstanding
  <2>3. TxsOfAll(Range(unappliedBlocks) \ Range(unappliedBlocks')) = TxsOf(b)
    BY <2>2 DEF TxsOfAll
  <2> QED
    BY <2>1, <2>2, <2>3, Fewer
<1>2. CASE unappliedBlocks = <<>>
  BY <1>2, SameInv DEF Accept
<1>3. CASE unappliedBlocks # <<>> /\ Head(unappliedBlocks) # b
  BY <1>3, ClearInv DEF Accept
<1> QED
  BY <1>1, <1>2, <1>3

LEMMA UnwindInv ==
  ASSUME Inv, NEW invalid, NEW headBlock, UnwindFrom(invalid, headBlock), UNCHANGED blocks
  PROVE  Inv'
<1> DEFINE u == unappliedBlocks
           I == {i \in 1 .. Len(u) : u[i] = invalid}
           at == SelectInSeq(u, LAMBDA b : b = invalid)
           kept == IF at - 1 < 0 THEN <<>> ELSE SubSeq(u, 1, at - 1)
<1>1. u \in Seq(Block) /\ IsInjective(u) /\ DOMAIN u = 1 .. Len(u) /\ Len(u) \in Nat
  BY DEF Inv, Outstanding
<1>2. at = IF I # {} THEN Min(I) ELSE 0
  BY DEF SelectInSeq
<1>3. at \in 0 .. Len(u)
  <2>1. ASSUME I # {} PROVE Min(I) \in 1 .. Len(u)
    <3>1. PICK k \in I : TRUE
      BY <2>1
    <3>2. \A i \in I : i = k
      BY <1>1 DEF IsInjective
    <3>3. \E x \in I : \A y \in I : x =< y
      BY <1>1, <3>1, <3>2
    <3>4. Min(I) \in I
      BY <3>3 DEF Min
    <3> QED
      BY <3>4
  <2> QED
    BY <1>1, <1>2, <2>1
<1>4. UNCHANGED <<unappliedBlocks, proposedTxes>> \/
        /\ unappliedBlocks' = kept
        /\ proposedTxes' = proposedTxes \ TxsOfAll(Range(u) \ Range(kept))
  BY DEF UnwindFrom
<1> HIDE DEF at
<1>5. kept \in Seq(Block) /\ IsInjective(kept) /\ Range(kept) \subseteq Range(u)
  <2>1. CASE at = 0
    <3>1. kept = <<>>
      BY <2>1
    <3>2. Range(<<>>) = {} /\ <<>> \in Seq(Block) /\ IsInjective(<<>>)
      BY DEF Range, IsInjective
    <3> QED
      BY <3>1, <3>2
  <2>2. CASE at # 0
    <3>1. at - 1 \in 0 .. Len(u) /\ kept = SubSeq(u, 1, at - 1)
      BY <1>1, <1>3, <2>2
    <3> QED
      BY <1>1, <3>1, PrefixOf
  <2> QED
    BY <2>1, <2>2
<1> HIDE DEF kept
<1> QED
  BY <1>4, <1>5, Fewer, SameInv

---------------------------------------------------------------------------
LEMMA InvInit == Init => Inv
<1> SUFFICES ASSUME Init PROVE Inv
  OBVIOUS
<1>1. blocks = <<>> /\ unappliedBlocks = <<>> /\ proposedTxes = {}
  BY DEF Init
<1>2. Range(<<>>) = {} /\ <<>> \in Seq(Block) /\ IsInjective(<<>>)
  BY DEF Range, IsInjective
<1>3. blocks \in Seq({})
  BY <1>1
<1> QED
  BY <1>1, <1>2, <1>3 DEF Inv, Outstanding, TxsTracked, TxsOfAll

LEMMA InvNext ==
  ASSUME Inv, [Next]_vars PROVE Inv'
<1>1. CASE UNCHANGED vars
  BY <1>1, SameInv DEF vars, specVars
<1>2. CASE Start \/ ChainHead \/ SetHead \/ Throttle \/ Tick
  BY <1>2, SameInv DEF Start, ChainHead, SetHead, Throttle, Tick, specVars
<1>3. CASE Posted \/ ApplyEntry \/ Send \/ NewTx \/ InvalidOrdering \/ ChangeLeader
  BY <1>3, SameInv
  DEF Posted, ApplyEntry, Send, NewTx, InvalidOrdering, ChangeLeader, specVars
<1>4. ASSUME NEW tx \in Txs, AddTx(tx) PROVE Inv'
  BY <1>4, SameInv DEF AddTx, specVars
<1>5. ASSUME NEW lost \in BOOLEAN, Propose(lost) PROVE Inv'
  BY <1>5, SameInv DEF Propose, specVars
<1>6. CASE Stop
  BY <1>6, ClearInv DEF Stop
<1>7. CASE UpdatePerNewHead
  BY <1>7, AcceptInv DEF UpdatePerNewHead
<1>8. CASE UpdatePerInvalidOrdering
  <2>1. UNCHANGED blocks
    BY <1>8 DEF UpdatePerInvalidOrdering
  <2>2. UNCHANGED specVars \/ \E b, h : UnwindFrom(b, h)
    BY <1>8 DEF UpdatePerInvalidOrdering
  <2> QED
    BY <2>1, <2>2, UnwindInv, SameInv DEF specVars
<1>9. CASE MintNewBlock
  <2>1. CASE UNCHANGED <<blocks, specVars>>
    BY <2>1, SameInv DEF specVars
  <2>2. CASE /\ blocks' = Append(blocks,
                                 [parent |-> head, txs |-> GetTransactions, own |-> TRUE])
             /\ Extend(Len(blocks) + 1, GetTransactions)
    <3>1. GetTransactions \cap proposedTxes = {}
      BY DEF GetTransactions
    <3> DEFINE x == [parent |-> head, txs |-> GetTransactions, own |-> TRUE]
    <3>2. x.txs = GetTransactions
      OBVIOUS
    <3> HIDE DEF x
    <3>3. blocks' = Append(blocks, x)
      BY <2>2 DEF x
    <3> QED
      BY <2>2, <3>1, <3>2, <3>3, MintInv
  <2> QED
    BY <1>9, <2>1, <2>2 DEF MintNewBlock
<1>10. CASE OtherMints
  <2>1. UNCHANGED <<unappliedBlocks, proposedTxes>> /\ \E x : blocks' = Append(blocks, x)
    BY <1>10 DEF OtherMints, specVars
  <2> QED
    BY <2>1, OtherMintsInv
<1> QED
  BY <1>1, <1>2, <1>3, <1>4, <1>5, <1>6, <1>7, <1>8, <1>9, <1>10 DEF Next

(* The minter's blacklist is at all times the transactions of the blocks   *)
(* that it has proposed and raft has not ordered: whatever order extend,   *)
(* accept, unwindFrom and clear come in, none stays on it for good and     *)
(* none is taken off too early.                                            *)
THEOREM BlacklistExact == Spec => []TxsTracked
<1>1. Inv => TxsTracked
  BY DEF Inv
<1>2. Inv /\ [Next]_vars => Inv'
  BY InvNext
<1> QED
  BY <1>1, <1>2, InvInit, PTL DEF Spec

---------------------------------------------------------------------------
(* Who waits for whom *)

(* What the channels carry, and that minter.mu is held to post a block. *)
Waiting ==
  /\ \E E : chainHeadChan \in Seq(E) /\ \A e \in E : e.chan # "none"
  /\ \E E : invalidRaftOrderingChan \in Seq(E) /\ \A e \in E : e.chan # "none"
  /\ \E S : proposals \in Seq(S)
  /\ sending = None \/ sending.chan \in {"head", "invalid"}
  /\ mu = (mint = "post")

shared == <<sending, chainHeadChan, invalidRaftOrderingChan, loop, mu, proposals, leader>>

LEMMA NoneIs == None.chan = "none" /\ \A b, h : Event("head", b, h).chan = "head"
                                    /\ Event("invalid", b, h).chan = "invalid"
BY DEF None, Event

LEMMA NotSelect == ASSUME NEW l, l.ev.chan # "none" PROVE l # Select
BY NoneIs DEF Select

LEMMA AppendSeq ==
  ASSUME NEW q, NEW x, NEW S, q \in Seq(S)
  PROVE  /\ Append(q, x) \in Seq(S \cup {x}) /\ Len(Append(q, x)) = Len(q) + 1
         /\ Len(q) \in Nat
<1>1. q \in Seq(S \cup {x})
  OBVIOUS
<1> QED
  BY <1>1

LEMMA TailSeq ==
  ASSUME NEW q, NEW S, q \in Seq(S), q # <<>>
  PROVE  /\ Tail(q) \in Seq(S) /\ Len(Tail(q)) = Len(q) - 1
         /\ Len(q) \in Nat /\ Len(q) > 0 /\ Head(q) \in S
OBVIOUS

(* The step leaves everything that RaftLoop sees. *)
LEMMA Stutters ==
  ASSUME Waiting, UNCHANGED shared, UNCHANGED mint PROVE Waiting' /\ UNCHANGED R!vars
BY DEF Waiting, shared, R!vars

LEMMA WaitingNext ==
  ASSUME Waiting, [Next]_vars PROVE Waiting' /\ [R!Next]_(R!vars)
<1>1. CASE UNCHANGED vars
  BY <1>1, Stutters
  DEF vars, shared, loopVars, chanVars, nodeVars, raftVars
<1>2. CASE Start \/ Stop \/ NewTx \/ Throttle \/ \E tx \in Txs : AddTx(tx)
  BY <1>2, Stutters
  DEF Start, Stop, NewTx, Throttle, AddTx, shared, loopVars, chanVars, nodeVars, raftVars
<1>3. CASE Tick
  <2>1. UNCHANGED shared /\ mint # "post" /\ mint' # "post"
    BY <1>3 DEF Tick, shared, chanVars, nodeVars, raftVars
  <2> QED
    BY <2>1 DEF Waiting, shared, R!vars
<1>4. CASE OtherMints
  BY <1>4, Stutters DEF OtherMints, shared, loopVars, chanVars
<1>5. CASE ChainHead
  <2>1. /\ loop = Select /\ chainHeadChan # <<>>
        /\ loop'.ev = Head(chainHeadChan) /\ chainHeadChan' = Tail(chainHeadChan)
        /\ UNCHANGED <<sending, invalidRaftOrderingChan, mu, mint, proposals, leader>>
    BY <1>5 DEF ChainHead, nodeVars, raftVars
  <2>2. PICK E : chainHeadChan \in Seq(E) /\ \A e \in E : e.chan # "none"
    BY DEF Waiting
  <2>3. /\ chainHeadChan' \in Seq(E) /\ Len(chainHeadChan') = Len(chainHeadChan) - 1
        /\ Len(chainHeadChan) > 0 /\ Head(chainHeadChan) \in E
    BY <2>1, <2>2, TailSeq
  <2>4. loop' # Select
    BY <2>1, <2>2, <2>3, NotSelect
  <2>5. R!ReceiveHead
    BY <2>1, <2>3, <2>4 DEF R!ReceiveHead
  <2>6. Waiting'
    BY <2>1, <2>2, <2>3 DEF Waiting
  <2> QED
    BY <2>5, <2>6 DEF R!Next
<1>6. CASE InvalidOrdering
  <2>1. /\ loop = Select /\ invalidRaftOrderingChan # <<>>
        /\ loop'.ev = Head(invalidRaftOrderingChan)
        /\ invalidRaftOrderingChan' = Tail(invalidRaftOrderingChan)
        /\ UNCHANGED <<sending, chainHeadChan, mu, mint, proposals, leader>>
    BY <1>6 DEF InvalidOrdering, nodeVars, raftVars
  <2>2. PICK E : invalidRaftOrderingChan \in Seq(E) /\ \A e \in E : e.chan # "none"
    BY DEF Waiting
  <2>3. /\ invalidRaftOrderingChan' \in Seq(E)
        /\ Len(invalidRaftOrderingChan') = Len(invalidRaftOrderingChan) - 1
        /\ Len(invalidRaftOrderingChan) > 0 /\ Head(invalidRaftOrderingChan) \in E
    BY <2>1, <2>2, TailSeq
  <2>4. loop' # Select
    BY <2>1, <2>2, <2>3, NotSelect
  <2>5. R!ReceiveInvalid
    BY <2>1, <2>3, <2>4 DEF R!ReceiveInvalid
  <2>6. Waiting'
    BY <2>1, <2>2, <2>3 DEF Waiting
  <2> QED
    BY <2>5, <2>6 DEF R!Next
<1>7. CASE UpdatePerNewHead \/ SetHead \/ UpdatePerInvalidOrdering
  <2>1. /\ loop.ev.chan # "none" /\ ~mu /\ loop' = Select
        /\ UNCHANGED <<sending, chainHeadChan, invalidRaftOrderingChan, mu, mint,
                       proposals, leader>>
    BY <1>7 DEF UpdatePerNewHead, SetHead, UpdatePerInvalidOrdering, chanVars, nodeVars, raftVars
  <2>2. loop # Select
    BY <2>1, NotSelect
  <2>3. R!Update
    BY <2>1, <2>2 DEF R!Update
  <2>4. Waiting'
    BY <2>1 DEF Waiting
  <2> QED
    BY <2>3, <2>4 DEF R!Next
<1>8. CASE MintNewBlock
  <2>1. /\ ~mu /\ mint = "lock"
        /\ UNCHANGED <<sending, chainHeadChan, invalidRaftOrderingChan, loop, proposals, leader>>
    BY <1>8 DEF MintNewBlock, chanVars, nodeVars, raftVars
  <2>2. \/ mint' = "wait" /\ mu' = mu
        \/ mint' = "post" /\ mu' = TRUE
    BY <1>8 DEF MintNewBlock
  <2>3. UNCHANGED R!vars \/ R!Mint
    BY <2>1, <2>2 DEF R!vars, R!Mint
  <2>4. Waiting'
    BY <2>1, <2>2 DEF Waiting
  <2> QED
    BY <2>3, <2>4 DEF R!Next
<1>9. CASE Posted
  <2>1. /\ mint = "post" /\ Len(proposals) < Room
        /\ mint' = "wait" /\ mu' = FALSE
        /\ UNCHANGED <<sending, chainHeadChan, invalidRaftOrderingChan, loop, leader>>
    BY <1>9 DEF Posted, chanVars, raftVars
  <2>2. PICK b : proposals' = Append(proposals, b)
    BY <1>9 DEF Posted
  <2>3. PICK S : proposals \in Seq(S)
    BY DEF Waiting
  <2>4. proposals' \in Seq(S \cup {b}) /\ Len(proposals') = Len(proposals) + 1
    BY <2>2, <2>3, AppendSeq
  <2>5. R!Posted
    BY <2>1, <2>4 DEF R!Posted, Waiting
  <2>6. Waiting'
    BY <2>1, <2>4 DEF Waiting
  <2> QED
    BY <2>5, <2>6 DEF R!Next
<1>10. CASE \E lost \in BOOLEAN : Propose(lost)
  <2>1. /\ leader /\ proposals # <<>> /\ proposals' = Tail(proposals)
        /\ UNCHANGED <<sending, chainHeadChan, invalidRaftOrderingChan, loop, mu, mint, leader>>
    BY <1>10 DEF Propose, loopVars, chanVars
  <2>2. PICK S : proposals \in Seq(S)
    BY DEF Waiting
  <2>3. /\ proposals' \in Seq(S) /\ Len(proposals') = Len(proposals) - 1
        /\ Len(proposals) > 0
    BY <2>1, <2>2, TailSeq
  <2>4. R!Propose
    BY <2>1, <2>3 DEF R!Propose
  <2>5. Waiting'
    BY <2>1, <2>3 DEF Waiting
  <2> QED
    BY <2>4, <2>5 DEF R!Next
<1>11. CASE ChangeLeader
  <2>1. R!ChangeLeader
    BY <1>11 DEF ChangeLeader, R!ChangeLeader, loopVars, chanVars
  <2>2. Waiting'
    BY <1>11 DEF ChangeLeader, Waiting, loopVars, chanVars
  <2> QED
    BY <2>1, <2>2 DEF R!Next
<1>12. CASE ApplyEntry
  <2>1. /\ sending = None
        /\ UNCHANGED <<chainHeadChan, invalidRaftOrderingChan, loop, mu, mint, proposals,
                       leader>>
    BY <1>12 DEF ApplyEntry, loopVars, chanVars
  <2>2. \E b, h : sending' = Event("head", b, h) \/ sending' = Event("invalid", b, h)
    BY <1>12 DEF ApplyEntry
  <2>3. sending.chan = "none" /\ sending'.chan \in {"head", "invalid"}
    BY <2>1, <2>2, NoneIs
  <2>4. R!Apply
    BY <2>1, <2>3 DEF R!Apply
  <2>5. Waiting'
    BY <2>1, <2>3 DEF Waiting
  <2> QED
    BY <2>4, <2>5 DEF R!Next
<1>13. CASE Send
  <2>1. sending' = None /\ UNCHANGED <<loop, mu, mint, proposals, leader>>
    BY <1>13 DEF Send, loopVars
  <2>2. sending'.chan = "none"
    BY <2>1, NoneIs
  <2>3. CASE /\ sending.chan = "head" /\ Len(chainHeadChan) < HeadRoom
             /\ chainHeadChan' = Append(chainHeadChan, sending)
             /\ UNCHANGED invalidRaftOrderingChan
    <3>1. PICK E : chainHeadChan \in Seq(E) /\ \A e \in E : e.chan # "none"
      BY DEF Waiting
    <3>2. /\ chainHeadChan' \in Seq(E \cup {sending})
          /\ Len(chainHeadChan') = Len(chainHeadChan) + 1
      BY <2>3, <3>1, AppendSeq
    <3>3. \A e \in E \cup {sending} : e.chan # "none"
      BY <2>3, <3>1
    <3>4. R!SendHead
      BY <2>1, <2>2, <2>3, <3>2 DEF R!SendHead
    <3>5. Waiting'
      BY <2>1, <2>3, <3>2, <3>3 DEF Waiting
    <3> QED
      BY <3>4, <3>5 DEF R!Next
  <2>4. CASE /\ sending.chan = "invalid" /\ Len(invalidRaftOrderingChan) < InvalidRoom
             /\ invalidRaftOrderingChan' = Append(invalidRaftOrderingChan, sending)
             /\ UNCHANGED chainHeadChan
    <3>1. PICK E : invalidRaftOrderingChan \in Seq(E) /\ \A e \in E : e.chan # "none"
      BY DEF Waiting
    <3>2. /\ invalidRaftOrderingChan' \in Seq(E \cup {sending})
          /\ Len(invalidRaftOrderingChan') = Len(invalidRaftOrderingChan) + 1
      BY <2>4, <3>1, AppendSeq
    <3>3. \A e \in E \cup {sending} : e.chan # "none"
      BY <2>4, <3>1
    <3>4. R!SendInvalid
      BY <2>1, <2>2, <2>4, <3>2 DEF R!SendInvalid
    <3>5. Waiting'
      BY <2>1, <2>4, <3>2, <3>3 DEF Waiting
    <3> QED
      BY <3>4, <3>5 DEF R!Next
  <2> QED
    BY <1>13, <2>3, <2>4 DEF Send
<1> QED
  BY <1>1, <1>2, <1>3, <1>4, <1>5, <1>6, <1>7, <1>8, <1>9, <1>10, <1>11, <1>12, <1>13 DEF Next

LEMMA WaitingInit == ASSUME Init PROVE Waiting /\ R!Init
<1>1. /\ chainHeadChan = <<>> /\ invalidRaftOrderingChan = <<>> /\ proposals = <<>>
      /\ sending = None /\ mu = FALSE /\ mint = "wait" /\ loop = Select /\ leader = FALSE
  BY DEF Init
<1>2. <<>> \in Seq({}) /\ Len(<<>>) = 0
  OBVIOUS
<1>3. \A q : q = <<>> => \E E : q \in Seq(E) /\ \A e \in E : e.chan # "none"
  <2>1. \A e \in {} : e.chan # "none"
    OBVIOUS
  <2> QED
    BY <1>2, <2>1
<1>4. mu = (mint = "post")
  BY <1>1, Zenon
<1>5. Waiting
  BY <1>1, <1>3, <1>4 DEF Waiting
<1>6. R!Init
  BY <1>1, <1>2, NoneIs DEF R!Init
<1> QED
  BY <1>5, <1>6

(* With any capacities of the channels, the goroutines of the minter and   *)
(* of the raft loop wait for each other in no other way than RaftLoop has  *)
(* them wait: what is checked of that module with the capacities of the    *)
(* code is about every minter, whatever blocks are ordered.                *)
THEOREM MinterImplementsRaftLoop == Spec => ImplementsRaftLoop
<1>1. Init => Waiting /\ R!Init
  BY WaitingInit
<1>2. Waiting /\ [Next]_vars => Waiting' /\ [R!Next]_(R!vars)
  BY WaitingNext
<1> QED
  BY <1>1, <1>2, PTL DEF Spec, ImplementsRaftLoop, R!Spec
===========================================================================
