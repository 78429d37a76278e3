--------------------------- MODULE SealingProofs ---------------------------
(***************************************************************************)
(* Proofs about Sealing, for any blocks of this miner and of others.       *)
(***************************************************************************)
EXTENDS Sealing, TLAPS

Elements(s) == {s[i] : i \in DOMAIN s}

(* A channel of capacity one. *)
LEMMA Send ==
  ASSUME NEW S, NEW s \in Seq(S), Len(s) < 1, NEW x \in S
  PROVE  Append(s, x) \in Seq(S) /\ Len(Append(s, x)) = 1 /\ Elements(Append(s, x)) = {x}
  BY DEF Elements

LEMMA Take ==
  ASSUME NEW S, NEW s \in Seq(S), Len(s) <= 1, s # << >>
  PROVE  /\ Head(s) \in S /\ Elements(s) = {Head(s)}
         /\ Tail(s) \in Seq(S) /\ Len(Tail(s)) <= 1 /\ Elements(Tail(s)) = {}
<1>1. Len(s) = 1 /\ Head(s) = s[1] /\ s[1] \in S
  OBVIOUS
<1>2. Tail(s) \in Seq(S) /\ Len(Tail(s)) = 0
  BY <1>1
<1> QED
  BY <1>1, <1>2 DEF Elements

(* The chain grows by one block. *)
LEMMA Grow ==
  ASSUME NEW S, NEW s \in Seq(S), NEW x \in S
  PROVE  /\ Append(s, x) \in Seq(S) /\ Len(Append(s, x)) = Len(s) + 1
         /\ Elements(Append(s, x)) = Elements(s) \cup {x}
         /\ \A i \in 1 .. Len(s) : Append(s, x)[i] = s[i]
         /\ Append(s, x)[Len(s) + 1] = x
<1>1. /\ Append(s, x) \in Seq(S) /\ Len(Append(s, x)) = Len(s) + 1
      /\ \A i \in 1 .. Len(s) : Append(s, x)[i] = s[i]
      /\ Append(s, x)[Len(s) + 1] = x
  OBVIOUS
<1>2. DOMAIN s = 1 .. Len(s) /\ DOMAIN Append(s, x) = 1 .. (Len(s) + 1) /\ Len(s) \in Nat
  BY <1>1
<1>3. Elements(Append(s, x)) \subseteq Elements(s) \cup {x}
  BY <1>1, <1>2 DEF Elements
<1>4. Elements(s) \cup {x} \subseteq Elements(Append(s, x))
  BY <1>1, <1>2 DEF Elements
<1> QED
  BY <1>1, <1>3, <1>4

---------------------------------------------------------------------------
(* TypeOK                                                                  *)

LEMMA InitTypeOK == Init => TypeOK
  BY SealingAssumption DEF Init, TypeOK, Blocks

LEMMA InsertType ==
  ASSUME TypeOK, NEW b \in Blocks, Insert(b)
  PROVE  chain' \in Seq(Blocks)
  BY DEF TypeOK, Insert, Height

LEMMA ReturnType ==
  ASSUME TypeOK, NEW b \in Own, pc[b] = "wait", Return(b)
  PROVE  /\ pc' \in [Own -> {"none", "delay", "lock", "wait", "done"}]
         /\ sealMu' \in Own \cup {Nil} /\ proposedBlockHash' = sealMu'
         /\ \A c \in Own : pc'[c] = "wait" <=> sealMu' = c
  BY SealingAssumption DEF TypeOK, Return, Blocks

(* taskLoop has not seen the task that is being sent to it. *)
BuiltIsNew == built # Nil => pc[built] = "none"

LEMMA NextBuiltIsNew == TypeOK /\ BuiltIsNew /\ [Next]_vars => BuiltIsNew'
<1> SUFFICES ASSUME TypeOK, BuiltIsNew, [Next]_vars PROVE BuiltIsNew'
  OBVIOUS
<1>0. pc \in [Own -> {"none", "delay", "lock", "wait", "done"}]
  BY DEF TypeOK
<1>1. ASSUME NEW b \in Own, BuildTask(b) PROVE BuiltIsNew'
  BY <1>1 DEF BuildTask, BuiltIsNew, sealVars
<1>2. ASSUME NEW b \in Own, NewTask(b) PROVE BuiltIsNew'
  BY <1>2 DEF NewTask, BuiltIsNew
<1>3. ASSUME NEW b \in Own, pc[b] # "none", pc' = [pc EXCEPT ![b] = pc'[b]], built' = built
      PROVE  BuiltIsNew'
  BY <1>0, <1>3 DEF BuiltIsNew, TypeOK
<1>4. ASSUME pc' = pc, built' = built PROVE BuiltIsNew'
  BY <1>4 DEF BuiltIsNew
<1>5. ASSUME NEW b \in Own, SealStep(b) PROVE BuiltIsNew'
  <2>1. pc[b] # "none" /\ built' = built
    BY <1>5 DEF SealStep, DelayOver, StopInDelay, LockSeal, Receive, StopInWait, workVars
  <2>2. pc' = pc \/ \E x : pc' = [pc EXCEPT ![b] = x]
    BY <1>5 DEF SealStep, DelayOver, StopInDelay, LockSeal, Receive, StopInWait, Return
  <2>3. pc' = pc \/ pc' = [pc EXCEPT ![b] = pc'[b]]
    BY <1>0, <2>2
  <2> QED
    BY <1>3, <1>4, <2>1, <2>3
<1>6. ASSUME NEW b \in Blocks, ResultLoop(b) \/ Commit(b) \/ Fetch(b) \/ Synchronise(b)
      PROVE  BuiltIsNew'
  BY <1>4, <1>6 DEF ResultLoop, Commit, Fetch, Synchronise, sealVars, workVars
<1>7. CASE CommitSend \/ Start \/ UNCHANGED vars
  BY <1>4, <1>7 DEF CommitSend, Start, vars, sealVars, workVars
<1> QED
  BY <1>1, <1>2, <1>5, <1>6, <1>7 DEF Next, Blocks

LEMMA NextTypeOK == TypeOK /\ BuiltIsNew /\ [Next]_vars => TypeOK'
<1> SUFFICES ASSUME TypeOK, BuiltIsNew, [Next]_vars PROVE TypeOK'
  OBVIOUS
<1> USE SealingAssumption
<1>1. ASSUME NEW b \in Own, NewTask(b) PROVE TypeOK'
  BY <1>1 DEF TypeOK, BuiltIsNew, NewTask, commitVars, engineVars, Blocks
<1>2. ASSUME NEW b \in Own, ResultLoop(b) PROVE TypeOK'
  <2>1. chain' \in Seq(Blocks)
    BY <1>2, InsertType DEF ResultLoop, Blocks
  <2> QED
    BY <1>2, <2>1 DEF TypeOK, ResultLoop, commitVars, sealVars, workVars, engineVars
<1>3. ASSUME NEW b \in Own, DelayOver(b) PROVE TypeOK'
  BY <1>3 DEF TypeOK, DelayOver, commitVars, workVars, engineVars, Blocks
<1>4. ASSUME NEW b \in Own, StopInDelay(b) PROVE TypeOK'
  BY <1>4 DEF TypeOK, StopInDelay, commitVars, workVars, engineVars, Blocks
<1>5. ASSUME NEW b \in Own, LockSeal(b) PROVE TypeOK'
  BY <1>5 DEF TypeOK, LockSeal, commitVars, workVars, engineVars, Blocks
<1>6. ASSUME NEW b \in Own, Receive(b) PROVE TypeOK'
  <2>1. commitCh' \in Seq(Blocks) /\ Len(commitCh') <= 1
    BY <1>6, Take DEF TypeOK, Receive
  <2>2. CASE Head(commitCh) = b
    <3>1. pc[b] = "wait" /\ Return(b)
      BY <1>6, <2>2 DEF Receive
    <3> QED
      BY <1>6, <2>1, <2>2, <3>1, ReturnType DEF TypeOK, Receive, workVars, engineVars
  <2>3. CASE Head(commitCh) # b
    BY <1>6, <2>1, <2>3 DEF TypeOK, Receive, workVars, engineVars
  <2> QED
    BY <2>2, <2>3
<1>7. ASSUME NEW b \in Own, StopInWait(b) PROVE TypeOK'
  <2>1. pc[b] = "wait" /\ Return(b)
    BY <1>7 DEF StopInWait
  <2> QED
    BY <1>7, <2>1, ReturnType DEF TypeOK, StopInWait, commitVars, workVars, engineVars
<1>8. ASSUME NEW b \in Blocks, Commit(b) PROVE TypeOK'
  BY <1>8 DEF TypeOK, Commit, sealVars, workVars, engineVars
<1>9. ASSUME NEW b \in Blocks, Fetch(b) PROVE TypeOK'
  <2>1. chain' \in Seq(Blocks)
    BY <1>9, InsertType DEF Fetch
  <2> QED
    BY <1>9, <2>1 DEF TypeOK, Fetch, sealVars, workVars, engineVars
<1>10. ASSUME NEW b \in Blocks, Synchronise(b) PROVE TypeOK'
  <2>1. chain' \in Seq(Blocks)
    BY <1>10, InsertType DEF Synchronise
  <2> QED
    BY <1>10, <2>1 DEF TypeOK, Synchronise, commitVars, sealVars, workVars, engineVars
<1>11. ASSUME CommitSend PROVE TypeOK'
  <2>1. commitCh' \in Seq(Blocks) /\ Len(commitCh') <= 1
    <3>1. committing \in Blocks /\ commitCh' = Append(commitCh, committing) /\ Len(commitCh) < 1
      BY <1>11 DEF TypeOK, CommitSend
    <3> QED
      BY <3>1, Send DEF TypeOK
  <2> QED
    BY <1>11, <2>1 DEF TypeOK, CommitSend, sealVars, workVars, engineVars
<1>12. ASSUME NEW b \in Own, BuildTask(b) PROVE TypeOK'
  BY <1>12 DEF TypeOK, BuildTask, sealVars, commitVars, engineVars, Blocks
<1>13. ASSUME Start PROVE TypeOK'
  <2>1. starts' \in 0 .. MaxStarts /\ alive' \in BOOLEAN
    <3>1. starts < MaxStarts /\ starts' = starts + 1 /\ starts \in 0 .. MaxStarts
      BY <1>13 DEF TypeOK, Start
    <3>2. alive' \in BOOLEAN
      BY <1>13, Zenon DEF Start
    <3> QED
      BY <3>1, <3>2
  <2>2. {commitCh[i] : i \in DOMAIN commitCh} \subseteq Blocks
    BY DEF TypeOK
  <2>3. commitCh' \in Seq(Blocks) /\ Len(commitCh') <= 1
    BY <1>13 DEF Start
  <2> QED
    BY <1>13, <2>1, <2>2, <2>3 DEF TypeOK, Start, workVars
<1>14. CASE UNCHANGED vars
  BY <1>14 DEF TypeOK, vars, sealVars, commitVars, workVars, engineVars
<1> QED
  BY <1>1, <1>2, <1>3, <1>4, <1>5, <1>6, <1>7, <1>8, <1>9, <1>10, <1>11, <1>12,
     <1>13, <1>14 DEF Next, SealStep

(* proposedBlockHash is the block of the one goroutine that is between     *)
(* Lock and Unlock of sealMu, or empty, and commitCh never holds more than *)
(* one block, however often the engine is started again.                   *)
THEOREM TypeCorrect == Spec => []TypeOK
<1>1. Init => BuiltIsNew
  BY DEF Init, BuiltIsNew
<1> QED
  BY <1>1, InitTypeOK, NextTypeOK, NextBuiltIsNew, PTL DEF Spec

---------------------------------------------------------------------------
(* The invariant behind DecidedIsInserted.                                 *)

InChannel == Elements(commitCh)

(* What is in the hands of the core, the worker or the fetcher was         *)
(* decided.                                                                *)
DecidedInv ==
  /\ InChannel \cup results \cup enqueued \subseteq committed
  /\ committing # Nil => committing \in committed

(* A block on its way through commitCh is that of the goroutine that waits *)
(* for it, or of one that the worker has stopped; and it is on its way     *)
(* once.                                                                   *)
HandOffInv ==
  /\ committing \notin InChannel
  /\ \A b \in InChannel \cup ({committing} \ {Nil}) :
       b \in Own /\ (pc[b] = "wait" \/ b \in stopped)

(* The chain is numbered, consensus decides one block of a height, and it  *)
(* decides no block before the parent is in the chain.                     *)
ChainInv ==
  /\ \A i \in 1 .. Len(chain) : number[chain[i]] = i
  /\ \A b \in committed : number[b] <= Len(chain) + 1
  /\ \A b, c \in committed \cup Chained : number[b] = number[c] => b = c

Inv == TypeOK /\ BuiltIsNew /\ DecidedInv /\ HandOffInv /\ ChainInv /\ DecidedIsInserted

(* A decided block that does not extend the chain is part of it. *)
LEMMA InsertKeeps ==
  ASSUME TypeOK, ChainInv, NEW b \in committed, Insert(b), committed' = committed
  PROVE  ChainInv' /\ b \in Chained' /\ Chained \subseteq Chained'
<1> USE SealingAssumption
<1>0. b \in Blocks /\ chain \in Seq(Blocks) /\ committed \subseteq Blocks
  BY DEF TypeOK
<1>1. CASE number[b] = Len(chain) + 1
  <2>1. chain' = Append(chain, b)
    BY <1>1 DEF Insert, Height
  <2>2. /\ Len(chain') = Len(chain) + 1 /\ Elements(chain') = Elements(chain) \cup {b}
        /\ \A i \in 1 .. Len(chain) : chain'[i] = chain[i]
        /\ chain'[Len(chain) + 1] = b
    BY <1>0, <2>1, Grow
  <2>3. Chained' = Chained \cup {b}
    BY <2>2 DEF Chained, Elements
  <2>4. \A i \in 1 .. Len(chain') : number[chain'[i]] = i
    BY <1>0, <1>1, <2>2 DEF ChainInv
  <2>5. \A c \in committed : number[c] <= Len(chain') + 1
    BY <1>0, <2>2 DEF ChainInv
  <2> QED
    BY <2>3, <2>4, <2>5 DEF ChainInv
<1>2. CASE number[b] # Len(chain) + 1
  <2>1. chain' = chain /\ Chained' = Chained
    BY <1>2 DEF Insert, Height, Chained
  <2>2. number[b] \in 1 .. Len(chain)
    BY <1>0, <1>2 DEF ChainInv
  <2>3. chain[number[b]] \in Chained /\ number[chain[number[b]]] = number[b]
    BY <1>0, <2>2 DEF Chained, ChainInv
  <2>4. b = chain[number[b]]
    BY <2>3 DEF ChainInv
  <2> QED
    BY <2>1, <2>3, <2>4 DEF ChainInv
<1> QED
  BY <1>1, <1>2

(* What ChainInv is about may stay as it is. *)
LEMMA ChainFrame ==
  ASSUME ChainInv, chain' = chain, committed' = committed
  PROVE  ChainInv' /\ Chained' = Chained
  BY DEF ChainInv, Chained

LEMMA ChannelFrame == ASSUME commitCh' = commitCh PROVE InChannel' = InChannel
  BY DEF InChannel, Elements

LEMMA InsertedMeans ==
  DecidedIsInserted <=>
    committed \ (stopped \cup dropped) \subseteq
      Chained \cup enqueued \cup results \cup {committing} \cup InChannel
  BY DEF DecidedIsInserted, InChannel, Elements

LEMMA InsertedMeansNext ==
  DecidedIsInserted' <=>
    committed' \ (stopped' \cup dropped') \subseteq
      Chained' \cup enqueued' \cup results' \cup {committing'} \cup InChannel'
  BY DEF DecidedIsInserted, InChannel, Elements

LEMMA InitInv == Init => Inv
<1> SUFFICES ASSUME Init PROVE Inv
  OBVIOUS
<1>1. InChannel = {} /\ Chained = {}
  BY DEF Init, InChannel, Elements, Chained
<1>2. DecidedInv /\ HandOffInv /\ DecidedIsInserted
  BY <1>1, InsertedMeans DEF Init, DecidedInv, HandOffInv
<1>3. ChainInv
  BY <1>1 DEF Init, ChainInv
<1> QED
  BY <1>2, <1>3, InitTypeOK DEF Init, Inv, BuiltIsNew

(* A step that leaves the blocks alone, and takes a goroutine out of its   *)
(* wait for commitCh only if the worker has stopped it.                    *)
LEMMA SealKeeps ==
  ASSUME Inv, UNCHANGED <<commitVars, results, chain, dropped>>, stopped \subseteq stopped',
         \A c \in Own : pc[c] = "wait" => pc'[c] = "wait" \/ c \in stopped'
  PROVE  DecidedInv' /\ HandOffInv' /\ ChainInv' /\ DecidedIsInserted'
<1>1. /\ InChannel' = InChannel /\ Chained' = Chained /\ ChainInv'
      /\ committing' = committing /\ committed' = committed /\ enqueued' = enqueued
      /\ results' = results /\ dropped' = dropped
  BY ChannelFrame, ChainFrame DEF Inv, commitVars
<1>2. DecidedInv'
  BY <1>1 DEF Inv, DecidedInv
<1>3. HandOffInv'
  BY <1>1 DEF Inv, HandOffInv
<1>4. DecidedIsInserted'
  BY <1>1, InsertedMeans, InsertedMeansNext DEF Inv
<1> QED
  BY <1>1, <1>2, <1>3, <1>4

LEMMA WorkerInv ==
  ASSUME Inv, NEW b \in Own, BuildTask(b) \/ NewTask(b) \/ DelayOver(b)
                              \/ StopInDelay(b) \/ LockSeal(b) \/ StopInWait(b)
  PROVE  DecidedInv' /\ HandOffInv' /\ ChainInv' /\ DecidedIsInserted'
<1>0. pc \in [Own -> {"none", "delay", "lock", "wait", "done"}]
  BY DEF Inv, TypeOK
<1>1. UNCHANGED <<commitVars, results, chain, dropped>>
  BY DEF BuildTask, NewTask, DelayOver, StopInDelay, LockSeal, StopInWait, engineVars
<1>2. stopped \subseteq stopped'
  BY DEF BuildTask, NewTask, DelayOver, StopInDelay, LockSeal, StopInWait, workVars
<1>3. ASSUME NEW c \in Own, pc[c] = "wait" PROVE pc'[c] = "wait" \/ c \in stopped'
  <2>1. CASE BuildTask(b)
    BY <1>3, <2>1 DEF BuildTask, sealVars
  <2>2. CASE NewTask(b)
    BY <1>0, <1>3, <2>2, SealingAssumption DEF NewTask, Inv, BuiltIsNew, Blocks
  <2>3. CASE DelayOver(b) \/ StopInDelay(b) \/ LockSeal(b) \/ StopInWait(b)
    BY <1>0, <1>3, <2>3 DEF DelayOver, StopInDelay, LockSeal, StopInWait, Return, workVars
  <2> QED
    BY <2>1, <2>2, <2>3
<1> QED
  BY <1>1, <1>2, <1>3, SealKeeps

LEMMA ReceiveInv ==
  ASSUME Inv, NEW b \in Own, Receive(b)
  PROVE  DecidedInv' /\ HandOffInv' /\ ChainInv' /\ DecidedIsInserted'
<1> USE SealingAssumption
<1> DEFINE x == Head(commitCh)
<1>1. InChannel = {x} /\ InChannel' = {}
  BY Take DEF Receive, Inv, TypeOK, InChannel
<1>2. /\ UNCHANGED <<committing, committed, enqueued, stopped, dropped, chain>>
      /\ pc \in [Own -> {"none", "delay", "lock", "wait", "done"}]
      /\ pc[b] = "wait"
  BY DEF Receive, Inv, TypeOK, workVars, engineVars
<1>3. ChainInv' /\ Chained' = Chained
  BY <1>2, ChainFrame DEF Inv
<1>4. committing # x /\ x \in Own /\ x \in committed /\ (pc[x] = "wait" \/ x \in stopped)
  BY <1>1 DEF Inv, HandOffInv, DecidedInv
<1>5. CASE x = b
  <2>1. results' = results \cup {b} /\ pc' = [pc EXCEPT ![b] = "done"]
    BY <1>5 DEF Receive, Return
  <2>2. DecidedInv'
    BY <1>1, <1>2, <1>4, <1>5, <2>1 DEF Inv, DecidedInv
  <2>3. HandOffInv'
    BY <1>1, <1>2, <1>4, <1>5, <2>1 DEF Inv, HandOffInv
  <2>4. DecidedIsInserted'
    BY <1>1, <1>2, <1>3, <1>5, <2>1, InsertedMeans, InsertedMeansNext DEF Inv
  <2> QED
    BY <1>3, <2>2, <2>3, <2>4
<1>6. CASE x # b
  <2>1. results' = results /\ pc' = pc
    BY <1>6 DEF Receive
  <2>2. x \in stopped
    BY <1>2, <1>4, <1>6 DEF Inv, TypeOK
  <2>3. DecidedInv'
    BY <1>1, <1>2, <2>1 DEF Inv, DecidedInv
  <2>4. HandOffInv'
    BY <1>1, <1>2, <2>1 DEF Inv, HandOffInv
  <2>5. DecidedIsInserted'
    BY <1>1, <1>2, <1>3, <2>1, <2>2, InsertedMeans, InsertedMeansNext DEF Inv
  <2> QED
    BY <1>3, <2>3, <2>4, <2>5
<1> QED
  BY <1>5, <1>6

LEMMA CommitInv ==
  ASSUME Inv, NEW b \in Blocks, Commit(b)
  PROVE  DecidedInv' /\ HandOffInv' /\ ChainInv' /\ DecidedIsInserted'
<1> USE SealingAssumption
<1>1. /\ committing = Nil /\ b \notin committed /\ committed' = committed \cup {b}
      /\ UNCHANGED <<commitCh, results, chain, stopped, dropped, pc>>
      /\ Decidable(b)
  BY DEF Commit, sealVars, workVars, engineVars
<1>2. InChannel' = InChannel /\ Chained' = Chained
  BY <1>1, ChannelFrame DEF Chained
<1>3. ChainInv'
  <2>1. number[b] <= Len(chain) + 1
    BY <1>1 DEF Decidable, Height, Inv, TypeOK
  <2>2. \A c \in committed \cup Chained : number[c] = number[b] => c = b
    BY <1>1 DEF Decidable
  <2> QED
    BY <1>1, <1>2, <2>1, <2>2 DEF ChainInv, Inv
<1>4. CASE proposedBlockHash = b
  <2>1. committing' = b /\ enqueued' = enqueued
    BY <1>4 DEF Commit
  <2>2. b \in Own /\ pc[b] = "wait"
    BY <1>4, SealingAssumption DEF Inv, TypeOK
  <2>3. DecidedInv' /\ HandOffInv'
    BY <1>1, <1>2, <2>1, <2>2 DEF Inv, DecidedInv, HandOffInv
  <2>4. DecidedIsInserted'
    <3>1. Nil \notin committed
      BY DEF Inv, TypeOK
    <3>2. committed \ (stopped \cup dropped) \subseteq
            Chained \cup enqueued \cup results \cup InChannel
      BY <1>1, <3>1, InsertedMeans DEF Inv
    <3> QED
      BY <1>1, <1>2, <2>1, <3>2, InsertedMeansNext
  <2> QED
    BY <1>3, <2>3, <2>4
<1>5. CASE proposedBlockHash # b
  <2>1. committing' = committing /\ enqueued' = enqueued \cup {b}
    BY <1>5 DEF Commit
  <2>2. DecidedInv' /\ HandOffInv'
    BY <1>1, <1>2, <2>1 DEF Inv, DecidedInv, HandOffInv
  <2>3. DecidedIsInserted'
    BY <1>1, <1>2, <2>1, InsertedMeans, InsertedMeansNext DEF Inv
  <2> QED
    BY <1>3, <2>2, <2>3
<1> QED
  BY <1>4, <1>5

LEMMA CommitSendInv ==
  ASSUME Inv, CommitSend
  PROVE  DecidedInv' /\ HandOffInv' /\ ChainInv' /\ DecidedIsInserted'
<1> USE SealingAssumption
<1>1. /\ committing # Nil /\ committing' = Nil
      /\ UNCHANGED <<committed, enqueued, results, chain, stopped, dropped, pc>>
  BY DEF CommitSend, sealVars, workVars, engineVars
<1>2. InChannel' = {committing}
  BY <1>1, Send DEF CommitSend, Inv, TypeOK, InChannel
<1>3. InChannel = {}
  BY DEF CommitSend, Inv, TypeOK, InChannel, Elements
<1>4. ChainInv' /\ Chained' = Chained
  BY <1>1, ChainFrame DEF Inv
<1>5. DecidedInv' /\ HandOffInv'
  BY <1>1, <1>2 DEF Inv, DecidedInv, HandOffInv
<1>6. DecidedIsInserted'
  BY <1>1, <1>2, <1>3, <1>4, InsertedMeans, InsertedMeansNext DEF Inv
<1> QED
  BY <1>4, <1>5, <1>6

(* resultLoop, the fetcher and synchronisation insert a block. *)
LEMMA InsertInv ==
  ASSUME Inv, NEW b \in Blocks, Insert(b),
         UNCHANGED <<commitCh, committing, committed, pc, stopped, dropped>>,
         \/ b \in results /\ results' = results \ {b} /\ enqueued' = enqueued
         \/ b \in enqueued /\ enqueued' = enqueued \ {b} /\ results' = results
  PROVE  DecidedInv' /\ HandOffInv' /\ ChainInv' /\ DecidedIsInserted'
<1>1. b \in committed
  BY DEF Inv, DecidedInv
<1>2. ChainInv' /\ b \in Chained' /\ Chained \subseteq Chained'
  BY <1>1, InsertKeeps DEF Inv
<1>3. InChannel' = InChannel
  BY ChannelFrame
<1>4. DecidedInv' /\ HandOffInv'
  BY <1>3 DEF Inv, DecidedInv, HandOffInv
<1>5. DecidedIsInserted'
  BY <1>2, <1>3, InsertedMeans, InsertedMeansNext DEF Inv
<1> QED
  BY <1>2, <1>4, <1>5

LEMMA SynchroniseInv ==
  ASSUME Inv, NEW b \in Blocks, Synchronise(b)
  PROVE  DecidedInv' /\ HandOffInv' /\ ChainInv' /\ DecidedIsInserted'
<1> USE SealingAssumption
<1>1. /\ UNCHANGED <<commitCh, committing, committed, enqueued, pc, stopped, dropped, results>>
      /\ number[b] = Len(chain) + 1 /\ chain \in Seq(Blocks) /\ committed \subseteq Blocks
      /\ chain' = Append(chain, b)
  BY DEF Synchronise, Insert, Height, commitVars, sealVars, workVars, engineVars, Inv, TypeOK
<1>2. /\ Len(chain') = Len(chain) + 1 /\ Elements(chain') = Elements(chain) \cup {b}
      /\ \A i \in 1 .. Len(chain) : chain'[i] = chain[i]
      /\ chain'[Len(chain) + 1] = b
  BY <1>1, Grow
<1>3. Chained' = Chained \cup {b}
  BY <1>2 DEF Chained, Elements
<1>4. ChainInv'
  <2>1. \A i \in 1 .. Len(chain') : number[chain'[i]] = i
    BY <1>1, <1>2 DEF Inv, ChainInv
  <2>2. \A c \in committed : number[c] <= Len(chain') + 1
    BY <1>1, <1>2 DEF Inv, ChainInv
  <2>3. \A c \in committed \cup Chained : number[c] = number[b] => c = b
    BY DEF Synchronise, Decidable
  <2> QED
    BY <1>1, <1>3, <2>1, <2>2, <2>3 DEF Inv, ChainInv
<1>5. InChannel' = InChannel
  BY <1>1, ChannelFrame
<1>6. DecidedInv' /\ HandOffInv'
  BY <1>1, <1>5 DEF Inv, DecidedInv, HandOffInv
<1>7. DecidedIsInserted'
  BY <1>1, <1>3, <1>5, InsertedMeans, InsertedMeansNext DEF Inv
<1> QED
  BY <1>4, <1>6, <1>7

(* The channel that Start replaces goes with what is in it. *)
LEMMA StartInv ==
  ASSUME Inv, Start PROVE DecidedInv' /\ HandOffInv' /\ ChainInv' /\ DecidedIsInserted'
<1>1. /\ UNCHANGED <<committing, committed, enqueued, results, chain, stopped, pc>>
      /\ dropped' = dropped \cup InChannel
  BY DEF Start, workVars, InChannel, Elements
<1>2. InChannel' = {}
  BY DEF Start, InChannel, Elements
<1>3. ChainInv' /\ Chained' = Chained
  BY <1>1, ChainFrame DEF Inv
<1>4. DecidedInv' /\ HandOffInv'
  BY <1>1, <1>2 DEF Inv, DecidedInv, HandOffInv
<1>5. DecidedIsInserted'
  BY <1>1, <1>2, <1>3, InsertedMeans, InsertedMeansNext DEF Inv
<1> QED
  BY <1>3, <1>4, <1>5

LEMMA NextInv == Inv /\ [Next]_vars => Inv'
<1> SUFFICES ASSUME Inv, [Next]_vars PROVE Inv'
  OBVIOUS
<1> DEFINE Rest == DecidedInv' /\ HandOffInv' /\ ChainInv' /\ DecidedIsInserted'
<1>1. TypeOK' /\ BuiltIsNew'
  BY NextTypeOK, NextBuiltIsNew DEF Inv
<1>2. ASSUME NEW b \in Own, BuildTask(b) \/ NewTask(b) \/ SealStep(b) PROVE Rest
  BY <1>2, WorkerInv, ReceiveInv DEF SealStep
<1>3. ASSUME NEW b \in Own, ResultLoop(b) PROVE Rest
  <2>1. /\ b \in Blocks /\ Insert(b) /\ b \in results /\ results' = results \ {b}
        /\ enqueued' = enqueued
        /\ UNCHANGED <<commitCh, committing, committed, pc, stopped, dropped>>
    BY <1>3 DEF ResultLoop, Blocks, commitVars, sealVars, workVars, engineVars
  <2> QED
    BY <2>1, InsertInv
<1>4. ASSUME NEW b \in Blocks, Commit(b) PROVE Rest
  BY <1>4, CommitInv
<1>5. ASSUME NEW b \in Blocks, Fetch(b) PROVE Rest
  <2>1. /\ Insert(b) /\ b \in enqueued /\ enqueued' = enqueued \ {b} /\ results' = results
        /\ UNCHANGED <<commitCh, committing, committed, pc, stopped, dropped>>
    BY <1>5 DEF Fetch, sealVars, workVars, engineVars
  <2> QED
    BY <2>1, InsertInv
<1>6. ASSUME NEW b \in Blocks, Synchronise(b) PROVE Rest
  BY <1>6, SynchroniseInv
<1>7. ASSUME CommitSend PROVE Rest
  BY <1>7, CommitSendInv
<1>8. ASSUME UNCHANGED vars PROVE Rest
  <2>1. UNCHANGED <<commitVars, results, chain, dropped>> /\ stopped' = stopped /\ pc' = pc
    BY <1>8 DEF vars, sealVars, workVars, engineVars
  <2> QED
    BY <2>1, SealKeeps
<1>9. ASSUME Start PROVE Rest
  BY <1>9, StartInv
<1> QED
  BY <1>1, <1>2, <1>3, <1>4, <1>5, <1>6, <1>7, <1>8, <1>9 DEF Next, Inv

(* A decided block is on its way into the local chain, unless it is the    *)
(* block of a sealing task that the worker interrupted, or was in commitCh *)
(* when the engine was started again.                                      *)
THEOREM DecidedAreInserted == Spec => []DecidedIsInserted
<1>1. Inv => DecidedIsInserted
  BY DEF Inv
<1> QED
  BY <1>1, InitInv, NextInv, PTL DEF Spec

(* The worker imports no block that consensus has not decided. *)
THEOREM SealedAreDecided == Spec => []OnlyDecidedSealed
<1>1. Inv => OnlyDecidedSealed
  BY DEF Inv, DecidedInv, OnlyDecidedSealed
<1> QED
  BY <1>1, InitInv, NextInv, PTL DEF Spec
=============================================================================
