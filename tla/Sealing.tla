------------------------------ MODULE Sealing ------------------------------
(***************************************************************************)
(* How a decided block gets from the consensus core into the chain of its  *)
(* own node: the worker's taskLoop and resultLoop (miner/worker.go), the   *)
(* goroutines that engine.Seal starts, one per sealing task, and           *)
(* backend.Commit, which the core's event loop calls                       *)
(* (consensus/hotstuff/backend).                                           *)
(*                                                                         *)
(* A sealing task, its goroutine and its block are one value: every task   *)
(* has a seal hash of its own, or taskLoop would have rejected it.         *)
(*                                                                         *)
(* Starting the engine again (engine.go, Start) clears proposedBlockHash   *)
(* and replaces commitCh under the feet of the goroutines that use them.   *)
(***************************************************************************)
EXTENDS Naturals, Sequences

CONSTANTS
  Own,      \* the blocks this node's miner may build
  Foreign,  \* the blocks of other miners
  number,   \* header.Number of a block
  MaxStarts,  \* bound: how often the engine is started again
  Nil

Blocks == Own \cup Foreign

ASSUME SealingAssumption ==
  /\ number \in [Blocks -> Nat \ {0}]
  /\ Own \cap Foreign = {}
  /\ Nil \notin Blocks
  /\ MaxStarts \in Nat

VARIABLES
  built,              \* the task that commit is sending on the unbuffered taskCh
  task,               \* the task taskLoop submitted last
  stopped,            \* tasks whose stop channel is closed
  pc,                 \* where the goroutine of each task is
  sealMu,             \* the goroutine that holds Backend.sealMu
  proposedBlockHash,  \* Backend.proposedBlockHash
  commitCh,           \* Backend.commitCh, of capacity one
  requested,          \* blocks posted to the core as RequestEvents
  committing,         \* the block Commit is sending to commitCh
  committed,          \* blocks the core has passed to Commit
  results,            \* blocks on their way to resultLoop
  enqueued,           \* blocks handed to the block fetcher
  chain,              \* the blocks of the local chain after the genesis
  starts,             \* how often the engine was started again
  dropped,            \* history: blocks that were in a commitCh when Start replaced it
  alive               \* has no goroutine panicked?

sealVars == <<pc, sealMu, proposedBlockHash, requested>>
commitVars == <<commitCh, committing, committed, enqueued>>
workVars == <<built, task, stopped>>
engineVars == <<starts, dropped, alive>>
vars == <<sealVars, commitVars, workVars, results, chain, engineVars>>

Height == Len(chain)
Chained == {chain[i] : i \in DOMAIN chain}

(* WriteBlockWithState or InsertChain: the block extends the chain.  A     *)
(* block that is there already, or that does not extend it, is ignored.    *)
Insert(b) ==
  chain' = IF number[b] = Height + 1 THEN Append(chain, b) ELSE chain

---------------------------------------------------------------------------
(* The worker.                                                             *)

(* mainLoop, commitNewWork: a task is built on the head of the chain. *)
BuildTask(b) ==
  /\ built = Nil
  /\ pc[b] = "none"
  /\ number[b] = Height + 1
  /\ built' = b
  /\ UNCHANGED <<sealVars, commitVars, task, stopped, results, chain, engineVars>>

(* taskLoop: interrupt the task in flight and call engine.Seal, which      *)
(* starts a goroutine.  The chain may have grown since the task was built. *)
NewTaskNoInterrupt(b) ==
  /\ built = b
  /\ built' = Nil
  /\ task' = b
  /\ pc' = [pc EXCEPT ![b] = "delay"]
  /\ UNCHANGED <<stopped, sealMu, proposedBlockHash, requested, commitVars, results, chain,
                 engineVars>>
NewTask(b) ==
  /\ built = b
  /\ built' = Nil
  /\ task' = b
  /\ stopped' = IF task = Nil THEN stopped ELSE stopped \cup {task}
  /\ pc' = [pc EXCEPT ![b] = "delay"]
  /\ UNCHANGED <<sealMu, proposedBlockHash, requested, commitVars, results, chain, engineVars>>

ResultLoop(b) ==
  /\ b \in results
  /\ results' = results \ {b}
  /\ Insert(b)
  /\ UNCHANGED <<sealVars, commitVars, workVars, engineVars>>

---------------------------------------------------------------------------
(* The goroutine of engine.Seal.                                           *)

(* The block's timestamp is reached; the select may take this branch even  *)
(* when the stop channel is closed too.                                    *)
DelayOver(b) ==
  /\ pc[b] = "delay"
  /\ pc' = [pc EXCEPT ![b] = "lock"]
  /\ UNCHANGED <<sealMu, proposedBlockHash, requested, commitVars, workVars, results, chain,
                 engineVars>>

StopInDelay(b) ==
  /\ pc[b] = "delay"
  /\ b \in stopped
  /\ pc' = [pc EXCEPT ![b] = "done"]
  /\ UNCHANGED <<sealMu, proposedBlockHash, requested, commitVars, workVars, results, chain,
                 engineVars>>

LockSeal(b) ==
  /\ pc[b] = "lock"
  /\ sealMu = Nil
  /\ pc' = [pc EXCEPT ![b] = "wait"]
  /\ sealMu' = b
  /\ proposedBlockHash' = b
  /\ requested' = requested \cup {b}
  /\ UNCHANGED <<commitVars, workVars, results, chain, engineVars>>

(* The deferred function. *)
ReturnKeepHash(b) ==
  /\ pc' = [pc EXCEPT ![b] = "done"]
  /\ sealMu' = Nil
  /\ UNCHANGED proposedBlockHash
Return(b) ==
  /\ pc' = [pc EXCEPT ![b] = "done"]
  /\ proposedBlockHash' = Nil
  /\ sealMu' = Nil

(* A block of another task is taken off the channel and forgotten. *)
ReceiveAny(b) ==
  /\ pc[b] = "wait"
  /\ commitCh # << >>
  /\ commitCh' = Tail(commitCh)
  /\ Return(b)
  /\ results' = results \cup {b}
  /\ UNCHANGED <<requested, committing, committed, enqueued, workVars, chain, engineVars>>
ReceiveOwn(b) ==
  /\ pc[b] = "wait"
  /\ commitCh = <<b>>
  /\ commitCh' = << >>
  /\ Return(b)
  /\ results' = results \cup {b}
  /\ UNCHANGED <<requested, committing, committed, enqueued, workVars, chain, engineVars>>
Receive(b) ==
  /\ pc[b] = "wait"
  /\ commitCh # << >>
  /\ commitCh' = Tail(commitCh)
  /\ IF Head(commitCh) = b
     THEN Return(b) /\ results' = results \cup {b}
     ELSE UNCHANGED <<pc, proposedBlockHash, sealMu, results>>
  /\ UNCHANGED <<requested, committing, committed, enqueued, workVars, chain, engineVars>>

StopInWait(b) ==
  /\ pc[b] = "wait"
  /\ b \in stopped
  /\ Return(b)
  /\ UNCHANGED <<requested, commitVars, workVars, results, chain, engineVars>>

---------------------------------------------------------------------------
(* The core's event loop in backend.Commit.                                *)

(* Consensus decides one block of a height (Core!Agreement), and a block   *)
(* of this miner only after it was requested; the core may be heights      *)
(* behind the chain, never ahead of it.                                    *)
Decidable(b) ==
  /\ number[b] <= Height + 1
  /\ b \in Own => b \in requested
  /\ \A c \in committed \cup Chained : number[c] = number[b] => c = b

(* Commit reads proposedBlockHash without sealMu. *)
CommitWhileSealing(b) ==
  /\ committing = Nil
  /\ b \notin committed
  /\ Decidable(b)
  /\ committed' = committed \cup {b}
  /\ IF proposedBlockHash # Nil THEN committing' = b /\ UNCHANGED enqueued
     ELSE enqueued' = enqueued \cup {b} /\ UNCHANGED committing
  /\ UNCHANGED <<commitCh, sealVars, workVars, results, chain, engineVars>>
Commit(b) ==
  /\ committing = Nil
  /\ b \notin committed
  /\ Decidable(b)
  /\ committed' = committed \cup {b}
  /\ IF proposedBlockHash = b
     THEN committing' = b /\ UNCHANGED enqueued
     ELSE enqueued' = enqueued \cup {b} /\ UNCHANGED committing
  /\ UNCHANGED <<commitCh, sealVars, workVars, results, chain, engineVars>>

CommitSend ==
  /\ committing # Nil
  /\ Len(commitCh) < 1
  /\ commitCh' = Append(commitCh, committing)
  /\ committing' = Nil
  /\ UNCHANGED <<committed, enqueued, sealVars, workVars, results, chain, engineVars>>

---------------------------------------------------------------------------
(* Start of the engine, after a Stop, which does not wait for the event    *)
(* loop.  A block left in the old channel is gone: a goroutine of Seal     *)
(* that still gets it might have got it before.  If the event loop is in   *)
(* Commit it has chosen the channel that is closed, and panics, or it      *)
(* sends on the new one.                                                   *)
Start ==
  /\ starts < MaxStarts
  /\ starts' = starts + 1
  /\ proposedBlockHash' = Nil
  /\ commitCh' = << >>
  /\ dropped' = dropped \cup {commitCh[i] : i \in DOMAIN commitCh}
  /\ alive' \in IF committing = Nil THEN {TRUE} ELSE BOOLEAN
  /\ UNCHANGED <<pc, sealMu, requested, committing, committed, enqueued, workVars, results,
                 chain>>

---------------------------------------------------------------------------
(* The block fetcher keeps a block until it is next; synchronisation with  *)
(* peers brings any block that consensus decided.                          *)
Fetch(b) ==
  /\ b \in enqueued
  /\ number[b] <= Height + 1
  /\ enqueued' = enqueued \ {b}
  /\ Insert(b)
  /\ UNCHANGED <<commitCh, committing, committed, sealVars, workVars, results, engineVars>>

Synchronise(b) ==
  /\ number[b] = Height + 1
  /\ Decidable(b)
  /\ Insert(b)
  /\ UNCHANGED <<sealVars, commitVars, workVars, results, engineVars>>

---------------------------------------------------------------------------
Init ==
  /\ built = Nil /\ task = Nil
  /\ stopped = {}
  /\ pc = [b \in Own |-> "none"]
  /\ sealMu = Nil
  /\ proposedBlockHash = Nil
  /\ commitCh = << >>
  /\ requested = {}
  /\ committing = Nil
  /\ committed = {}
  /\ results = {}
  /\ enqueued = {}
  /\ chain = << >>
  /\ starts = 0 /\ dropped = {} /\ alive = TRUE

SealStep(b) ==
  DelayOver(b) \/ StopInDelay(b) \/ LockSeal(b) \/ Receive(b) \/ StopInWait(b)

(* A panic ends the process. *)
Next ==
  /\ alive
  /\ \/ \E b \in Own : BuildTask(b) \/ NewTask(b) \/ SealStep(b) \/ ResultLoop(b)
     \/ \E b \in Blocks : Commit(b) \/ Fetch(b) \/ Synchronise(b)
     \/ CommitSend
     \/ Start

(* Every goroutine that can run does, and a new head of the chain makes    *)
(* newWorkLoop ask for one task on top of it.  Nothing makes consensus     *)
(* decide or a peer send a block.  sync.Mutex lets no goroutine wait       *)
(* forever.                                                                *)
Fairness ==
  /\ \A b \in Own : /\ WF_vars(alive /\ (DelayOver(b) \/ StopInDelay(b)))
                    /\ SF_vars(alive /\ LockSeal(b))
                    /\ WF_vars(alive /\ (Receive(b) \/ StopInWait(b)))
                    /\ WF_vars(alive /\ ResultLoop(b))
                    /\ WF_vars(alive /\ NewTask(b))
  /\ \A b \in Blocks : WF_vars(alive /\ Fetch(b))
  /\ WF_vars(alive /\ CommitSend)
  /\ WF_vars(alive /\ \E b \in Own :
                (\A c \in Own : number[c] = Height + 1 => c # task) /\ BuildTask(b))

Spec == Init /\ [][Next]_vars /\ Fairness
---------------------------------------------------------------------------
(* Properties                                                              *)

(* The state of the hand-off is well formed, and proposedBlockHash is the  *)
(* block of the one goroutine that is between Lock and Unlock of sealMu,   *)
(* or empty, since Start clears it without sealMu.                         *)
TypeOK ==
  /\ built \in Own \cup {Nil} /\ task \in Own \cup {Nil}
  /\ stopped \subseteq Own
  /\ pc \in [Own -> {"none", "delay", "lock", "wait", "done"}]
  /\ commitCh \in Seq(Blocks) /\ Len(commitCh) <= 1
  /\ committing \in Blocks \cup {Nil}
  /\ chain \in Seq(Blocks)
  /\ committed \cup enqueued \cup dropped \subseteq Blocks
  /\ results \cup requested \subseteq Own
  /\ sealMu \in Own \cup {Nil} /\ proposedBlockHash \in {Nil, sealMu}
  /\ \A b \in Own : pc[b] = "wait" <=> sealMu = b
  /\ starts \in 0 .. MaxStarts /\ alive \in BOOLEAN

(* A block that consensus decided is on its way into the local chain       *)
(* through the worker or the fetcher, unless it is the block of a sealing  *)
(* task that the worker interrupted, or was in the channel when the engine *)
(* was started again.                                                      *)
DecidedIsInserted ==
  \A b \in committed \ (stopped \cup dropped) :
    b \in Chained \cup enqueued \cup results \cup {committing}
             \cup {commitCh[i] : i \in DOMAIN commitCh}

(* The worker never imports a block that consensus has not decided: what   *)
(* Seal returns is the committed block and not just the sealed one.        *)
OnlyDecidedSealed == results \subseteq committed

(* The event loop does not hang in Commit: the channel of capacity one is  *)
(* emptied even when the goroutine that Commit meant is gone.              *)
EventLoopFree == committing # Nil ~> (committing = Nil \/ ~alive)

(* The task the worker submitted last gets its block to the core, whatever *)
(* goroutines of older tasks still hold or wait for sealMu.                *)
LatestIsRequested ==
  \A b \in Own : pc[b] = "delay" ~> (b \in requested \/ b \in stopped \/ ~alive)

(* backend.go on commitCh: the "commit channel, which is being watched     *)
(* inside the engine.Seal() function".                                     *)
CommitWatched ==
  \A i \in DOMAIN commitCh : pc[commitCh[i]] = "wait"

(* No event loop sends on the commitCh that a later Start has closed. *)
CommitNeverPanics == alive
===========================================================================
