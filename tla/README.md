# Verification of quorum-hotstuff

This directory holds TLA+ models of the Basic HotStuff engine in
`src/consensus/hotstuff`, of the event delivery it stands on (`src/event`) and of
the Raft engine (`src/raft`), with TLC instances and TLAPS proofs. Paths below
are relative to `src/consensus/hotstuff` unless they start with `src/`.

## 1. The system

A validator runs one engine instance:

| Part | State | Operations |
|---|---|---|
| Core (`core/core.go`, `handler.go`, `new_view.go`, `prepare.go`, `precommit.go`, `commit.go`, `decide.go`, `utils.go`) | the round state below | `startNewRound`, one handler per message type, `handleRequest`, `handleTimeoutMsg`, `handleFinalCommitted`; all run on one event loop (`handleEvents`) |
| Round state (`core/round_state.go`, `message_set.go`) | view, state, last chained block, pending request, proposal, lock, four certificates, four message sets; certificates and the locked proposal are also written to a database | setters, `Lock`, `Unlock`, `SetSealedBlock`, `reload` |
| Backlog (`core/backlog.go`) | a priority queue per peer | `storeBacklog`, `processBacklog` |
| Requests (`core/request.go`) | a priority queue of blocks from the miner | `handleRequest`, `processPendingRequests` |
| Timer (`core/timer.go`) | one timer per round | restarted by `startNewRound`; its event carries no view |
| Validator set (`validator/default.go`) | sorted addresses, proposer | `CalcProposer`, `F`, `Q` |
| Signer (`signer/signer.go`) | BLS share and threshold public key | sign, recover, verify |
| Backend, sealing (`backend/engine.go`, `backend.go`) | `proposedBlockHash`, `commitCh` | `Seal`, `Commit`, `Start`, `Stop` |
| Backend, transport (`backend/handler.go`, `backend.go`) | caches of known messages | `Broadcast`, `Gossip`, `Unicast`, `HandleMsg`, `NewChainHead` |

A round of a height runs NewView, Prepare, PreCommit, Commit, Decide. In each of
the first four phases the leader collects Q messages and answers with a
certificate. A decided block goes to the backend, which hands it to the miner's
`Seal` or enqueues it for insertion; the blockchain then announces the new head,
and the core starts the next height. A timeout starts the next round of the same
height.

What makes this hard is the following.

- Messages are lost, late, repeated and reordered. Even a node's messages to
  itself travel through a goroutine.
- Rounds end at different times on different nodes.
- Blocks arrive by synchronisation in the middle of a round.
- Nodes restart with what their database holds.
- The queues order messages by an arithmetic priority.
- The miner interrupts sealing tasks while consensus decides them.
- The engine is stopped and started while goroutines of the last run still work.

Events reach the core through the multiplexer `src/event/event.go` (`TypeMux`),
and the miner and the backend hear of new heads through `src/event/feed.go`
(`Feed`). Both promise that unsubscribing is final and never blocks on a reader.

The Raft engine replaces HotStuff on networks that configure it. The minter
(`src/raft/minter.go`) builds blocks on a speculative chain of its own blocks,
and the protocol manager (`src/raft/handler.go`, `snapshot.go`) applies what etcd's
raft orders, keeps the address book of the cluster, and persists snapshots, the
WAL and the applied index in three places that a crash can leave apart.

The hazards, each with its source line, are listed in `PROJECT.json`.

## 2. Modules

| Module | Models |
|---|---|
| `ValidatorSet` | size, F, Q = N - F, round-robin proposer |
| `Core` | the core of all validators, the network and the local chains; its properties |
| `CoreInv` | the inductive invariants behind agreement and behind the certificates |
| `Ledger` | what the core promises: one chain of decided blocks that local chains follow |
| `CoreRestart` | Core with nodes that stop and start |
| `CoreReduction` | the view and the action constraint the TLC instances share |
| `Backlog` | the backlog of one peer |
| `Requests` | the request queue of one node, up to the proposal |
| `Sealing` | the miner's tasks, the goroutines of `Seal`, `Commit`, and what `Start` does to them |
| `Lifecycle` | starting and stopping the engine |
| `Transport` | sending, caching, losing and handling messages between nodes |
| `TypeMux` | the event multiplexer |
| `Feed` | the event feed |
| `Minter` | the Raft minter, its speculative chain and the way through raft and back |
| `RaftLoop` | who waits for whom between the raft loop, the minter and raft |
| `RaftApply` | applying raft's log, snapshots, membership, crashes and restarts |
| `MCCore`, `MCHeights`, `MCRestart`, `MCBacklog`, `MCRequests` (with `Lifecycle`), `MCSealing`, `MCTransport`, `MCEvents` (`TypeMux` and `Feed`), `MCMinter` (with `RaftLoop`), `MCRaftApply` | TLC instances |
| `CoreProofs`, `BacklogProofs`, `RequestsProofs` (with `Lifecycle`), `SealingProofs`, `TransportProofs`, `EventsProofs` (`TypeMux` and `Feed`), `MinterProofs`, `RaftApplyProofs` | proofs |

### Core

Every field of `roundState` is a variable, a function on validators.
`lockedBlock` is what `LockedBlock()` returns, that is `Nil` unless
`proposalLocked`. Each handler is one action, because the event loop handles one
event at a time. The action contains everything the handler calls: a vote that
completes a quorum builds the certificate, stores it, changes the state and
sends the next message in one step. `startNewRound` is `CatchUp` and
`ChangeView`, both through `EnterView`, which includes `updateRoundState`,
`Unlock` and `sendNewView`.

The network `msgs` is the set of messages ever sent, and a node may handle any of
them at any time, again or never. This covers loss, delay, duplication,
reordering, the backlog's replay, and a node that stops for good. So `Core` needs
no separate backlog, and the safety results hold whatever the backlog does.

Abstractions:

- A `ProposedBlock` stands for its hash, and a block for its hash and its sealed
  form.
- Signatures are the fact that a certificate is `signed`. `BLSRecover` counts
  distinct signers against the threshold. The certificate `buildRoundStartQC`
  makes is unsigned.
- Validators follow the code, so no message is forged. Block execution and header
  verification succeed.
- `HandleRequest` takes a block of the current height. The queue behind it, which
  keeps requests until they fit, is a request that is offered again.
- `InsertBlock` is external: a block that some validator committed extends the
  local chain at any time, by the node's own worker or by synchronisation.

### CoreRestart

`Restart` is `Start` with no round state. `reload` reads back the three
certificates that were stored. The view is never stored, so the round is 0.
`reload` also restores the lock, but `startNewRound` then calls `Unlock`, since
this is not a view change. A node that is down takes no steps.

### Backlog

The queue of one peer, the events `processBacklog` posts, and two history
variables. `ProcessBacklog` describes a run of pops up to the first future
message. Messages of equal priority may be popped in either order. Each event is
posted by a goroutine of its own, so events are handled in any order. A handler
that advances the state processes the backlog as part of its step.

### Requests

One node and what its own miner offers. The peers are left open: the node may
reach the quorum of NewViews, accept a proposal, skip phases, time out or catch
up whenever its own state allows it, which covers every behaviour of `Core`.
`handleRequest` is split by its outcome into `StoreRequest`, `TakeRequest` and
`DropRequest`. `ProcessPendingRequests` is a run of pops up to the first request
of a later height and is part of every action that calls it.

### Sealing

The worker builds a task on the head of the chain (`BuildTask`) and hands it to
`taskLoop` (`NewTask`) when that is free, by which time the head may be another.
Each task has a goroutine with a program counter: in the delay, waiting for
`sealMu`, in the second select, done. `Commit` is two steps, since it reads
`proposedBlockHash` without the mutex and then blocks on `commitCh`, a channel of
capacity one. `Start` clears `proposedBlockHash` without the mutex and replaces
the channel, whatever is in it; an event loop that is sending on the old one may
panic, which ends the process (`alive`). The fetcher and synchronisation are
external. What consensus may decide is `Decidable`, the guard of `Commit`; that
one block is decided per height is `Core!Agreement`.

### Lifecycle

`Start` is four steps (clear the round state, subscribe, launch the loop, first
round), because the loop runs between them. The three subscriptions open and
close together and are one. A loop evaluates `c.events.Chan()` anew in each
iteration, so a loop of an earlier run may adopt the next run's subscription. A
handler that finds no round state dereferences nil: the loop is then `panicked`,
and nothing moves any more. What `Start` does to `commitCh` is in `Sealing`.

### Transport

`Broadcast` and `Unicast` mark the message in `knownMessages` and the peers in
`recentMessages`, send, and post to the own core. Peers may be disconnected,
packets are lost, the ARC caches evict, and engines stop and start.

### TypeMux and Feed

One step is what a goroutine does between taking and releasing a lock, as far as
it does not block in between. `closewait` is two steps (close the channel
`closing`; then lock `postMu`), and so is `deliver` (lock `postMu`; then select).
In `Feed` the slice `sendCases` with its active prefix is modelled with the
swaps and deletions of the code. `sent` numbers the values, so that order and
loss are visible in what each channel got.

### Minter

A block is its parent and its transactions. `mintNewBlock` holds `minter.mu`
until its block is posted; the event loop loads the `minting` flag before it
takes `minter.mu`. Two ring channels of capacity one and the throttle are two
flags. While raft has a leader it orders a proposed block or loses it, and other
nodes mint on any head they may have seen, also on one that is out of date, so
that their blocks too may be invalid. The raft loop waits for room in
`chainHeadChan` and `invalidRaftOrderingChan`. `UnwindFrom` is translated but
never taken, in the model as in the code: the raft loop reports only blocks that
are not in the database (`src/raft/handler.go:889`), and
`updateSpeculativeChainPerInvalidOrdering` unwinds only blocks that are.

### RaftLoop

The waiting alone: whether the raft loop is sending, how full the channels are,
who waits for or holds `minter.mu`, how many mined blocks are on their way to
raft, and whether raft has a leader, without which `Propose` does not return.
`Minter` implements it (`ImplementsRaftLoop`), so it can be checked with the
capacities of the code: 10 for `chainHeadChan` (`src/core/tx_pool.go:42`), 1 for
`invalidRaftOrderingChan`, and 12 blocks between `mux.Post` and raft.

### RaftApply

One node and the log raft has committed: blocks, additions, promotions and
removals of other nodes. The body of `eventLoop` for a `Ready` is a sequence of
steps (`todo`), and a crash may fall between any two: the WAL, the snapshot file,
its record in the WAL, the blockchain with its unflushed states, and the applied
index in LevelDB are separate variables. `Restart` reads them back as `startRaft`
does. `archive` says whether the node writes every state to disk. The removal of
the node itself, which ends the process, and address updates are left out.

## 3. Model checking

| Run | Instance | Checks |
|---|---|---|
| `agreement` | 4 validators, 2 rounds, 1 height, blocks of both leaders | `Agreement`, `NoConflictingQC`, `ProposalsAreSafe` |
| `heights` | 2 validators, 2 rounds, 2 heights, all blocks | `TypeOK`, `InductiveInv`, `LockHeld`, `CertificatesAdvance`, `ImplementsLedger` |
| `restart` | the instance of `agreement` with restarts | `Agreement`, violated |
| `backlog` | 3 heights, rounds up to 9, 5 messages | `TypeOK`, `OnlyFuture`, `Kept`, `Replayed` |
| `requests` | `Requests`: 3 heights, 2 rounds, 4 blocks; `Lifecycle`: 3 starts | `TypeOK`, `RequestKept`, `OneProposal`, `LeaderProposes`; `StartedIsServed`, `StopEndsLoops` |
| `local_view` | `Lifecycle`: 3 starts | `LocalViewWontBeNil`, violated |
| `sealing` | 3 own blocks and a foreign one, 2 heights, 2 further starts | `TypeOK`, `DecidedIsInserted`, `OnlyDecidedSealed`, `EventLoopFree`, `LatestIsRequested` |
| `transport` | 2 nodes, 3 messages, a resend, evictions, a stop | `HandledOnce`, `KnownIsHandled` |
| `events` | `TypeMux`: 2 subscriptions, a poster, 2 posts; `Feed`: 3 channels, 2 senders | `TypeOK`, `NoSendOnClosed`, `UnsubscribeIsFinal`, `UnsubscribeUnblocksPost`, `StopClosesAll`; `DeliveredOnce`, `FeedUnsubscribeIsFinal`, `UnsubscribeReturns`, `SendReturns` |
| `minter` | `Minter`: a transaction, 3 blocks, a role change, channels of capacity one; `RaftLoop`: the capacities of the code | `TxsTracked`, `TxsAreMinted`, `ImplementsRaftLoop`; `RaftLoopFree` |
| `raft_apply` | logs of 4 entries, 2 other nodes, 2 crashes, with and without an archive database | `MembersKept`, `ChainIsAgreed` |
| `raft_addresses` | the same | `ConfStateHasAddresses`, violated |

`MCRequests`, `MCEvents` and `MCMinter` each hold two components that share no state; a
behaviour is one of the first or one of the second.

**Bounds.** With four validators (F = 1, Q = 3) a quorum leaves one validator
out, and two rounds with different leaders and different blocks are what a fork
within a height needs. `agreement` stays at the first height and inserts no
block, so that this is in reach. `heights` gives up the spare validator and
crosses a height boundary with late messages, insertions and timeouts in any
order. Both stop at round `MaxRound` = 1, a bound in the guard of `Timeout`, so
the model may come to rest and deadlock is not checked. The messages of `backlog`
sit on the boundaries of the priority function.

The other instances are the smallest in which the parts can get in each other's
way. Two blocks of one height and later ones compete in the request queue. A
third start lets an event loop skip a whole run of the engine. Two own blocks of
one height interrupt each other while a foreign block is decided, another follows,
and the engine is started again in between. One
message of each kind (to everyone, to a peer, to oneself) crosses the transport,
and one is sent again after an eviction. A feed has a channel before and one
behind the one that is removed. Three blocks make a speculative chain that a
block of another node cuts in the middle, and a transaction that has to be minted
again; more transactions would only fill the blocks. Four log entries hold a member that
joins, leaves and is promoted, or a fork and its continuation, around a snapshot.
All of these come to rest when their bounds are used up, so deadlock is not
checked; where getting stuck would be wrong a liveness property says so.

**Reductions** (`CoreReduction`). The view leaves out messages that no node can
accept any more, message sets whose phase is over, `highQC` where nobody reads
it, and `committedQC`, which nothing reads. A view only moves forward in `Core`,
so what is left out stays unread. The action constraint lets a leader handle the
messages that complete a quorum in a row and in a fixed order of senders. A
message that does not complete a quorum only joins a set that nothing else reads,
so handling it earlier gives no new behaviour. `restart` uses no view, since
restarts move a view back. Its constraint directs the search at one scenario,
which is enough to exhibit a behaviour. The runs of the other modules use no
reduction.

**Fairness.** It is always that of goroutines that the scheduler keeps running.

- `Backlog`, `Requests`: each posted event is handled. `Post` blocks its own
  goroutine until the event loop takes the event, and the loop runs as long as
  the engine does.
- `Sealing`: goroutines run, a new head makes the worker submit a task, and a
  goroutine that waits for `sealMu` gets it in the end (strong fairness): a
  `sync.Mutex` hands itself to the longest waiter when that has waited for 1 ms.
- `Lifecycle`: the loops run. `select` picks among ready channels at random, so
  a closed channel is chosen in the end (strong fairness of `ReceiveClosed`).
- `Transport`: what a connection carries is delivered or lost, goroutines run.
- `TypeMux`, `Feed`: locks are granted and a `select` with a ready case goes on.
  No reader has to read; `SendReturns` assumes of its readers that they do.
- `Minter`, `RaftLoop`: the loops run, and raft accepts or drops what it is given
  while it has a leader. `TxsAreMinted` and `RaftLoopFree` assume that it has one
  from some point on; nothing makes it have one. `RaftLoop` has strong fairness
  where a select chooses among ready channels and where `minter.mu` is waited for.

`Core` has no fairness, and no liveness property: see section 5. No operation that
a user, a peer or the miner may or may not call is fair.

**What the runs show**

- `Agreement`: no two validators commit different blocks of a height.
- `NoConflictingQC`: within a view each phase certifies one proposal.
- `ProposalsAreSafe`: an honest proposal passes `safeNode` at every validator of
  its view that has not locked in that view yet. The highQC of any quorum covers
  every lock.
- `LockHeld`: a lock is given up only when the chain has reached its height.
- `CertificatesAdvance`: `prepareQC` and `lockQC` never go back to an earlier view.
- `ImplementsLedger`: the core refines `Ledger`.
- `OnlyFuture`: what stays in the backlog belongs to later views.
- `Kept`: the backlog loses nothing that can still be used.
- `Replayed`: what is stored is handled when its view comes, unless the view ends.
- `RequestKept`, `OneProposal`, `LeaderProposes`: the queue loses no block of the
  miner before its height is over, a leader proposes one block in a view, and a
  leader that has NewViews and a block proposes or leaves the view.
- `StartedIsServed`, `StopEndsLoops`: a started engine has a loop that reads its
  subscription, though loops of earlier runs may still be busy; all loops end
  after the last stop. That such a loop may instead end the process is the
  violation `local_view` shows.
- `DecidedIsInserted`: a decided block reaches the chain, the fetcher or the
  worker, unless the worker has stopped its task or `Start` has replaced the
  channel it was in. `OnlyDecidedSealed`: nothing
  else reaches the worker. `EventLoopFree`, `LatestIsRequested`: neither `Commit`
  nor the newest task waits for ever.
- `HandledOnce`, `KnownIsHandled`: a core takes a message once while the node
  remembers it, and one that is marked as known does reach it.
- `NoSendOnClosed`, `UnsubscribeIsFinal`, `UnsubscribeUnblocksPost`,
  `StopClosesAll`: the multiplexer never sends on a closed channel, delivers
  nothing after `Unsubscribe`, and neither `Unsubscribe` nor `Stop` hangs.
- `DeliveredOnce`, `FeedUnsubscribeIsFinal`, `UnsubscribeReturns`, `SendReturns`:
  the same for a feed, with every value delivered once and in order.
- `TxsTracked`, `TxsAreMinted`, `RaftLoopFree`: the minter's record of proposed
  transactions is that of its speculative chain, pending transactions are minted
  as long as it is a minter, and raft's loop does not hang on the minter while
  raft has a leader. `ImplementsRaftLoop`: what `RaftLoopFree` says of `RaftLoop`
  is about the waiting that `Minter` does.
- `MembersKept`: crashes lose no member of a Raft cluster. `ChainIsAgreed`: a node
  that loses no state has the chain of a prefix of the log.

**Findings**

1. *A restart drops the lock* (`restart`). `reload` restores the locked block
   (`core/round_state.go:352`), and `core/core.go:121` then unlocks. The stored
   `lockQC` does not replace the lock: `safeNode` only asks that the new
   proposal's parent is the locked `ProposedBlock`, and says nothing of its block.
   Validators s1, s2 and s3 decide a block that only s1 learns of; s2 and s3
   restart; s2, s3 and s4 decide another block of the same height.
2. *A stale event loop ends the process* (`local_view`). `checkView` relies on
   "local view WONT be nil" (`core/utils.go:35`). `Stop` does not wait for the
   event loop, and the next `Start` clears the round state: a loop of the last run
   that is past the nil check of `handleCheckedMsg`, or that handles a timeout, for
   which there is no check (`core/handler.go:181`), dereferences nil.
3. *A promotion after a removal* (`raft_addresses`). Snapshots are to have "all
   addresses for each of the nodes in the ConfState" (`src/raft/handler.go:602`).
   A promotion committed after a removal puts the id back into the ConfState, not
   into the address book; the next snapshot dereferences nil.

**Further configurations.** Each of these has one property that TLC finds
violated. The first nine come from a comment in the code.

| Config (module) | Comment | What happens |
|---|---|---|
| `MCLocks.cfg` (`MCCore`), `LocksLeaveAChoice` | `core/timer.go:8`: "we use timeout in every view to ensure consensus liveness" | Two of four validators lock different blocks in rounds 0 and 1. `checkBlock` accepts nothing but the locked block until the height is over, so one later failure leaves no block with a quorum. |
| `MCSealingWatched.cfg` (`MCSealing`), `CommitWatched` | `backend/backend.go:230`: the commit channel "is being watched inside the engine.Seal() function" | The worker stops the task after `Commit` has read `proposedBlockHash`. The next `Seal` takes the block from the channel and drops it as not its own; the node gets it by synchronisation only. |
| `MCTransportSkip.cfg` (`MCTransport`), `SkippedPeerHadIt` | `backend/backend.go:143`: "This peer had this event, skip it" | The peer is recorded before the send, whose failure is ignored; it is skipped though it never got the message. |
| `MCTypeMuxStop.cfg` (`TypeMux`), `StopBlocks` | `src/event/event.go:104`: "Stop blocks until all current deliveries have finished." | Stop does not wait for a subscription that a concurrent `Unsubscribe` has taken off the list and not yet closed. |
| `MCMinterParent.cfg` (`Minter`), `ParentIsCurrent` | `src/raft/speculative_chain.go:113`: "the parent always points the last speculative block or the head of the blockchain" | The minting flag is loaded before `minter.mu` is taken, and a stop and a start come in between. |
| `MCMinterOther.cfg` (`Minter`), `SomeoneElseMined` | `src/raft/minter.go:145`: "if the block is not in our db, exit. someone else mined this." | The node's own invalid block is not in the database either, so `unwindFrom` is never called; the chain is repaired when the next head is accepted. |
| `MCRaftApplySync.cfg` (`MCRaftApply`), `SyncedToSnapshot` | `src/raft/handler.go:482`: "we will only sync up to the snapshot" | After a crash the snapshot's block is in the database and its state is not: nothing is synchronised, and the head stays below the snapshot. |
| `MCRaftApplyWal.cfg` (`MCRaftApply`), `ComesBackOnline` | `src/raft/handler.go:964`: "so we know our fellow cluster members when we come back online" | A crash between the snapshot file and its WAL record; the WAL cannot be opened at the snapshot, at any start. |
| `MCRaftApplyRollback.cfg` (`MCRaftApply`), `RolledBack` | `src/raft/handler.go:524`: "Roll back our applied index." | Only the value given to raft is lowered; `pm.appliedIndex` stays, and the entries are not applied again. |
| `MCBacklogRounds.cfg` (`MCBacklog`), `OnlyFuture` with round 10 | none | `toPriority` weighs a height as ten rounds. From round 10 on a message of the current height is overtaken by one of the next, behind which `processBacklog` stops: a Decide of height 1, round 10 stays in the queue. |
| `MCSealingPanic.cfg` (`MCSealing`), `CommitNeverPanics` | none | An event loop of the last run is in `Commit` when `Start` closes `commitCh`. |
| `MCRaftLoopLeader.cfg` (`RaftLoop`), `RaftLoopNeverWaits` | none | Raft loses its leader, `Propose` does not return, the way from `mintNewBlock` to raft fills up, and the raft loop, which drives the election's clock and messages, waits for the minter. |

## 4. Proofs

All proofs hold for every value of the constants under the named assumptions of
the modules: a finite non-empty validator set with its list, blocks numbered
along their parents, `Nil` not a block, and the like.

- `CoreProofs!TypeCorrect`: `TypeOK` is invariant. It includes that a leader that
  may still propose has a `highQC`, without which `handleRequest` would propose
  on nothing.
- `CoreProofs!QuorumIntersection`: two sets of Q = N - F validators intersect, for
  every N.
- `CoreProofs!Safety`: `SafetyInv` is invariant. `Agreement` is not inductive by
  itself. The strengthening says that a lock is the block of the current proposal,
  that proposals are for the current height, that whoever sends Commit or a commit
  vote has locked the block or left the height, that a validator therefore votes
  to commit one block per height, and that all that is decided has a quorum of such
  votes. `safeNode` takes no part in it: the equality with the locked block in
  `checkBlock` carries agreement alone, which is why losing the lock in a restart
  is enough to break it. `NoFork` (`Agreement`) and `LocksAreHeld` (`LockHeld`)
  follow.
- `CoreProofs!Certified`: `InductiveInv` is invariant, which adds `CertInv`. It
  says that what a validator has sent in its view agrees with its state, so that it
  gives one vote of each kind per view; that a signed certificate stands for the
  votes of a quorum; that no certificate is ahead of its holder; and that the
  prepareQC in a validator's NewViews is at least as high as every pre-commit vote
  it has sent. `OneQCPerPhase` (`NoConflictingQC`), `CertificatesOnlyAdvance`
  (`CertificatesAdvance`) and `ProposalsAlwaysSafe` (`ProposalsAreSafe`) follow; the
  last by intersecting the quorum of NewViews behind a highQC with the quorum of
  pre-commit votes behind a lock.
- `CoreProofs!CoreImplementsLedger`: the refinement. `ChainInv` adds that local
  chains consist of decided blocks and that requests, proposals and locks extend
  decided blocks; agreement gives that a newly decided block has a fresh height.
- `BacklogProofs!TypeCorrect`, `NothingLost` (`Kept`), for any rounds, and
  `NothingHeldBack` (`OnlyFuture`), if no message comes from a round above 9.
- `RequestsProofs!TypeCorrect`, `RequestsAreKept` (`RequestKept`) and
  `ProposesOnce` (`OneProposal`). `RequestKept` is inductive given the types; the
  last needs that a node which has proposed in its view has left the state in
  which it would. `EngineIsServed` (`StartedIsServed`), for any number of starts:
  the loop of the latest start is launched after the subscription was made, so that
  it is at its top, in a handler, or reads that subscription, which only the `Stop`
  that follows closes.
- `SealingProofs!TypeCorrect`, `DecidedAreInserted` (`DecidedIsInserted`) and
  `SealedAreDecided` (`OnlyDecidedSealed`). The strengthening follows a block
  through `commitCh`: it is there once, it was decided, and it is the block of
  the goroutine that waits or of one that was stopped. `ChainInv` says that the
  chain is numbered and that consensus decides one block of a height, which is
  what `NoFork` proves of the core.
- `EventsProofs!TypeCorrect`, `PostNeverPanics` (`NoSendOnClosed`) and
  `UnsubscribedForGood` (`UnsubscribeIsFinal`), of the multiplexer. The
  strengthening says that what a Post or Stop took into its snapshot has been
  registered, so that `Subscribe` cannot close it under them, and that a channel
  is closed once `closewait` is over. `FeedDeliversOnce` (`DeliveredOnce`) and
  `FeedUnsubscribedForGood` (`FeedUnsubscribeIsFinal`), of the feed: a channel is
  in the inbox or in `sendCases`, once, and a case is in the active prefix exactly
  while it has still to get the value. Lemmas about injective sequences carry
  `posdelete`, `delete` and `deactivate`.
- `TransportProofs!TakenOnce` (`HandledOnce`), from the invariant that whatever a
  core has taken, or a goroutine is posting to it, is known or forgotten.
- `MinterProofs!BlacklistExact` (`TxsTracked`): the blocks of the speculative chain
  have pairwise disjoint transactions, so that removing those of one leaves exactly
  those of the others. `MinterImplementsRaftLoop` (`ImplementsRaftLoop`): every
  step of `Minter` is a step of `RaftLoop` or a stutter; it needs that `minter.mu`
  is held exactly while a block is being posted.
- `RaftApplyProofs!MembersAreKept` (`MembersKept`) and `ArchiveChainAgreed`
  (`ChainIsAgreed`), for logs of any length and any crashes. What the cluster and
  the chain are after each prefix of the log is the variable `after`, which
  `Commit` extends, so that no recursion has to be unfolded.

Only model-checked are the liveness properties, which are outside what the prover
handles: `Replayed`, `LeaderProposes`, `StopEndsLoops`, `EventLoopFree`,
`LatestIsRequested`, `KnownIsHandled`, `UnsubscribeUnblocksPost`, `StopClosesAll`,
`UnsubscribeReturns`, `SendReturns`, `TxsAreMinted` and `RaftLoopFree`. Of every
safety property of a passing run the list above has a theorem.

## 5. Not modelled

- *Progress of the core.* No liveness property of `Core` is stated, because none
  of the kind one would like holds of the code. `MCLocks.cfg` shows a state from
  which it cannot go on after one failure. And a node drops a message that comes
  too early within its view, which nobody sends again, so that a round may fail
  although every message is delivered; a network that offers every message for
  ever, as that of `Core` does, would hide this.
- *Durations.* The round timer may fire at any time; its exponential backoff is
  not modelled. The throttle of the Raft minter is a tick at any time.
- *Data.* Signatures, hashes, RLP, header fields and block execution are
  abstracted in all modules; `VerifyHeader`, `Prepare` and the extra-data codecs
  of `backend/engine.go` are pure functions of that data and have no module.
- *Raft.* The removal of the node itself, address updates, learners as a class
  of their own, etcd's raft, the HTTP transport and the JavaScript API.
- *Test code.* `faulty/` is a copy of the core that injects faults for manual
  tests, and `mock/` a test harness.
- *Other engines.* Istanbul (IBFT, QBFT), Clique and Ethash are separate engines
  that share no state with HotStuff or Raft; they would be projects of their own.
- *The rest of the repository*, some 390,000 of 400,000 lines: geth's EVM, state
  and tries, transaction pool, database, p2p, RPC and accounts, with generated
  code and contract bindings, and GoQuorum's private transactions and
  permissioning. The modelled components use them through the external actions
  named above (insert a block, synchronise, find a peer, execute). A share of
  lines is for that reason no measure of what the modules cover of the engines.

## 6. Running

    tlc -config MCCore.cfg MCCore
    tlapm CoreProofs.tla

Each row of the first table of section 3 is a `.cfg` of the module named in
`PROJECT.json`. For every property of a passing run `PROJECT.json` names a
mutant: an operator beside the original, such as `CheckBlockNoLock` beside
`CheckBlock`, that has a plausible bug and violates the property. Most runs take
seconds to two minutes; the longest proofs are those of `CoreProofs`,
`EventsProofs` and `RaftApplyProofs`.
