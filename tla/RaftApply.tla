----------------------------- MODULE RaftApply -----------------------------
(***************************************************************************)
(* How one raft node applies the committed log (raft/handler.go, eventLoop *)
(* and applyNewChainHead), what it persists on the way (raft/snapshot.go,  *)
(* raft/persistence.go), and how startRaft puts it together again after a  *)
(* crash: the blockchain may have lost the state of its latest blocks, the *)
(* WAL the latest commit index.                                            *)
(*                                                                         *)
(* A block is named by its place in the log, the genesis block by 0.  The  *)
(* cluster's members are the raft ids of the ConfState.                    *)
(***************************************************************************)
EXTENDS Naturals, Sequences, FiniteSets, FiniteSetsExt

CONSTANTS
  Ids,             \* raft ids that join or leave
  SnapshotPeriod,  \* entries between two snapshots
  MaxLog,          \* bound: length of the log
  MaxCrashes       \* bound: number of crashes

ASSUME RaftApplyAssumption ==
  SnapshotPeriod \in Nat \ {0} /\ MaxLog \in Nat /\ MaxCrashes \in Nat

VARIABLES
  log,            \* the committed entries (raft, external)
  ancestors,      \* each block in the log: its ancestors and itself
  after,          \* what applying the first i entries in order makes of the
                  \*   chain and the cluster, for every i: a snapshot of
                  \*   another node, and the reference of the properties
  hardCommit,     \* the commit index that the WAL is sure to hold
  stored, flushed,  \* blocks in the database, those whose state is too
  currentBlock,   \* the head of the blockchain
  archive,        \* does the blockchain write every block's state at once (gcmode)?
  confState,      \* raft ids of the voters and learners
  peers,          \* raft ids whose address is known
  removedPeers,   \* raft ids removed for good
  appliedIndex, snapshotIndex,
  savedIndex,     \* the applied index in LevelDB
  snapshot,       \* the latest raft snapshot file
  walSnapshot,    \* the index of the latest snapshot record in the WAL
  up,             \* is the node running?
  todo,           \* what is left of the event loop's current step
  next,           \* the index that is being applied
  crashes

logVars == <<log, ancestors, after>>
dbVars == <<stored, flushed, currentBlock, archive>>
clusterVars == <<confState, peers, removedPeers>>
walVars == <<hardCommit, walSnapshot>>
vars == <<logVars, walVars, dbVars, clusterVars, appliedIndex, snapshotIndex, savedIndex,
          snapshot, up, todo, next, crashes>>

Chain(b) == ancestors[b]
NumberOf(b) == Cardinality(Chain(b)) - 1

(* What entry e at place i makes of the chain and the cluster a. *)
AfterEntry(a, e, i) ==
  CASE e.type = "block" ->
         [a EXCEPT !.index = i, !.head = IF e.parent = @ THEN i ELSE @]
    [] e.type = "add" ->
         [a EXCEPT !.index = i, !.conf = @ \cup {e.id},
                   !.addresses = IF e.id \in a.removed THEN @ ELSE @ \cup {e.id}]
    [] e.type = "remove" ->
         [a EXCEPT !.index = i, !.conf = @ \ {e.id}, !.addresses = @ \ {e.id},
                   !.removed = @ \cup {e.id}]

(* f, whose domain ends with the log, with a value for the next entry. *)
Extended(f, v) == [i \in 0 .. Len(log) + 1 |-> IF i <= Len(log) THEN f[i] ELSE v]

---------------------------------------------------------------------------
(* Raft (external): an entry is committed.  A node mints on a block that   *)
(* it proposed or applied before, so the parent comes first in the log.    *)
(* ProposeNewPeer takes a fresh raft id; PromoteToPeer ("add" again) and   *)
(* ProposePeerRemoval take one that was in the cluster when they were      *)
(* called, which may be before another change of it is committed.          *)
Commit ==
  /\ Len(log) < MaxLog
  /\ \E e \in
       [type : {"block"}, parent : {0} \cup {b \in DOMAIN log : log[b].type = "block"}]
       \cup [type : {"add", "remove"}, id : Ids] :
       /\ e.type = "remove" => \E i \in DOMAIN log : log[i] = [type |-> "add", id |-> e.id]
       /\ log' = Append(log, e)
       /\ ancestors' = Extended(ancestors,
            IF e.type = "block" THEN {Len(log) + 1} \cup Chain(e.parent) ELSE {})
       /\ after' = Extended(after, AfterEntry(after[Len(log)], e, Len(log) + 1))
  /\ UNCHANGED <<walVars, dbVars, clusterVars, appliedIndex, snapshotIndex, savedIndex,
                 snapshot, up, todo, next, crashes>>

(* wal.Save, when what it writes reaches the disk *)
SaveHardState ==
  /\ up /\ todo = <<>> /\ hardCommit < Len(log)
  /\ hardCommit' = Len(log)
  /\ UNCHANGED <<logVars, walSnapshot, dbVars, clusterVars, appliedIndex, snapshotIndex,
                 savedIndex, snapshot, up, todo, next, crashes>>

(* The blockchain (external) writes the state of its head to disk. *)
Flush ==
  /\ up /\ currentBlock \notin flushed
  /\ flushed' = flushed \cup {currentBlock}
  /\ UNCHANGED <<logVars, walVars, stored, currentBlock, archive, clusterVars, appliedIndex,
                 snapshotIndex, savedIndex, snapshot, up, todo, next, crashes>>

---------------------------------------------------------------------------
(* The event loop applies the next committed entry. *)

Ready == up /\ todo = <<>>
Entry == log[appliedIndex + 1]
Applying(type) == Ready /\ appliedIndex < Len(log) /\ Entry.type = type

(* InsertChain: the ancestors whose state is missing are executed again.   *)
Insert(b) ==
  /\ stored' = stored \cup Chain(b)
  /\ currentBlock' = b
  /\ flushed' = IF archive THEN flushed \cup Chain(b) ELSE flushed
  /\ UNCHANGED archive

(* A block that is not stored yet becomes the head if it extends the       *)
(* chain; otherwise only the minter hears of it (module Minter).           *)
ApplyAny ==
  /\ Applying("block")
  /\ IF appliedIndex + 1 \notin stored THEN Insert(appliedIndex + 1) ELSE UNCHANGED dbVars
  /\ next' = appliedIndex + 1
  /\ todo' = <<"advance">>
  /\ UNCHANGED <<logVars, walVars, clusterVars, appliedIndex, snapshotIndex, savedIndex,
                 snapshot, up, crashes>>
ApplyBlock ==
  /\ Applying("block")
  /\ IF appliedIndex + 1 \notin stored /\ Entry.parent = currentBlock
     THEN Insert(appliedIndex + 1) ELSE UNCHANGED dbVars
  /\ next' = appliedIndex + 1
  /\ todo' = <<"advance">>
  /\ UNCHANGED <<logVars, walVars, clusterVars, appliedIndex, snapshotIndex, savedIndex,
                 snapshot, up, crashes>>

(* rawNode.ApplyConfChange follows the log; an address is kept, and a      *)
(* snapshot forced before the index advances, unless the raft id was       *)
(* removed for good.                                                       *)
ForcedLate(id) ==
  IF id \in removedPeers THEN <<"advance">> ELSE <<"advance", "snapshot", "wal">>
Forced(id) == IF id \in removedPeers THEN <<"advance">> ELSE <<"snapshot", "wal", "advance">>

AddNode ==
  /\ Applying("add")
  /\ confState' = confState \cup {Entry.id}
  /\ peers' = IF Entry.id \in removedPeers THEN peers ELSE peers \cup {Entry.id}
  /\ next' = appliedIndex + 1
  /\ todo' = Forced(Entry.id)
  /\ UNCHANGED <<logVars, walVars, dbVars, removedPeers, appliedIndex, snapshotIndex,
                 savedIndex, snapshot, up, crashes>>

RemoveNode ==
  /\ Applying("remove")
  /\ confState' = confState \ {Entry.id}
  /\ peers' = peers \ {Entry.id}
  /\ removedPeers' = removedPeers \cup {Entry.id}
  /\ next' = appliedIndex + 1
  /\ todo' = Forced(Entry.id)
  /\ UNCHANGED <<logVars, walVars, dbVars, appliedIndex, snapshotIndex, savedIndex, snapshot,
                 up, crashes>>

(* maybeTriggerSnapshot, after a batch of entries *)
MaybeTriggerSnapshot ==
  /\ Ready /\ appliedIndex - snapshotIndex >= SnapshotPeriod
  /\ next' = appliedIndex
  /\ todo' = <<"snapshot", "wal">>
  /\ UNCHANGED <<logVars, walVars, dbVars, clusterVars, appliedIndex, snapshotIndex, savedIndex,
                 snapshot, up, crashes>>

Doing(step) == up /\ todo # <<>> /\ Head(todo) = step /\ todo' = Tail(todo)

(* triggerSnapshot and SaveSnap.  buildSnapshot looks up the address of    *)
(* every raft id of the ConfState: without one it panics, and the node     *)
(* goes no further.                                                        *)
Snapshot ==
  /\ Doing("snapshot")
  /\ confState \subseteq peers
  /\ snapshot' = [index |-> next, head |-> currentBlock, conf |-> confState,
                  addresses |-> confState, removed |-> removedPeers]
  /\ snapshotIndex' = next
  /\ UNCHANGED <<logVars, walVars, dbVars, clusterVars, appliedIndex, savedIndex, up, next, crashes>>

(* wal.SaveSnapshot, which also syncs the latest HardState *)
SaveWalSnapshot ==
  /\ Doing("wal")
  /\ walSnapshot' = snapshot.index
  /\ hardCommit' = Max({hardCommit, snapshot.index})
  /\ UNCHANGED <<logVars, dbVars, clusterVars, appliedIndex, snapshotIndex, savedIndex, snapshot,
                 up, next, crashes>>

AdvanceAppliedIndex ==
  /\ Doing("advance")
  /\ savedIndex' = next
  /\ appliedIndex' = next
  /\ UNCHANGED <<logVars, walVars, dbVars, clusterVars, snapshotIndex, snapshot, up, next, crashes>>

---------------------------------------------------------------------------
(* Raft hands the node a snapshot of the leader, whose log no longer has   *)
(* the entries that this node lacks.                                       *)
InstallSnapshot ==
  /\ Ready
  /\ \E i \in appliedIndex + 1 .. Len(log) :
       /\ after[i].conf \subseteq after[i].addresses
       /\ snapshot' = [after[i] EXCEPT !.addresses = after[i].conf]
       /\ next' = i
  /\ todo' = <<"wal", "apply", "advance">>
  /\ UNCHANGED <<logVars, walVars, dbVars, clusterVars, appliedIndex, snapshotIndex, savedIndex,
                 up, crashes>>

(* updateClusterMembership *)
UpdateClusterMembership(prev, known) ==
  /\ confState' = snapshot.conf
  /\ peers' = (known \ (prev \ snapshot.conf)) \cup snapshot.addresses
  /\ removedPeers' = snapshot.removed \cup (prev \ snapshot.conf)

(* applyRaftSnapshot: the chain is synchronised unless the snapshot's head *)
(* is in the database.                                                     *)
ApplyRaftSnapshot ==
  /\ Doing("apply")
  /\ UpdateClusterMembership(confState, peers)
  /\ IF snapshot.head \in stored THEN UNCHANGED dbVars ELSE Insert(snapshot.head)
  /\ snapshotIndex' = snapshot.index
  /\ UNCHANGED <<logVars, walVars, appliedIndex, savedIndex, snapshot, up, next, crashes>>

---------------------------------------------------------------------------
(* A crash: the blockchain comes back with the latest block whose state    *)
(* was written as its head, and with all of its blocks.                    *)
Crash ==
  /\ up /\ crashes < MaxCrashes
  /\ up' = FALSE
  /\ crashes' = crashes + 1
  /\ currentBlock' = Max(Chain(currentBlock) \cap flushed)
  /\ confState' = {} /\ peers' = {} /\ removedPeers' = {}
  /\ todo' = <<>>
  /\ UNCHANGED <<logVars, walVars, stored, flushed, archive, appliedIndex, snapshotIndex, savedIndex,
                 snapshot, next>>

(* startRaft: loadSnapshot, then, if there is a snapshot, the blocks of    *)
(* the replayed WAL that are in the database and higher than the head are  *)
(* inserted again.  The WAL is opened at the snapshot: without a record of *)
(* it the node does not start.  The applied index of LevelDB is kept, or   *)
(* raised to the snapshot's, also when raft starts from an earlier one.    *)
Replayed(head) ==
  {i \in snapshot.index + 1 .. Len(log) :
     /\ snapshot.index > 0
     /\ log[i].type = "block" /\ i \in stored /\ NumberOf(i) > NumberOf(head)}

Restart ==
  /\ ~up
  /\ walSnapshot = snapshot.index
  /\ up' = TRUE
  /\ UpdateClusterMembership({}, {})
  /\ LET head == IF snapshot.head \in stored THEN currentBlock ELSE snapshot.head
         last == Max(Replayed(head) \cup {head})
     IN  IF last = currentBlock THEN UNCHANGED dbVars ELSE Insert(last)
  /\ snapshotIndex' = snapshot.index
  /\ LET applied == IF snapshot.index > Min({savedIndex, hardCommit})
                    THEN snapshot.index ELSE savedIndex
     IN  savedIndex' = applied /\ appliedIndex' = applied
  /\ UNCHANGED <<logVars, walVars, snapshot, todo, next, crashes>>

---------------------------------------------------------------------------
Init ==
  /\ log = <<>> /\ ancestors = [i \in {0} |-> {0}]
  /\ hardCommit = 0 /\ walSnapshot = 0
  /\ stored = {0} /\ flushed = {0} /\ currentBlock = 0 /\ archive \in BOOLEAN
  /\ confState = {} /\ peers = {} /\ removedPeers = {}
  /\ appliedIndex = 0 /\ snapshotIndex = 0 /\ savedIndex = 0
  /\ snapshot = [index |-> 0, head |-> 0, conf |-> {}, addresses |-> {}, removed |-> {}]
  /\ after = [i \in {0} |-> snapshot]
  /\ up = TRUE /\ todo = <<>> /\ next = 0
  /\ crashes = 0

Next ==
  \/ Commit \/ SaveHardState \/ Flush
  \/ ApplyBlock \/ AddNode \/ RemoveNode
  \/ MaybeTriggerSnapshot \/ Snapshot \/ SaveWalSnapshot \/ AdvanceAppliedIndex
  \/ InstallSnapshot \/ ApplyRaftSnapshot
  \/ Crash \/ Restart

Spec == Init /\ [][Next]_vars

---------------------------------------------------------------------------
(* No member is lost by a crash: whenever the event loop is between two    *)
(* entries, the peers that the node knows and the raft ids that it never   *)
(* accepts again are those that the applied prefix of the log gives,       *)
(* wherever a crash, a restart or a leader's snapshot came between.        *)
MembersKept ==
  Ready => /\ peers = after[appliedIndex].addresses
           /\ removedPeers = after[appliedIndex].removed

(* The blockchain of a node that loses no state is the one that the log    *)
(* orders: whenever the event loop is between two entries, its head is the *)
(* head after a prefix of the log that is at least the applied one, also   *)
(* when blocks were applied before a crash and their index was not written.*)
ChainIsAgreed ==
  archive /\ Ready => \E i \in appliedIndex..Len(log) : currentBlock = after[i].head

(* handler.go says of a restart that the node is synchronised up to its    *)
(* snapshot at least, if the state of its blocks was not flushed.          *)
SyncedToSnapshot ==
  Ready => NumberOf(currentBlock) >= NumberOf(snapshot.head)

(* handler.go wants every snapshot to have an address for each of the      *)
(* nodes in the ConfState.                                                 *)
ConfStateHasAddresses == Ready => confState \subseteq peers

(* handler.go forces a snapshot so that the node knows the members of its  *)
(* cluster when it comes back online: a node that is down can start from   *)
(* its latest snapshot.                                                    *)
ComesBackOnline == ~up => walSnapshot = snapshot.index

(* handler.go rolls the applied index back to the commit index of the WAL  *)
(* when that is lower (and not below the snapshot).                        *)
RolledBack ==
  [][~up /\ up' => appliedIndex' <= Max({hardCommit, snapshot.index})]_vars
===========================================================================
