------------------------------ MODULE Requests ------------------------------
(***************************************************************************)
(* The way of a block from the node's own miner into a proposal            *)
(* (consensus/hotstuff/core/request.go): the RequestEvents in flight, the  *)
(* queue of requests that came too early, the one pendingRequest of a      *)
(* height, and sendPrepare, which proposes it.                             *)
(*                                                                         *)
(* The module follows one node.  What its peers' messages make it do is    *)
(* left open: the node reaches a quorum of NewViews or accepts a proposal, *)
(* moves on through the phases, times out, or catches up with its chain,   *)
(* whenever its own round state allows it.                                 *)
(***************************************************************************)
EXTENDS Naturals

CONSTANTS
  Blocks,     \* the blocks the miner may offer or the node may decide on
  number,     \* header.Number of a block
  Nil,
  MaxHeight,  \* bound: the last height the node works on
  MaxRound    \* bound: rounds of one height go from 0 to MaxRound

ASSUME RequestsAssumption ==
  /\ number \in [Blocks -> Nat]
  /\ Nil \notin Blocks
  /\ MaxHeight \in Nat
  /\ MaxRound \in Nat

VARIABLES
  view,            \* roundState.height and roundState.round
  leader,          \* IsProposer() in this view
  state,           \* roundState.state
  pendingRequest,  \* roundState.pendingRequest
  lockedBlock,     \* roundState.LockedBlock()
  queue,           \* Core.pendingRequests
  posted,          \* RequestEvents posted and not handled yet
  offered,         \* every block the miner has asked to be sealed
  proposed         \* the block of the Prepare sent in this view, or Nil

vars == <<view, leader, state, pendingRequest, lockedBlock, queue, posted,
          offered, proposed>>

AcceptRequest == 1
HighQC == 2
Prepared == 3
PreCommitted == 4
Committed == 5

---------------------------------------------------------------------------
(* processPendingRequests: the queue hands out the lowest number first,    *)
(* ties in any order.                                                      *)
HighestFirst(b, c) == number[b] >= number[c]
PopsBefore(b, c) == number[b] <= number[c]

(* The loop pops requests until it meets one of a later height, which it   *)
(* pushes back; the popped ones of this height are posted again, the older *)
(* ones are gone.                                                          *)
Popped(h) == {b \in queue : \A c \in queue : PopsBefore(c, b) => number[c] <= h}

DropFuture(h) ==
  /\ queue' = {}
  /\ posted' = posted \cup {b \in Popped(h) : number[b] = h}
KeepPopped(h) ==
  /\ queue' = queue
  /\ posted' = posted \cup {b \in Popped(h) : number[b] = h}
ProcessPendingRequests(h) ==
  /\ queue' = queue \ Popped(h)
  /\ posted' = posted \cup {b \in Popped(h) : number[b] = h}

(* sendPrepare, for the leader in StateHighQC: the locked block, or else   *)
(* the pending request, if it is of this height.                           *)
SendPrepare(request) ==
  LET b == IF lockedBlock # Nil THEN lockedBlock ELSE request
  IN  proposed' = IF leader /\ b # Nil /\ number[b] = view.height THEN b
                  ELSE proposed

---------------------------------------------------------------------------
(* engine.Seal posts the miner's block. *)
Seal(b) ==
  /\ b \notin offered
  /\ offered' = offered \cup {b}
  /\ posted' = posted \cup {b}
  /\ UNCHANGED <<view, leader, state, pendingRequest, lockedBlock, queue, proposed>>

(* handleRequest, one action per way it goes. *)
StoreRequest(b) ==
  /\ b \in posted
  /\ \/ number[b] > view.height
     \/ number[b] = view.height /\ state = AcceptRequest
  /\ posted' = posted \ {b}
  /\ queue' = queue \cup {b}
  /\ UNCHANGED <<view, leader, state, pendingRequest, lockedBlock, offered, proposed>>

ReplaceRequest(b) ==
  /\ b \in posted
  /\ number[b] = view.height
  /\ state # AcceptRequest
  /\ posted' = posted \ {b}
  /\ pendingRequest' = b
  /\ IF state = HighQC THEN SendPrepare(b) ELSE UNCHANGED proposed
  /\ UNCHANGED <<view, leader, state, lockedBlock, queue, offered>>
TakeRequest(b) ==
  /\ b \in posted
  /\ number[b] = view.height
  /\ state # AcceptRequest
  /\ posted' = posted \ {b}
  /\ pendingRequest' = IF pendingRequest = Nil THEN b ELSE pendingRequest
  /\ IF pendingRequest = Nil /\ state = HighQC THEN SendPrepare(b)
     ELSE UNCHANGED proposed
  /\ UNCHANGED <<view, leader, state, lockedBlock, queue, offered>>

DropRequest(b) ==
  /\ b \in posted
  /\ number[b] < view.height
  /\ posted' = posted \ {b}
  /\ UNCHANGED <<view, leader, state, pendingRequest, lockedBlock, queue, offered,
                 proposed>>

HandleRequest(b) == StoreRequest(b) \/ TakeRequest(b) \/ DropRequest(b)

(* handleNewView at a quorum, or handlePrepare at a replica: the state     *)
(* becomes HighQC, the queue is processed, and the leader proposes what it *)
(* has already.                                                            *)
AcceptHighQC ==
  /\ state = AcceptRequest
  /\ state' = HighQC
  /\ ProcessPendingRequests(view.height)
  /\ SendPrepare(pendingRequest)
  /\ UNCHANGED <<view, leader, pendingRequest, lockedBlock, offered>>

(* The later phases, some of which a replica may skip; none processes the  *)
(* queue.  The block decided upon is locked on the way: the leader's own   *)
(* proposal, or that of another node.                                      *)
Advance(s) ==
  /\ state < s
  /\ leader => proposed # Nil
  /\ state' = s
  /\ IF state < PreCommitted /\ s >= PreCommitted
     THEN \E b \in Blocks :
            /\ number[b] = view.height
            /\ leader => b = proposed
            /\ lockedBlock # Nil => b = lockedBlock
            /\ lockedBlock' = b
     ELSE UNCHANGED lockedBlock
  /\ UNCHANGED <<view, leader, pendingRequest, queue, posted, offered, proposed>>

(* startNewRound: a later round of the height, or the height after the     *)
(* last chained block, where Unlock drops the pending request.  Both set   *)
(* AcceptRequest and process the queue.                                    *)
EnterView(v) ==
  /\ view' = v
  /\ leader' \in BOOLEAN
  /\ state' = AcceptRequest
  /\ proposed' = Nil
  /\ ProcessPendingRequests(v.height)
  /\ UNCHANGED offered

ChangeView ==
  /\ view.round < MaxRound
  /\ EnterView([view EXCEPT !.round = @ + 1])
  /\ UNCHANGED <<pendingRequest, lockedBlock>>

CatchUp(h) ==
  /\ h > view.height
  /\ EnterView([height |-> h, round |-> 0])
  /\ pendingRequest' = Nil
  /\ lockedBlock' = Nil

---------------------------------------------------------------------------
Init ==
  /\ view = [height |-> 1, round |-> 0]
  /\ leader \in BOOLEAN
  /\ state = AcceptRequest
  /\ pendingRequest = Nil
  /\ lockedBlock = Nil
  /\ queue = {}
  /\ posted = {}
  /\ offered = {}
  /\ proposed = Nil

Next ==
  \/ \E b \in Blocks : Seal(b) \/ HandleRequest(b)
  \/ AcceptHighQC
  \/ \E s \in Prepared .. Committed : Advance(s)
  \/ ChangeView
  \/ \E h \in 1 .. MaxHeight : CatchUp(h)

(* The event loop keeps taking events, so every posted one is handled. *)
Fairness == \A b \in Blocks : WF_vars(HandleRequest(b))

Spec == Init /\ [][Next]_vars /\ Fairness

---------------------------------------------------------------------------
(* A request is in one place at a time: being posted again takes it out of *)
(* the queue, so the event loop never sees it twice at once.  The one that *)
(* waits to be proposed is of the height the node works on; otherwise      *)
(* sendPrepare would refuse it and nothing could replace it.               *)
TypeOK ==
  /\ view \in [height : Nat, round : Nat]
  /\ leader \in BOOLEAN
  /\ state \in AcceptRequest .. Committed
  /\ pendingRequest \in Blocks \cup {Nil}
  /\ lockedBlock \in Blocks \cup {Nil}
  /\ proposed \in Blocks \cup {Nil}
  /\ queue \subseteq offered
  /\ posted \subseteq offered
  /\ queue \cap posted = {}
  /\ offered \subseteq Blocks
  /\ pendingRequest # Nil => number[pendingRequest] = view.height

(* A block of the miner is not lost before its height is over: it is on    *)
(* its way to the event loop, or queued, or a block of its height has been *)
(* taken as the pending request.                                           *)
RequestKept ==
  \A b \in offered :
    number[b] >= view.height =>
      \/ b \in queue \cup posted
      \/ number[b] = view.height /\ pendingRequest # Nil

(* A leader proposes one block in a view, however its requests, its lock   *)
(* and the quorum of NewViews come together: a second Prepare of the view  *)
(* repeats the first.                                                      *)
OneProposal ==
  [][proposed # Nil /\ view' = view => proposed' = proposed]_vars

(* A leader that waits in StateHighQC for a block gets to propose as soon  *)
(* as its miner has offered one for the height: no request stays behind in *)
(* the queue.                                                              *)
LeaderProposes ==
  \A v \in [height : 1 .. MaxHeight, round : 0 .. MaxRound] :
    (/\ view = v /\ leader /\ state = HighQC
     /\ \E b \in offered : number[b] = v.height)
      ~> (proposed # Nil \/ view # v)
===========================================================================
