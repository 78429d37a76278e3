------------------------------ MODULE Backlog ------------------------------
(***************************************************************************)
(* The backlog of a validator (core/backlog.go): the priority queue of the *)
(* messages that one peer sent from a view ahead of the validator's, and   *)
(* their replay as the validator's view moves on.  The queues of different *)
(* peers do not interact.  What a handler does with a message of the       *)
(* current view is modelled in Core; here it is only noted as handled.     *)
(***************************************************************************)
EXTENDS Integers

CONSTANTS
  Messages,   \* the messages the peer may send
  MaxHeight,  \* bound: the validator's height
  MaxRound    \* bound: the validator's round

messagePriorityTable ==
  [NewView |-> 1, Prepare |-> 2, PrepareVote |-> 3, PreCommit |-> 4,
   PreCommitVote |-> 5, Commit |-> 6, CommitVote |-> 7, Decide |-> 8]

Views == [height : Nat, round : Nat]

ASSUME MessagesAssumption ==
  /\ Messages \subseteq [view : Views, code : DOMAIN messagePriorityTable]
  /\ MaxHeight \in Nat
  /\ MaxRound \in Nat

VARIABLES
  view,     \* the validator's current view
  queue,    \* backlog.queue of the peer
  events,   \* backlogEvents posted to the event mux, not handled yet
  stored,   \* history: every message storeBacklog was called with
  handled   \* history: every message that a handler accepted as current

vars == <<view, queue, events, stored, handled>>

---------------------------------------------------------------------------
(* checkView of a message against a local view: a message more than one    *)
(* height ahead is far away and is not kept.                               *)
Old(m, v) ==
  \/ m.view.height < v.height
  \/ m.view.height = v.height /\ m.view.round < v.round

Current(m, v) == m.view = v

Future(m, v) ==
  \/ m.view.height = v.height + 1
  \/ m.view.height = v.height /\ m.view.round > v.round

HeightTimesTen(m) ==
  -(m.view.height * 10 + m.view.round * 10 + messagePriorityTable[m.code])
ToPriority(m) ==
  -(m.view.height * 100 + m.view.round * 10 + messagePriorityTable[m.code])

(* The messages that queue.Pop may have returned before it returns f: all  *)
(* of a higher priority, and any of the same one.                          *)
PopsBefore(popped, f) ==
  /\ \A m \in queue : ToPriority(m) > ToPriority(f) => m \in popped
  /\ \A m \in popped : ToPriority(m) >= ToPriority(f)

(* processBacklog at view v pops messages until the first future one,      *)
(* which goes back; of the others the current ones are posted as events,   *)
(* next to those already pending, and the rest is dropped.                 *)
ProcessBacklogNoPush(v, pending) ==
  \E popped \in SUBSET queue :
    /\ popped = queue \/ \E f \in popped : Future(f, v) /\ PopsBefore(popped, f)
    /\ queue' = queue \ popped
    /\ events' = pending \cup {m \in popped : Current(m, v)}
ProcessBacklog(v, pending) ==
  \E popped \in SUBSET queue :
    /\ \A m \in popped : ~Future(m, v)
    /\ \/ popped = queue
       \/ \E f \in queue \ popped : Future(f, v) /\ PopsBefore(popped, f)
    /\ queue' = queue \ popped
    /\ events' = pending \cup {m \in popped : Current(m, v)}

(* handleCheckedMsg: a current message is handled, which may end in        *)
(* setCurrentState and so in processBacklog; a future one is stored; any   *)
(* other is dropped.                                                       *)
HandleCheckedMsg(m, pending) ==
  \/ /\ Current(m, view)
     /\ handled' = handled \cup {m}
     /\ \/ ProcessBacklog(view, pending)
        \/ queue' = queue /\ events' = pending
     /\ UNCHANGED stored
  \/ /\ Future(m, view)
     /\ queue' = queue \cup {m}
     /\ stored' = stored \cup {m}
     /\ events' = pending
     /\ UNCHANGED handled
  \/ /\ ~Current(m, view) /\ ~Future(m, view)
     /\ events' = pending
     /\ UNCHANGED <<queue, stored, handled>>

---------------------------------------------------------------------------
(* handleEvents: a message of the peer arrives. *)
HandleMsg(m) == HandleCheckedMsg(m, events) /\ UNCHANGED view

(* handleEvents: a backlogEvent.  Each is posted by a goroutine of its     *)
(* own, so they come in any order and possibly after a view change.        *)
HandleBacklogEvent(m) ==
  /\ m \in events
  /\ HandleCheckedMsg(m, events \ {m})
  /\ UNCHANGED view

(* startNewRound ends in setCurrentState(StateAcceptRequest): the next     *)
(* round of the height, or round 0 of a later height.                      *)
RoundBack(v) ==
  {[v EXCEPT !.round = @ - 1]} \cup
  {[height |-> h, round |-> 0] : h \in (v.height + 1) .. MaxHeight}
Later(v) ==
  {[v EXCEPT !.round = @ + 1]} \cup
  {[height |-> h, round |-> 0] : h \in (v.height + 1) .. MaxHeight}

StartNewRoundQuietly(v) ==
  /\ v \in Later(view)
  /\ v.round <= MaxRound
  /\ view' = v
  /\ UNCHANGED <<queue, events, stored, handled>>
StartNewRound(v) ==
  /\ v \in Later(view)
  /\ v.round <= MaxRound
  /\ view' = v
  /\ ProcessBacklog(v, events)
  /\ UNCHANGED <<stored, handled>>

Init ==
  /\ view = [height |-> 1, round |-> 0]
  /\ queue = {}
  /\ events = {}
  /\ stored = {}
  /\ handled = {}

Next ==
  \/ \E m \in Messages : HandleMsg(m) \/ HandleBacklogEvent(m)
  \/ \E v \in Later(view) : StartNewRound(v)

Spec == Init /\ [][Next]_vars

(* The event loop of a running engine drains the mux. *)
FairSpec == Spec /\ \A m \in Messages : WF_vars(HandleBacklogEvent(m))

---------------------------------------------------------------------------
(* Properties                                                              *)

TypeOK ==
  /\ view \in Views
  /\ queue \subseteq Messages
  /\ events \subseteq Messages
  /\ stored \subseteq Messages
  /\ handled \subseteq Messages

(* processBacklog holds nothing back: what stays in the queue is still     *)
(* ahead of the validator, so no message of the current view waits behind  *)
(* one of a later view.                                                    *)
OnlyFuture == \A m \in queue : Future(m, view)

(* A message that storeBacklog took is queued, posted, handled, or no      *)
(* longer of use: processBacklog loses none that the validator still needs. *)
Kept ==
  \A m \in stored :
    m \in queue \/ m \in events \/ m \in handled \/ Old(m, view)

(* A stored message whose view becomes the current one is handled, unless  *)
(* the validator leaves the view before.                                   *)
Replayed ==
  \A m \in Messages :
    (m \in stored /\ Current(m, view)) ~> (m \in handled \/ Old(m, view))
===========================================================================
