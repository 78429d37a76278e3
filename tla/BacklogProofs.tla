--------------------------- MODULE BacklogProofs ---------------------------
(***************************************************************************)
(* Proofs about the backlog.  That it loses nothing holds for any rounds;  *)
(* that it holds nothing back needs rounds of at most 9, where the priority *)
(* orders messages as their views do.                                      *)
(***************************************************************************)
EXTENDS Backlog, TLAPS

(* Stored messages are at most one height ahead, and what is queued or     *)
(* posted has been stored.                                                 *)
Near ==
  /\ queue \subseteq stored
  /\ events \subseteq stored
  /\ \A m \in stored : m.view.height <= view.height + 1

Inv == TypeOK /\ Near /\ Kept

(* startNewRound only moves the view forward. *)
LEMMA LaterViews ==
  ASSUME NEW v \in Views, NEW w \in Later(v)
  PROVE  /\ w \in Views
         /\ w.height >= v.height
         /\ w.height = v.height => w.round > v.round
BY MessagesAssumption DEF Later, Views

(* A message that is near is old, current or in the future. *)
LEMMA Trichotomy ==
  ASSUME NEW m \in Messages, NEW v \in Views, m.view.height <= v.height + 1
  PROVE  Old(m, v) \/ Current(m, v) \/ Future(m, v)
BY MessagesAssumption DEF Old, Current, Future, Views

(* What is old for a view is old for every later one. *)
LEMMA OldStays ==
  ASSUME NEW m \in Messages, NEW v \in Views, NEW w \in Later(v), Old(m, v)
  PROVE  Old(m, w)
<1>1. m.view \in Views
  BY MessagesAssumption
<1> QED
  BY <1>1, LaterViews DEF Old, Views

(* processBacklog pops what it posts, and drops only what is old. *)
LEMMA ProcessBacklogKeeps ==
  ASSUME Inv, NEW v \in Views, NEW pending \in SUBSET events,
         ProcessBacklog(v, pending), v = view \/ v \in Later(view)
  PROVE  /\ queue' \subseteq queue
         /\ events' \subseteq events \cup queue
         /\ pending \subseteq events'
         /\ \A m \in queue : m \in queue' \/ m \in events' \/ Old(m, v)
<1>1. PICK popped \in SUBSET queue :
        /\ \A m \in popped : ~Future(m, v)
        /\ queue' = queue \ popped
        /\ events' = pending \cup {m \in popped : Current(m, v)}
  BY DEF ProcessBacklog
<1>2. ASSUME NEW m \in popped PROVE m \in events' \/ Old(m, v)
  <2>1. m \in Messages /\ m.view.height <= view.height + 1
    BY DEF Inv, TypeOK, Near
  <2>2. v.height >= view.height
    BY LaterViews DEF Inv, TypeOK, Views
  <2>3. m.view.height <= v.height + 1
    BY <2>1, <2>2, MessagesAssumption DEF Inv, TypeOK, Views
  <2> QED
    BY <1>1, <2>1, <2>3, Trichotomy
<1> QED
  BY <1>1, <1>2

(* One message handled, whether it comes from the peer or from the mux. *)
LEMMA HandleCheckedMsgKeeps ==
  ASSUME Inv, NEW m \in Messages, NEW pending \in SUBSET events,
         events \subseteq pending \cup {m},
         HandleCheckedMsg(m, pending), UNCHANGED view
  PROVE  Inv'
<1>0. view \in Views /\ m.view \in Views
  BY MessagesAssumption DEF Inv, TypeOK
<1>1. CASE /\ Current(m, view)
           /\ handled' = handled \cup {m}
           /\ ProcessBacklog(view, pending) \/ (queue' = queue /\ events' = pending)
           /\ UNCHANGED stored
  <2>1. /\ queue' \subseteq queue
        /\ events' \subseteq events \cup queue
        /\ pending \subseteq events'
        /\ \A x \in queue : x \in queue' \/ x \in events' \/ Old(x, view)
    BY <1>0, <1>1, ProcessBacklogKeeps
  <2> QED
    BY <1>1, <2>1 DEF Inv, TypeOK, Near, Kept, Old
<1>2. CASE /\ Future(m, view)
           /\ queue' = queue \cup {m}
           /\ stored' = stored \cup {m}
           /\ events' = pending
           /\ UNCHANGED handled
  <2>1. m.view.height <= view.height + 1
    BY <1>0, <1>2 DEF Future, Views
  <2> QED
    BY <1>2, <2>1 DEF Inv, TypeOK, Near, Kept, Old
<1>3. CASE /\ ~Current(m, view) /\ ~Future(m, view)
           /\ events' = pending
           /\ UNCHANGED <<queue, stored, handled>>
  <2>1. m \in events => Old(m, view)
    BY <1>0, <1>3, Trichotomy DEF Inv, Near
  <2> QED
    BY <1>3, <2>1 DEF Inv, TypeOK, Near, Kept, Old
<1> QED
  BY <1>1, <1>2, <1>3 DEF HandleCheckedMsg

(* startNewRound: the view moves and the backlog is processed for it. *)
LEMMA StartNewRoundKeeps ==
  ASSUME Inv, NEW v \in Later(view), StartNewRound(v)
  PROVE  Inv'
<1>1. view \in Views /\ v \in Views /\ v.height >= view.height
  BY LaterViews DEF Inv, TypeOK
<1>2. /\ queue' \subseteq queue
      /\ events' \subseteq events \cup queue
      /\ events \subseteq events'
      /\ \A x \in queue : x \in queue' \/ x \in events' \/ Old(x, v)
  BY <1>1, ProcessBacklogKeeps DEF StartNewRound
<1>3. view' = v /\ UNCHANGED <<stored, handled>>
  BY DEF StartNewRound
<1>4. TypeOK'
  BY <1>1, <1>2, <1>3 DEF Inv, TypeOK
<1>5. Near'
  <2>1. \A m \in stored : m.view.height \in Nat
    BY MessagesAssumption DEF Inv, TypeOK, Views
  <2> QED
    BY <1>1, <1>2, <1>3, <2>1 DEF Inv, Near, Views
<1>6. Kept'
  <2>1. \A m \in stored : Old(m, view) => Old(m, v)
    BY <1>1, OldStays DEF Inv, TypeOK
  <2>2. \A m \in stored' : m \in queue' \/ m \in events' \/ m \in handled' \/ Old(m, v)
    BY <1>2, <1>3, <2>1 DEF Inv, Kept
  <2> QED
    BY <1>3, <2>2 DEF Kept
<1> QED
  BY <1>4, <1>5, <1>6 DEF Inv

(* No step of the backlog breaks the invariant. *)
LEMMA InvNext == Inv /\ [Next]_vars => Inv'
<1> SUFFICES ASSUME Inv, [Next]_vars PROVE Inv'
  OBVIOUS
<1>1. CASE UNCHANGED vars
  BY <1>1 DEF vars, Inv, TypeOK, Near, Kept, Old
<1>2. ASSUME NEW m \in Messages, HandleMsg(m) PROVE Inv'
  BY <1>2, HandleCheckedMsgKeeps DEF HandleMsg
<1>3. ASSUME NEW m \in Messages, HandleBacklogEvent(m) PROVE Inv'
  <2>1. events \ {m} \in SUBSET events /\ events \subseteq (events \ {m}) \cup {m}
    OBVIOUS
  <2> QED
    BY <1>3, <2>1, HandleCheckedMsgKeeps DEF HandleBacklogEvent
<1>4. ASSUME NEW v \in Later(view), StartNewRound(v) PROVE Inv'
  BY <1>4, StartNewRoundKeeps
<1> QED
  BY <1>1, <1>2, <1>3, <1>4 DEF Next

(* The invariant holds in every reachable state. *)
LEMMA InvAlways == Spec => []Inv
<1>1. Init => Inv
  BY DEF Init, Inv, TypeOK, Near, Kept, Views
<1> QED
  BY <1>1, InvNext, PTL DEF Spec

(* The validator's view stays a view, and what storeBacklog queues, what   *)
(* processBacklog posts and what a handler accepts are messages of the     *)
(* peer, for any messages, heights and rounds.                             *)
THEOREM TypeCorrect == Spec => []TypeOK
<1>1. Inv => TypeOK
  BY DEF Inv
<1> QED
  BY <1>1, InvAlways, PTL

(* storeBacklog and processBacklog never lose a message that the validator *)
(* can still use: until its view has passed it is queued, posted or        *)
(* handled.  This holds for every round.                                   *)
THEOREM NothingLost == Spec => []Kept
<1>1. Inv => Kept
  BY DEF Inv
<1> QED
  BY <1>1, InvAlways, PTL

---------------------------------------------------------------------------
SmallRounds == \A m \in Messages : m.view.round <= 9

(* Below round 10 toPriority puts every message that is not in the future  *)
(* of a view before every one that is.                                     *)
LEMMA PriorityOrder ==
  ASSUME SmallRounds, NEW v \in Views, NEW m \in Messages, NEW f \in Messages,
         Old(m, v) \/ Current(m, v), Future(f, v)
  PROVE  ToPriority(m) > ToPriority(f)
<1>1. /\ m.view \in Views /\ m.code \in DOMAIN messagePriorityTable
      /\ f.view \in Views /\ f.code \in DOMAIN messagePriorityTable
  BY MessagesAssumption
<1>2. /\ messagePriorityTable[m.code] \in 1 .. 8
      /\ messagePriorityTable[f.code] \in 1 .. 8
  BY <1>1 DEF messagePriorityTable
<1>3. m.view.round <= 9 /\ f.view.round <= 9
  BY DEF SmallRounds
<1>4. \/ m.view.height < f.view.height
      \/ m.view.height = f.view.height /\ m.view.round < f.view.round
  BY <1>1 DEF Old, Current, Future, Views
<1> QED
  BY <1>1, <1>2, <1>3, <1>4 DEF ToPriority, Views

(* processBacklog leaves only messages of later views in the queue. *)
LEMMA ProcessBacklogEmpties ==
  ASSUME SmallRounds, Inv, NEW v \in Views, NEW pending,
         ProcessBacklog(v, pending), v = view \/ v \in Later(view)
  PROVE  \A m \in queue' : Future(m, v)
<1>1. PICK popped \in SUBSET queue :
        /\ \/ popped = queue
           \/ \E f \in queue \ popped : Future(f, v) /\ PopsBefore(popped, f)
        /\ queue' = queue \ popped
  BY DEF ProcessBacklog
<1> SUFFICES ASSUME NEW m \in queue \ popped, ~Future(m, v) PROVE FALSE
  BY <1>1
<1>2. PICK f \in queue \ popped : Future(f, v) /\ PopsBefore(popped, f)
  BY <1>1
<1>3. m \in Messages /\ f \in Messages /\ m.view.height <= view.height + 1
  BY DEF Inv, TypeOK, Near
<1>4. v.height >= view.height
  BY LaterViews DEF Inv, TypeOK, Views
<1>5. m.view.height <= v.height + 1
  BY <1>3, <1>4, MessagesAssumption DEF Inv, TypeOK, Views
<1>6. Old(m, v) \/ Current(m, v)
  BY <1>3, <1>5, Trichotomy
<1>7. ToPriority(m) > ToPriority(f)
  BY <1>2, <1>3, <1>6, PriorityOrder
<1> QED
  BY <1>2, <1>7 DEF PopsBefore

(* A handled message leaves the queue to the future, too. *)
LEMMA HandleCheckedMsgOnlyFuture ==
  ASSUME SmallRounds, Inv, OnlyFuture, NEW m \in Messages, NEW pending,
         HandleCheckedMsg(m, pending), UNCHANGED view
  PROVE  OnlyFuture'
<1>1. CASE ProcessBacklog(view, pending)
  <2>1. \A x \in queue' : Future(x, view)
    BY <1>1, ProcessBacklogEmpties DEF Inv, TypeOK
  <2> QED
    BY <2>1 DEF OnlyFuture
<1>2. CASE queue' = queue
  BY <1>2 DEF OnlyFuture
<1>3. CASE Future(m, view) /\ queue' = queue \cup {m}
  BY <1>3 DEF OnlyFuture
<1> QED
  BY <1>1, <1>2, <1>3 DEF HandleCheckedMsg

(* As long as no message comes from a round above 9, processBacklog holds  *)
(* no message of the current view back behind one of a later view.         *)
THEOREM NothingHeldBack == ASSUME SmallRounds PROVE Spec => []OnlyFuture
<1>1. Init => OnlyFuture
  BY DEF Init, OnlyFuture
<1>2. Inv /\ OnlyFuture /\ [Next]_vars => OnlyFuture'
  <2> SUFFICES ASSUME Inv, OnlyFuture, [Next]_vars PROVE OnlyFuture'
    OBVIOUS
  <2>1. CASE UNCHANGED vars
    BY <2>1 DEF vars, OnlyFuture
  <2>2. ASSUME NEW m \in Messages, HandleMsg(m) \/ HandleBacklogEvent(m)
        PROVE  OnlyFuture'
    BY <2>2, HandleCheckedMsgOnlyFuture DEF HandleMsg, HandleBacklogEvent
  <2>3. ASSUME NEW v \in Later(view), StartNewRound(v) PROVE OnlyFuture'
    <3>1. v \in Views /\ ProcessBacklog(v, events) /\ view' = v
      BY <2>3, LaterViews DEF StartNewRound, Inv, TypeOK
    <3>2. \A x \in queue' : Future(x, v)
      BY <3>1, ProcessBacklogEmpties
    <3> QED
      BY <3>1, <3>2 DEF OnlyFuture
  <2> QED
    BY <2>1, <2>2, <2>3 DEF Next
<1> QED
  BY <1>1, <1>2, InvAlways, PTL DEF Spec
===========================================================================
