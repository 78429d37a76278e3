--------------------------- MODULE RequestsProofs ---------------------------
(***************************************************************************)
(* Proofs about Requests, for any blocks, heights and rounds.              *)
(***************************************************************************)
EXTENDS MCRequests, TLAPS

(* What the queue hands out is of this height or an older one. *)
LEMMA PoppedIsDue ==
  ASSUME number \in [Blocks -> Nat], queue \subseteq Blocks, NEW h
  PROVE  /\ Popped(h) \subseteq queue
         /\ \A b \in Popped(h) : number[b] <= h
  BY DEF Popped, PopsBefore

(* processPendingRequests moves requests of height h from the queue to the *)
(* event loop and forgets older ones only.                                 *)
LEMMA ProcessingKeeps ==
  ASSUME number \in [Blocks -> Nat], queue \subseteq Blocks, queue \cap posted = {},
         NEW h \in Nat, ProcessPendingRequests(h)
  PROVE  /\ queue' \subseteq queue
         /\ posted' \subseteq posted \cup queue
         /\ queue' \cap posted' = {}
         /\ \A b \in queue \cup posted : number[b] >= h => b \in queue' \cup posted'
<1>1. Popped(h) \subseteq queue /\ \A b \in Popped(h) : number[b] <= h
  BY PoppedIsDue
<1>2. ASSUME NEW b \in queue \cup posted, number[b] >= h
      PROVE  b \in queue' \cup posted'
  <2>1. CASE b \in Popped(h)
    <3>1. number[b] \in Nat /\ number[b] <= h
      BY <1>1, <2>1
    <3>2. number[b] = h
      BY <3>1, <1>2
    <3> QED
      BY <3>2, <2>1 DEF ProcessPendingRequests
  <2> QED
    BY <2>1, <1>2 DEF ProcessPendingRequests
<1> QED
  BY <1>1, <1>2 DEF ProcessPendingRequests

---------------------------------------------------------------------------
(* TypeOK                                                                  *)

LEMMA InitTypeOK == Init => TypeOK
  BY RequestsAssumption
     DEF Init, TypeOK, AcceptRequest, HighQC, Prepared, PreCommitted, Committed

LEMMA SendPrepareType ==
  ASSUME TypeOK, NEW r \in Blocks \cup {Nil}, SendPrepare(r)
  PROVE  proposed' \in Blocks \cup {Nil}
  BY DEF TypeOK, SendPrepare

LEMMA EnterViewType ==
  ASSUME TypeOK, NEW v \in [height : Nat, round : Nat], EnterView(v)
  PROVE  /\ view' = v /\ leader' \in BOOLEAN
         /\ state' \in AcceptRequest .. Committed
         /\ proposed' \in Blocks \cup {Nil}
         /\ offered' = offered
         /\ queue' \subseteq offered /\ posted' \subseteq offered
         /\ queue' \cap posted' = {}
<1>1. queue' \subseteq queue /\ posted' \subseteq posted \cup queue /\ queue' \cap posted' = {}
  <2>1. queue \subseteq Blocks /\ queue \cap posted = {} /\ ProcessPendingRequests(v.height)
    BY DEF TypeOK, EnterView
  <2> QED
    BY <2>1, ProcessingKeeps, RequestsAssumption
<1> QED
  BY <1>1 DEF TypeOK, EnterView, AcceptRequest, Committed

LEMMA NextTypeOK == TypeOK /\ [Next]_vars => TypeOK'
<1> SUFFICES ASSUME TypeOK, [Next]_vars PROVE TypeOK'
  OBVIOUS
<1> USE RequestsAssumption
<1>1. ASSUME NEW b \in Blocks, Seal(b) PROVE TypeOK'
  BY <1>1 DEF TypeOK, Seal
<1>2. ASSUME NEW b \in Blocks, StoreRequest(b) PROVE TypeOK'
  BY <1>2 DEF TypeOK, StoreRequest
<1>3. ASSUME NEW b \in Blocks, TakeRequest(b) PROVE TypeOK'
  <2>1. proposed' \in Blocks \cup {Nil}
    <3>1. CASE pendingRequest = Nil /\ state = HighQC
      BY <1>3, <3>1, SendPrepareType DEF TakeRequest
    <3> QED
      BY <1>3, <3>1 DEF TypeOK, TakeRequest
  <2>2. pendingRequest' \in Blocks \cup {Nil} /\ number[pendingRequest'] = view.height
    BY <1>3 DEF TypeOK, TakeRequest
  <2> QED
    BY <1>3, <2>1, <2>2 DEF TypeOK, TakeRequest
<1>4. ASSUME NEW b \in Blocks, DropRequest(b) PROVE TypeOK'
  BY <1>4 DEF TypeOK, DropRequest
<1>5. ASSUME AcceptHighQC PROVE TypeOK'
  <2>1. proposed' \in Blocks \cup {Nil}
    BY <1>5, SendPrepareType DEF AcceptHighQC, TypeOK
  <2>2. queue' \subseteq queue /\ posted' \subseteq posted \cup queue /\ queue' \cap posted' = {}
    <3>1. /\ queue \subseteq Blocks /\ queue \cap posted = {} /\ view.height \in Nat
          /\ ProcessPendingRequests(view.height)
      BY <1>5 DEF TypeOK, AcceptHighQC
    <3> QED
      BY <3>1, ProcessingKeeps
  <2> QED
    BY <1>5, <2>1, <2>2 DEF TypeOK, AcceptHighQC, AcceptRequest, HighQC, Committed
<1>6. ASSUME NEW s \in Prepared .. Committed, Advance(s) PROVE TypeOK'
  <2>1. lockedBlock' \in Blocks \cup {Nil}
    BY <1>6 DEF TypeOK, Advance
  <2>2. state' \in AcceptRequest .. Committed
    BY <1>6 DEF Advance, AcceptRequest, Prepared, Committed
  <2> QED
    BY <1>6, <2>1, <2>2 DEF TypeOK, Advance
<1>7. ASSUME ChangeView PROVE TypeOK'
  <2> DEFINE v == [view EXCEPT !.round = @ + 1]
  <2>1. v \in [height : Nat, round : Nat] /\ v.height = view.height /\ EnterView(v)
    BY <1>7 DEF TypeOK, ChangeView
  <2>2. pendingRequest' = pendingRequest /\ lockedBlock' = lockedBlock
    BY <1>7 DEF ChangeView
  <2> HIDE DEF v
  <2> QED
    BY <2>1, <2>2, EnterViewType DEF TypeOK
<1>8. ASSUME NEW h \in 1 .. MaxHeight, CatchUp(h) PROVE TypeOK'
  <2> DEFINE v == [height |-> h, round |-> 0]
  <2>1. v \in [height : Nat, round : Nat] /\ EnterView(v)
    BY <1>8 DEF CatchUp
  <2>2. pendingRequest' = Nil /\ lockedBlock' = Nil
    BY <1>8 DEF CatchUp
  <2> HIDE DEF v
  <2> QED
    BY <2>1, <2>2, EnterViewType DEF TypeOK
<1>9. CASE UNCHANGED vars
  BY <1>9 DEF TypeOK, vars
<1> QED
  BY <1>1, <1>2, <1>3, <1>4, <1>5, <1>6, <1>7, <1>8, <1>9 DEF Next, HandleRequest

(* A request is in one place at a time, and the one that waits to be       *)
(* proposed is of the height the node works on.                            *)
THEOREM TypeCorrect == Spec => []TypeOK
  BY InitTypeOK, NextTypeOK, PTL DEF Spec

---------------------------------------------------------------------------
(* RequestKept                                                             *)

LEMMA NextRequestKept == TypeOK /\ RequestKept /\ [Next]_vars => RequestKept'
<1> SUFFICES ASSUME TypeOK, RequestKept, [Next]_vars PROVE RequestKept'
  OBVIOUS
<1> USE RequestsAssumption
<1>0. /\ queue \subseteq Blocks /\ offered \subseteq Blocks /\ queue \cap posted = {}
      /\ view.height \in Nat
  BY DEF TypeOK
<1>1. ASSUME NEW b \in Blocks, Seal(b) PROVE RequestKept'
  BY <1>1 DEF RequestKept, Seal
<1>2. ASSUME NEW b \in Blocks, StoreRequest(b) PROVE RequestKept'
  BY <1>2 DEF RequestKept, StoreRequest
<1>3. ASSUME NEW b \in Blocks, TakeRequest(b) PROVE RequestKept'
  <2>1. pendingRequest' # Nil
    BY <1>3 DEF TakeRequest
  <2> QED
    BY <1>3, <2>1 DEF RequestKept, TakeRequest
<1>4. ASSUME NEW b \in Blocks, DropRequest(b) PROVE RequestKept'
  <2>1. number[b] \in Nat /\ ~(number[b] >= view.height)
    BY <1>0, <1>4 DEF DropRequest
  <2> QED
    BY <1>4, <2>1 DEF RequestKept, DropRequest
<1>5. ASSUME AcceptHighQC PROVE RequestKept'
  <2>1. \A b \in queue \cup posted :
          number[b] >= view.height => b \in queue' \cup posted'
    BY <1>0, <1>5, ProcessingKeeps DEF AcceptHighQC
  <2> QED
    BY <1>5, <2>1 DEF RequestKept, AcceptHighQC
<1>6. ASSUME NEW s \in Prepared .. Committed, Advance(s) PROVE RequestKept'
  BY <1>6 DEF RequestKept, Advance
<1>7. ASSUME ChangeView PROVE RequestKept'
  <2>1. /\ view'.height = view.height /\ ProcessPendingRequests(view.height)
        /\ pendingRequest' = pendingRequest /\ offered' = offered
    BY <1>7 DEF ChangeView, EnterView, TypeOK
  <2>2. \A b \in queue \cup posted :
          number[b] >= view.height => b \in queue' \cup posted'
    BY <1>0, <2>1, ProcessingKeeps
  <2> QED
    BY <2>1, <2>2 DEF RequestKept
<1>8. ASSUME NEW h \in 1 .. MaxHeight, CatchUp(h) PROVE RequestKept'
  <2>1. /\ h \in Nat /\ h > view.height /\ view'.height = h
        /\ ProcessPendingRequests(h) /\ offered' = offered
    BY <1>8 DEF CatchUp, EnterView
  <2>2. \A b \in queue \cup posted : number[b] >= h => b \in queue' \cup posted'
    BY <1>0, <2>1, ProcessingKeeps
  <2>3. \A b \in offered : number[b] >= h => b \in queue \cup posted
    BY <1>0, <2>1 DEF RequestKept
  <2> QED
    BY <2>1, <2>2, <2>3 DEF RequestKept
<1>9. CASE UNCHANGED vars
  BY <1>9 DEF RequestKept, vars
<1> QED
  BY <1>1, <1>2, <1>3, <1>4, <1>5, <1>6, <1>7, <1>8, <1>9 DEF Next, HandleRequest

(* A block of the miner is not lost before its height is over, whatever    *)
(* rounds, heights and other requests come in between.                     *)
THEOREM RequestsAreKept == Spec => []RequestKept
<1>1. Init => RequestKept
  BY DEF Init, RequestKept
<1> QED
  BY <1>1, InitTypeOK, NextTypeOK, NextRequestKept, PTL DEF Spec

---------------------------------------------------------------------------
(* OneProposal                                                             *)

(* Only a leader that is past AcceptRequest has proposed, its lock agrees  *)
(* with the proposal, and while more requests could still make it propose  *)
(* the block it proposed is its lock or the request it has taken.          *)
ProposalInv ==
  proposed # Nil =>
    /\ leader /\ state # AcceptRequest
    /\ lockedBlock \in {Nil, proposed}
    /\ state = HighQC => lockedBlock # Nil \/ pendingRequest # Nil

LEMMA NextProposalInv ==
  TypeOK /\ ProposalInv /\ [Next]_vars =>
    ProposalInv' /\ (proposed # Nil /\ view' = view => proposed' = proposed)
<1> DEFINE Kept == proposed # Nil /\ view' = view => proposed' = proposed
<1> SUFFICES ASSUME TypeOK, ProposalInv, [Next]_vars PROVE ProposalInv' /\ Kept
  OBVIOUS
<1> USE RequestsAssumption
<1>1. ASSUME NEW b \in Blocks, Seal(b) PROVE ProposalInv' /\ Kept
  BY <1>1 DEF ProposalInv, Seal
<1>2. ASSUME NEW b \in Blocks, StoreRequest(b) PROVE ProposalInv' /\ Kept
  BY <1>2 DEF ProposalInv, StoreRequest
<1>3. ASSUME NEW b \in Blocks, TakeRequest(b) PROVE ProposalInv' /\ Kept
  <2>1. pendingRequest' # Nil
    BY <1>3 DEF TakeRequest
  <2>2. CASE pendingRequest = Nil /\ state = HighQC
    <3>1. SendPrepare(b) /\ UNCHANGED <<view, leader, state, lockedBlock>>
      BY <1>3, <2>2 DEF TakeRequest
    <3> QED
      BY <2>1, <2>2, <3>1 DEF ProposalInv, SendPrepare, HighQC, AcceptRequest
  <2>3. CASE ~(pendingRequest = Nil /\ state = HighQC)
    <3>1. UNCHANGED <<view, leader, state, lockedBlock, proposed>>
      BY <1>3, <2>3 DEF TakeRequest
    <3> QED
      BY <2>1, <3>1 DEF ProposalInv
  <2> QED
    BY <2>2, <2>3
<1>4. ASSUME NEW b \in Blocks, DropRequest(b) PROVE ProposalInv' /\ Kept
  BY <1>4 DEF ProposalInv, DropRequest
<1>5. ASSUME AcceptHighQC PROVE ProposalInv' /\ Kept
  <2>1. proposed = Nil /\ state' = HighQC /\ SendPrepare(pendingRequest)
        /\ UNCHANGED <<view, leader, pendingRequest, lockedBlock>>
    BY <1>5 DEF AcceptHighQC, ProposalInv
  <2> QED
    BY <2>1 DEF ProposalInv, SendPrepare, HighQC, AcceptRequest
<1>6. ASSUME NEW s \in Prepared .. Committed, Advance(s) PROVE ProposalInv' /\ Kept
  <2>1. /\ UNCHANGED <<view, leader, pendingRequest, proposed>>
        /\ state' = s /\ state' # HighQC /\ state' # AcceptRequest
    BY <1>6 DEF Advance, Prepared, Committed, HighQC, AcceptRequest
  <2>2. proposed # Nil => lockedBlock' \in {Nil, proposed}
    BY <1>6 DEF Advance, ProposalInv
  <2> QED
    BY <2>1, <2>2 DEF ProposalInv
<1>7. ASSUME ChangeView PROVE ProposalInv' /\ Kept
  <2>1. proposed' = Nil /\ view' = [view EXCEPT !.round = @ + 1]
    BY <1>7 DEF ChangeView, EnterView
  <2>2. view'.round # view.round
    BY <2>1 DEF TypeOK
  <2> QED
    BY <2>1, <2>2 DEF ProposalInv
<1>8. ASSUME NEW h \in 1 .. MaxHeight, CatchUp(h) PROVE ProposalInv' /\ Kept
  <2>1. proposed' = Nil /\ view'.height = h /\ h > view.height /\ view.height \in Nat
    BY <1>8 DEF CatchUp, EnterView, TypeOK
  <2>2. view' # view
    BY <2>1
  <2> QED
    BY <2>1, <2>2 DEF ProposalInv
<1>9. CASE UNCHANGED vars
  BY <1>9 DEF ProposalInv, vars
<1> QED
  BY <1>1, <1>2, <1>3, <1>4, <1>5, <1>6, <1>7, <1>8, <1>9 DEF Next, HandleRequest

(* A leader proposes one block in a view, however its requests, its lock   *)
(* and the quorum of NewViews come together.                               *)
THEOREM ProposesOnce == Spec => OneProposal
<1>1. Init => ProposalInv
  BY DEF Init, ProposalInv
<1>2. TypeOK /\ ProposalInv /\ [Next]_vars =>
        [proposed # Nil /\ view' = view => proposed' = proposed]_vars
  BY NextProposalInv
<1> QED
  BY <1>1, <1>2, InitTypeOK, NextTypeOK, NextProposalInv, PTL DEF Spec, OneProposal

---------------------------------------------------------------------------
(* Starting and stopping the engine (Lifecycle, here E)                    *)

(* The loop that the latest Start launched: from Launch on it reads, or is *)
(* about to read, the subscription of that Start.                          *)
Serving ==
  \/ loop[sub] \in {"top", "handle", "checkView"}
  \/ loop[sub] = "select" /\ reads[sub] = sub

LoopStates == {"none", "top", "select", "handle", "checkView", "exited", "panicked"}

(* A subscription is closed by the Stop that follows its Start, and not    *)
(* before; Start and Stop exclude each other under coreMu.  The new loop   *)
(* may panic before its round state is there, but then Start never ends.   *)
EngineInv ==
  /\ coreStarted \in BOOLEAN /\ current \in BOOLEAN
  /\ api \in {"idle", "subscribe", "launch", "round"}
  /\ sub \in 0 .. MaxStarts /\ closed \subseteq 1 .. sub
  /\ loop \in [E!Runs -> LoopStates]
  /\ reads \in [E!Runs -> 0 .. MaxStarts]
  /\ api = "subscribe" => sub < MaxStarts
  /\ coreStarted => api = "idle" /\ current
  /\ coreStarted \/ api \in {"launch", "round"} => sub # 0 /\ sub \notin closed
  /\ coreStarted => Serving
  /\ api = "round" => Serving \/ loop[sub] = "panicked"

LEMMA EngineInit == E!Init => EngineInv
<1> SUFFICES ASSUME E!Init PROVE EngineInv
  OBVIOUS
<1>1. 0 \in 0 .. MaxStarts
  BY MaxStartsAssumption
<1>2. reads \in [E!Runs -> 0 .. MaxStarts]
  BY <1>1 DEF E!Init
<1>3. loop \in [E!Runs -> LoopStates]
  BY DEF E!Init, LoopStates
<1> QED
  BY <1>1, <1>2, <1>3 DEF E!Init, EngineInv

(* Start and Stop *)
LEMMA StartInv == ASSUME EngineInv, E!Alive, E!Start \/ E!Stop PROVE EngineInv'
<1>1. CASE E!StartCore
  BY <1>1, MaxStartsAssumption DEF EngineInv, E!StartCore, Serving, E!Runs
<1>2. CASE E!SubscribeEvents
  BY <1>2, MaxStartsAssumption DEF EngineInv, E!SubscribeEvents, E!Runs
<1>3. CASE E!Launch
  BY <1>3, MaxStartsAssumption DEF EngineInv, LoopStates, E!Launch, Serving, E!Runs
<1>4. CASE E!FirstRound
  <2>1. sub \in E!Runs
    BY <1>4, MaxStartsAssumption DEF EngineInv, E!FirstRound, E!Runs
  <2>2. Serving
    BY <1>4, <2>1 DEF EngineInv, E!FirstRound, E!Alive
  <2> QED
    BY <1>4, <2>2 DEF EngineInv, E!FirstRound, Serving
<1>5. CASE E!Stop
  <2>1. sub \in 1 .. sub
    BY <1>5, MaxStartsAssumption DEF EngineInv, E!Stop
  <2>2. closed' \subseteq 1 .. sub
    BY <1>5, <2>1 DEF EngineInv, E!Stop
  <2> QED
    BY <1>5, <2>2 DEF EngineInv, E!Stop
<1> QED
  BY <1>1, <1>2, <1>3, <1>4, <1>5 DEF E!Start

(* A loop step moves one loop on; only one whose channel is closed ends. *)
LEMMA LoopInv == ASSUME EngineInv, NEW l \in E!Runs, E!LoopStep(l) PROVE EngineInv'
<1>1. UNCHANGED <<coreStarted, api, current, sub, closed>>
  BY DEF E!LoopStep, E!Evaluate, E!Receive, E!ReceiveClosed, E!Handle
<1>2. /\ loop' \in [E!Runs -> LoopStates]
      /\ reads' \in [E!Runs -> 0 .. MaxStarts]
  BY DEF EngineInv, LoopStates, E!LoopStep, E!Evaluate, E!Receive, E!ReceiveClosed, E!Handle
<1>3. ASSUME Serving, sub \in E!Runs, sub \notin closed
      PROVE  Serving' \/ (loop'[sub] = "panicked" /\ ~current)
  <2>2. CASE E!Evaluate(l)
    BY <1>1, <1>3, <2>2 DEF E!Evaluate, Serving, EngineInv
  <2>3. ASSUME NEW e, E!Receive(l, e) PROVE Serving'
    BY <1>1, <1>3, <2>3 DEF E!Receive, Serving, EngineInv
  <2>4. CASE E!ReceiveClosed(l) \/ E!Handle(l)
    BY <1>1, <1>3, <2>4 DEF E!ReceiveClosed, E!Handle, Serving, EngineInv
  <2> QED
    BY <2>2, <2>3, <2>4 DEF E!LoopStep
<1>4. ASSUME coreStarted \/ api = "round" PROVE sub \in E!Runs /\ sub \notin closed
  BY <1>4, MaxStartsAssumption DEF EngineInv, E!Runs
<1>5. coreStarted => Serving'
  BY <1>3, <1>4 DEF EngineInv
<1>6. api = "round" => Serving' \/ loop'[sub] = "panicked"
  <2>1. ASSUME api = "round" PROVE Serving
    BY <1>4, <2>1 DEF EngineInv, E!LoopStep, E!Alive
  <2> QED
    BY <1>3, <1>4, <2>1
<1> QED
  BY <1>1, <1>2, <1>5, <1>6 DEF EngineInv

LEMMA EngineNext == EngineInv /\ [E!Next]_(E!vars) => EngineInv'
<1> SUFFICES ASSUME EngineInv, [E!Next]_(E!vars) PROVE EngineInv'
  OBVIOUS
<1>1. CASE UNCHANGED E!vars
  BY <1>1 DEF E!vars, EngineInv, Serving
<1>2. ASSUME NEW kind \in E!Kinds, E!Post(kind) PROVE EngineInv'
  BY <1>2 DEF E!Post, EngineInv, Serving
<1> QED
  BY <1>1, <1>2, StartInv, LoopInv DEF E!Next

(* A started engine has a round state, an open subscription and an event   *)
(* loop that reads it, after any number of starts and stops and whatever   *)
(* the loops of earlier starts are still doing.                            *)
THEOREM EngineIsServed == E!Spec => []StartedIsServed
<1>1. EngineInv => StartedIsServed
  BY MaxStartsAssumption
     DEF EngineInv, Serving, StartedIsServed, E!StartedIsServed, E!Runs
<1>2. E!Spec => []EngineInv
  BY EngineInit, EngineNext, PTL DEF E!Spec
<1> QED
  BY <1>1, <1>2, PTL
=============================================================================
