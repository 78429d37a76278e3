----------------------------- MODULE Lifecycle -----------------------------
(***************************************************************************)
(* Starting and stopping the engine: Backend.Start and Backend.Stop        *)
(* (consensus/hotstuff/backend/engine.go) around Core.Start, Core.Stop and *)
(* the event loop handleEvents (core/handler.go), which is a goroutine of  *)
(* its own and shares the Core without a lock.                             *)
(*                                                                         *)
(* The three subscriptions of the core are opened and closed together and  *)
(* are one here, named by the Start that made it.  So is the event loop    *)
(* that a Start launches.                                                  *)
(***************************************************************************)
EXTENDS Naturals

CONSTANTS
  MaxStarts   \* bound: how often the engine is started

Runs == 1 .. MaxStarts

(* Messages pass the nil check of handleCheckedMsg; requests, timeouts and *)
(* final-committed events use the round state right away.                  *)
Kinds == {"message", "other"}

VARIABLES
  coreStarted,  \* Backend.coreStarted
  api,          \* where the goroutine inside Start or Stop is
  current,      \* is Core.current set?
  sub,          \* Core.events, timeoutSub and finalCommittedSub
  closed,       \* subscriptions that are closed
  posted,       \* events some goroutine is posting, with the subscription
                \* TypeMux.Post found
  loop,         \* where the event loop of each Start is
  reads         \* the subscription that loop evaluated for its select

vars == <<coreStarted, api, current, sub, closed, posted, loop, reads>>

(* A panic of one goroutine ends the process, and with it all the others.  *)
Alive == \A l \in Runs : loop[l] # "panicked"

---------------------------------------------------------------------------
(* Backend.Start holds coreMu throughout, as does Backend.Stop. *)
StartCore ==
  /\ api = "idle" /\ ~coreStarted /\ sub < MaxStarts
  /\ current' = FALSE
  /\ api' = "subscribe"
  /\ UNCHANGED <<coreStarted, sub, closed, posted, loop, reads>>

SubscribeOnce ==
  /\ api = "subscribe"
  /\ sub' = IF sub = 0 THEN 1 ELSE sub
  /\ api' = "launch"
  /\ UNCHANGED <<coreStarted, current, closed, posted, loop, reads>>
SubscribeEvents ==
  /\ api = "subscribe"
  /\ sub' = sub + 1
  /\ api' = "launch"
  /\ UNCHANGED <<coreStarted, current, closed, posted, loop, reads>>

(* go c.handleEvents() *)
Launch ==
  /\ api = "launch"
  /\ loop' = [loop EXCEPT ![sub] = "top"]
  /\ api' = "round"
  /\ UNCHANGED <<coreStarted, current, sub, closed, posted, reads>>

(* startNewRound(0) builds the round state. *)
FirstRound ==
  /\ api = "round"
  /\ current' = TRUE
  /\ coreStarted' = TRUE
  /\ api' = "idle"
  /\ UNCHANGED <<sub, closed, posted, loop, reads>>

Stop ==
  /\ api = "idle" /\ coreStarted
  /\ closed' = closed \cup {sub}
  /\ posted' = {e \in posted : e.sub # sub}
  /\ coreStarted' = FALSE
  /\ UNCHANGED <<api, current, sub, loop, reads>>

---------------------------------------------------------------------------
(* A goroutine of Seal, HandleMsg, the round timer or the backlog posts an *)
(* event, which reaches the subscription of that moment, if there is one.  *)
(* They all belong to a run of the engine, this one or an earlier one.     *)
Post(kind) ==
  /\ sub \notin closed
  /\ current \/ sub > 1
  /\ posted' = posted \cup {[kind |-> kind, sub |-> sub]}
  /\ UNCHANGED <<coreStarted, api, current, sub, closed, loop, reads>>

---------------------------------------------------------------------------
(* handleEvents evaluates c.events.Chan() at the top of each iteration. *)
Evaluate(l) ==
  /\ loop[l] = "top"
  /\ loop' = [loop EXCEPT ![l] = "select"]
  /\ reads' = [reads EXCEPT ![l] = sub]
  /\ UNCHANGED <<coreStarted, api, current, sub, closed, posted>>

Receive(l, e) ==
  /\ loop[l] = "select"
  /\ e.sub = reads[l]
  /\ posted' = posted \ {e}
  /\ loop' = [loop EXCEPT ![l] = IF e.kind = "other" THEN "handle"
                                 ELSE IF current THEN "checkView" ELSE "top"]
  /\ UNCHANGED <<coreStarted, api, current, sub, closed, reads>>

IgnoreClosed(l) ==
  /\ loop[l] = "select"
  /\ reads[l] \in closed
  /\ loop' = [loop EXCEPT ![l] = "top"]
  /\ UNCHANGED <<coreStarted, api, current, sub, closed, posted, reads>>
ReceiveClosed(l) ==
  /\ loop[l] = "select"
  /\ reads[l] \in closed
  /\ loop' = [loop EXCEPT ![l] = "exited"]
  /\ UNCHANGED <<coreStarted, api, current, sub, closed, posted, reads>>

(* The rest of the handler reads the round state: nil, which Start leaves  *)
(* it for a while, is a panic that nothing recovers.                       *)
Handle(l) ==
  /\ loop[l] \in {"handle", "checkView"}
  /\ loop' = [loop EXCEPT ![l] = IF current THEN "top" ELSE "panicked"]
  /\ UNCHANGED <<coreStarted, api, current, sub, closed, posted, reads>>

---------------------------------------------------------------------------
Init ==
  /\ coreStarted = FALSE
  /\ api = "idle"
  /\ current = FALSE
  /\ sub = 0
  /\ closed = {}
  /\ posted = {}
  /\ loop = [l \in Runs |-> "none"]
  /\ reads = [l \in Runs |-> 0]

LoopStep(l) ==
  /\ Alive
  /\ \/ Evaluate(l)
     \/ \E e \in posted : Receive(l, e)
     \/ ReceiveClosed(l)
     \/ Handle(l)

Start == StartCore \/ SubscribeEvents \/ Launch \/ FirstRound

Next ==
  \/ Alive /\ (Start \/ Stop \/ \E kind \in Kinds : Post(kind))
  \/ \E l \in Runs : LoopStep(l)

(* The goroutines of the engine run.  A loop whose channel is closed may   *)
(* keep choosing other ready channels, but not for ever.                   *)
Fairness ==
  \A l \in Runs : WF_vars(LoopStep(l)) /\ SF_vars(Alive /\ ReceiveClosed(l))

Spec == Init /\ [][Next]_vars /\ Fairness

---------------------------------------------------------------------------
(* A started engine has a round state, and an event loop that reads the    *)
(* subscription of this start: no loop that is still busy with an event of *)
(* an earlier run takes its place away.                                    *)
StartedIsServed ==
  coreStarted =>
    /\ current
    /\ sub \notin closed
    /\ \E l \in Runs : \/ loop[l] \in {"top", "handle", "checkView"}
                       \/ loop[l] = "select" /\ reads[l] = sub

(* An engine that is stopped for good has no event loop left: each loop    *)
(* finishes its event, meets the closed channel and returns.               *)
StopEndsLoops ==
  <>[](~coreStarted /\ api = "idle") =>
    <>[](\A l \in Runs : loop[l] \in {"none", "exited"})

(* checkView (core/utils.go): "local view WONT be nil". *)
LocalViewWontBeNil == \A l \in Runs : loop[l] = "checkView" => current
===========================================================================
