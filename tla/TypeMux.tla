------------------------------ MODULE TypeMux ------------------------------
(***************************************************************************)
(* The event multiplexer (event/event.go) through which the transport, the *)
(* timers and the miner reach the core's event loop: Subscribe, Post with  *)
(* its deliveries one subscription after the other, Unsubscribe and Stop.  *)
(*                                                                         *)
(* mux.mutex, closeMu and postMu are the locks of the code: what a         *)
(* goroutine does between taking and releasing one is a single step, where *)
(* it does not block in between.  A reader of a subscription may stop      *)
(* reading at any time.                                                    *)
(***************************************************************************)
EXTENDS Naturals, Sequences, Functions

CONSTANTS
  Subs,       \* the subscriptions of one event type
  Posters,    \* the goroutines that call Post
  MaxPosts,   \* how often each of them does (a bound)
  Nobody      \* not a subscription or a goroutine

ASSUME TypeMuxAssumption ==
  /\ MaxPosts \in Nat
  /\ Nobody \notin Subs \cup {"Unsubscribe", "Stop"}

VARIABLES
  subm,       \* mux.subm: the registered subscriptions, in order
  stopped,    \* mux.stopped
  sub,        \* where each subscription is: "none", "created", "live",
              \*   "deleted" (del is done), "closing", "unsubscribed"
  closed,     \* sub.closed, and the state of its closing channel
  closeMu,    \* who is in closewait: Nobody, "Unsubscribe" or "Stop"
  postC,      \* FALSE once the channel has been closed
  post,       \* where each poster is: "idle", "timed", "delivering"
  posts,      \* how many events each poster has posted
  subs,       \* the subscriptions each Post has still to deliver to
  stale,      \* those created after the event of the Post in progress
  inside,     \* the subscription whose postMu the poster holds, in select
  stop,       \* mux.Stop: "idle", "closing" (mux.mutex is held), "done"
  toClose,    \* the subscriptions that Stop has not closed yet
  received    \* how many events each reader has received

muxVars == <<subm, stopped, stop, toClose>>
subVars == <<sub, closed, closeMu, postC>>
postVars == <<post, posts, subs, stale, inside>>
vars == <<muxVars, subVars, postVars, received>>

Locked == stop = "closing"

---------------------------------------------------------------------------
(* newsub takes the time of creation; Subscribe then waits for mux.mutex. *)
NewSub(s) ==
  /\ sub[s] = "none"
  /\ sub' = [sub EXCEPT ![s] = "created"]
  /\ stale' = [p \in Posters |-> stale[p] \cup {s}]
  /\ UNCHANGED <<muxVars, closed, closeMu, postC, post, posts, subs, inside, received>>

SubscribeAlways(s) ==
  /\ sub[s] = "created" /\ ~Locked
  /\ sub' = [sub EXCEPT ![s] = "live"]
  /\ subm' = Append(subm, s)
  /\ UNCHANGED <<stopped, stop, toClose, closed, closeMu, postC, postVars, received>>
Subscribe(s) ==
  /\ sub[s] = "created" /\ ~Locked
  /\ sub' = [sub EXCEPT ![s] = "live"]
  /\ IF stopped
     THEN /\ closed' = [closed EXCEPT ![s] = TRUE]
          /\ postC' = [postC EXCEPT ![s] = FALSE]
          /\ UNCHANGED subm
     ELSE /\ subm' = Append(subm, s)
          /\ UNCHANGED <<closed, postC>>
  /\ UNCHANGED <<stopped, stop, toClose, closeMu, postVars, received>>

---------------------------------------------------------------------------
(* Post takes the time, and then a snapshot of the subscriptions. *)
Post(p) ==
  /\ post[p] = "idle" /\ posts[p] < MaxPosts
  /\ post' = [post EXCEPT ![p] = "timed"]
  /\ posts' = [posts EXCEPT ![p] = @ + 1]
  /\ stale' = [stale EXCEPT ![p] = {}]
  /\ UNCHANGED <<muxVars, subVars, subs, inside, received>>

Snapshot(p) ==
  /\ post[p] = "timed" /\ ~Locked
  /\ post' = [post EXCEPT ![p] = IF stopped THEN "idle" ELSE "delivering"]
  /\ subs' = [subs EXCEPT ![p] = subm]
  /\ UNCHANGED <<muxVars, subVars, posts, stale, inside, received>>

PostReturn(p) ==
  /\ post[p] = "delivering" /\ subs[p] = <<>> /\ inside[p] = Nobody
  /\ post' = [post EXCEPT ![p] = "idle"]
  /\ UNCHANGED <<muxVars, subVars, posts, subs, stale, inside, received>>

(* deliver: an event older than the subscription is skipped.  RLock waits  *)
(* while closewait holds postMu or waits for it.                           *)
Skip(p) ==
  /\ inside[p] = Nobody /\ subs[p] # <<>> /\ Head(subs[p]) \in stale[p]
  /\ subs' = [subs EXCEPT ![p] = Tail(@)]
  /\ UNCHANGED <<muxVars, subVars, post, posts, stale, inside, received>>

Deliver(p) ==
  /\ inside[p] = Nobody /\ subs[p] # <<>> /\ Head(subs[p]) \notin stale[p]
  /\ closeMu[Head(subs[p])] = Nobody
  /\ inside' = [inside EXCEPT ![p] = Head(subs[p])]
  /\ subs' = [subs EXCEPT ![p] = Tail(@)]
  /\ UNCHANGED <<muxVars, subVars, post, posts, stale, received>>

(* The two cases of deliver's select; postC is nil once it is closed. *)
Receive(p) ==
  /\ inside[p] # Nobody /\ postC[inside[p]]
  /\ received' = [received EXCEPT ![inside[p]] = @ + 1]
  /\ inside' = [inside EXCEPT ![p] = Nobody]
  /\ UNCHANGED <<muxVars, subVars, post, posts, subs, stale>>

StaysInSelect(p) == FALSE /\ UNCHANGED vars
Closing(p) ==
  /\ inside[p] # Nobody /\ closed[inside[p]]
  /\ inside' = [inside EXCEPT ![p] = Nobody]
  /\ UNCHANGED <<muxVars, subVars, post, posts, subs, stale, received>>

---------------------------------------------------------------------------
(* closewait, as far as postMu.Lock: closeMu is held from here on. *)
CloseUnlocked(s, who) ==
  /\ closed[s] \/ closeMu[s] = Nobody
  /\ closeMu' = IF closed[s] THEN closeMu ELSE [closeMu EXCEPT ![s] = who]
  /\ closed' = [closed EXCEPT ![s] = TRUE]
Close(s, who) ==
  /\ closeMu[s] = Nobody
  /\ closeMu' = [closeMu EXCEPT ![s] = IF closed[s] THEN Nobody ELSE who]
  /\ closed' = [closed EXCEPT ![s] = TRUE]

(* The rest of closewait: no poster holds postMu any more. *)
CloseAtOnce(s, who) ==
  /\ closeMu[s] = who
  /\ postC' = [postC EXCEPT ![s] = FALSE]
  /\ closeMu' = [closeMu EXCEPT ![s] = Nobody]
ClosePostC(s, who) ==
  /\ closeMu[s] = who
  /\ \A p \in Posters : inside[p] # s
  /\ postC' = [postC EXCEPT ![s] = FALSE]
  /\ closeMu' = [closeMu EXCEPT ![s] = Nobody]

(* find and posdelete; Stop may have emptied subm. *)
Find(q, s) == CHOOSE i \in DOMAIN q : q[i] = s
PosDelete(q, pos) == SubSeq(q, 1, pos - 1) \o SubSeq(q, pos + 1, Len(q))
Without(q, s) == IF s \in Range(q) THEN PosDelete(q, Find(q, s)) ELSE q

(* Unsubscribe is del and closewait. *)
Del(s) ==
  /\ sub[s] = "live" /\ ~Locked
  /\ sub' = [sub EXCEPT ![s] = "deleted"]
  /\ subm' = Without(subm, s)
  /\ UNCHANGED <<stopped, stop, toClose, closed, closeMu, postC, postVars, received>>

Unsubscribe(s) ==
  /\ sub[s] = "deleted" /\ Close(s, "Unsubscribe")
  /\ sub' = [sub EXCEPT ![s] = IF closed[s] THEN "unsubscribed" ELSE "closing"]
  /\ UNCHANGED <<muxVars, postC, postVars, received>>

Unsubscribed(s) ==
  /\ sub[s] = "closing" /\ ClosePostC(s, "Unsubscribe")
  /\ sub' = [sub EXCEPT ![s] = "unsubscribed"]
  /\ UNCHANGED <<muxVars, closed, postVars, received>>

---------------------------------------------------------------------------
(* Stop holds mux.mutex while it closes the subscriptions in turn. *)
Stop ==
  /\ stop = "idle"
  /\ stop' = "closing"
  /\ toClose' = subm
  /\ UNCHANGED <<subm, stopped, subVars, postVars, received>>

StopClose ==
  /\ Locked /\ toClose # <<>> /\ Close(Head(toClose), "Stop")
  /\ toClose' = IF closed[Head(toClose)] THEN Tail(toClose) ELSE toClose
  /\ UNCHANGED <<subm, stopped, stop, sub, postC, postVars, received>>

StopClosed ==
  /\ Locked /\ toClose # <<>> /\ ClosePostC(Head(toClose), "Stop")
  /\ toClose' = Tail(toClose)
  /\ UNCHANGED <<subm, stopped, stop, sub, closed, postVars, received>>

StopReturn ==
  /\ Locked /\ toClose = <<>>
  /\ stop' = "done" /\ stopped' = TRUE /\ subm' = <<>>
  /\ UNCHANGED <<toClose, subVars, postVars, received>>

---------------------------------------------------------------------------
Init ==
  /\ subm = <<>> /\ stopped = FALSE /\ stop = "idle" /\ toClose = <<>>
  /\ sub = [s \in Subs |-> "none"]
  /\ closed = [s \in Subs |-> FALSE]
  /\ closeMu = [s \in Subs |-> Nobody]
  /\ postC = [s \in Subs |-> TRUE]
  /\ post = [p \in Posters |-> "idle"]
  /\ posts = [p \in Posters |-> 0]
  /\ subs = [p \in Posters |-> <<>>]
  /\ stale = [p \in Posters |-> {}]
  /\ inside = [p \in Posters |-> Nobody]
  /\ received = [s \in Subs |-> 0]

Next ==
  \/ \E s \in Subs :
       NewSub(s) \/ Subscribe(s) \/ Del(s) \/ Unsubscribe(s) \/ Unsubscribed(s)
  \/ \E p \in Posters :
       \/ Post(p) \/ Snapshot(p) \/ PostReturn(p)
       \/ Skip(p) \/ Deliver(p) \/ Receive(p) \/ Closing(p)
  \/ Stop \/ StopClose \/ StopClosed \/ StopReturn

(* Goroutines run and locks are granted; no one has to call an operation,  *)
(* and no reader has to read.                                              *)
Fairness ==
  /\ \A s \in Subs :
       WF_vars(Subscribe(s)) /\ WF_vars(Unsubscribe(s)) /\ WF_vars(Unsubscribed(s))
  /\ \A p \in Posters :
       /\ WF_vars(Snapshot(p)) /\ WF_vars(PostReturn(p)) /\ WF_vars(Skip(p))
       /\ WF_vars(Deliver(p)) /\ WF_vars(Closing(p))
  /\ WF_vars(StopClose) /\ WF_vars(StopClosed) /\ WF_vars(StopReturn)

Spec == Init /\ [][Next]_vars /\ Fairness

---------------------------------------------------------------------------
(* Properties                                                              *)

(* The multiplexer's state is well formed: a registered subscription is    *)
(* registered once and not yet unsubscribed, and closeMu is held by the    *)
(* one call that is in closewait.                                          *)
TypeOK ==
  /\ subm \in Seq(Subs) /\ IsInjective(subm)
  /\ \A s \in Range(subm) : sub[s] = "live" /\ (postC[s] \/ Locked)
  /\ stopped = (stop = "done") /\ (stopped => subm = <<>>)
  /\ \A s \in Subs : closeMu[s] = "Unsubscribe" <=> sub[s] = "closing"
  /\ \A s \in Subs : closeMu[s] = "Stop" => toClose # <<>> /\ s = Head(toClose)
  /\ inside \in [Posters -> Subs \cup {Nobody}]

(* closewait closes postC when no deliver is in its select with it: a Post *)
(* never sends on a closed channel, which would panic.                     *)
NoSendOnClosed ==
  [][\A p \in Posters : \A s \in Subs :
       inside[p] = s /\ inside'[p] = s => postC'[s] = postC[s]]_vars

(* Once Unsubscribe has returned, the reader receives nothing more, even   *)
(* where a Post took its snapshot before, or Stop closed the channel.      *)
UnsubscribeIsFinal ==
  [][\A s \in Subs : sub[s] = "unsubscribed" => received'[s] = received[s]]_vars

(* Unsubscribe frees a Post that is blocked on a reader that does not read *)
(* (the case of TestUnsubscribeUnblockPost), and itself returns.           *)
UnsubscribeUnblocksPost ==
  \A s \in Subs :
    sub[s] = "deleted" ~> sub[s] = "unsubscribed" /\ \A p \in Posters : inside[p] # s

(* Stop returns whatever the readers and posters do, and every channel     *)
(* ever handed out is closed then, those of late Subscribes included.      *)
StopClosesAll ==
  \A s \in Subs :
    Locked ~> [](stop = "done" /\ (sub[s] \in {"live", "unsubscribed"} => ~postC[s]))

(* "Stop blocks until all current deliveries have finished": when it       *)
(* returns, no Post is in the select of deliver.                           *)
StopBlocks == stop = "done" => \A p \in Posters : inside[p] = Nobody
===========================================================================
