----------------------------- MODULE Transport -----------------------------
(***************************************************************************)
(* How a consensus message gets from one core to the others                *)
(* (consensus/hotstuff/backend): Broadcast and Unicast, the two caches of  *)
(* message hashes that suppress what was sent or seen before, HandleMsg,   *)
(* and the goroutine that posts the message to the event loop.             *)
(*                                                                         *)
(* A message is its payload: the core that sends it again produces the     *)
(* same bytes, and the caches the same hash.                               *)
(***************************************************************************)
EXTENDS Naturals

CONSTANTS
  Nodes,
  Messages,
  sender,     \* the node whose core sends a message
  target,     \* the node a message is for, or Everyone
  Everyone,
  MaxSends,   \* bound: how often the core sends each message
  MaxStops    \* bound: how often the engines are stopped, all together

ASSUME TransportAssumption ==
  /\ Everyone \notin Nodes
  /\ sender \in [Messages -> Nodes]
  /\ target \in [Messages -> Nodes \cup {Everyone}]
  /\ MaxSends \in [Messages -> Nat] /\ MaxStops \in Nat

VARIABLES
  started,         \* Backend.coreStarted
  knownMessages,   \* Backend.knownMessages
  forgotten,       \* what was evicted from it
  recentMessages,  \* Backend.recentMessages, per peer
  wire,            \* messages a peer connection carries
  posting,         \* how many goroutines are posting a message to a node's core
  handled,         \* how often the core of a node has taken a message
  sends, stops     \* counters for the bounds

vars == <<started, knownMessages, forgotten, recentMessages, wire, posting, handled, sends, stops>>

Packet(n, p, m) == [src |-> n, dst |-> p, msg |-> m]

(* The peers of n, of those in P, that are sent m: the ones it has not     *)
(* sent it to and not got it from.                                         *)
Unserved(n, P, m) == {p \in P : m \notin recentMessages[n][p]}

(* Gossip, and the part of Unicast that sends to another peer. *)
SendTo(n, P, m) ==
  LET S == Unserved(n, P, m)
  IN  /\ knownMessages' = [knownMessages EXCEPT ![n] = @ \cup {m}]
      /\ recentMessages' = [recentMessages EXCEPT ![n] =
           [p \in Nodes |-> IF p \in S THEN @[p] \cup {m} ELSE @[p]]]
      /\ wire' = wire \cup {Packet(n, p, m) : p \in S}

PostSelf(n, m) == posting' = [posting EXCEPT ![n][m] = @ + 1]

(* P is what FindPeers or FindPeer finds: some of the targets may not be   *)
(* connected.                                                              *)
Broadcast(n, m) ==
  /\ sender[m] = n /\ target[m] = Everyone /\ started[n]
  /\ sends[m] < MaxSends[m]
  /\ sends' = [sends EXCEPT ![m] = @ + 1]
  /\ \E P \in SUBSET (Nodes \ {n}) : SendTo(n, P, m)
  /\ PostSelf(n, m)
  /\ UNCHANGED <<forgotten, started, handled, stops>>

Unicast(n, m) ==
  /\ sender[m] = n /\ target[m] # Everyone /\ started[n]
  /\ sends[m] < MaxSends[m]
  /\ sends' = [sends EXCEPT ![m] = @ + 1]
  /\ \/ target[m] = n /\ SendTo(n, {}, m) /\ PostSelf(n, m)
     \/ /\ target[m] # n
        /\ \E P \in SUBSET {target[m]} : SendTo(n, P, m)
        /\ UNCHANGED posting
  /\ UNCHANGED <<forgotten, started, handled, stops>>

(* HandleMsg with the engine running. *)
HandleUnchecked(n, e) ==
  /\ e \in wire /\ e.dst = n /\ started[n]
  /\ wire' = wire \ {e}
  /\ recentMessages' = [recentMessages EXCEPT ![n][e.src] = @ \cup {e.msg}]
  /\ PostSelf(n, e.msg)
  /\ UNCHANGED <<forgotten, started, knownMessages, handled, sends, stops>>
HandleMarkFirst(n, e) ==
  /\ e \in wire /\ e.dst = n /\ started[n]
  /\ wire' = wire \ {e}
  /\ recentMessages' = [recentMessages EXCEPT ![n][e.src] = @ \cup {e.msg}]
  /\ knownMessages' = [knownMessages EXCEPT ![n] = @ \cup {e.msg}]
  /\ IF e.msg \in knownMessages'[n] THEN UNCHANGED posting ELSE PostSelf(n, e.msg)
  /\ UNCHANGED <<forgotten, started, handled, sends, stops>>
HandleMsg(n, e) ==
  /\ e \in wire /\ e.dst = n /\ started[n]
  /\ wire' = wire \ {e}
  /\ recentMessages' = [recentMessages EXCEPT ![n][e.src] = @ \cup {e.msg}]
  /\ IF e.msg \in knownMessages[n] THEN UNCHANGED <<knownMessages, posting>>
     ELSE /\ knownMessages' = [knownMessages EXCEPT ![n] = @ \cup {e.msg}]
          /\ PostSelf(n, e.msg)
  /\ UNCHANGED <<forgotten, started, handled, sends, stops>>

(* A connection breaks, or the peer's engine is stopped and HandleMsg      *)
(* returns an error: the message is gone.                                  *)
Lose(e) ==
  /\ e \in wire
  /\ wire' = wire \ {e}
  /\ UNCHANGED <<forgotten, started, knownMessages, recentMessages, posting, handled, sends, stops>>

(* The goroutine's Post reaches the event loop, if one is subscribed. *)
Post(n, m) ==
  /\ posting[n][m] > 0
  /\ posting' = [posting EXCEPT ![n][m] = @ - 1]
  /\ handled' = IF started[n] THEN [handled EXCEPT ![n][m] = @ + 1] ELSE handled
  /\ UNCHANGED <<forgotten, started, knownMessages, recentMessages, wire, sends, stops>>

(* recentMessages is an ARC cache of peers, each an ARC cache of hashes,   *)
(* and knownMessages one of hashes, all of limited size: what they hold    *)
(* may be evicted.                                                         *)
Evict(n, p) ==
  /\ recentMessages[n][p] # {}
  /\ recentMessages' = [recentMessages EXCEPT ![n][p] = {}]
  /\ UNCHANGED <<forgotten, started, knownMessages, wire, posting, handled, sends, stops>>

EvictKnown(n, m) ==
  /\ m \in knownMessages[n]
  /\ \A k \in Nodes : forgotten[k] = {}    \* bound: one such eviction
  /\ knownMessages' = [knownMessages EXCEPT ![n] = @ \ {m}]
  /\ forgotten' = [forgotten EXCEPT ![n] = @ \cup {m}]
  /\ UNCHANGED <<started, recentMessages, wire, posting, handled, sends, stops>>

(* Backend.Stop and Backend.Start keep the caches. *)
Stop(n) ==
  /\ started[n] /\ stops < MaxStops
  /\ started' = [started EXCEPT ![n] = FALSE]
  /\ stops' = stops + 1
  /\ UNCHANGED <<forgotten, knownMessages, recentMessages, wire, posting, handled, sends>>

Start(n) ==
  /\ ~started[n]
  /\ started' = [started EXCEPT ![n] = TRUE]
  /\ UNCHANGED <<forgotten, knownMessages, recentMessages, wire, posting, handled, sends, stops>>

---------------------------------------------------------------------------
Init ==
  /\ started = [n \in Nodes |-> TRUE]
  /\ knownMessages = [n \in Nodes |-> {}]
  /\ forgotten = [n \in Nodes |-> {}]
  /\ recentMessages = [n \in Nodes |-> [p \in Nodes |-> {}]]
  /\ wire = {}
  /\ posting = [n \in Nodes |-> [m \in Messages |-> 0]]
  /\ handled = [n \in Nodes |-> [m \in Messages |-> 0]]
  /\ sends = [m \in Messages |-> 0]
  /\ stops = 0

Next ==
  \E n \in Nodes :
    \/ \E m \in Messages : Broadcast(n, m) \/ Unicast(n, m) \/ Post(n, m) \/ EvictKnown(n, m)
    \/ \E e \in wire : HandleMsg(n, e) \/ Lose(e)
    \/ \E p \in Nodes \ {n} : Evict(n, p)
    \/ Stop(n) \/ Start(n)

(* A connection that does not break delivers, and goroutines run. *)
Fairness ==
  \A n \in Nodes :
    /\ \A m \in Messages : WF_vars(Post(n, m))
    /\ WF_vars(\E e \in wire : HandleMsg(n, e))

Spec == Init /\ [][Next]_vars /\ Fairness

---------------------------------------------------------------------------
(* The core of a node takes a message of another node at most once, even   *)
(* when it is sent again to a peer whose record was evicted, as long as    *)
(* the node itself has not forgotten the message.                          *)
HandledOnce ==
  \A n \in Nodes, m \in Messages :
    sender[m] # n /\ m \notin forgotten[n] => handled[n][m] + posting[n][m] <= 1

(* A message that a node has recorded as known, and so would never accept  *)
(* again, is taken by its core, unless an engine was stopped meanwhile.    *)
KnownIsHandled ==
  \A n \in Nodes, m \in Messages :
    sender[m] # n /\ m \in knownMessages[n] ~> (handled[n][m] > 0 \/ stops > 0)

(* Gossip skips a peer with the comment "This peer had this event". *)
SkippedPeerHadIt ==
  \A n \in Nodes : \A p \in Nodes \ {n} : \A m \in recentMessages[n][p] :
    m \in knownMessages[p] \/ Packet(n, p, m) \in wire
===========================================================================
