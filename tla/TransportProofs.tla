-------------------------- MODULE TransportProofs --------------------------
(***************************************************************************)
(* Proofs about Transport, for any nodes, messages and bounds.             *)
(***************************************************************************)
EXTENDS Transport, TLAPS

Packets == [src : Nodes, dst : Nodes, msg : Messages]

Types ==
  /\ knownMessages \in [Nodes -> SUBSET Messages]
  /\ recentMessages \in [Nodes -> [Nodes -> SUBSET Messages]]
  /\ forgotten \in [Nodes -> SUBSET Messages]
  /\ wire \subseteq Packets
  /\ posting \in [Nodes -> [Messages -> Nat]]
  /\ handled \in [Nodes -> [Messages -> Nat]]

(* What a node's core has taken or is about to take is known to the node,  *)
(* so HandleMsg turns every further copy away.                             *)
KnownOnce(n, m) ==
  sender[m] # n /\ m \notin forgotten[n] =>
    /\ handled[n][m] + posting[n][m] <= 1
    /\ handled[n][m] + posting[n][m] = 1 => m \in knownMessages[n]

Inv == Types /\ \A n \in Nodes, m \in Messages : KnownOnce(n, m)

LEMMA InitInv == Init => Inv
  BY DEF Init, Inv, Types, KnownOnce, Packets

LEMMA OneMore ==
  ASSUME NEW f \in [Nodes -> [Messages -> Nat]], NEW n \in Nodes, NEW m \in Messages
  PROVE  [f EXCEPT ![n][m] = @ + 1] \in [Nodes -> [Messages -> Nat]]
<1>1. [f[n] EXCEPT ![m] = f[n][m] + 1] \in [Messages -> Nat]
  OBVIOUS
<1> QED
  BY <1>1

(* The core's own messages: nothing changes that KnownOnce speaks of but   *)
(* the set of known messages, which grows.                                 *)
LEMMA SendToTypes ==
  ASSUME Types, NEW n \in Nodes, NEW m \in Messages, NEW P \in SUBSET Nodes, SendTo(n, P, m)
  PROVE  /\ knownMessages' \in [Nodes -> SUBSET Messages]
         /\ recentMessages' \in [Nodes -> [Nodes -> SUBSET Messages]]
         /\ wire' \subseteq Packets
         /\ \A k \in Nodes : knownMessages[k] \subseteq knownMessages'[k]
<1> DEFINE S == Unserved(n, P, m)
           R == [p \in Nodes |-> IF p \in S THEN recentMessages[n][p] \cup {m}
                                             ELSE recentMessages[n][p]]
<1>1. /\ knownMessages' = [knownMessages EXCEPT ![n] = @ \cup {m}]
      /\ recentMessages' = [recentMessages EXCEPT ![n] = R]
      /\ wire' = wire \cup {Packet(n, p, m) : p \in S}
  BY DEF SendTo
<1>2. S \subseteq Nodes
  BY DEF Unserved
<1>3. R \in [Nodes -> SUBSET Messages]
  BY DEF Types
<1>4. \A p \in Nodes : Packet(n, p, m) \in Packets
  BY DEF Packet, Packets
<1> HIDE DEF S, R
<1>5. recentMessages' \in [Nodes -> [Nodes -> SUBSET Messages]]
  BY <1>1, <1>3 DEF Types
<1>6. wire' \subseteq Packets
  BY <1>1, <1>2, <1>4 DEF Types
<1>7. /\ knownMessages' \in [Nodes -> SUBSET Messages]
      /\ \A k \in Nodes : knownMessages[k] \subseteq knownMessages'[k]
  BY <1>1 DEF Types
<1> QED
  BY <1>5, <1>6, <1>7

LEMMA SendInv ==
  ASSUME Inv, NEW n \in Nodes, NEW m \in Messages, Broadcast(n, m) \/ Unicast(n, m)
  PROVE  Inv'
<1>1. /\ sender[m] = n /\ UNCHANGED <<forgotten, handled>>
      /\ posting' = posting \/ posting' = [posting EXCEPT ![n][m] = @ + 1]
      /\ \E P \in SUBSET Nodes : SendTo(n, P, m)
  <2>1. CASE Broadcast(n, m)
    BY <2>1 DEF Broadcast, PostSelf
  <2>2. CASE Unicast(n, m)
    <3>1. target[m] # Everyone => target[m] \in Nodes
      BY TransportAssumption
    <3> QED
      BY <2>2, <3>1 DEF Unicast, PostSelf
  <2> QED
    BY <2>1, <2>2
<1>2. PICK P \in SUBSET Nodes : SendTo(n, P, m)
  BY <1>1
<1>3. /\ knownMessages' \in [Nodes -> SUBSET Messages]
      /\ recentMessages' \in [Nodes -> [Nodes -> SUBSET Messages]]
      /\ wire' \subseteq Packets
      /\ \A k \in Nodes : knownMessages[k] \subseteq knownMessages'[k]
  BY <1>2, SendToTypes DEF Inv
<1>4. posting' \in [Nodes -> [Messages -> Nat]]
  <2>1. posting \in [Nodes -> [Messages -> Nat]]
    BY DEF Inv, Types
  <2>2. [posting EXCEPT ![n][m] = @ + 1] \in [Nodes -> [Messages -> Nat]]
    BY <2>1, OneMore
  <2> QED
    BY <1>1, <2>1, <2>2
<1>5. Types'
  BY <1>1, <1>3, <1>4 DEF Inv, Types
<1>6. ASSUME NEW k \in Nodes, NEW x \in Messages, sender[x] # k
      PROVE  posting'[k][x] = posting[k][x]
  BY <1>1, <1>6 DEF Inv, Types
<1>7. ASSUME NEW k \in Nodes, NEW x \in Messages PROVE KnownOnce(k, x)'
  BY <1>1, <1>3, <1>6 DEF Inv, KnownOnce
<1> QED
  BY <1>5, <1>7 DEF Inv

LEMMA HandleMsgInv ==
  ASSUME Inv, NEW n \in Nodes, NEW e \in wire, HandleMsg(n, e) PROVE Inv'
<1> DEFINE m == e.msg
<1>1. m \in Messages /\ e.src \in Nodes
  BY DEF Inv, Types, Packets
<1>2. /\ wire' = wire \ {e} /\ UNCHANGED <<forgotten, handled>>
      /\ recentMessages' = [recentMessages EXCEPT ![n][e.src] = @ \cup {m}]
      /\ \/ m \in knownMessages[n] /\ UNCHANGED <<knownMessages, posting>>
         \/ /\ m \notin knownMessages[n]
            /\ knownMessages' = [knownMessages EXCEPT ![n] = @ \cup {m}]
            /\ posting' = [posting EXCEPT ![n][m] = @ + 1]
  BY DEF HandleMsg, PostSelf
<1> HIDE DEF m
<1>3. recentMessages' \in [Nodes -> [Nodes -> SUBSET Messages]]
  <2>1. recentMessages \in [Nodes -> [Nodes -> SUBSET Messages]]
    BY DEF Inv, Types
  <2>2. [recentMessages[n] EXCEPT ![e.src] = @ \cup {m}] \in [Nodes -> SUBSET Messages]
    BY <1>1, <2>1
  <2> QED
    BY <1>2, <2>1, <2>2
<1>4. knownMessages' \in [Nodes -> SUBSET Messages] /\ posting' \in [Nodes -> [Messages -> Nat]]
  <2>1. posting \in [Nodes -> [Messages -> Nat]]
    BY DEF Inv, Types
  <2>2. posting' \in [Nodes -> [Messages -> Nat]]
    <3>1. posting' = posting \/ posting' = [posting EXCEPT ![n][m] = @ + 1]
      BY <1>2
    <3>2. [posting EXCEPT ![n][m] = @ + 1] \in [Nodes -> [Messages -> Nat]]
      BY <1>1, <2>1, OneMore
    <3> QED
      BY <2>1, <3>1, <3>2
  <2>3. knownMessages' \in [Nodes -> SUBSET Messages]
    <3>1. knownMessages \in [Nodes -> SUBSET Messages]
      BY DEF Inv, Types
    <3>2. \/ knownMessages' = knownMessages
          \/ knownMessages' = [knownMessages EXCEPT ![n] = @ \cup {m}]
      BY <1>2
    <3> QED
      BY <1>1, <3>1, <3>2
  <2> QED
    BY <2>2, <2>3
<1>5. Types'
  BY <1>2, <1>3, <1>4 DEF Inv, Types
<1>6. ASSUME NEW k \in Nodes, NEW x \in Messages, ~(k = n /\ x = m)
      PROVE  posting'[k][x] = posting[k][x] /\ knownMessages[k] \subseteq knownMessages'[k]
  BY <1>1, <1>2, <1>6 DEF Inv, Types
<1>7. ASSUME NEW k \in Nodes, NEW x \in Messages PROVE KnownOnce(k, x)'
  <2>1. CASE k = n /\ x = m
    <3>1. CASE UNCHANGED <<knownMessages, posting>>
      BY <1>2, <2>1, <3>1 DEF Inv, KnownOnce
    <3>2. CASE /\ m \notin knownMessages[n]
               /\ knownMessages' = [knownMessages EXCEPT ![n] = @ \cup {m}]
               /\ posting' = [posting EXCEPT ![n][m] = @ + 1]
      <4>1. posting'[n][m] = posting[n][m] + 1 /\ m \in knownMessages'[n]
        BY <1>1, <3>2 DEF Inv, Types
      <4>2. handled[n][m] \in Nat /\ posting[n][m] \in Nat
        BY <1>1 DEF Inv, Types
      <4>3. KnownOnce(n, m)
        BY <1>1 DEF Inv
      <4> QED
        BY <1>2, <2>1, <3>2, <4>1, <4>2, <4>3 DEF KnownOnce
    <3> QED
      BY <1>2, <3>1, <3>2
  <2>2. CASE ~(k = n /\ x = m)
    BY <1>2, <1>6, <2>2 DEF Inv, KnownOnce
  <2> QED
    BY <2>1, <2>2
<1> QED
  BY <1>5, <1>7 DEF Inv

(* The goroutine's Post moves a message from posting to handled. *)
LEMMA PostInv == ASSUME Inv, NEW n \in Nodes, NEW m \in Messages, Post(n, m) PROVE Inv'
<1>1. /\ posting[n][m] > 0 /\ posting' = [posting EXCEPT ![n][m] = @ - 1]
      /\ handled' = handled \/ handled' = [handled EXCEPT ![n][m] = @ + 1]
      /\ UNCHANGED <<forgotten, knownMessages, recentMessages, wire>>
  BY DEF Post
<1>2. posting \in [Nodes -> [Messages -> Nat]] /\ handled \in [Nodes -> [Messages -> Nat]]
  BY DEF Inv, Types
<1>3. posting' \in [Nodes -> [Messages -> Nat]] /\ handled' \in [Nodes -> [Messages -> Nat]]
  BY <1>1, <1>2
<1>4. Types'
  BY <1>1, <1>3 DEF Inv, Types
<1>5. ASSUME NEW k \in Nodes, NEW x \in Messages PROVE KnownOnce(k, x)'
  <2>1. /\ handled'[k][x] + posting'[k][x] <= handled[k][x] + posting[k][x]
        /\ handled[k][x] + posting[k][x] \in Nat /\ handled'[k][x] + posting'[k][x] \in Nat
        /\ posting[k][x] = 0 => handled'[k][x] = handled[k][x] /\ posting'[k][x] = 0
    BY <1>1, <1>2, <1>3
  <2> QED
    BY <1>1, <2>1 DEF Inv, KnownOnce
<1> QED
  BY <1>4, <1>5 DEF Inv

(* A cache forgets, the wire loses, an engine stops or starts. *)
LEMMA OtherInv ==
  ASSUME Inv, NEW n \in Nodes,
         \/ \E m \in Messages : EvictKnown(n, m)
         \/ \E e \in wire : Lose(e)
         \/ \E p \in Nodes \ {n} : Evict(n, p)
         \/ Stop(n) \/ Start(n)
  PROVE  Inv'
<1>1. CASE \E m \in Messages : EvictKnown(n, m)
  <2>1. PICK m \in Messages :
          /\ knownMessages' = [knownMessages EXCEPT ![n] = @ \ {m}]
          /\ forgotten' = [forgotten EXCEPT ![n] = @ \cup {m}]
          /\ UNCHANGED <<recentMessages, wire, posting, handled>>
    BY <1>1 DEF EvictKnown
  <2>2. Types'
    BY <2>1 DEF Inv, Types
  <2>3. ASSUME NEW k \in Nodes, NEW x \in Messages PROVE KnownOnce(k, x)'
    <3>1. x \in forgotten[k] => x \in forgotten'[k]
      BY <2>1 DEF Inv, Types
    <3>2. x \notin forgotten'[k] => (x \in knownMessages[k] => x \in knownMessages'[k])
      BY <2>1 DEF Inv, Types
    <3> QED
      BY <2>1, <3>1, <3>2 DEF Inv, KnownOnce
  <2> QED
    BY <2>2, <2>3 DEF Inv
<1>2. CASE ~\E m \in Messages : EvictKnown(n, m)
  <2>1. UNCHANGED <<knownMessages, forgotten, posting, handled>> /\ wire' \subseteq wire
    BY <1>2 DEF Lose, Evict, Stop, Start
  <2>2. recentMessages' \in [Nodes -> [Nodes -> SUBSET Messages]]
    <3>1. recentMessages \in [Nodes -> [Nodes -> SUBSET Messages]]
      BY DEF Inv, Types
    <3>2. ASSUME NEW p \in Nodes, Evict(n, p)
          PROVE  recentMessages' \in [Nodes -> [Nodes -> SUBSET Messages]]
      BY <3>1, <3>2 DEF Evict
    <3>3. (\E e \in wire : Lose(e)) \/ Stop(n) \/ Start(n) => UNCHANGED recentMessages
      BY DEF Lose, Stop, Start
    <3> QED
      BY <1>2, <3>1, <3>2, <3>3
  <2>3. Types'
    BY <2>1, <2>2 DEF Inv, Types
  <2>4. ASSUME NEW k \in Nodes, NEW x \in Messages PROVE KnownOnce(k, x)'
    BY <2>1 DEF Inv, KnownOnce
  <2> QED
    BY <2>3, <2>4 DEF Inv
<1> QED
  BY <1>1, <1>2

(* The core of a node takes a message of another node at most once while   *)
(* the node remembers it, for every number of nodes, messages, resends and *)
(* stops of the engine.                                                    *)
THEOREM TakenOnce == Spec => []HandledOnce
<1>1. Inv => HandledOnce
  BY DEF Inv, KnownOnce, HandledOnce
<1>2. Inv /\ [Next]_vars => Inv'
  <2> SUFFICES ASSUME Inv, [Next]_vars PROVE Inv'
    OBVIOUS
  <2>1. CASE Next
    BY <2>1, SendInv, HandleMsgInv, PostInv, OtherInv DEF Next
  <2>2. CASE UNCHANGED vars
    <3>1. Types'
      BY <2>2 DEF vars, Inv, Types
    <3>2. ASSUME NEW k \in Nodes, NEW x \in Messages PROVE KnownOnce(k, x)'
      BY <2>2 DEF vars, Inv, KnownOnce
    <3> QED
      BY <3>1, <3>2 DEF Inv
  <2> QED
    BY <2>1, <2>2
<1> QED
  BY <1>1, <1>2, InitInv, PTL DEF Spec
=============================================================================
