------------------------------ MODULE Ledger ------------------------------
(***************************************************************************)
(* What the consensus core promises: one chain of decided blocks, without  *)
(* forks or gaps, and local chains that follow it block by block.          *)
(***************************************************************************)
EXTENDS Naturals

CONSTANTS Nodes, Blocks, Genesis, number, parentHash

VARIABLES
  decided,  \* the blocks decided so far
  head      \* the head of each node's chain

Init ==
  /\ decided = {Genesis}
  /\ head = [n \in Nodes |-> Genesis]

(* A new block on top of the decided chain, at a height not decided yet. *)
Decide(b) ==
  /\ parentHash[b] \in decided
  /\ number[b] = number[parentHash[b]] + 1
  /\ \A c \in decided : number[c] # number[b]
  /\ decided' = decided \cup {b}
  /\ UNCHANGED head

(* A node appends the decided block that follows its head. *)
Adopt(n, b) ==
  /\ b \in decided
  /\ b # Genesis
  /\ parentHash[b] = head[n]
  /\ head' = [head EXCEPT ![n] = b]
  /\ UNCHANGED decided

Next ==
  \/ \E b \in Blocks : Decide(b)
  \/ \E n \in Nodes, b \in Blocks : Adopt(n, b)

Spec == Init /\ [][Next]_<<decided, head>>
===========================================================================
