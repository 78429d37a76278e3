----------------------------- MODULE MCBacklog -----------------------------
(* Three heights.  The peer's messages sit on the boundaries of the        *)
(* priority: the next round, the last and the first message type of two    *)
(* consecutive heights, and a message two heights ahead.                   *)
EXTENDS Backlog

CONSTANT LastRound  \* the round in which the peer leaves height 1

Msg(h, r, c) == [view |-> [height |-> h, round |-> r], code |-> c]

MCMessages ==
  {Msg(1, 1, "Decide"), Msg(1, LastRound, "Prepare"), Msg(1, LastRound, "Decide"),
   Msg(2, 0, "NewView"), Msg(3, 0, "NewView")}
=============================================================================
