----------------------------- MODULE MCRaftApply -----------------------------
(* A log of four entries with two other nodes, and up to two crashes.      *)
EXTENDS RaftApply
===========================================================================
