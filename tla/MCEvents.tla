----------------------------- MODULE MCEvents -----------------------------
(***************************************************************************)
(* The two ways in which events are distributed, TypeMux and Feed, in one  *)
(* instance.  They share no state: a behaviour is one of the multiplexer,  *)
(* with two subscriptions, or one of a feed, with three channels, so that  *)
(* one can be removed before and behind another.                           *)
(***************************************************************************)
EXTENDS TypeMux

CONSTANTS Channels, Senders, Capacity, MaxSends

ASSUME FeedAssumption == Nobody \notin Senders

VARIABLES
  component,   \* "mux" or "feed"
  sendLock, sendCases, cases, index, inbox, send, sends, sent, subscription,
  buffer, got

feedVars == <<sendLock, sendCases, cases, index, inbox, send, sends, sent,
              subscription, buffer, got>>

F == INSTANCE Feed WITH sub <- subscription

MCInit == component \in {"mux", "feed"} /\ Init /\ F!Init

MCNext ==
  \/ component = "mux" /\ Next /\ UNCHANGED <<component, feedVars>>
  \/ component = "feed" /\ F!Next /\ UNCHANGED <<component, vars>>

MCSpec == MCInit /\ [][MCNext]_<<component, vars, feedVars>> /\ Fairness /\ F!Fairness

---------------------------------------------------------------------------
(* A feed sends every channel every value once, in the order of the Sends  *)
(* (Feed!DeliveredOnce).                                                   *)
DeliveredOnce == F!DeliveredOnce

(* A feed sends nothing on a channel once Unsubscribe has returned, even   *)
(* when it was deleted in the middle of a Send (Feed!UnsubscribeIsFinal).  *)
FeedUnsubscribeIsFinal == F!UnsubscribeIsFinal

(* Unsubscribe from a feed returns though no subscriber reads and a Send   *)
(* is blocked (Feed!UnsubscribeReturns).                                   *)
UnsubscribeReturns == F!UnsubscribeReturns

(* Send returns if the subscribers keep reading (Feed!SendReturns). *)
SendReturns == F!SendReturns
===========================================================================
