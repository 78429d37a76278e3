-------------------------------- MODULE Feed --------------------------------
(***************************************************************************)
(* event/feed.go: one-to-many delivery over buffered channels, on which    *)
(* the blockchain announces new heads to the miner, the transaction pool   *)
(* and the consensus engine.  A Send moves each case it has served out of  *)
(* a prefix of the slice sendCases, and an Unsubscribe deletes from that   *)
(* slice, in the middle of a Send or between two.                          *)
(*                                                                         *)
(* Every subscription has a channel of its own.  The case for removeSub at *)
(* index 0 of sendCases is left out, so the indices are those of the code. *)
(***************************************************************************)
EXTENDS Naturals, Sequences, Functions

CONSTANTS
  Channels,   \* the subscribed channels
  Senders,    \* the goroutines that call Send
  Capacity,   \* the buffer of every channel
  MaxSends,   \* how often each sender sends (a bound)
  Nobody      \* not a sender

VARIABLES
  sendLock,   \* the sender that holds the send lock, or Nobody
  sendCases,  \* the slice of subscribed channels
  cases,      \* the length of its active prefix, during a Send
  index,      \* the index i of Send's fast path
  inbox,      \* channels subscribed since the last Send began
  send,       \* where each sender is: "idle", "waiting", "locked", "try",
              \*   "select"
  sends,      \* how many Sends each sender has made
  sub,        \* each subscription: "none", "active", "removing", "ended"
  buffer,     \* how many values each channel holds
  sent,       \* the number of values sent so far: the k-th Send that got
              \*   the lock sends value k
  got         \* the values that went into each channel, in order

sendVars == <<sendLock, cases, index, send, sends, sent>>
chanVars == <<buffer, got>>
vars == <<sendVars, sendCases, inbox, sub, chanVars>>

---------------------------------------------------------------------------
(* The methods of caseList; a channel is in a list at most once. *)
Deactivate(s, n, i) == [s EXCEPT ![i] = s[n], ![n] = s[i]]
Find(s, c) == CHOOSE i \in DOMAIN s : s[i] = c
DeleteNothing(s, i) == s
Delete(s, i) == SubSeq(s, 1, i - 1) \o SubSeq(s, i + 1, Len(s))

Subscribe(c) ==
  /\ sub[c] = "none"
  /\ sub' = [sub EXCEPT ![c] = "active"]
  /\ inbox' = Append(inbox, c)
  /\ UNCHANGED <<sendVars, sendCases, chanVars>>

(* Unsubscribe, remove: a channel still in the inbox is deleted there. *)
Unsubscribe(c) ==
  /\ sub[c] = "active"
  /\ IF c \in Range(inbox)
     THEN /\ inbox' = Delete(inbox, Find(inbox, c))
          /\ sub' = [sub EXCEPT ![c] = "ended"]
     ELSE /\ sub' = [sub EXCEPT ![c] = "removing"]
          /\ UNCHANGED inbox
  /\ UNCHANGED <<sendVars, sendCases, chanVars>>

(* case <-f.sendLock of remove: no Send is in progress. *)
RemoveLocked(c) ==
  /\ sub[c] = "removing" /\ sendLock = Nobody
  /\ sendCases' = Delete(sendCases, Find(sendCases, c))
  /\ sub' = [sub EXCEPT ![c] = "ended"]
  /\ UNCHANGED <<sendVars, inbox, chanVars>>

---------------------------------------------------------------------------
Send(s) ==
  /\ send[s] = "idle" /\ sends[s] < MaxSends
  /\ send' = [send EXCEPT ![s] = "waiting"]
  /\ sends' = [sends EXCEPT ![s] = @ + 1]
  /\ UNCHANGED <<sendLock, cases, index, sent, sendCases, inbox, sub, chanVars>>

TakeSendLock(s) ==
  /\ send[s] = "waiting" /\ sendLock = Nobody
  /\ sendLock' = s
  /\ send' = [send EXCEPT ![s] = "locked"]
  /\ UNCHANGED <<cases, index, sends, sent, sendCases, inbox, sub, chanVars>>

(* The inbox joins sendCases, and the value is set on all the cases. *)
AddInbox(s) ==
  /\ send[s] = "locked"
  /\ sendCases' = sendCases \o inbox
  /\ inbox' = <<>>
  /\ cases' = Len(sendCases')
  /\ index' = 1
  /\ sent' = sent + 1
  /\ send' = [send EXCEPT ![s] = "try"]
  /\ UNCHANGED <<sendLock, sends, sub, chanVars>>

(* The value goes into the buffer of the i-th active case, which leaves    *)
(* the active prefix.                                                      *)
SendOn(i) ==
  LET c == sendCases[i]
  IN  /\ buffer[c] < Capacity
      /\ buffer' = [buffer EXCEPT ![c] = @ + 1]
      /\ got' = [got EXCEPT ![c] = Append(@, sent)]
      /\ sendCases' = Deactivate(sendCases, cases, i)
      /\ cases' = cases - 1

(* The fast path tries one active case after the other. *)
TrySend(s) ==
  /\ send[s] = "try" /\ index <= cases
  /\ \/ SendOn(index) /\ UNCHANGED index
     \/ /\ buffer[sendCases[index]] = Capacity
        /\ index' = index + 1
        /\ UNCHANGED <<buffer, got, sendCases, cases>>
  /\ UNCHANGED <<sendLock, send, sends, sent, inbox, sub>>

TriedKeepLock(s) ==
  /\ send[s] = "try" /\ index > cases
  /\ send' = [send EXCEPT ![s] = IF cases = 0 THEN "idle" ELSE "select"]
  /\ UNCHANGED <<sendLock, cases, index, sends, sent, sendCases, inbox, sub, chanVars>>
Tried(s) ==
  /\ send[s] = "try" /\ index > cases
  /\ IF cases = 0
     THEN /\ sendLock' = Nobody
          /\ send' = [send EXCEPT ![s] = "idle"]
     ELSE /\ send' = [send EXCEPT ![s] = "select"]
          /\ UNCHANGED sendLock
  /\ UNCHANGED <<cases, index, sends, sent, sendCases, inbox, sub, chanVars>>

(* reflect.Select: a channel has room again ... *)
SelectSend(s) ==
  /\ send[s] = "select"
  /\ \E i \in 1 .. cases : SendOn(i)
  /\ send' = [send EXCEPT ![s] = "try"]
  /\ index' = 1
  /\ UNCHANGED <<sendLock, sends, sent, inbox, sub>>

(* ... or remove hands over a channel; the prefix shrinks if the channel   *)
(* was still active.                                                       *)
ShrinkAlways(c) == cases - 1
Shrunk(c) == IF \E i \in 1 .. cases : sendCases[i] = c THEN cases - 1 ELSE cases

SelectNoRemove(s) == FALSE /\ UNCHANGED vars
SelectRemove(s) ==
  /\ send[s] = "select"
  /\ \E c \in Channels :
       /\ sub[c] = "removing"
       /\ sendCases' = Delete(sendCases, Find(sendCases, c))
       /\ cases' = Shrunk(c)
       /\ sub' = [sub EXCEPT ![c] = "ended"]
  /\ send' = [send EXCEPT ![s] = "try"]
  /\ index' = 1
  /\ UNCHANGED <<sendLock, sends, sent, inbox, chanVars>>

(* The subscriber reads its channel, also after it has unsubscribed. *)
Receive(c) ==
  /\ buffer[c] > 0
  /\ buffer' = [buffer EXCEPT ![c] = @ - 1]
  /\ UNCHANGED <<sendVars, sendCases, inbox, sub, got>>

---------------------------------------------------------------------------
Init ==
  /\ sendLock = Nobody /\ sendCases = <<>> /\ cases = 0 /\ index = 1
  /\ inbox = <<>> /\ sent = 0
  /\ send = [s \in Senders |-> "idle"]
  /\ sends = [s \in Senders |-> 0]
  /\ sub = [c \in Channels |-> "none"]
  /\ buffer = [c \in Channels |-> 0]
  /\ got = [c \in Channels |-> <<>>]

Next ==
  \/ \E c \in Channels :
       Subscribe(c) \/ Unsubscribe(c) \/ RemoveLocked(c) \/ Receive(c)
  \/ \E s \in Senders :
       \/ Send(s) \/ TakeSendLock(s) \/ AddInbox(s) \/ TrySend(s) \/ Tried(s)
       \/ SelectSend(s) \/ SelectRemove(s)

(* Goroutines run, and a select whose case stays ready is served.  No one  *)
(* has to call an operation, and no subscriber has to read.                *)
Fairness ==
  /\ \A c \in Channels : WF_vars(RemoveLocked(c))
  /\ \A s \in Senders :
       /\ WF_vars(TakeSendLock(s)) /\ WF_vars(AddInbox(s)) /\ WF_vars(TrySend(s))
       /\ WF_vars(Tried(s)) /\ WF_vars(SelectSend(s) \/ SelectRemove(s))

Spec == Init /\ [][Next]_vars /\ Fairness

---------------------------------------------------------------------------
(* Properties                                                              *)

Sending == sendLock # Nobody /\ send[sendLock] \in {"try", "select"}
Active == IF Sending THEN cases ELSE 0

(* "Future sends will be delivered on the channel until the subscription   *)
(* is canceled": every channel is sent every value once, in the order of   *)
(* the Sends, from its first one on; whoever is out of the active prefix   *)
(* has the current value, and at the end of a Send that is everyone.       *)
DeliveredOnce ==
  /\ \A c \in Channels : \A k \in 1 .. Len(got[c]) - 1 : got[c][k + 1] = got[c][k] + 1
  /\ \A i \in 1 .. Len(sendCases) :
       LET g == got[sendCases[i]]
       IN  IF i > Active THEN g # <<>> /\ g[Len(g)] = sent
                         ELSE g = <<>> \/ g[Len(g)] = sent - 1

(* Nothing is sent on a channel after Unsubscribe has returned, even when  *)
(* it was deleted in the middle of a Send.                                 *)
UnsubscribeIsFinal ==
  [][\A c \in Channels : sub[c] = "ended" => got'[c] = got[c]]_vars

(* Unsubscribe returns though no subscriber reads and a Send is blocked    *)
(* (the case of TestFeedUnsubscribeBlockedPost).                           *)
UnsubscribeReturns ==
  \A c \in Channels : sub[c] = "removing" ~> sub[c] = "ended"

(* Send returns if the subscribers keep reading. *)
SendReturns ==
  (\A c \in Channels : WF_vars(Receive(c))) =>
    \A s \in Senders : send[s] = "waiting" ~> send[s] = "idle"
=============================================================================
