-------------------------- MODULE RaftApplyProofs --------------------------
(***************************************************************************)
(* Proofs about RaftApply, for any raft ids, logs, snapshot periods and    *)
(* crashes.                                                                *)
(***************************************************************************)
EXTENDS RaftApply, FiniteSetTheorems, SequenceTheorems, TLAPS

Entries == [type : {"block"}, parent : Nat] \cup [type : {"add", "remove"}, id : Ids]
States == [index : Nat, head : Nat, conf : SUBSET Ids, addresses : SUBSET Ids,
           removed : SUBSET Ids]
BlockIds == {0} \cup {b \in 1 .. Len(log) : log[b].type = "block"}

(* after is what the entries make of the chain and the cluster, one after  *)
(* the other.                                                              *)
LogOK ==
  /\ log \in Seq(Entries)
  /\ \A b \in 1 .. Len(log) : b \in BlockIds => log[b].parent \in 0 .. b - 1
  /\ \A i \in 0 .. Len(log) : after[i] \in States
  /\ \A i \in 1 .. Len(log) : after[i] = AfterEntry(after[i - 1], log[i], i)

(* Members of the cluster have an address or were removed, and a removed   *)
(* one is never taken back.                                                *)
RemovedForGood ==
  /\ \A i \in 0 .. Len(log) :
       /\ after[i].addresses \subseteq after[i].conf
       /\ after[i].addresses \cap after[i].removed = {}
  /\ \A i, j \in 0 .. Len(log) : i <= j =>
       /\ after[i].removed \subseteq after[j].removed
       /\ after[i].conf \subseteq after[j].conf \cup after[j].removed
       /\ after[i].addresses \subseteq after[j].addresses \cup after[j].removed

(* The blocks that the log orders are on one chain. *)
ChainsOK ==
  \A b \in BlockIds :
    /\ b \in Chain(b) /\ Chain(b) \subseteq BlockIds \cap 0 .. b
    /\ \A x \in Chain(b) : Chain(x) \subseteq Chain(b)

HeadsOK ==
  /\ \A i \in 0 .. Len(log) : after[i].head \in BlockIds \cap 0 .. i
  /\ \A i, j \in 0 .. Len(log) : i <= j =>
       /\ Chain(after[i].head) \subseteq Chain(after[j].head)
       /\ after[j].head <= i => after[j].head = after[i].head

Along(h, k) == \E i \in k .. Len(log) : h = after[i].head

(* The snapshot is of the log, and no entry that was applied since has     *)
(* changed the members: those force a snapshot.                            *)
Stable(k) ==
  \A i \in snapshot.index .. k :
    after[i].addresses = snapshot.addresses /\ after[i].removed = snapshot.removed

SnapshotOK ==
  /\ snapshot.index \in 0 .. Len(log)
  /\ snapshot.conf = snapshot.addresses
  /\ Stable(snapshot.index) /\ Stable(appliedIndex)
  /\ archive => Along(snapshot.head, snapshot.index)

(* An archive database holds the chain of its head, and its state. *)
ArchiveOK ==
  archive => /\ stored = Chain(currentBlock) /\ stored \subseteq flushed
             /\ Along(currentBlock, appliedIndex)

(* The node is where the first k entries have brought it.  Of the          *)
(* ConfState a restart keeps only what the snapshot has.                   *)
At(k) ==
  /\ peers = after[k].addresses /\ removedPeers = after[k].removed
  /\ peers \subseteq confState /\ confState \subseteq peers \cup removedPeers
  /\ archive => Along(currentBlock, k)

Later == next \in appliedIndex + 1 .. Len(log)
Applied == Later /\ At(next)
Installing == Later /\ At(appliedIndex) /\ snapshot.index = next

(* Where the event loop is in its step. *)
StepOK ==
  \/ todo = <<>> /\ At(appliedIndex)
  \/ todo = <<"snapshot", "wal", "advance">> /\ Applied
  \/ todo = <<"wal", "advance">> /\ Applied /\ snapshot.index = next
  \/ todo = <<"advance">> /\ Applied /\ Stable(next)
  \/ todo = <<"snapshot", "wal">> /\ next = appliedIndex /\ At(appliedIndex)
  \/ todo = <<"wal">> /\ At(appliedIndex)
  \/ todo = <<"wal", "apply", "advance">> /\ Installing
  \/ todo = <<"apply", "advance">> /\ Installing

Inv ==
  /\ LogOK /\ RemovedForGood /\ ChainsOK /\ HeadsOK
  /\ appliedIndex \in 0 .. Len(log) /\ savedIndex = appliedIndex /\ hardCommit \in Nat
  /\ up \in BOOLEAN /\ archive \in BOOLEAN
  /\ SnapshotOK /\ ArchiveOK
  /\ IF up THEN StepOK ELSE todo = <<>>

---------------------------------------------------------------------------
(* The log *)

(* s comes out of a with entry e at place i. *)
Follows(s, a, e, i) ==
  /\ s \in States /\ s.index = i
  /\ e.type \in {"block", "add", "remove"}
  /\ e.type = "block" =>
       /\ s.head = IF e.parent = a.head THEN i ELSE a.head
       /\ s.conf = a.conf /\ s.addresses = a.addresses /\ s.removed = a.removed
  /\ e.type = "add" =>
       /\ s.head = a.head /\ s.conf = a.conf \cup {e.id} /\ s.removed = a.removed
       /\ s.addresses = IF e.id \in a.removed THEN a.addresses ELSE a.addresses \cup {e.id}
  /\ e.type = "remove" =>
       /\ s.head = a.head /\ s.conf = a.conf \ {e.id}
       /\ s.addresses = a.addresses \ {e.id} /\ s.removed = a.removed \cup {e.id}

LEMMA EntryState ==
  ASSUME NEW a \in States, NEW e \in Entries, NEW i \in Nat
  PROVE  Follows(AfterEntry(a, e, i), a, e, i)
<1> DEFINE s == AfterEntry(a, e, i)
<1> SUFFICES Follows(s, a, e, i)
  OBVIOUS
<1>1. CASE e.type = "block"
  <2>1. e.parent \in Nat
    BY <1>1 DEF Entries
  <2>2. s = [a EXCEPT !.index = i, !.head = IF e.parent = a.head THEN i ELSE a.head]
    BY <1>1 DEF AfterEntry, States
  <2>3. s = [index |-> i, head |-> IF e.parent = a.head THEN i ELSE a.head, conf |-> a.conf,
             addresses |-> a.addresses, removed |-> a.removed]
    BY <2>2 DEF States
  <2> HIDE DEF s
  <2> QED
    BY <1>1, <2>1, <2>3 DEF States, Follows
<1>2. CASE e.type = "add"
  <2>1. e.id \in Ids
    BY <1>2 DEF Entries
  <2> DEFINE addresses == IF e.id \in a.removed THEN a.addresses ELSE a.addresses \cup {e.id}
  <2>2. s = [a EXCEPT !.index = i, !.conf = a.conf \cup {e.id}, !.addresses = addresses]
    BY <1>2 DEF AfterEntry, States
  <2>3. addresses \in SUBSET Ids /\ a.conf \cup {e.id} \in SUBSET Ids
    BY <2>1 DEF States
  <2> HIDE DEF addresses
  <2>4. s = [index |-> i, head |-> a.head, conf |-> a.conf \cup {e.id},
             addresses |-> addresses, removed |-> a.removed]
    BY <2>2 DEF States
  <2>5. s \in States
    BY <2>3, <2>4 DEF States
  <2> HIDE DEF s
  <2> QED
    BY <1>2, <2>4, <2>5 DEF addresses, Follows
<1>3. CASE e.type = "remove"
  <2>1. e.id \in Ids
    BY <1>3 DEF Entries
  <2>2. s = [a EXCEPT !.index = i, !.conf = a.conf \ {e.id},
                      !.addresses = a.addresses \ {e.id},
                      !.removed = a.removed \cup {e.id}]
    BY <1>3 DEF AfterEntry, States
  <2>3. s = [index |-> i, head |-> a.head, conf |-> a.conf \ {e.id},
             addresses |-> a.addresses \ {e.id}, removed |-> a.removed \cup {e.id}]
    BY <2>2 DEF States
  <2>4. s \in States
    BY <2>1, <2>3 DEF States
  <2> HIDE DEF s
  <2> QED
    BY <1>3, <2>3, <2>4 DEF Follows
<1> QED
  BY <1>1, <1>2, <1>3 DEF Entries

(* What Commit does to the log, for the place that it fills. *)
Grows(e, n) ==
  /\ n = Len(log) + 1 /\ Len(log) \in Nat /\ Len(log') = n
  /\ log' \in Seq(Entries) /\ e \in Entries
  /\ \A i \in 1 .. Len(log) : log'[i] = log[i]
  /\ log'[n] = e
  /\ e.type = "block" => e.parent \in BlockIds
  /\ \A i \in 0 .. Len(log) : after'[i] = after[i] /\ ancestors'[i] = ancestors[i]
  /\ after'[n] = AfterEntry(after[Len(log)], e, n)
  /\ e.type = "block" => ancestors'[n] = {n} \cup Chain(e.parent)

LEMMA CommitGrows ==
  ASSUME LogOK, Commit PROVE \E e, n : Grows(e, n)
<1>1. log \in Seq(Entries) /\ Len(log) \in Nat /\ DOMAIN log = 1 .. Len(log)
  BY DEF LogOK
<1>2. PICK e \in [type : {"block"}, parent : {0} \cup {b \in DOMAIN log : log[b].type = "block"}]
               \cup [type : {"add", "remove"}, id : Ids] :
        /\ log' = Append(log, e)
        /\ ancestors' = Extended(ancestors,
             IF e.type = "block" THEN {Len(log) + 1} \cup Chain(e.parent) ELSE {})
        /\ after' = Extended(after, AfterEntry(after[Len(log)], e, Len(log) + 1))
  BY DEF Commit
<1>3. e \in Entries /\ (e.type = "block" => e.parent \in BlockIds)
  BY <1>1, <1>2 DEF Entries, BlockIds
<1>4. /\ log' \in Seq(Entries) /\ Len(log') = Len(log) + 1 /\ log'[Len(log) + 1] = e
      /\ \A i \in 1 .. Len(log) : log'[i] = log[i]
  BY <1>1, <1>2, <1>3
<1>5. /\ Len(log) + 1 \in 0 .. Len(log) + 1 /\ ~(Len(log) + 1 <= Len(log))
      /\ \A i \in 0 .. Len(log) : i \in 0 .. Len(log) + 1 /\ i <= Len(log)
  BY <1>1
<1>6. /\ \A i \in 0 .. Len(log) : after'[i] = after[i] /\ ancestors'[i] = ancestors[i]
      /\ after'[Len(log) + 1] = AfterEntry(after[Len(log)], e, Len(log) + 1)
      /\ e.type = "block" => ancestors'[Len(log) + 1] = {Len(log) + 1} \cup Chain(e.parent)
  BY <1>2, <1>5 DEF Extended
<1>7. PICK n : n = Len(log) + 1
  OBVIOUS
<1>8. Grows(e, n)
  BY <1>1, <1>3, <1>4, <1>6, <1>7 DEF Grows
<1> QED
  BY <1>8

LEMMA GrowsLogOK ==
  ASSUME LogOK, NEW e, NEW n, Grows(e, n) PROVE LogOK'
<1>1. n = Len(log) + 1 /\ Len(log) \in Nat /\ Len(log') = n /\ n \in Nat
  BY DEF Grows
<1>2. \A i \in 0 .. n : i \in 0 .. Len(log) \/ i = n
  BY <1>1
<1>3. \A i \in 1 .. n : (i \in 1 .. Len(log) /\ i - 1 \in 0 .. Len(log)) \/ i = n
  BY <1>1
<1>4. after[Len(log)] \in States /\ e \in Entries
  BY <1>1 DEF LogOK, Grows
<1>5. after'[n] \in States
  <2>1. after'[n] = AfterEntry(after[Len(log)], e, n)
    BY DEF Grows
  <2>2. Follows(after'[n], after[Len(log)], e, n)
    BY <1>1, <1>4, <2>1, EntryState
  <2> QED
    BY <2>2 DEF Follows
<1>6. \A i \in 0 .. n : after'[i] \in States
  BY <1>2, <1>5 DEF LogOK, Grows
<1>7. \A b \in 1 .. n : b \in BlockIds' => log'[b].parent \in 0 .. b - 1
  <2>1. ASSUME NEW b \in 1 .. Len(log), b \in BlockIds' PROVE log'[b].parent \in 0 .. b - 1
    <3>1. log'[b] = log[b] /\ b # 0
      BY <1>1 DEF Grows
    <3>2. b \in BlockIds
      BY <2>1, <3>1 DEF BlockIds
    <3> QED
      BY <3>1, <3>2 DEF LogOK
  <2>2. ASSUME n \in BlockIds' PROVE log'[n].parent \in 0 .. n - 1
    <3>1. log'[n] = e /\ n # 0
      BY <1>1 DEF Grows
    <3>2. e.type = "block"
      BY <2>2, <3>1 DEF BlockIds
    <3>3. e.parent \in BlockIds
      BY <3>2 DEF Grows
    <3> QED
      BY <1>1, <3>1, <3>3 DEF BlockIds
  <2> QED
    BY <1>3, <2>1, <2>2
<1>8. \A i \in 1 .. n : after'[i] = AfterEntry(after'[i - 1], log'[i], i)
  <2>1. ASSUME NEW i \in 1 .. Len(log) PROVE after'[i] = AfterEntry(after'[i - 1], log'[i], i)
    <3>1. i \in 0 .. Len(log) /\ i - 1 \in 0 .. Len(log)
      BY <1>1
    <3>2. after'[i] = after[i] /\ after'[i - 1] = after[i - 1] /\ log'[i] = log[i]
      BY <3>1 DEF Grows
    <3> QED
      BY <3>2 DEF LogOK
  <2>2. after'[n] = AfterEntry(after'[n - 1], log'[n], n)
    <3>1. n - 1 = Len(log) /\ Len(log) \in 0 .. Len(log)
      BY <1>1
    <3>2. after'[n - 1] = after[Len(log)] /\ log'[n] = e
      BY <3>1 DEF Grows
    <3> QED
      BY <3>2 DEF Grows
  <2> QED
    BY <1>3, <2>1, <2>2
<1>9. log' \in Seq(Entries)
  BY DEF Grows
<1> QED
  BY <1>1, <1>6, <1>7, <1>8, <1>9 DEF LogOK

LEMMA GrowsRemovedForGood ==
  ASSUME LogOK, RemovedForGood, NEW e, NEW n, Grows(e, n) PROVE RemovedForGood'
<1>1. n = Len(log) + 1 /\ Len(log) \in Nat /\ Len(log') = n /\ n \in Nat
  BY DEF Grows
<1>2. PICK a, s : a = after[Len(log)] /\ s = after'[n]
  OBVIOUS
<1>3. a \in States /\ e \in Entries /\ s = AfterEntry(a, e, n)
  BY <1>1, <1>2 DEF LogOK, Grows
<1>4. /\ a.addresses \subseteq a.conf /\ a.addresses \cap a.removed = {}
      /\ Follows(s, a, e, n)
  BY <1>1, <1>2, <1>3, EntryState DEF RemovedForGood
<1>5. /\ s.addresses \subseteq s.conf /\ s.addresses \cap s.removed = {}
      /\ a.removed \subseteq s.removed /\ a.conf \subseteq s.conf \cup s.removed
      /\ a.addresses \subseteq s.addresses \cup s.removed
  <2>1. CASE e.type = "block"
    BY <1>4, <2>1 DEF Follows
  <2>2. CASE e.type = "add"
    BY <1>4, <2>2 DEF Follows
  <2>3. CASE e.type = "remove"
    BY <1>4, <2>3 DEF Follows
  <2> QED
    BY <1>4, <2>1, <2>2, <2>3 DEF Follows
<1>6. \A i \in 0 .. n : i \in 0 .. Len(log) \/ i = n
  BY <1>1
<1>7. \A i \in 0 .. Len(log) : after'[i] = after[i] /\ i <= Len(log)
  BY <1>1 DEF Grows
<1>8. \A i \in 0 .. Len(log) :
        /\ after[i].removed \subseteq a.removed /\ after[i].conf \subseteq a.conf \cup a.removed
        /\ after[i].addresses \subseteq a.addresses \cup a.removed
  BY <1>1, <1>2, <1>7 DEF RemovedForGood
<1>9. \A i \in 0 .. n : /\ after'[i].addresses \subseteq after'[i].conf
                        /\ after'[i].addresses \cap after'[i].removed = {}
  BY <1>2, <1>5, <1>6, <1>7 DEF RemovedForGood
<1>10. ASSUME NEW i \in 0 .. n, NEW j \in 0 .. n, i <= j
       PROVE  /\ after'[i].removed \subseteq after'[j].removed
              /\ after'[i].conf \subseteq after'[j].conf \cup after'[j].removed
              /\ after'[i].addresses \subseteq after'[j].addresses \cup after'[j].removed
  <2>1. CASE j \in 0 .. Len(log)
    <3>1. i \in 0 .. Len(log)
      BY <1>1, <1>10, <2>1
    <3> QED
      BY <1>7, <1>10, <2>1, <3>1 DEF RemovedForGood
  <2>2. CASE j = n /\ i \in 0 .. Len(log)
    BY <1>2, <1>5, <1>7, <1>8, <2>2
  <2>3. CASE j = n /\ i = n
    BY <2>3
  <2> QED
    BY <1>6, <2>1, <2>2, <2>3
<1> QED
  BY <1>1, <1>9, <1>10 DEF RemovedForGood

LEMMA GrowsBlocks ==
  ASSUME LogOK, NEW e, NEW n, Grows(e, n)
  PROVE  /\ BlockIds \subseteq BlockIds' /\ BlockIds \subseteq 0 .. Len(log)
         /\ BlockIds' = IF e.type = "block" THEN BlockIds \cup {n} ELSE BlockIds
         /\ n \notin BlockIds /\ \A b \in BlockIds : Chain(b)' = Chain(b)
<1>1. n = Len(log) + 1 /\ Len(log) \in Nat /\ Len(log') = n /\ n \in Nat
  BY DEF Grows
<1>2. \A i \in 1 .. n : i \in 1 .. Len(log) \/ i = n
  BY <1>1
<1>3. \A i \in 1 .. Len(log) : i \in 1 .. n /\ i \in 0 .. Len(log) /\ i # n
  BY <1>1
<1>4. n \in 1 .. n /\ n # 0 /\ 0 \in 0 .. Len(log)
  BY <1>1
<1>5. \A i \in 1 .. Len(log) : log'[i] = log[i]
  BY DEF Grows
<1>6. log'[n] = e
  BY DEF Grows
<1>7. BlockIds' = IF e.type = "block" THEN BlockIds \cup {n} ELSE BlockIds
  BY <1>1, <1>2, <1>3, <1>4, <1>5, <1>6 DEF BlockIds
<1>8. BlockIds \subseteq 0 .. Len(log) /\ n \notin BlockIds
  BY <1>3, <1>4 DEF BlockIds
<1>9. \A b \in BlockIds : Chain(b)' = Chain(b)
  BY <1>8 DEF Grows, Chain
<1> QED
  BY <1>7, <1>8, <1>9

LEMMA GrowsChainsOK ==
  ASSUME LogOK, ChainsOK, NEW e, NEW n, Grows(e, n) PROVE ChainsOK'
<1>1. n = Len(log) + 1 /\ Len(log) \in Nat /\ n \in Nat
  BY DEF Grows
<1>2. /\ BlockIds \subseteq BlockIds' /\ BlockIds \subseteq 0 .. Len(log)
      /\ BlockIds' = IF e.type = "block" THEN BlockIds \cup {n} ELSE BlockIds
      /\ \A b \in BlockIds : Chain(b)' = Chain(b)
  BY GrowsBlocks
<1>3. ASSUME NEW b \in BlockIds
      PROVE  /\ b \in Chain(b)' /\ Chain(b)' \subseteq BlockIds' \cap 0 .. b
             /\ \A x \in Chain(b)' : Chain(x)' \subseteq Chain(b)'
  BY <1>2 DEF ChainsOK
<1>4. ASSUME e.type = "block"
      PROVE  /\ n \in Chain(n)' /\ Chain(n)' \subseteq BlockIds' \cap 0 .. n
             /\ \A x \in Chain(n)' : Chain(x)' \subseteq Chain(n)'
  <2>1. PICK p : p = e.parent
    OBVIOUS
  <2>2. p \in BlockIds /\ Chain(n)' = {n} \cup Chain(p)
    BY <1>4, <2>1 DEF Grows, Chain
  <2>3. /\ Chain(p) \subseteq BlockIds /\ Chain(p) \subseteq 0 .. p /\ p \in 0 .. Len(log)
        /\ \A x \in Chain(p) : Chain(x) \subseteq Chain(p)
    BY <1>2, <2>2 DEF ChainsOK
  <2>4. 0 .. p \subseteq 0 .. n /\ n \in 0 .. n
    BY <1>1, <2>3
  <2>5. \A x \in Chain(p) : Chain(x)' \subseteq Chain(n)'
    BY <1>2, <2>2, <2>3
  <2> QED
    BY <1>2, <1>4, <2>2, <2>3, <2>4, <2>5
<1> QED
  BY <1>2, <1>3, <1>4 DEF ChainsOK

LEMMA GrowsHeadsOK ==
  ASSUME LogOK, ChainsOK, HeadsOK, NEW e, NEW n, Grows(e, n) PROVE HeadsOK'
<1>1. n = Len(log) + 1 /\ Len(log) \in Nat /\ Len(log') = n /\ n \in Nat
  BY DEF Grows
<1>2. /\ BlockIds \subseteq BlockIds' /\ BlockIds \subseteq 0 .. Len(log)
      /\ BlockIds' = IF e.type = "block" THEN BlockIds \cup {n} ELSE BlockIds
      /\ \A b \in BlockIds : Chain(b)' = Chain(b)
  BY GrowsBlocks
<1>3. PICK g, h : g = after[Len(log)].head /\ h = after'[n].head
  OBVIOUS
<1>4. g \in BlockIds /\ g \in 0 .. Len(log)
  BY <1>1, <1>3 DEF HeadsOK
<1>5. h = g \/ (h = n /\ e.type = "block" /\ e.parent = g)
  <2>1. after[Len(log)] \in States /\ e \in Entries
    BY <1>1 DEF LogOK, Grows
  <2>2. after'[n] = AfterEntry(after[Len(log)], e, n)
    BY DEF Grows
  <2>3. Follows(after'[n], after[Len(log)], e, n)
    BY <1>1, <2>1, <2>2, EntryState
  <2> QED
    BY <1>3, <2>3 DEF Follows
<1>6. h \in BlockIds' /\ h \in 0 .. n
  BY <1>1, <1>2, <1>4, <1>5
<1>7. Chain(g)' \subseteq Chain(h)'
  <2>1. CASE h = g
    BY <2>1
  <2>2. CASE h = n /\ e.type = "block" /\ e.parent = g
    <3>1. Chain(n)' = {n} \cup Chain(g)
      BY <2>2 DEF Grows, Chain
    <3> QED
      BY <1>2, <1>4, <2>2, <3>1
  <2> QED
    BY <1>5, <2>1, <2>2
<1>8. \A i \in 0 .. n : i \in 0 .. Len(log) \/ i = n
  BY <1>1
<1>9. \A i \in 0 .. Len(log) : after'[i] = after[i] /\ i <= Len(log) /\ 0 .. i \subseteq Nat
  BY <1>1 DEF Grows
<1>10. \A i \in 0 .. n : after'[i].head \in BlockIds' \cap 0 .. i
  BY <1>2, <1>3, <1>6, <1>8, <1>9 DEF HeadsOK
<1>11. ASSUME NEW i \in 0 .. Len(log), NEW j \in 0 .. Len(log), i <= j
       PROVE  /\ Chain(after[i].head)' \subseteq Chain(after[j].head)'
              /\ after'[j].head <= i => after'[j].head = after'[i].head
  <2>1. PICK x, y : x = after[i].head /\ y = after[j].head
    OBVIOUS
  <2>2. /\ x \in BlockIds /\ y \in BlockIds /\ Chain(x) \subseteq Chain(y)
        /\ y <= i => y = x
    BY <1>11, <2>1 DEF HeadsOK
  <2>3. Chain(x)' \subseteq Chain(y)'
    BY <1>2, <2>2
  <2> QED
    BY <1>9, <2>1, <2>2, <2>3 DEF Chain
<1>12. ASSUME NEW i \in 0 .. Len(log)
       PROVE  /\ Chain(after[i].head)' \subseteq Chain(h)'
              /\ h <= i => h = after'[i].head
  <2>1. PICK x : x = after[i].head
    OBVIOUS
  <2>2. x \in BlockIds /\ Chain(x) \subseteq Chain(g) /\ (g <= i => g = x)
    BY <1>1, <1>3, <1>9, <2>1 DEF HeadsOK
  <2>3. Chain(x)' \subseteq Chain(h)'
    BY <1>2, <1>4, <1>7, <2>2
  <2>4. ~(n <= i)
    BY <1>1
  <2> QED
    BY <1>5, <1>9, <2>1, <2>2, <2>3, <2>4 DEF Chain
<1>13. ASSUME NEW i \in 0 .. n, NEW j \in 0 .. n, i <= j
       PROVE  /\ Chain(after[i].head)' \subseteq Chain(after[j].head)'
              /\ after'[j].head <= i => after'[j].head = after'[i].head
  <2>1. CASE j \in 0 .. Len(log)
    <3>1. i \in 0 .. Len(log)
      BY <1>1, <1>13, <2>1
    <3> QED
      BY <1>11, <1>13, <2>1, <3>1
  <2>2. CASE j = n /\ i \in 0 .. Len(log)
    BY <1>3, <1>12, <2>2 DEF Chain
  <2>3. CASE j = n /\ i = n
    BY <2>3
  <2> QED
    BY <1>8, <2>1, <2>2, <2>3
<1> QED
  BY <1>1, <1>10, <1>13 DEF HeadsOK, Chain

LEMMA CommitInv ==
  ASSUME Inv, Commit PROVE Inv'
<1>1. PICK e, n : Grows(e, n)
  BY CommitGrows DEF Inv
<1>2. LogOK' /\ RemovedForGood' /\ ChainsOK' /\ HeadsOK'
  BY <1>1, GrowsLogOK, GrowsRemovedForGood, GrowsChainsOK, GrowsHeadsOK DEF Inv
<1>3. UNCHANGED <<walVars, dbVars, clusterVars, appliedIndex, snapshotIndex, savedIndex,
                  snapshot, up, todo, next, crashes>>
  BY DEF Commit
<1>4. UNCHANGED <<stored, flushed, currentBlock, archive, confState, peers, removedPeers,
                  appliedIndex, savedIndex, snapshot, up, todo, next>>
  BY <1>3 DEF dbVars, clusterVars
<1>5. Len(log) \in Nat /\ Len(log') = Len(log) + 1 /\ \A i \in 0 .. Len(log) : after'[i] = after[i]
  BY <1>1 DEF Grows
<1>6. ASSUME NEW h, NEW k \in Nat, Along(h, k) PROVE Along(h, k)'
  <2>1. PICK i \in k .. Len(log) : h = after[i].head
    BY <1>6 DEF Along
  <2>2. i \in k .. Len(log') /\ i \in 0 .. Len(log)
    BY <1>5, <1>6
  <2> QED
    BY <1>5, <2>1, <2>2 DEF Along
<1>7. ASSUME NEW k \in 0 .. Len(log), At(k) PROVE At(k)'
  BY <1>4, <1>5, <1>6, <1>7 DEF At, Along
<1>8. ASSUME NEW k \in 0 .. Len(log), Stable(k), snapshot.index \in Nat PROVE Stable(k)'
  <2>1. \A i \in snapshot.index .. k : i \in 0 .. Len(log)
    BY <1>5, <1>8
  <2> QED
    BY <1>4, <1>5, <1>8, <2>1 DEF Stable
<1>9. appliedIndex \in 0 .. Len(log) /\ savedIndex = appliedIndex /\ snapshot.index \in 0 .. Len(log)
  BY DEF Inv, SnapshotOK
<1>10. appliedIndex' \in 0 .. Len(log') /\ savedIndex' = appliedIndex' /\ hardCommit' \in Nat
  BY <1>3, <1>4, <1>5, <1>9 DEF Inv, walVars
<1>11. SnapshotOK'
  <2>1. snapshot'.index \in 0 .. Len(log') /\ snapshot'.conf = snapshot'.addresses
    BY <1>4, <1>5, <1>9 DEF Inv, SnapshotOK
  <2>2. PICK x, a : x = snapshot.index /\ a = appliedIndex
    OBVIOUS
  <2>3. Stable(x)' /\ Stable(a)'
    BY <1>8, <1>9, <2>2 DEF Inv, SnapshotOK
  <2>4. Stable(snapshot.index)' /\ Stable(appliedIndex)'
    BY <1>4, <2>2, <2>3 DEF Stable
  <2>5. archive' => Along(snapshot.head, snapshot.index)'
    <3>1. PICK h : h = snapshot.head
      OBVIOUS
    <3>2. archive => Along(h, x)'
      BY <1>6, <1>9, <2>2, <3>1 DEF Inv, SnapshotOK
    <3> QED
      BY <1>4, <2>2, <3>1, <3>2 DEF Along
  <2> QED
    BY <2>1, <2>4, <2>5 DEF SnapshotOK
<1>12. ArchiveOK'
  <2>1. ASSUME archive
        PROVE /\ stored' = Chain(currentBlock)' /\ stored' \subseteq flushed'
              /\ Along(currentBlock, appliedIndex)'
    <3>1. PICK h, a : h = currentBlock /\ a = appliedIndex
      OBVIOUS
    <3>2. /\ stored = Chain(h) /\ stored \subseteq flushed /\ Along(h, a)
      BY <2>1, <3>1 DEF Inv, ArchiveOK
    <3>3. h \in 0 .. Len(log) /\ Along(h, a)'
      <4>1. PICK i \in a .. Len(log) : h = after[i].head
        BY <3>2 DEF Along
      <4>2. i \in 0 .. Len(log) /\ 0 .. i \subseteq 0 .. Len(log)
        BY <1>5, <1>9, <3>1
      <4>3. h \in 0 .. Len(log)
        BY <4>1, <4>2 DEF Inv, HeadsOK
      <4> QED
        BY <1>6, <1>9, <3>1, <3>2, <4>3
    <3>4. Chain(h)' = Chain(h)
      BY <1>1, <3>3 DEF Grows, Chain
    <3> QED
      BY <1>4, <3>1, <3>2, <3>3, <3>4 DEF Along, Chain
  <2> QED
    BY <1>4, <2>1 DEF ArchiveOK
<1>13. ASSUME up PROVE StepOK'
  <2>1. PICK a, x : a = appliedIndex /\ x = next
    OBVIOUS
  <2>2. At(a) => At(appliedIndex)'
    BY <1>4, <1>7, <1>9, <2>1 DEF At, Along
  <2>3. Later => x \in 0 .. Len(log) /\ Later'
    BY <1>4, <1>5, <1>9, <2>1 DEF Later
  <2>4. Later /\ At(x) => Applied'
    <3>1. Later /\ At(x) => At(x)'
      BY <1>7, <2>3
    <3>2. At(x)' => At(next)'
      BY <1>4, <2>1 DEF At, Along
    <3> QED
      BY <2>3, <3>1, <3>2 DEF Applied
  <2>5. Later /\ Stable(x) => Stable(next)'
    <3>1. Later /\ Stable(x) => Stable(x)'
      BY <1>8, <1>9, <2>3
    <3> QED
      BY <1>4, <2>1, <3>1 DEF Stable
  <2>6. Installing => Installing'
    BY <1>4, <2>1, <2>2, <2>3 DEF Installing
  <2>7. StepOK
    BY <1>13 DEF Inv
  <2> QED
    BY <1>4, <2>1, <2>2, <2>4, <2>5, <2>6, <2>7 DEF StepOK, Applied
<1> QED
  BY <1>2, <1>4, <1>10, <1>11, <1>12, <1>13 DEF Inv

---------------------------------------------------------------------------
(* The heads of the log *)

LEMMA Ranges ==
  ASSUME Inv
  PROVE  /\ Len(log) \in Nat /\ hardCommit \in Nat
         /\ appliedIndex \in Nat /\ appliedIndex <= Len(log) /\ savedIndex = appliedIndex
         /\ snapshot.index \in Nat /\ snapshot.index <= Len(log)
<1>1. log \in Seq(Entries)
  BY DEF Inv, LogOK
<1>2. Len(log) \in Nat
  BY <1>1
<1>3. appliedIndex \in 0 .. Len(log) /\ savedIndex = appliedIndex /\ hardCommit \in Nat
  BY DEF Inv
<1>4. snapshot.index \in 0 .. Len(log)
  BY DEF Inv, SnapshotOK
<1> QED
  BY <1>2, <1>3, <1>4

LEMMA HeadOf ==
  ASSUME Inv, NEW h, NEW k \in Nat, Along(h, k)
  PROVE  /\ h \in BlockIds /\ h \in 0 .. Len(log)
         /\ h \in Chain(h) /\ Chain(h) \subseteq 0 .. h /\ Chain(h) \subseteq BlockIds
<1>1. PICK i \in k .. Len(log) : h = after[i].head
  BY DEF Along
<1>2. i \in 0 .. Len(log) /\ 0 .. i \subseteq 0 .. Len(log)
  BY Ranges
<1>3. h \in BlockIds /\ h \in 0 .. Len(log)
  BY <1>1, <1>2 DEF Inv, HeadsOK
<1> QED
  BY <1>3 DEF Inv, ChainsOK

(* A head whose chain has a later head is that one. *)
LEMMA Catches ==
  ASSUME Inv, NEW h, NEW g, NEW j \in Nat, NEW k \in Nat, Along(h, j), Along(g, k),
         g \in Chain(h)
  PROVE  Along(h, k)
<1>1. PICK x \in j .. Len(log) : h = after[x].head
  BY DEF Along
<1>2. PICK y \in k .. Len(log) : g = after[y].head
  BY DEF Along
<1>3. Len(log) \in Nat /\ x \in 0 .. Len(log) /\ y \in 0 .. Len(log)
  BY DEF Inv, LogOK
<1>4. CASE x >= k
  BY <1>1, <1>3, <1>4 DEF Along
<1>5. CASE x < k
  <2>1. x <= y
    BY <1>3, <1>5
  <2>2. Chain(h) \subseteq Chain(g)
    BY <1>1, <1>2, <1>3, <2>1 DEF Inv, HeadsOK
  <2>3. h \in Chain(h) /\ Chain(h) \subseteq 0 .. h /\ Chain(g) \subseteq 0 .. g
        /\ h \in Nat /\ g \in Nat
    BY HeadOf
  <2>4. h <= g /\ g <= h
    BY <2>2, <2>3
  <2>5. h = g
    BY <2>3, <2>4
  <2> QED
    BY <2>5
<1> QED
  BY <1>3, <1>4, <1>5

(* A head that is not on the chain of another comes after it. *)
LEMMA ComesAfter ==
  ASSUME Inv, NEW h, NEW g, NEW j \in Nat, NEW k \in Nat, Along(h, j), Along(g, k),
         g \notin Chain(h)
  PROVE  Along(g, j) /\ Chain(h) \subseteq Chain(g)
<1>1. PICK x \in j .. Len(log) : h = after[x].head
  BY DEF Along
<1>2. PICK y \in k .. Len(log) : g = after[y].head
  BY DEF Along
<1>3. Len(log) \in Nat /\ x \in 0 .. Len(log) /\ y \in 0 .. Len(log)
  BY DEF Inv, LogOK
<1>4. ~(y <= x)
  <2> SUFFICES ASSUME y <= x PROVE FALSE
    OBVIOUS
  <2>1. Chain(g) \subseteq Chain(h)
    BY <1>1, <1>2, <1>3 DEF Inv, HeadsOK
  <2>2. g \in Chain(g)
    BY HeadOf
  <2> QED
    BY <2>1, <2>2
<1>5. x <= y /\ y \in j .. Len(log)
  BY <1>3, <1>4
<1>6. Chain(h) \subseteq Chain(g)
  BY <1>1, <1>2, <1>3, <1>5 DEF Inv, HeadsOK
<1> QED
  BY <1>2, <1>5, <1>6 DEF Along

(* The next entry, and what it makes of the node's chain and cluster. *)
LEMMA NextEntry ==
  ASSUME Inv, NEW n, n = appliedIndex + 1, appliedIndex < Len(log)
  PROVE  /\ n \in 1 .. Len(log) /\ n - 1 = appliedIndex /\ n \in Nat
         /\ log[n] \in Entries /\ after[appliedIndex] \in States
         /\ Follows(after[n], after[appliedIndex], log[n], n)
<1>1. appliedIndex \in 0 .. Len(log) /\ Len(log) \in Nat /\ log \in Seq(Entries)
  BY DEF Inv, LogOK
<1>2. n \in 1 .. Len(log) /\ n - 1 = appliedIndex /\ n \in Nat
  BY <1>1
<1>3. log[n] \in Entries /\ after[appliedIndex] \in States
  BY <1>1, <1>2 DEF Inv, LogOK
<1>4. after[n] = AfterEntry(after[appliedIndex], log[n], n)
  BY <1>2 DEF Inv, LogOK
<1> QED
  BY <1>2, <1>3, <1>4, EntryState

(* An entry that is no block leaves the head where it is. *)
LEMMA SameHead ==
  ASSUME Inv, NEW n, n = appliedIndex + 1, appliedIndex < Len(log),
         after[n].head = after[appliedIndex].head, NEW h, Along(h, appliedIndex)
  PROVE  Along(h, n)
<1>1. PICK i \in appliedIndex .. Len(log) : h = after[i].head
  BY DEF Along
<1>2. appliedIndex \in Nat /\ Len(log) \in Nat
  BY DEF Inv, LogOK
<1>3. CASE i = appliedIndex
  BY <1>1, <1>2, <1>3 DEF Along
<1>4. CASE i # appliedIndex
  <2>1. i \in n .. Len(log)
    BY <1>2, <1>4
  <2> QED
    BY <1>1, <2>1 DEF Along
<1> QED
  BY <1>3, <1>4

(* A block that extends the node's chain extends the chain of the log,     *)
(* also when the node is ahead of its index; any other block leaves both   *)
(* as they are, or is on the node's chain already.                         *)
LEMMA NextBlock ==
  ASSUME Inv, archive, NEW n, n = appliedIndex + 1, appliedIndex < Len(log),
         log[n].type = "block"
  PROVE  IF n \notin stored /\ log[n].parent = currentBlock
         THEN Along(n, n) /\ Chain(currentBlock) \subseteq Chain(n)
         ELSE Along(currentBlock, n)
<1>1. /\ n \in 1 .. Len(log) /\ n - 1 = appliedIndex /\ n \in Nat
      /\ Follows(after[n], after[appliedIndex], log[n], n)
  BY NextEntry
<1>2. after[n].head = IF log[n].parent = after[appliedIndex].head THEN n
                      ELSE after[appliedIndex].head
  BY <1>1 DEF Follows
<1>3. PICK i \in appliedIndex .. Len(log) : currentBlock = after[i].head
  BY DEF Inv, ArchiveOK, Along
<1>4. appliedIndex \in 0 .. Len(log) /\ Len(log) \in Nat /\ i \in 0 .. Len(log) /\ appliedIndex <= i
  BY DEF Inv, LogOK
<1>5. log[n].parent \in 0 .. n - 1
  <2>1. n \in BlockIds
    BY <1>1 DEF BlockIds
  <2> QED
    BY <1>1, <2>1 DEF Inv, LogOK
<1>6. stored = Chain(currentBlock) /\ Chain(currentBlock) \subseteq 0 .. currentBlock
  BY <1>4, HeadOf DEF Inv, ArchiveOK
<1>7. CASE n \notin stored /\ log[n].parent = currentBlock
  <2>1. currentBlock <= appliedIndex
    BY <1>1, <1>4, <1>5, <1>7
  <2>2. after[appliedIndex].head = currentBlock
    BY <1>3, <1>4, <2>1 DEF Inv, HeadsOK
  <2>3. after[n].head = n
    BY <1>2, <1>7, <2>2
  <2>4. Along(n, n)
    BY <1>1, <2>3 DEF Along
  <2>5. n \in 0 .. Len(log) /\ appliedIndex <= n
    BY <1>1, <1>4
  <2>6. Chain(currentBlock) \subseteq Chain(n)
    BY <1>4, <2>2, <2>3, <2>5 DEF Inv, HeadsOK
  <2> QED
    BY <1>7, <2>4, <2>6
<1>8. CASE ~(n \notin stored /\ log[n].parent = currentBlock)
  <2>1. CASE i # appliedIndex
    <3>1. i \in n .. Len(log)
      BY <1>1, <1>4, <2>1
    <3> QED
      BY <1>3, <1>8, <3>1 DEF Along
  <2>2. CASE i = appliedIndex
    <3>1. currentBlock \in 0 .. appliedIndex
      BY <1>3, <1>4, <2>2 DEF Inv, HeadsOK
    <3>2. n \notin stored
      BY <1>1, <1>4, <1>6, <3>1
    <3>3. after[n].head = currentBlock
      BY <1>2, <1>3, <1>8, <2>2, <3>2
    <3> QED
      BY <1>1, <1>8, <3>3 DEF Along
  <2> QED
    BY <2>1, <2>2
<1> QED
  BY <1>7, <1>8

---------------------------------------------------------------------------
(* The steps of the node *)

LEMMA LogSame ==
  ASSUME Inv, UNCHANGED logVars
  PROVE  LogOK' /\ RemovedForGood' /\ ChainsOK' /\ HeadsOK'
<1>1. UNCHANGED <<log, ancestors, after>>
  BY DEF logVars
<1>2. BlockIds' = BlockIds
  BY <1>1 DEF BlockIds
<1>3. LogOK'
  BY <1>1, <1>2 DEF Inv, LogOK
<1>4. RemovedForGood'
  BY <1>1 DEF Inv, RemovedForGood
<1>5. ChainsOK' /\ HeadsOK'
  BY <1>1, <1>2 DEF Inv, ChainsOK, HeadsOK, Chain
<1> QED
  BY <1>3, <1>4, <1>5

(* A step that leaves the log, the snapshot, the database and the indices  *)
(* alone.                                                                  *)
LEMMA OnlyStep ==
  ASSUME Inv, UNCHANGED <<logVars, dbVars, appliedIndex, savedIndex, snapshot, up>>,
         hardCommit' \in Nat, IF up THEN StepOK' ELSE todo' = <<>>
  PROVE  Inv'
<1>1. LogOK' /\ RemovedForGood' /\ ChainsOK' /\ HeadsOK'
  BY LogSame
<1>2. SnapshotOK'
  BY DEF Inv, SnapshotOK, Stable, Along, logVars, dbVars
<1>3. ArchiveOK'
  BY DEF Inv, ArchiveOK, Along, Chain, logVars, dbVars
<1>4. appliedIndex' \in 0 .. Len(log') /\ savedIndex' = appliedIndex'
      /\ up' \in BOOLEAN /\ archive' \in BOOLEAN
  BY DEF Inv, logVars, dbVars
<1> QED
  BY <1>1, <1>2, <1>3, <1>4 DEF Inv

LEMMA SameStep ==
  ASSUME StepOK, UNCHANGED <<logVars, currentBlock, archive, clusterVars, appliedIndex,
                             snapshot, todo, next>>
  PROVE  StepOK'
BY DEF StepOK, Applied, Installing, Later, Stable, At, Along, logVars, clusterVars

(* The steps of which every step consists. *)
LEMMA Todo ==
  ASSUME StepOK, todo # <<>>
  PROVE  /\ Head(todo) = "snapshot" =>
              \/ todo = <<"snapshot", "wal", "advance">> /\ Tail(todo) = <<"wal", "advance">>
                 /\ Applied
              \/ todo = <<"snapshot", "wal">> /\ Tail(todo) = <<"wal">>
                 /\ next = appliedIndex /\ At(appliedIndex)
         /\ Head(todo) = "wal" =>
              \/ Tail(todo) = <<"advance">> /\ Applied /\ snapshot.index = next
              \/ Tail(todo) = <<>> /\ At(appliedIndex)
              \/ Tail(todo) = <<"apply", "advance">> /\ Installing
         /\ Head(todo) = "apply" => Tail(todo) = <<"advance">> /\ Installing
         /\ Head(todo) = "advance" => Tail(todo) = <<>> /\ Applied /\ Stable(next)
<1>1. /\ Tail(<<"snapshot", "wal", "advance">>) = <<"wal", "advance">>
      /\ Head(<<"snapshot", "wal", "advance">>) = "snapshot"
      /\ Tail(<<"wal", "apply", "advance">>) = <<"apply", "advance">>
      /\ Head(<<"wal", "apply", "advance">>) = "wal"
  OBVIOUS
<1>2. /\ Tail(<<"snapshot", "wal">>) = <<"wal">> /\ Head(<<"snapshot", "wal">>) = "snapshot"
      /\ Tail(<<"wal", "advance">>) = <<"advance">> /\ Head(<<"wal", "advance">>) = "wal"
      /\ Tail(<<"apply", "advance">>) = <<"advance">> /\ Head(<<"apply", "advance">>) = "apply"
  OBVIOUS
<1>3. /\ Tail(<<"wal">>) = <<>> /\ Head(<<"wal">>) = "wal"
      /\ Tail(<<"advance">>) = <<>> /\ Head(<<"advance">>) = "advance"
  OBVIOUS
<1> QED
  BY <1>1, <1>2, <1>3 DEF StepOK

LEMMA QuietInv ==
  ASSUME Inv, SaveHardState \/ UNCHANGED vars PROVE Inv'
<1>1. UNCHANGED <<logVars, dbVars, clusterVars, appliedIndex, savedIndex, snapshot, up, todo, next>>
  BY DEF SaveHardState, vars
<1>2. UNCHANGED <<currentBlock, archive>>
  BY <1>1 DEF dbVars
<1>3. IF up THEN StepOK' ELSE todo' = <<>>
  BY <1>1, <1>2, SameStep DEF Inv
<1>4. hardCommit' \in Nat
  BY DEF SaveHardState, vars, walVars, Inv, LogOK
<1> QED
  BY <1>1, <1>3, <1>4, OnlyStep

LEMMA FlushInv ==
  ASSUME Inv, Flush PROVE Inv'
<1>1. UNCHANGED <<logVars, stored, currentBlock, archive, clusterVars, appliedIndex, savedIndex,
                  snapshot, up, todo, next, hardCommit>> /\ flushed \subseteq flushed'
  BY DEF Flush, walVars
<1>2. LogOK' /\ RemovedForGood' /\ ChainsOK' /\ HeadsOK'
  BY <1>1, LogSame
<1>3. SnapshotOK'
  BY <1>1 DEF Inv, SnapshotOK, Stable, Along, logVars
<1>4. ArchiveOK'
  BY <1>1 DEF Inv, ArchiveOK, Along, Chain, logVars
<1>5. IF up THEN StepOK' ELSE todo' = <<>>
  BY <1>1, SameStep DEF Inv
<1>6. /\ appliedIndex' \in 0 .. Len(log') /\ savedIndex' = appliedIndex'
      /\ up' \in BOOLEAN /\ archive' \in BOOLEAN /\ hardCommit' \in Nat
  BY <1>1 DEF Inv, logVars
<1> QED
  BY <1>1, <1>2, <1>3, <1>4, <1>5, <1>6 DEF Inv

LEMMA SaveWalInv ==
  ASSUME Inv, SaveWalSnapshot PROVE Inv'
<1>1. UNCHANGED <<logVars, dbVars, clusterVars, appliedIndex, savedIndex, snapshot, up, next>>
  BY DEF SaveWalSnapshot
<1>2. up /\ todo # <<>> /\ Head(todo) = "wal" /\ todo' = Tail(todo)
  BY DEF SaveWalSnapshot, Doing
<1>3. StepOK /\ snapshot.index \in Nat /\ Stable(snapshot.index)
  BY <1>2 DEF Inv, SnapshotOK, LogOK
<1>4. At(appliedIndex) => At(appliedIndex)'
  BY <1>1 DEF At, Along, logVars, dbVars, clusterVars
<1>5. Later => Later'
  BY <1>1 DEF Later, logVars
<1>6. Applied => Applied'
  BY <1>1, <1>5 DEF Applied, At, Along, logVars, dbVars, clusterVars
<1>7. snapshot.index = next => Stable(next)'
  BY <1>1, <1>3 DEF Stable, logVars
<1>8. Installing => Installing'
  BY <1>1, <1>4, <1>5 DEF Installing
<1>9. StepOK'
  BY <1>2, <1>3, <1>4, <1>6, <1>7, <1>8, Todo DEF StepOK
<1>10. hardCommit' \in Nat
  <2>1. hardCommit' = Max({hardCommit, snapshot.index}) /\ hardCommit \in Nat
    BY DEF SaveWalSnapshot, Inv
  <2>2. \E x \in {hardCommit, snapshot.index} : \A y \in {hardCommit, snapshot.index} : x >= y
    BY <1>3, <2>1
  <2>3. Max({hardCommit, snapshot.index}) \in {hardCommit, snapshot.index}
    BY <2>2 DEF Max
  <2> QED
    BY <1>3, <2>1, <2>3
<1> QED
  BY <1>1, <1>2, <1>9, <1>10, OnlyStep

LEMMA TriggerInv ==
  ASSUME Inv, MaybeTriggerSnapshot PROVE Inv'
<1>1. UNCHANGED <<logVars, dbVars, clusterVars, appliedIndex, savedIndex, snapshot, up>>
  BY DEF MaybeTriggerSnapshot
<1>2. up /\ todo = <<>> /\ next' = appliedIndex /\ todo' = <<"snapshot", "wal">>
  BY DEF MaybeTriggerSnapshot, Ready
<1>3. At(appliedIndex)
  BY <1>2 DEF Inv, StepOK
<1>4. At(appliedIndex)'
  BY <1>1, <1>3 DEF At, Along, logVars, dbVars, clusterVars
<1>5. StepOK'
  BY <1>1, <1>2, <1>4 DEF StepOK
<1> QED
  BY <1>1, <1>2, <1>5, OnlyStep DEF MaybeTriggerSnapshot, walVars, Inv

LEMMA AdvanceInv ==
  ASSUME Inv, AdvanceAppliedIndex PROVE Inv'
<1>1. UNCHANGED <<logVars, dbVars, clusterVars, snapshot, up, next>>
  BY DEF AdvanceAppliedIndex
<1>2. /\ up /\ todo # <<>> /\ Head(todo) = "advance" /\ todo' = Tail(todo)
      /\ savedIndex' = next /\ appliedIndex' = next
  BY DEF AdvanceAppliedIndex, Doing
<1>3. Tail(todo) = <<>> /\ Applied /\ Stable(next)
  BY <1>2, Todo DEF Inv
<1>4. next \in 0 .. Len(log)
  BY <1>3, Ranges DEF Applied, Later
<1>5. LogOK' /\ RemovedForGood' /\ ChainsOK' /\ HeadsOK'
  BY <1>1, LogSame
<1>6. SnapshotOK'
  <2>1. Stable(appliedIndex)'
    BY <1>1, <1>2, <1>3 DEF Stable, logVars
  <2> QED
    BY <1>1, <2>1 DEF Inv, SnapshotOK, Stable, Along, logVars, dbVars
<1>7. archive => Along(currentBlock, next)
  BY <1>3 DEF Applied, At
<1>8. ArchiveOK'
  BY <1>1, <1>2, <1>7 DEF Inv, ArchiveOK, Along, Chain, logVars, dbVars
<1>9. At(appliedIndex)'
  BY <1>1, <1>2, <1>3 DEF Applied, At, Along, logVars, dbVars, clusterVars
<1>10. StepOK'
  BY <1>2, <1>3, <1>9 DEF StepOK
<1>11. /\ appliedIndex' \in 0 .. Len(log') /\ savedIndex' = appliedIndex'
       /\ up' \in BOOLEAN /\ archive' \in BOOLEAN /\ hardCommit' \in Nat
  BY <1>1, <1>2, <1>4 DEF Inv, logVars, dbVars, walVars, AdvanceAppliedIndex
<1> QED
  BY <1>1, <1>2, <1>5, <1>6, <1>8, <1>10, <1>11 DEF Inv

(* The members that a snapshot has addresses for are all the members. *)
LEMMA SnapshotInv ==
  ASSUME Inv, Snapshot PROVE Inv'
<1>1. UNCHANGED <<logVars, dbVars, clusterVars, appliedIndex, savedIndex, up, next>>
  BY DEF Snapshot
<1>2. /\ up /\ todo # <<>> /\ Head(todo) = "snapshot" /\ todo' = Tail(todo)
      /\ confState \subseteq peers
      /\ snapshot' = [index |-> next, head |-> currentBlock, conf |-> confState,
                      addresses |-> confState, removed |-> removedPeers]
  BY DEF Snapshot, Doing
<1>3. /\ snapshot'.index = next /\ snapshot'.head = currentBlock
      /\ snapshot'.conf = confState /\ snapshot'.addresses = confState
      /\ snapshot'.removed = removedPeers
  BY <1>2
<1>4. appliedIndex \in 0 .. Len(log) /\ Len(log) \in Nat
  BY Ranges
<1>5. /\ next \in 0 .. Len(log) /\ At(next) /\ next >= appliedIndex
      /\ \/ todo' = <<"wal", "advance">> /\ Applied
         \/ todo' = <<"wal">> /\ next = appliedIndex
  <2>1. \/ todo' = <<"wal", "advance">> /\ Applied
        \/ todo' = <<"wal">> /\ next = appliedIndex /\ At(appliedIndex)
    BY <1>2, Todo DEF Inv
  <2>2. CASE Applied
    BY <1>4, <2>1, <2>2 DEF Applied, Later
  <2>3. CASE next = appliedIndex /\ At(appliedIndex)
    BY <1>4, <2>1, <2>3
  <2> QED
    BY <2>1, <2>2, <2>3
<1>6. confState = after[next].addresses /\ removedPeers = after[next].removed
  BY <1>2, <1>5 DEF At
<1>7. SnapshotOK'
  <2>1. \A i \in next .. next : i = next
    BY <1>4, <1>5
  <2>2. Stable(snapshot.index)'
    BY <1>1, <1>3, <1>6, <2>1 DEF Stable, logVars
  <2>3. \A i \in next .. appliedIndex : i = next
    BY <1>4, <1>5
  <2>4. Stable(appliedIndex)'
    BY <1>1, <1>3, <1>6, <2>3 DEF Stable, logVars
  <2>5. archive => Along(currentBlock, next)
    BY <1>5 DEF At
  <2>6. archive' => Along(snapshot.head, snapshot.index)'
    BY <1>1, <1>3, <2>5 DEF Along, logVars, dbVars
  <2> QED
    BY <1>1, <1>3, <1>5, <2>2, <2>4, <2>6 DEF SnapshotOK, logVars
<1>8. At(next)'
  BY <1>1, <1>5 DEF At, Along, logVars, dbVars, clusterVars
<1>9. StepOK'
  <2>1. Later => Later'
    BY <1>1 DEF Later, logVars
  <2>2. next = appliedIndex => At(appliedIndex)'
    BY <1>1, <1>8 DEF At, Along
  <2> QED
    BY <1>1, <1>3, <1>5, <1>8, <2>1, <2>2 DEF StepOK, Applied
<1>10. LogOK' /\ RemovedForGood' /\ ChainsOK' /\ HeadsOK'
  BY <1>1, LogSame
<1>11. ArchiveOK'
  BY <1>1 DEF Inv, ArchiveOK, Along, Chain, logVars, dbVars
<1>12. /\ appliedIndex' \in 0 .. Len(log') /\ savedIndex' = appliedIndex'
       /\ up' \in BOOLEAN /\ archive' \in BOOLEAN /\ hardCommit' \in Nat
  BY <1>1 DEF Inv, logVars, dbVars, walVars, Snapshot
<1> QED
  BY <1>1, <1>2, <1>7, <1>9, <1>10, <1>11, <1>12 DEF Inv

---------------------------------------------------------------------------
(* Applying an entry *)

(* After an entry that changes no members the snapshot still has them. *)
LEMMA StillStable ==
  ASSUME Inv, NEW n, n = appliedIndex + 1, appliedIndex < Len(log),
         after[n].addresses = after[appliedIndex].addresses,
         after[n].removed = after[appliedIndex].removed
  PROVE  Stable(n)
<1>1. /\ appliedIndex \in Nat /\ Len(log) \in Nat /\ snapshot.index \in Nat
      /\ Stable(snapshot.index) /\ Stable(appliedIndex)
  BY Ranges DEF Inv, SnapshotOK
<1>2. ASSUME NEW i \in snapshot.index .. n
      PROVE  after[i].addresses = snapshot.addresses /\ after[i].removed = snapshot.removed
  <2>1. CASE i \in snapshot.index .. appliedIndex
    BY <1>1, <2>1 DEF Stable
  <2>2. CASE i = snapshot.index
    BY <1>1, <2>2 DEF Stable
  <2>3. CASE i = n /\ i # snapshot.index
    <3>1. appliedIndex \in snapshot.index .. appliedIndex
      BY <1>1, <2>3
    <3> QED
      BY <1>1, <2>3, <3>1 DEF Stable
  <2>4. i \in snapshot.index .. appliedIndex \/ i = n
    BY <1>1, <1>2
  <2> QED
    BY <2>1, <2>2, <2>3, <2>4
<1> QED
  BY <1>2 DEF Stable

LEMMA ApplyBlockInv ==
  ASSUME Inv, ApplyBlock PROVE Inv'
<1>1. UNCHANGED <<logVars, clusterVars, appliedIndex, savedIndex, snapshot, up>>
  BY DEF ApplyBlock
<1>2. PICK n : n = appliedIndex + 1
  OBVIOUS
<1>3. /\ up /\ todo = <<>> /\ appliedIndex < Len(log) /\ log[n].type = "block"
      /\ next' = n /\ todo' = <<"advance">>
  BY <1>2 DEF ApplyBlock, Applying, Ready, Entry
<1>4. IF n \notin stored /\ log[n].parent = currentBlock THEN Insert(n) ELSE UNCHANGED dbVars
  BY <1>2 DEF ApplyBlock, Entry
<1>5. /\ n \in 1 .. Len(log) /\ n - 1 = appliedIndex /\ n \in Nat
      /\ Follows(after[n], after[appliedIndex], log[n], n)
  BY <1>2, <1>3, NextEntry
<1>6. /\ after[n].addresses = after[appliedIndex].addresses
      /\ after[n].removed = after[appliedIndex].removed
  BY <1>3, <1>5 DEF Follows
<1>7. UNCHANGED archive
  BY <1>4 DEF Insert, dbVars
<1>8. ASSUME archive
      PROVE  /\ Along(currentBlock', n)
             /\ stored' = Chain(currentBlock') /\ stored' \subseteq flushed'
  <2>1. stored = Chain(currentBlock) /\ stored \subseteq flushed
    BY <1>8 DEF Inv, ArchiveOK
  <2>2. CASE n \notin stored /\ log[n].parent = currentBlock
    <3>1. Along(n, n) /\ Chain(currentBlock) \subseteq Chain(n)
      BY <1>2, <1>3, <1>8, <2>2, NextBlock
    <3>2. /\ stored' = stored \cup Chain(n) /\ currentBlock' = n
          /\ flushed' = flushed \cup Chain(n)
      BY <1>4, <1>8, <2>2 DEF Insert
    <3> QED
      BY <2>1, <3>1, <3>2
  <2>3. CASE ~(n \notin stored /\ log[n].parent = currentBlock)
    <3>1. Along(currentBlock, n)
      BY <1>2, <1>3, <1>8, <2>3, NextBlock
    <3>2. UNCHANGED <<stored, flushed, currentBlock>>
      BY <1>4, <2>3 DEF dbVars
    <3> QED
      BY <2>1, <3>1, <3>2
  <2> QED
    BY <2>2, <2>3
<1>9. LogOK' /\ RemovedForGood' /\ ChainsOK' /\ HeadsOK'
  BY <1>1, LogSame
<1>10. SnapshotOK'
  BY <1>1, <1>7 DEF Inv, SnapshotOK, Stable, Along, logVars
<1>11. ArchiveOK'
  <2>1. ASSUME archive PROVE Along(currentBlock', appliedIndex)
    <3>1. PICK i \in n .. Len(log) : currentBlock' = after[i].head
      BY <1>8, <2>1 DEF Along
    <3>2. i \in appliedIndex .. Len(log)
      BY <1>5, <3>1, Ranges
    <3> QED
      BY <3>1, <3>2 DEF Along
  <2> QED
    BY <1>1, <1>7, <1>8, <2>1 DEF ArchiveOK, Along, Chain, logVars
<1>12. At(next)'
  <2>1. At(appliedIndex)
    BY <1>3 DEF Inv, StepOK
  <2> QED
    BY <1>1, <1>3, <1>6, <1>7, <1>8, <2>1 DEF At, Along, logVars, clusterVars
<1>13. Stable(n)
  BY <1>2, <1>3, <1>6, StillStable
<1>14. StepOK'
  <2>1. Stable(next)'
    BY <1>1, <1>3, <1>13 DEF Stable, logVars
  <2>2. Later'
    BY <1>1, <1>2, <1>3, <1>5 DEF Later, logVars
  <2> QED
    BY <1>3, <1>12, <2>1, <2>2 DEF StepOK, Applied
<1>15. /\ appliedIndex' \in 0 .. Len(log') /\ savedIndex' = appliedIndex'
       /\ up' \in BOOLEAN /\ archive' \in BOOLEAN /\ hardCommit' \in Nat
  BY <1>1, <1>7 DEF Inv, logVars, walVars, ApplyBlock
<1> QED
  BY <1>1, <1>3, <1>9, <1>10, <1>11, <1>14, <1>15 DEF Inv

(* A change of the cluster forces a snapshot, unless the raft id was       *)
(* removed before: then neither the addresses nor the removed ids change.  *)
LEMMA ConfChangeInv ==
  ASSUME Inv, AddNode \/ RemoveNode PROVE Inv'
<1>1. UNCHANGED <<logVars, dbVars, appliedIndex, savedIndex, snapshot, up>>
  BY DEF AddNode, RemoveNode
<1>2. PICK n : n = appliedIndex + 1
  OBVIOUS
<1>3. /\ up /\ todo = <<>> /\ appliedIndex < Len(log) /\ log[n].type \in {"add", "remove"}
      /\ next' = n /\ todo' = Forced(log[n].id)
  BY <1>2 DEF AddNode, RemoveNode, Applying, Ready, Entry
<1>4. /\ n \in 1 .. Len(log) /\ n - 1 = appliedIndex /\ n \in Nat
      /\ Follows(after[n], after[appliedIndex], log[n], n)
      /\ after[appliedIndex] \in States
  BY <1>2, <1>3, NextEntry
<1>5. PICK id : id = log[n].id
  OBVIOUS
<1>6. At(appliedIndex)
  BY <1>3 DEF Inv, StepOK
<1>7. after[appliedIndex].addresses \cap after[appliedIndex].removed = {}
  BY DEF Inv, RemovedForGood
<1>8. /\ peers' = after[n].addresses /\ removedPeers' = after[n].removed
      /\ peers' \subseteq confState' /\ confState' \subseteq peers' \cup removedPeers'
  <2>1. CASE AddNode
    <3>1. log[n].type = "add" /\ confState' = confState \cup {id} /\ removedPeers' = removedPeers
          /\ peers' = IF id \in removedPeers THEN peers ELSE peers \cup {id}
      BY <1>2, <1>5, <2>1 DEF AddNode, Applying, Entry
    <3> QED
      BY <1>4, <1>5, <1>6, <3>1 DEF Follows, At
  <2>2. CASE RemoveNode
    <3>1. log[n].type = "remove" /\ confState' = confState \ {id}
          /\ removedPeers' = removedPeers \cup {id} /\ peers' = peers \ {id}
      BY <1>2, <1>5, <2>2 DEF RemoveNode, Applying, Entry
    <3> QED
      BY <1>4, <1>5, <1>6, <3>1 DEF Follows, At
  <2> QED
    BY <2>1, <2>2
<1>9. archive => Along(currentBlock, n)
  <2>1. after[n].head = after[appliedIndex].head
    BY <1>3, <1>4 DEF Follows
  <2> QED
    BY <1>2, <1>3, <2>1, SameHead DEF Inv, ArchiveOK
<1>10. At(next)'
  BY <1>1, <1>3, <1>8, <1>9 DEF At, Along, logVars, dbVars
<1>11. Later'
  BY <1>1, <1>2, <1>3, <1>4 DEF Later, logVars
<1>12. ASSUME id \in removedPeers PROVE Stable(next)'
  <2>1. /\ after[n].addresses = after[appliedIndex].addresses
        /\ after[n].removed = after[appliedIndex].removed
    <3>1. id \in after[appliedIndex].removed
      BY <1>6, <1>12 DEF At
    <3>2. id \notin after[appliedIndex].addresses
      BY <1>7, <3>1
    <3>3. CASE log[n].type = "add"
      BY <1>4, <1>5, <3>1, <3>3 DEF Follows
    <3>4. CASE log[n].type = "remove"
      <4>1. /\ after[n].addresses = after[appliedIndex].addresses \ {id}
            /\ after[n].removed = after[appliedIndex].removed \cup {id}
        BY <1>4, <1>5, <3>4 DEF Follows
      <4> QED
        BY <3>1, <3>2, <4>1
    <3> QED
      BY <1>3, <3>3, <3>4
  <2>2. Stable(n)
    BY <1>2, <1>3, <2>1, StillStable
  <2> QED
    BY <1>1, <1>3, <2>2 DEF Stable, logVars
<1>13. StepOK'
  BY <1>3, <1>5, <1>10, <1>11, <1>12 DEF StepOK, Applied, Forced
<1>14. hardCommit' \in Nat
  BY DEF Inv, AddNode, RemoveNode, walVars
<1> QED
  BY <1>1, <1>3, <1>13, <1>14, OnlyStep

---------------------------------------------------------------------------
(* Snapshots of the leader, crashes and restarts *)

LEMMA InstallInv ==
  ASSUME Inv, InstallSnapshot PROVE Inv'
<1>1. UNCHANGED <<logVars, dbVars, clusterVars, appliedIndex, savedIndex, up, hardCommit>>
  BY DEF InstallSnapshot, walVars
<1>2. PICK i \in appliedIndex + 1 .. Len(log) :
        /\ after[i].conf \subseteq after[i].addresses
        /\ snapshot' = [after[i] EXCEPT !.addresses = after[i].conf] /\ next' = i
  BY DEF InstallSnapshot
<1>3. up /\ todo = <<>> /\ todo' = <<"wal", "apply", "advance">>
  BY DEF InstallSnapshot, Ready
<1>4. /\ appliedIndex \in Nat /\ Len(log) \in Nat /\ appliedIndex <= Len(log)
      /\ i \in 1 .. Len(log) /\ i \in 0 .. Len(log) /\ i - 1 \in 0 .. Len(log) /\ i \in Nat
  BY Ranges
<1>5. after[i].index = i
  <2>1. after[i - 1] \in States /\ log[i] \in Entries
    BY <1>4 DEF Inv, LogOK
  <2>2. after[i] = AfterEntry(after[i - 1], log[i], i)
    BY <1>4 DEF Inv, LogOK
  <2>3. Follows(after[i], after[i - 1], log[i], i)
    BY <1>4, <2>1, <2>2, EntryState
  <2> QED
    BY <2>3 DEF Follows
<1>6. /\ snapshot'.index = i /\ snapshot'.head = after[i].head
      /\ snapshot'.conf = after[i].conf /\ snapshot'.addresses = after[i].conf
      /\ snapshot'.removed = after[i].removed
  <2>1. after[i] \in States
    BY <1>4 DEF Inv, LogOK
  <2> QED
    BY <1>2, <1>5, <2>1 DEF States
<1>7. after[i].addresses = after[i].conf
  BY <1>2, <1>4 DEF Inv, RemovedForGood
<1>8. SnapshotOK'
  <2>1. \A k \in i .. i : k = i
    BY <1>4
  <2>2. \A k \in i .. appliedIndex : FALSE
    BY <1>2, <1>4
  <2>3. Stable(snapshot.index)' /\ Stable(appliedIndex)'
    BY <1>1, <1>6, <1>7, <2>1, <2>2 DEF Stable, logVars
  <2>4. Along(snapshot.head, snapshot.index)'
    <3>1. i \in i .. Len(log) /\ log' = log /\ after' = after
      BY <1>1, <1>4 DEF logVars
    <3> QED
      BY <1>6, <3>1 DEF Along
  <2> QED
    BY <1>1, <1>4, <1>6, <2>3, <2>4 DEF SnapshotOK, logVars
<1>9. StepOK'
  <2>1. At(appliedIndex)
    BY <1>3 DEF Inv, StepOK
  <2>2. At(appliedIndex)'
    BY <1>1, <2>1 DEF At, Along, logVars, dbVars, clusterVars
  <2>3. Later' /\ snapshot'.index = next'
    BY <1>1, <1>2, <1>6 DEF Later, logVars
  <2> QED
    BY <1>3, <2>2, <2>3 DEF StepOK, Installing
<1>10. LogOK' /\ RemovedForGood' /\ ChainsOK' /\ HeadsOK'
  BY <1>1, LogSame
<1>11. ArchiveOK'
  BY <1>1 DEF Inv, ArchiveOK, Along, Chain, logVars, dbVars
<1>12. /\ appliedIndex' \in 0 .. Len(log') /\ savedIndex' = appliedIndex'
       /\ up' \in BOOLEAN /\ archive' \in BOOLEAN /\ hardCommit' \in Nat
  BY <1>1 DEF Inv, logVars, dbVars
<1> QED
  BY <1>1, <1>3, <1>8, <1>9, <1>10, <1>11, <1>12 DEF Inv

(* Taking over a head of the log that is on the chain or ahead of it. *)
LEMMA TakeHead ==
  ASSUME Inv, archive, NEW g, Along(g, snapshot.index), UNCHANGED ancestors,
         IF g \in stored THEN UNCHANGED dbVars ELSE Insert(g)
  PROVE  /\ archive' /\ stored' = Chain(currentBlock') /\ stored' \subseteq flushed'
         /\ Along(currentBlock', snapshot.index) /\ Along(currentBlock', appliedIndex)
<1>1. /\ stored = Chain(currentBlock) /\ stored \subseteq flushed
      /\ Along(currentBlock, appliedIndex)
  BY DEF Inv, ArchiveOK
<1>2. appliedIndex \in Nat /\ snapshot.index \in Nat
  BY Ranges
<1>3. CASE g \in stored
  <2>1. UNCHANGED <<stored, flushed, currentBlock, archive>>
    BY <1>3 DEF dbVars
  <2>2. Along(currentBlock, snapshot.index)
    BY <1>1, <1>2, <1>3, Catches
  <2> QED
    BY <1>1, <2>1, <2>2
<1>4. CASE g \notin stored
  <2>1. /\ stored' = stored \cup Chain(g) /\ currentBlock' = g
        /\ flushed' = flushed \cup Chain(g) /\ archive' = archive
    BY <1>4 DEF Insert
  <2>2. Along(g, appliedIndex) /\ Chain(currentBlock) \subseteq Chain(g)
    BY <1>1, <1>2, <1>4, ComesAfter
  <2> QED
    BY <1>1, <2>1, <2>2
<1> QED
  BY <1>3, <1>4

LEMMA ApplySnapshotInv ==
  ASSUME Inv, ApplyRaftSnapshot PROVE Inv'
<1>1. UNCHANGED <<logVars, appliedIndex, savedIndex, snapshot, up, next, hardCommit>>
  BY DEF ApplyRaftSnapshot, walVars
<1>2. /\ up /\ todo # <<>> /\ Head(todo) = "apply" /\ todo' = Tail(todo)
      /\ IF snapshot.head \in stored THEN UNCHANGED dbVars ELSE Insert(snapshot.head)
  BY DEF ApplyRaftSnapshot, Doing
<1>3. Tail(todo) = <<"advance">> /\ Later /\ At(appliedIndex) /\ snapshot.index = next
  BY <1>2, Todo DEF Inv, Installing
<1>4. UNCHANGED archive
  BY <1>2 DEF Insert, dbVars
<1>5. PICK a, n : a = appliedIndex /\ n = next
  OBVIOUS
<1>6. a \in 0 .. Len(log) /\ n \in 0 .. Len(log) /\ a <= n /\ n = snapshot.index
  BY <1>3, <1>5, Ranges DEF Later
<1>7. /\ snapshot.conf = after[n].addresses /\ snapshot.addresses = after[n].addresses
      /\ snapshot.removed = after[n].removed
  <2>1. snapshot.conf = snapshot.addresses /\ Stable(snapshot.index)
    BY DEF Inv, SnapshotOK
  <2>2. n \in snapshot.index .. n
    BY <1>6, Ranges
  <2> QED
    BY <1>6, <2>1, <2>2 DEF Stable
<1>8. /\ peers = after[a].addresses /\ removedPeers = after[a].removed
      /\ peers \subseteq confState /\ confState \subseteq peers \cup removedPeers
  BY <1>3, <1>5 DEF At
<1>9. /\ after[a].removed \subseteq after[n].removed
      /\ after[a].addresses \subseteq after[n].addresses \cup after[n].removed
  BY <1>6 DEF Inv, RemovedForGood
<1>10. /\ confState' = snapshot.conf
       /\ peers' = (peers \ (confState \ snapshot.conf)) \cup snapshot.addresses
       /\ removedPeers' = snapshot.removed \cup (confState \ snapshot.conf)
  BY DEF ApplyRaftSnapshot, UpdateClusterMembership
<1>11. peers' = after[n].addresses /\ confState' = after[n].addresses
  BY <1>7, <1>8, <1>10
<1>12. removedPeers' = after[n].removed
  BY <1>7, <1>8, <1>9, <1>10
<1>13. ASSUME archive
       PROVE  /\ stored' = Chain(currentBlock') /\ stored' \subseteq flushed'
              /\ Along(currentBlock', n) /\ Along(currentBlock', a)
  <2>1. Along(snapshot.head, snapshot.index) /\ UNCHANGED ancestors
    BY <1>1, <1>13 DEF Inv, SnapshotOK, logVars
  <2>2. PICK g : g = snapshot.head
    OBVIOUS
  <2> QED
    BY <1>2, <1>5, <1>6, <1>13, <2>1, <2>2, TakeHead
<1>14. LogOK' /\ RemovedForGood' /\ ChainsOK' /\ HeadsOK'
  BY <1>1, LogSame
<1>15. SnapshotOK'
  BY <1>1, <1>4 DEF Inv, SnapshotOK, Stable, Along, logVars
<1>16. ArchiveOK'
  BY <1>1, <1>4, <1>5, <1>13 DEF ArchiveOK, Along, Chain, logVars
<1>17. At(next)'
  BY <1>1, <1>4, <1>5, <1>11, <1>12, <1>13 DEF At, Along, logVars
<1>18. StepOK'
  <2>1. Later' /\ Stable(next)'
    BY <1>1, <1>3 DEF Later, Stable, Inv, SnapshotOK, logVars
  <2> QED
    BY <1>2, <1>3, <1>17, <2>1 DEF StepOK, Applied
<1>19. /\ appliedIndex' \in 0 .. Len(log') /\ savedIndex' = appliedIndex'
       /\ up' \in BOOLEAN /\ archive' \in BOOLEAN /\ hardCommit' \in Nat
  BY <1>1, <1>4 DEF Inv, logVars
<1> QED
  BY <1>1, <1>2, <1>14, <1>15, <1>16, <1>18, <1>19 DEF Inv

(* An archive node comes back with the head that it had. *)
LEMMA CrashInv ==
  ASSUME Inv, Crash PROVE Inv'
<1>1. UNCHANGED <<logVars, stored, flushed, archive, appliedIndex, savedIndex, snapshot, hardCommit>>
      /\ up' = FALSE /\ todo' = <<>>
  BY DEF Crash, walVars
<1>2. ASSUME archive PROVE currentBlock' = currentBlock
  <2>1. /\ stored = Chain(currentBlock) /\ stored \subseteq flushed
        /\ Along(currentBlock, appliedIndex) /\ appliedIndex \in Nat
    BY <1>2, Ranges DEF Inv, ArchiveOK
  <2>2. PICK c, S : c = currentBlock /\ S = Chain(currentBlock)
    OBVIOUS
  <2>3. c \in S /\ S \subseteq 0 .. c /\ c \in Nat
    <3>1. c \in S /\ S \subseteq 0 .. c /\ c \in 0 .. Len(log)
      BY <2>1, <2>2, HeadOf
    <3> QED
      BY <3>1, Ranges
  <2>4. currentBlock' = Max(S)
    BY <2>1, <2>2 DEF Crash
  <2>5. c \in S /\ \A y \in S : c >= y
    BY <2>3
  <2>6. Max(S) \in S /\ Max(S) >= c
    BY <2>3, <2>5 DEF Max
  <2> QED
    BY <2>2, <2>3, <2>4, <2>6
<1>3. LogOK' /\ RemovedForGood' /\ ChainsOK' /\ HeadsOK'
  BY <1>1, LogSame
<1>4. SnapshotOK'
  BY <1>1 DEF Inv, SnapshotOK, Stable, Along, logVars
<1>5. ArchiveOK'
  BY <1>1, <1>2 DEF Inv, ArchiveOK, Along, Chain, logVars
<1>6. /\ appliedIndex' \in 0 .. Len(log') /\ savedIndex' = appliedIndex'
      /\ up' \in BOOLEAN /\ archive' \in BOOLEAN /\ hardCommit' \in Nat
  BY <1>1 DEF Inv, logVars
<1> QED
  BY <1>1, <1>3, <1>4, <1>5, <1>6 DEF Inv

LEMMA BlockNumbers ==
  ASSUME Inv, NEW b \in BlockIds PROVE b \in Nat
<1>1. b \in 0 .. Len(log)
  BY Ranges DEF BlockIds
<1> QED
  BY <1>1, Ranges

(* No stored block is higher than a head whose chain has all of them. *)
LEMMA NothingReplayed ==
  ASSUME Inv, NEW head \in BlockIds, stored \subseteq Chain(head)
  PROVE  Replayed(head) = {}
<1>1. IsFiniteSet(Chain(head)) /\ Chain(head) \subseteq BlockIds
  <2>1. Chain(head) \subseteq 0 .. head /\ Chain(head) \subseteq BlockIds
    BY DEF Inv, ChainsOK
  <2>2. IsFiniteSet(0 .. head)
    BY BlockNumbers, FS_Interval
  <2> QED
    BY <2>1, <2>2, FS_Subset
<1>2. ASSUME NEW i \in stored PROVE ~(NumberOf(i) > NumberOf(head))
  <2>1. Chain(i) \subseteq Chain(head)
    BY <1>2 DEF Inv, ChainsOK
  <2>2. /\ Cardinality(Chain(i)) <= Cardinality(Chain(head))
        /\ Cardinality(Chain(i)) \in Nat /\ Cardinality(Chain(head)) \in Nat
    BY <1>1, <2>1, FS_Subset, FS_CardinalityType
  <2> QED
    BY <2>2 DEF NumberOf
<1> QED
  BY <1>2 DEF Replayed

LEMMA RestartInv ==
  ASSUME Inv, Restart PROVE Inv'
<1>1. UNCHANGED <<logVars, snapshot, todo, next, hardCommit>> /\ ~up /\ up' = TRUE
  BY DEF Restart, walVars
<1>2. todo = <<>>
  BY <1>1 DEF Inv
<1>3. /\ appliedIndex \in 0 .. Len(log) /\ savedIndex = appliedIndex /\ Len(log) \in Nat
      /\ hardCommit \in Nat /\ snapshot.index \in 0 .. Len(log)
      /\ Stable(snapshot.index) /\ Stable(appliedIndex) /\ snapshot.conf = snapshot.addresses
  <2>1. SnapshotOK /\ appliedIndex \in 0 .. Len(log) /\ savedIndex = appliedIndex
        /\ hardCommit \in Nat
    BY DEF Inv
  <2>2. Len(log) \in Nat
    BY Ranges
  <2> QED
    BY <2>1, <2>2 DEF SnapshotOK
<1>4. PICK k : k = appliedIndex'
  OBVIOUS
<1>5. /\ savedIndex' = k
      /\ k = snapshot.index \/ (k = appliedIndex /\ snapshot.index <= appliedIndex)
  <2> DEFINE m == Min({savedIndex, hardCommit})
  <2>1. \E x \in {savedIndex, hardCommit} : \A y \in {savedIndex, hardCommit} : x =< y
    BY <1>3
  <2>2. m \in {savedIndex, hardCommit} /\ m =< savedIndex
    BY <2>1 DEF Min
  <2>3. /\ savedIndex' = IF snapshot.index > m THEN snapshot.index ELSE savedIndex
        /\ appliedIndex' = IF snapshot.index > m THEN snapshot.index ELSE savedIndex
    BY DEF Restart
  <2> HIDE DEF m
  <2>4. savedIndex \in Nat /\ snapshot.index \in Nat /\ m \in Nat
    BY <2>2, Ranges
  <2>5. CASE snapshot.index > m
    BY <1>4, <2>3, <2>5
  <2>6. CASE ~(snapshot.index > m)
    BY <1>3, <1>4, <2>2, <2>3, <2>4, <2>6
  <2> QED
    BY <2>5, <2>6
<1>6. k \in 0 .. Len(log) /\ k \in snapshot.index .. k
  BY <1>5, Ranges
<1>7. after[k].addresses = snapshot.addresses /\ after[k].removed = snapshot.removed
  BY <1>3, <1>5, <1>6 DEF Stable
<1>8. /\ confState' = snapshot.conf /\ peers' = snapshot.addresses
      /\ removedPeers' = snapshot.removed
  BY DEF Restart, UpdateClusterMembership
<1>9. /\ peers' = after[k].addresses /\ removedPeers' = after[k].removed
      /\ peers' \subseteq confState' /\ confState' \subseteq peers' \cup removedPeers'
  BY <1>3, <1>7, <1>8
<1>10. UNCHANGED archive
  BY DEF Restart, Insert, dbVars
<1>11. ASSUME archive
       PROVE  /\ stored' = Chain(currentBlock') /\ stored' \subseteq flushed'
              /\ Along(currentBlock', k)
  <2>1. /\ stored = Chain(currentBlock) /\ stored \subseteq flushed
        /\ Along(currentBlock, appliedIndex) /\ Along(snapshot.head, snapshot.index)
    BY <1>11 DEF Inv, ArchiveOK, SnapshotOK
  <2>2. PICK c, g : c = currentBlock /\ g = snapshot.head
    OBVIOUS
  <2>3. PICK h : h = IF g \in stored THEN c ELSE g
    OBVIOUS
  <2>4. appliedIndex \in Nat /\ snapshot.index \in Nat
    BY Ranges
  <2>5. c \in BlockIds /\ c \in Chain(c) /\ g \in BlockIds
    BY <2>1, <2>2, <2>4, HeadOf
  <2>6. h \in BlockIds /\ stored \subseteq Chain(h)
    <3>1. CASE g \in stored
      BY <2>1, <2>2, <2>3, <2>5, <3>1
    <3>2. CASE g \notin stored
      <4>1. Chain(c) \subseteq Chain(g)
        BY <2>1, <2>2, <2>4, <3>2, ComesAfter
      <4> QED
        BY <2>1, <2>2, <2>3, <2>5, <3>2, <4>1
    <3> QED
      BY <3>1, <3>2
  <2>7. h \in Nat
    BY <2>6, BlockNumbers
  <2>8. Max(Replayed(h) \cup {h}) = h
    <3>1. Replayed(h) = {}
      BY <2>6, NothingReplayed
    <3>2. Max({h}) = h
      BY <2>7 DEF Max
    <3> QED
      BY <3>1, <3>2
  <2>9. IF h = currentBlock THEN UNCHANGED dbVars ELSE Insert(h)
    BY <2>2, <2>3, <2>8 DEF Restart
  <2>10. IF g \in stored THEN UNCHANGED dbVars ELSE Insert(g)
    <3>1. c \in stored
      BY <2>1, <2>2, <2>5
    <3> QED
      BY <2>2, <2>3, <2>9, <3>1
  <2>11. UNCHANGED ancestors
    BY <1>1 DEF logVars
  <2>12. /\ stored' = Chain(currentBlock') /\ stored' \subseteq flushed'
         /\ Along(currentBlock', snapshot.index) /\ Along(currentBlock', appliedIndex)
    BY <1>11, <2>1, <2>2, <2>10, <2>11, TakeHead
  <2> QED
    BY <1>5, <2>12
<1>12. LogOK' /\ RemovedForGood' /\ ChainsOK' /\ HeadsOK'
  BY <1>1, LogSame
<1>13. SnapshotOK'
  <2>1. Stable(k)
    BY <1>3, <1>5
  <2>2. Stable(snapshot.index)' /\ Stable(appliedIndex)'
    BY <1>1, <1>3, <1>4, <2>1 DEF Stable, logVars
  <2>3. archive' => Along(snapshot.head, snapshot.index)'
    BY <1>1, <1>10 DEF Inv, SnapshotOK, Along, logVars
  <2> QED
    BY <1>1, <1>3, <2>2, <2>3 DEF SnapshotOK, logVars
<1>14. ArchiveOK'
  BY <1>1, <1>4, <1>10, <1>11 DEF ArchiveOK, Along, Chain, logVars
<1>15. At(appliedIndex)'
  BY <1>1, <1>4, <1>9, <1>10, <1>11 DEF At, Along, logVars
<1>16. StepOK'
  BY <1>1, <1>2, <1>15 DEF StepOK
<1>17. /\ appliedIndex' \in 0 .. Len(log') /\ savedIndex' = appliedIndex'
       /\ up' \in BOOLEAN /\ archive' \in BOOLEAN /\ hardCommit' \in Nat
  BY <1>1, <1>3, <1>4, <1>5, <1>6, <1>10 DEF Inv, logVars
<1> QED
  BY <1>1, <1>12, <1>13, <1>14, <1>16, <1>17 DEF Inv

---------------------------------------------------------------------------
LEMMA InvInit == Init => Inv
<1> SUFFICES ASSUME Init PROVE Inv
  OBVIOUS
<1>1. /\ log = <<>> /\ Len(log) = 0 /\ ancestors[0] = {0}
      /\ appliedIndex = 0 /\ savedIndex = 0 /\ hardCommit = 0
      /\ stored = {0} /\ flushed = {0} /\ currentBlock = 0 /\ archive \in BOOLEAN
      /\ confState = {} /\ peers = {} /\ removedPeers = {} /\ up = TRUE /\ todo = <<>>
  BY DEF Init
<1>2. /\ snapshot = [index |-> 0, head |-> 0, conf |-> {}, addresses |-> {}, removed |-> {}]
      /\ after[0] = snapshot
  BY DEF Init
<1>3. /\ snapshot.index = 0 /\ snapshot.head = 0 /\ snapshot.conf = {}
      /\ snapshot.addresses = {} /\ snapshot.removed = {}
  BY <1>2
<1>4. /\ 0 .. 0 = {0} /\ 1 .. 0 = {}
  OBVIOUS
<1>5. BlockIds = {0}
  BY <1>1, <1>4 DEF BlockIds
<1>6. LogOK
  <2>1. snapshot \in States
    BY <1>2 DEF States
  <2>2. log \in Seq(Entries)
    BY <1>1
  <2> QED
    BY <1>1, <1>2, <1>4, <2>1, <2>2 DEF LogOK
<1>7. RemovedForGood
  BY <1>1, <1>2, <1>3, <1>4 DEF RemovedForGood
<1>8. ChainsOK /\ HeadsOK
  BY <1>1, <1>2, <1>3, <1>4, <1>5 DEF ChainsOK, HeadsOK, Chain
<1>9. Along(0, 0)
  BY <1>1, <1>2, <1>3, <1>4 DEF Along
<1>10. SnapshotOK
  BY <1>1, <1>2, <1>3, <1>4, <1>9 DEF SnapshotOK, Stable
<1>11. ArchiveOK
  BY <1>1, <1>9 DEF ArchiveOK, Chain
<1>12. StepOK
  BY <1>1, <1>2, <1>3, <1>9 DEF StepOK, At
<1> QED
  BY <1>1, <1>6, <1>7, <1>8, <1>10, <1>11, <1>12 DEF Inv

LEMMA InvAlways == Spec => []Inv
<1>1. ASSUME Inv, [Next]_vars PROVE Inv'
  BY <1>1, CommitInv, QuietInv, FlushInv, ApplyBlockInv, ConfChangeInv, TriggerInv,
     SnapshotInv, SaveWalInv, AdvanceInv, InstallInv, ApplySnapshotInv, CrashInv, RestartInv
  DEF Next
<1>2. Inv /\ [Next]_vars => Inv'
  BY <1>1
<1> QED
  BY <1>2, InvInit, PTL DEF Spec

(* Between two entries a node knows the peers and the removed raft ids     *)
(* that the applied prefix of the log gives, wherever crashes, restarts    *)
(* and snapshots came between: every entry that changes them has a         *)
(* snapshot in front of its index, and startRaft begins from there.        *)
THEOREM MembersAreKept == Spec => []MembersKept
<1>1. ASSUME Inv, Ready PROVE At(appliedIndex)
  <2>1. up /\ todo = <<>> /\ StepOK
    BY <1>1 DEF Inv, Ready
  <2> QED
    BY <2>1 DEF StepOK
<1>2. Inv => MembersKept
  BY <1>1 DEF At, MembersKept
<1> QED
  BY <1>2, InvAlways, PTL

(* The head of an archive node is a head that the log orders, never before *)
(* the applied index: a block applied twice, or after a crash that lost    *)
(* its index, does not leave the chain.                                    *)
THEOREM ArchiveChainAgreed == Spec => []ChainIsAgreed
<1>1. Inv => ChainIsAgreed
  BY DEF Inv, ArchiveOK, Along, ChainIsAgreed
<1> QED
  BY <1>1, InvAlways, PTL
===========================================================================
