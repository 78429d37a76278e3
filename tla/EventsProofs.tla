--------------------------- MODULE EventsProofs ----------------------------
(***************************************************************************)
(* Proofs about TypeMux, for any subscriptions, posters and posts, and     *)
(* about Feed, for any channels and senders.                               *)
(***************************************************************************)
EXTENDS MCEvents, SequenceTheorems, TLAPS

(* Sequences without repetition: the slices of subscriptions and cases. *)

LEMMA RangeOf ==
  ASSUME NEW S, NEW q \in Seq(S)
  PROVE  /\ Range(q) \subseteq S
         /\ \A x : x \in Range(q) <=> \E i \in 1 .. Len(q) : q[i] = x
  BY DEF Range

LEMMA TailOf ==
  ASSUME NEW S, NEW q \in Seq(S), q # <<>>
  PROVE  /\ Head(q) \in S /\ Head(q) \in Range(q)
         /\ Tail(q) \in Seq(S) /\ Range(Tail(q)) \subseteq Range(q)
<1>1. /\ Len(q) \in Nat /\ Len(q) # 0 /\ Head(q) = q[1] /\ q[1] \in S
      /\ Tail(q) \in Seq(S) /\ Len(Tail(q)) = Len(q) - 1
      /\ \A i \in 1 .. Len(q) - 1 : Tail(q)[i] = q[i + 1]
  OBVIOUS
<1>2. \A i \in 1 .. Len(Tail(q)) : i + 1 \in 1 .. Len(q)
  BY <1>1
<1> QED
  BY <1>1, <1>2 DEF Range

LEMMA AppendOf ==
  ASSUME NEW S, NEW q \in Seq(S), NEW x \in S
  PROVE  /\ Append(q, x) \in Seq(S)
         /\ Range(Append(q, x)) = Range(q) \cup {x}
         /\ IsInjective(q) /\ x \notin Range(q) => IsInjective(Append(q, x))
<1>1. /\ Append(q, x) \in Seq(S) /\ Len(Append(q, x)) = Len(q) + 1 /\ Len(q) \in Nat
      /\ \A i \in 1 .. Len(q) : Append(q, x)[i] = q[i]
      /\ Append(q, x)[Len(q) + 1] = x
      /\ DOMAIN q = 1 .. Len(q) /\ DOMAIN Append(q, x) = 1 .. Len(q) + 1
  OBVIOUS
<1>2. Range(Append(q, x)) \subseteq Range(q) \cup {x}
  BY <1>1 DEF Range
<1>3. Range(q) \cup {x} \subseteq Range(Append(q, x))
  BY <1>1 DEF Range
<1>4. ASSUME IsInjective(q), x \notin Range(q),
             NEW i \in 1 .. Len(q) + 1, NEW j \in 1 .. Len(q) + 1,
             Append(q, x)[i] = Append(q, x)[j]
      PROVE  i = j
  <2>1. \A k \in 1 .. Len(q) : q[k] # x
    BY Zenon, <1>1, <1>4 DEF Range
  <2>2. CASE i \in 1 .. Len(q) /\ j \in 1 .. Len(q)
    BY Zenon, <1>1, <1>4, <2>2 DEF IsInjective
  <2>3. CASE i = Len(q) + 1 \/ j = Len(q) + 1
    BY <1>1, <1>4, <2>1, <2>3
  <2> QED
    BY <1>1, <2>2, <2>3
<1>5. IsInjective(q) /\ x \notin Range(q) => IsInjective(Append(q, x))
  BY Zenon, <1>1, <1>4 DEF IsInjective
<1> QED
  BY Zenon, <1>1, <1>2, <1>3, <1>5

LEMMA PosDeleteOf ==
  ASSUME NEW S, NEW q \in Seq(S), NEW i \in 1 .. Len(q)
  PROVE  /\ PosDelete(q, i) \in Seq(S) /\ Len(PosDelete(q, i)) = Len(q) - 1
         /\ \A k \in 1 .. Len(q) - 1 : PosDelete(q, i)[k] = IF k < i THEN q[k] ELSE q[k + 1]
<1> DEFINE a == SubSeq(q, 1, i - 1)
           b == SubSeq(q, i + 1, Len(q))
<1>1. Len(q) \in Nat /\ i \in Nat
  OBVIOUS
<1>2. /\ a \in Seq(S) /\ Len(a) = i - 1 /\ \A k \in 1 .. i - 1 : a[k] = q[k]
      /\ b \in Seq(S) /\ Len(b) = Len(q) - i /\ \A k \in 1 .. Len(q) - i : b[k] = q[i + k]
  BY <1>1
<1>3. PosDelete(q, i) = a \o b
  BY Zenon DEF PosDelete
<1> HIDE DEF a, b
<1>4. /\ a \o b \in Seq(S) /\ Len(a \o b) = Len(a) + Len(b)
      /\ \A k \in 1 .. Len(a) + Len(b) :
           (a \o b)[k] = IF k <= Len(a) THEN a[k] ELSE b[k - Len(a)]
  <2>1. a \in Seq(S) /\ b \in Seq(S)
    BY Zenon, <1>2
  <2> QED
    BY Zenon, <2>1, ConcatProperties
<1>5. ASSUME NEW k \in 1 .. Len(q) - 1
      PROVE  (a \o b)[k] = IF k < i THEN q[k] ELSE q[k + 1]
  <2>1. CASE k < i
    BY <1>1, <1>2, <1>4, <2>1
  <2>2. CASE ~(k < i)
    <3>1. k - Len(a) \in 1 .. Len(q) - i /\ i + (k - Len(a)) = k + 1 /\ ~(k <= Len(a))
      BY <1>1, <1>2, <2>2
    <3>2. k \in 1 .. Len(a) + Len(b)
      BY <1>1, <1>2
    <3>3. (a \o b)[k] = b[k - Len(a)]
      BY Zenon, <1>4, <3>1, <3>2
    <3>4. b[k - Len(a)] = q[i + (k - Len(a))]
      BY Zenon, <1>2, <3>1
    <3> QED
      BY Zenon, <2>2, <3>1, <3>3, <3>4
  <2> QED
    BY Zenon, <2>1, <2>2
<1> QED
  BY <1>1, <1>2, <1>3, <1>4, <1>5

LEMMA WithoutOf ==
  ASSUME NEW S, NEW q \in Seq(S), NEW s, IsInjective(q)
  PROVE  /\ Without(q, s) \in Seq(S) /\ IsInjective(Without(q, s))
         /\ Range(Without(q, s)) \subseteq Range(q) \ {s}
<1> DEFINE d == Without(q, s)
<1>1. CASE s \notin Range(q)
  BY Zenon, <1>1 DEF Without
<1>2. CASE s \in Range(q)
  <2> DEFINE i == CHOOSE k \in DOMAIN q : q[k] = s
  <2>1. i \in 1 .. Len(q) /\ q[i] = s /\ d = PosDelete(q, i) /\ DOMAIN q = 1 .. Len(q)
    BY <1>2 DEF Without, Find, Range
  <2> HIDE DEF i
  <2>2. /\ d \in Seq(S) /\ Len(d) = Len(q) - 1 /\ DOMAIN d = 1 .. Len(q) - 1 /\ Len(q) \in Nat
        /\ \A k \in 1 .. Len(q) - 1 : d[k] = IF k < i THEN q[k] ELSE q[k + 1]
    <3> DEFINE r == PosDelete(q, i)
    <3>1. /\ r \in Seq(S) /\ Len(r) = Len(q) - 1
          /\ \A k \in 1 .. Len(q) - 1 : r[k] = IF k < i THEN q[k] ELSE q[k + 1]
      BY Zenon, <2>1, PosDeleteOf
    <3>2. d = r
      BY Zenon, <2>1
    <3> HIDE DEF r, d
    <3>3. DOMAIN r = 1 .. Len(q) - 1 /\ Len(q) \in Nat
      BY <3>1
    <3> QED
      BY Zenon, <3>1, <3>2, <3>3
  <2> HIDE DEF d
  <2>3. ASSUME NEW k \in 1 .. Len(q) - 1, NEW l \in 1 .. Len(q) - 1, d[k] = d[l]
        PROVE  k = l
    <3>1. \A m, n \in 1 .. Len(q) : q[m] = q[n] => m = n
      BY Zenon, <2>1 DEF IsInjective
    <3> DEFINE m == IF k < i THEN k ELSE k + 1
               n == IF l < i THEN l ELSE l + 1
    <3>2. m \in 1 .. Len(q) /\ n \in 1 .. Len(q)
      BY <2>1, <2>2
    <3>3. d[k] = q[m] /\ d[l] = q[n]
      BY Zenon, <2>2
    <3>4. m = n
      BY Zenon, <2>3, <3>1, <3>2, <3>3
    <3> QED
      BY <2>1, <2>2, <3>4
  <2>4. ASSUME NEW k \in 1 .. Len(q) - 1 PROVE d[k] \in Range(q) \ {s}
    <3>1. \E m \in 1 .. Len(q) : m # i /\ d[k] = q[m]
      BY <2>1, <2>2
    <3> QED
      BY Zenon, <2>1, <3>1 DEF IsInjective, Range
  <2>5. Range(d) \subseteq Range(q) \ {s}
    BY Zenon, <2>2, <2>4 DEF Range
  <2>6. IsInjective(d)
    BY Zenon, <2>2, <2>3 DEF IsInjective
  <2> QED
    BY Zenon, <2>2, <2>5, <2>6 DEF d
<1> QED
  BY Zenon, <1>1, <1>2

---------------------------------------------------------------------------
(* The inductive invariant *)

Types ==
  /\ sub \in [Subs -> {"none", "created", "live", "deleted", "closing", "unsubscribed"}]
  /\ closed \in [Subs -> BOOLEAN]
  /\ closeMu \in [Subs -> {Nobody, "Unsubscribe", "Stop"}]
  /\ postC \in [Subs -> BOOLEAN]
  /\ subs \in [Posters -> Seq(Subs)]
  /\ toClose \in Seq(Subs)
  /\ stop \in {"idle", "closing", "done"}
  /\ received \in [Subs -> Nat]

Registered(s) == sub[s] \notin {"none", "created"}

(* What a Post or Stop works on has been registered. *)
Snapshots ==
  /\ \A s \in Range(toClose) : Registered(s)
  /\ \A p \in Posters : \A s \in Range(subs[p]) : Registered(s)
  /\ \A p \in Posters : inside[p] # Nobody => Registered(inside[p])
  /\ stop # "closing" => toClose = <<>>

(* The channel is open until Subscribe or closewait closes it, and is      *)
(* closed when closewait is over.                                          *)
ChannelsOpen ==
  \A s \in Subs :
    /\ ~Registered(s) => postC[s]
    /\ closed[s] /\ closeMu[s] = Nobody => ~postC[s]
    /\ sub[s] = "unsubscribed" => ~postC[s]

Inv == Types /\ TypeOK /\ Snapshots /\ ChannelsOpen

LEMMA NobodyIsNobody == Nobody \notin Subs /\ Nobody # "Unsubscribe" /\ Nobody # "Stop"
  BY Zenon, TypeMuxAssumption

LEMMA InitInv == Init => Inv
<1> SUFFICES ASSUME Init PROVE Inv
  BY Zenon
<1>1. <<>> \in Seq(Subs) /\ Range(<<>>) = {} /\ IsInjective(<<>>)
  BY DEF Range, IsInjective
<1>2. Types
  BY Zenon, <1>1 DEF Init, Types
<1>3. TypeOK
  BY Zenon, <1>1, NobodyIsNobody DEF Init, TypeOK
<1>4. Snapshots
  BY Zenon, <1>1 DEF Init, Snapshots
<1>5. ChannelsOpen
  BY Zenon DEF Init, ChannelsOpen, Registered
<1> QED
  BY Zenon, <1>2, <1>3, <1>4, <1>5 DEF Inv

(* Subscribe and Unsubscribe *)

LEMMA NewSubInv == ASSUME Inv, NEW s \in Subs, NewSub(s) PROVE Inv'
<1>1. /\ sub[s] = "none" /\ sub' = [sub EXCEPT ![s] = "created"]
      /\ UNCHANGED <<subm, stopped, stop, toClose, closed, closeMu, postC, subs, inside, received>>
  BY Zenon DEF NewSub, muxVars
<1>2. Types'
  BY Zenon, <1>1 DEF Inv, Types
<1>3. ~Registered(s) /\ \A x \in Subs : Registered(x) => Registered(x)'
  BY Zenon, <1>1 DEF Inv, Types, Registered
<1>4. Range(subm) \subseteq Subs /\ Range(toClose) \subseteq Subs
      /\ \A p \in Posters : Range(subs[p]) \subseteq Subs
  BY RangeOf DEF Inv, Types, TypeOK
<1>5. TypeOK'
  BY Zenon, <1>1, <1>4 DEF Inv, Types, TypeOK, Locked
<1>6. Snapshots'
  BY Zenon, <1>1, <1>3, <1>4 DEF Inv, TypeOK, Snapshots
<1>7. ChannelsOpen'
  BY Zenon, <1>1 DEF Inv, Types, ChannelsOpen, Registered
<1> QED
  BY Zenon, <1>2, <1>5, <1>6, <1>7 DEF Inv

LEMMA SubscribeInv == ASSUME Inv, NEW s \in Subs, Subscribe(s) PROVE Inv'
<1>1. /\ sub[s] = "created" /\ ~Locked /\ sub' = [sub EXCEPT ![s] = "live"]
      /\ IF stopped
         THEN /\ closed' = [closed EXCEPT ![s] = TRUE]
              /\ postC' = [postC EXCEPT ![s] = FALSE]
              /\ UNCHANGED subm
         ELSE subm' = Append(subm, s) /\ UNCHANGED <<closed, postC>>
      /\ UNCHANGED <<stopped, stop, toClose, closeMu, subs, inside, received>>
  BY Zenon DEF Subscribe, postVars
<1>2. Types'
  BY Zenon, <1>1 DEF Inv, Types
<1>3. ~Registered(s) /\ \A x \in Subs : Registered(x) => Registered(x)'
  BY Zenon, <1>1 DEF Inv, Types, Registered
<1>4. Range(subm) \subseteq Subs /\ Range(toClose) \subseteq Subs
      /\ \A p \in Posters : Range(subs[p]) \subseteq Subs
  BY RangeOf DEF Inv, Types, TypeOK
<1>5. TypeOK'
  <2>1. CASE stopped
    BY Zenon, <1>1, <1>4, <2>1 DEF Inv, Types, TypeOK, Locked
  <2>2. CASE ~stopped
    <3>1. subm \in Seq(Subs) /\ IsInjective(subm) /\ s \notin Range(subm) /\ postC[s]
      BY Zenon, <1>1, <1>3 DEF Inv, TypeOK, ChannelsOpen
    <3>2. subm' \in Seq(Subs) /\ Range(subm') = Range(subm) \cup {s} /\ IsInjective(subm')
      <4>1. /\ Append(subm, s) \in Seq(Subs) /\ Range(Append(subm, s)) = Range(subm) \cup {s}
            /\ IsInjective(Append(subm, s))
        BY <3>1, AppendOf
      <4> QED
        BY Zenon, <1>1, <2>2, <4>1
    <3> QED
      BY <1>1, <1>4, <2>2, <3>1, <3>2 DEF Inv, Types, TypeOK, Locked
  <2> QED
    BY Zenon, <2>1, <2>2
<1>6. Snapshots'
  BY Zenon, <1>1, <1>3, <1>4 DEF Inv, TypeOK, Snapshots
<1>7. ChannelsOpen'
  BY Zenon, <1>1 DEF Inv, Types, ChannelsOpen, Registered
<1> QED
  BY Zenon, <1>2, <1>5, <1>6, <1>7 DEF Inv

LEMMA DelInv == ASSUME Inv, NEW s \in Subs, Del(s) PROVE Inv'
<1>1. /\ sub[s] = "live" /\ ~Locked /\ sub' = [sub EXCEPT ![s] = "deleted"]
      /\ subm' = Without(subm, s)
      /\ UNCHANGED <<stopped, stop, toClose, closed, closeMu, postC, subs, inside, received>>
  BY Zenon DEF Del, postVars
<1>2. Types'
  BY Zenon, <1>1 DEF Inv, Types
<1>3. \A x \in Subs : Registered(x)' <=> Registered(x)
  BY Zenon, <1>1 DEF Inv, Types, Registered
<1>4. Range(subm) \subseteq Subs /\ Range(toClose) \subseteq Subs
      /\ \A p \in Posters : Range(subs[p]) \subseteq Subs
  BY RangeOf DEF Inv, Types, TypeOK
<1>5. subm' \in Seq(Subs) /\ IsInjective(subm') /\ Range(subm') \subseteq Range(subm) \ {s}
  <2>1. subm \in Seq(Subs) /\ IsInjective(subm)
    BY Zenon DEF Inv, TypeOK
  <2>2. /\ Without(subm, s) \in Seq(Subs) /\ IsInjective(Without(subm, s))
        /\ Range(Without(subm, s)) \subseteq Range(subm) \ {s}
    BY Zenon, <2>1, WithoutOf
  <2> QED
    BY Zenon, <1>1, <2>2
<1>6. stopped => subm' = <<>>
  <2>1. Range(<<>>) = {}
    BY DEF Range
  <2> QED
    BY Zenon, <1>1, <2>1 DEF Inv, TypeOK, Without
<1>7. TypeOK'
  <2>1. \A x \in Range(subm') : sub'[x] = "live" /\ (postC'[x] \/ Locked')
    BY Zenon, <1>1, <1>4, <1>5 DEF Inv, Types, TypeOK, Locked
  <2>2. \A x \in Subs : closeMu'[x] = "Unsubscribe" <=> sub'[x] = "closing"
    BY Zenon, <1>1 DEF Inv, Types, TypeOK
  <2> QED
    BY Zenon, <1>1, <1>5, <1>6, <2>1, <2>2 DEF Inv, TypeOK
<1>8. Snapshots'
  BY Zenon, <1>1, <1>3, <1>4 DEF Inv, TypeOK, Snapshots
<1>9. ChannelsOpen'
  BY Zenon, <1>1, <1>3 DEF Inv, Types, ChannelsOpen
<1> QED
  BY Zenon, <1>2, <1>7, <1>8, <1>9 DEF Inv

LEMMA UnsubscribeInv == ASSUME Inv, NEW s \in Subs, Unsubscribe(s) PROVE Inv'
<1>1. /\ sub[s] = "deleted" /\ closeMu[s] = Nobody
      /\ closeMu' = [closeMu EXCEPT ![s] = IF closed[s] THEN Nobody ELSE "Unsubscribe"]
      /\ closed' = [closed EXCEPT ![s] = TRUE]
      /\ sub' = [sub EXCEPT ![s] = IF closed[s] THEN "unsubscribed" ELSE "closing"]
      /\ UNCHANGED <<subm, stopped, stop, toClose, postC, subs, inside, received>>
  BY Zenon DEF Unsubscribe, Close, muxVars, postVars
<1>2. Types'
  BY Zenon, <1>1 DEF Inv, Types
<1>3. \A x \in Subs : Registered(x)' <=> Registered(x)
  BY Zenon, <1>1 DEF Inv, Types, Registered
<1>4. Range(subm) \subseteq Subs /\ Range(toClose) \subseteq Subs
      /\ \A p \in Posters : Range(subs[p]) \subseteq Subs
  BY RangeOf DEF Inv, Types, TypeOK
<1>5. TypeOK'
  <2>1. \A x \in Range(subm') : sub'[x] = "live" /\ (postC'[x] \/ Locked')
    BY Zenon, <1>1, <1>4 DEF Inv, Types, TypeOK, Locked
  <2>2. \A x \in Subs : closeMu'[x] = "Unsubscribe" <=> sub'[x] = "closing"
    BY Zenon, <1>1, NobodyIsNobody DEF Inv, Types, TypeOK
  <2>3. \A x \in Subs : closeMu'[x] = "Stop" => closeMu[x] = "Stop"
    BY Zenon, <1>1, NobodyIsNobody DEF Inv, Types
  <2> QED
    BY Zenon, <1>1, <2>1, <2>2, <2>3 DEF Inv, TypeOK
<1>6. Snapshots'
  BY Zenon, <1>1, <1>3, <1>4 DEF Inv, TypeOK, Snapshots
<1>7. ChannelsOpen'
  BY Zenon, <1>1, <1>3, NobodyIsNobody DEF Inv, Types, ChannelsOpen
<1> QED
  BY Zenon, <1>2, <1>5, <1>6, <1>7 DEF Inv

LEMMA UnsubscribedInv == ASSUME Inv, NEW s \in Subs, Unsubscribed(s) PROVE Inv'
<1>1. /\ sub[s] = "closing" /\ closeMu[s] = "Unsubscribe"
      /\ postC' = [postC EXCEPT ![s] = FALSE]
      /\ closeMu' = [closeMu EXCEPT ![s] = Nobody]
      /\ sub' = [sub EXCEPT ![s] = "unsubscribed"]
      /\ UNCHANGED <<subm, stopped, stop, toClose, closed, subs, inside, received>>
  BY Zenon DEF Unsubscribed, ClosePostC, muxVars, postVars
<1>2. Types'
  BY Zenon, <1>1 DEF Inv, Types
<1>3. \A x \in Subs : Registered(x)' <=> Registered(x)
  BY Zenon, <1>1 DEF Inv, Types, Registered
<1>4. Range(subm) \subseteq Subs /\ Range(toClose) \subseteq Subs
      /\ \A p \in Posters : Range(subs[p]) \subseteq Subs
  BY RangeOf DEF Inv, Types, TypeOK
<1>5. TypeOK'
  <2>1. \A x \in Range(subm') : sub'[x] = "live" /\ (postC'[x] \/ Locked')
    BY Zenon, <1>1, <1>4 DEF Inv, Types, TypeOK, Locked
  <2>2. \A x \in Subs : closeMu'[x] = "Unsubscribe" <=> sub'[x] = "closing"
    BY Zenon, <1>1, NobodyIsNobody DEF Inv, Types, TypeOK
  <2>3. \A x \in Subs : closeMu'[x] = "Stop" => closeMu[x] = "Stop"
    BY Zenon, <1>1, NobodyIsNobody DEF Inv, Types
  <2> QED
    BY Zenon, <1>1, <2>1, <2>2, <2>3 DEF Inv, TypeOK
<1>6. Snapshots'
  BY Zenon, <1>1, <1>3, <1>4 DEF Inv, TypeOK, Snapshots
<1>7. ChannelsOpen'
  <2>1. Registered(s)
    BY Zenon, <1>1 DEF Registered
  <2> QED
    BY Zenon, <1>1, <1>3, <2>1 DEF Inv, Types, ChannelsOpen
<1> QED
  BY Zenon, <1>2, <1>5, <1>6, <1>7 DEF Inv

(* Post: only the poster's slice and its place in deliver change. *)

LEMMA PosterFrame ==
  ASSUME Inv, UNCHANGED <<muxVars, subVars>>,
         subs' \in [Posters -> Seq(Subs)], inside' \in [Posters -> Subs \cup {Nobody}],
         received' \in [Subs -> Nat],
         \A p \in Posters : \A s \in Range(subs'[p]) : Registered(s),
         \A p \in Posters : inside'[p] # Nobody => Registered(inside'[p])
  PROVE  Inv'
<1>1. UNCHANGED <<subm, stopped, stop, toClose, sub, closed, closeMu, postC>>
  BY Zenon DEF muxVars, subVars
<1>2. \A x : Registered(x)' <=> Registered(x)
  BY Zenon, <1>1 DEF Registered
<1>3. Types'
  BY Zenon, <1>1 DEF Inv, Types
<1>4. TypeOK'
  BY Zenon, <1>1 DEF Inv, TypeOK, Locked
<1>5. Snapshots'
  BY Zenon, <1>1, <1>2 DEF Inv, Snapshots
<1>6. ChannelsOpen'
  BY Zenon, <1>1, <1>2 DEF Inv, ChannelsOpen
<1> QED
  BY Zenon, <1>3, <1>4, <1>5, <1>6 DEF Inv

LEMMA PostInv ==
  ASSUME Inv, NEW p \in Posters, Post(p) \/ PostReturn(p) \/ Snapshot(p) PROVE Inv'
<1>1. UNCHANGED <<muxVars, subVars, inside, received>>
  BY Zenon DEF Post, PostReturn, Snapshot
<1>2. UNCHANGED subs \/ subs' = [subs EXCEPT ![p] = subm]
  BY Zenon DEF Post, PostReturn, Snapshot
<1>3. subs' \in [Posters -> Seq(Subs)] /\ inside' \in [Posters -> Subs \cup {Nobody}]
      /\ received' \in [Subs -> Nat]
  BY Zenon, <1>1, <1>2 DEF Inv, Types, TypeOK
<1>4. \A s \in Range(subm) : Registered(s)
  BY Zenon DEF Inv, TypeOK, Registered
<1>5. ASSUME NEW r \in Posters, NEW s \in Range(subs'[r]) PROVE Registered(s)
  <2>1. subs'[r] = subs[r] \/ subs'[r] = subm
    BY Zenon, <1>2 DEF Inv, Types
  <2> QED
    BY Zenon, <1>4, <1>5, <2>1 DEF Inv, Snapshots
<1>6. \A r \in Posters : inside'[r] # Nobody => Registered(inside'[r])
  BY Zenon, <1>1 DEF Inv, Snapshots
<1> QED
  BY Zenon, <1>1, <1>3, <1>5, <1>6, PosterFrame

LEMMA DeliverInv ==
  ASSUME Inv, NEW p \in Posters, Skip(p) \/ Deliver(p) PROVE Inv'
<1>1. /\ UNCHANGED <<muxVars, subVars, received>>
      /\ subs[p] # <<>> /\ subs' = [subs EXCEPT ![p] = Tail(@)]
      /\ UNCHANGED inside \/ inside' = [inside EXCEPT ![p] = Head(subs[p])]
  BY Zenon DEF Skip, Deliver
<1>2. subs[p] \in Seq(Subs)
  BY Zenon DEF Inv, Types
<1>3. /\ Head(subs[p]) \in Subs /\ Head(subs[p]) \in Range(subs[p])
      /\ Tail(subs[p]) \in Seq(Subs) /\ Range(Tail(subs[p])) \subseteq Range(subs[p])
  BY Zenon, <1>1, <1>2, TailOf
<1>4. subs' \in [Posters -> Seq(Subs)] /\ received' \in [Subs -> Nat]
  BY Zenon, <1>1, <1>3 DEF Inv, Types
<1>5. inside' \in [Posters -> Subs \cup {Nobody}]
  BY Zenon, <1>1, <1>3 DEF Inv, TypeOK
<1>6. ASSUME NEW r \in Posters, NEW s \in Range(subs'[r]) PROVE Registered(s)
  <2>1. subs'[r] = subs[r] \/ (r = p /\ subs'[r] = Tail(subs[p]))
    BY Zenon, <1>1 DEF Inv, Types
  <2>2. s \in Range(subs[r])
    BY Zenon, <1>3, <1>6, <2>1
  <2> QED
    BY Zenon, <2>2 DEF Inv, Snapshots
<1>7. Registered(Head(subs[p]))
  BY Zenon, <1>3 DEF Inv, Snapshots
<1>8. ASSUME NEW r \in Posters, inside'[r] # Nobody PROVE Registered(inside'[r])
  <2>1. inside'[r] = inside[r] \/ inside'[r] = Head(subs[p])
    BY Zenon, <1>1 DEF Inv, TypeOK
  <2> QED
    BY Zenon, <1>7, <1>8, <2>1 DEF Inv, Snapshots
<1> QED
  BY Zenon, <1>1, <1>4, <1>5, <1>6, <1>8, PosterFrame

LEMMA SelectInv ==
  ASSUME Inv, NEW p \in Posters, Receive(p) \/ Closing(p) PROVE Inv'
<1>1. /\ UNCHANGED <<muxVars, subVars, subs>>
      /\ inside[p] # Nobody /\ inside' = [inside EXCEPT ![p] = Nobody]
      /\ UNCHANGED received \/ received' = [received EXCEPT ![inside[p]] = @ + 1]
  BY Zenon DEF Receive, Closing
<1>2. subs' \in [Posters -> Seq(Subs)] /\ inside' \in [Posters -> Subs \cup {Nobody}]
  BY Zenon, <1>1 DEF Inv, Types, TypeOK
<1>3. received' \in [Subs -> Nat]
  <2>1. received \in [Subs -> Nat] /\ inside[p] \in Subs
    BY Zenon, <1>1 DEF Inv, Types, TypeOK
  <2> QED
    BY <1>1, <2>1
<1>4. \A r \in Posters : \A s \in Range(subs'[r]) : Registered(s)
  BY Zenon, <1>1 DEF Inv, Snapshots
<1>5. \A r \in Posters : inside'[r] # Nobody => Registered(inside'[r])
  BY Zenon, <1>1 DEF Inv, TypeOK, Snapshots
<1> QED
  BY Zenon, <1>1, <1>2, <1>3, <1>4, <1>5, PosterFrame

(* Stop *)

LEMMA StopInv == ASSUME Inv, Stop PROVE Inv'
<1>1. /\ stop = "idle" /\ stop' = "closing" /\ toClose' = subm
      /\ UNCHANGED <<subm, stopped, sub, closed, closeMu, postC, subs, inside, received>>
  BY Zenon DEF Stop, subVars, postVars
<1>2. \A x : Registered(x)' <=> Registered(x)
  BY Zenon, <1>1 DEF Registered
<1>3. Types'
  BY Zenon, <1>1 DEF Inv, Types, TypeOK
<1>4. TypeOK'
  <2>1. \A s \in Subs : closeMu[s] # "Stop"
    BY Zenon, <1>1 DEF Inv, TypeOK, Snapshots
  <2> QED
    BY Zenon, <1>1, <2>1 DEF Inv, TypeOK, Locked
<1>5. Snapshots'
  <2>1. \A s \in Range(subm) : Registered(s)
    BY Zenon DEF Inv, TypeOK, Registered
  <2> QED
    BY Zenon, <1>1, <1>2, <2>1 DEF Inv, Snapshots
<1>6. ChannelsOpen'
  BY Zenon, <1>1, <1>2 DEF Inv, ChannelsOpen
<1> QED
  BY Zenon, <1>3, <1>4, <1>5, <1>6 DEF Inv

LEMMA StopCloseInv == ASSUME Inv, StopClose PROVE Inv'
<1> DEFINE h == Head(toClose)
<1>1. /\ Locked /\ toClose # <<>> /\ closeMu[h] = Nobody
      /\ closeMu' = [closeMu EXCEPT ![h] = IF closed[h] THEN Nobody ELSE "Stop"]
      /\ closed' = [closed EXCEPT ![h] = TRUE]
      /\ toClose' = IF closed[h] THEN Tail(toClose) ELSE toClose
      /\ UNCHANGED <<subm, stopped, stop, sub, postC, subs, inside, received>>
  BY Zenon DEF StopClose, Close, postVars
<1>2. /\ h \in Subs /\ h \in Range(toClose)
      /\ Tail(toClose) \in Seq(Subs) /\ Range(Tail(toClose)) \subseteq Range(toClose)
  <2>1. toClose \in Seq(Subs)
    BY Zenon DEF Inv, Types
  <2> QED
    BY Zenon, <1>1, <2>1, TailOf
<1>3. Registered(h)
  BY Zenon, <1>2 DEF Inv, Snapshots
<1>4. \A x \in Subs : closeMu[x] = "Stop" => x = h
  BY Zenon DEF Inv, TypeOK
<1> HIDE DEF h
<1>5. \A x : Registered(x)' <=> Registered(x)
  BY Zenon, <1>1 DEF Registered
<1>6. Types'
  BY Zenon, <1>1, <1>2 DEF Inv, Types
<1>7. TypeOK'
  <2>1. \A x \in Subs : closeMu'[x] = "Unsubscribe" <=> sub'[x] = "closing"
    BY Zenon, <1>1, <1>2, NobodyIsNobody DEF Inv, Types, TypeOK
  <2>2. \A x \in Subs : closeMu'[x] = "Stop" => x = h /\ ~closed[h]
    BY Zenon, <1>1, <1>2, <1>4, NobodyIsNobody DEF Inv, Types
  <2>3. \A x \in Subs : closeMu'[x] = "Stop" => toClose' # <<>> /\ x = Head(toClose')
    BY Zenon, <1>1, <2>2 DEF h
  <2> QED
    BY Zenon, <1>1, <2>1, <2>3 DEF Inv, TypeOK, Locked
<1>8. Snapshots'
  <2>1. Range(toClose') \subseteq Range(toClose)
    BY Zenon, <1>1, <1>2
  <2> QED
    BY Zenon, <1>1, <1>5, <2>1 DEF Inv, Snapshots, Locked
<1>9. ChannelsOpen'
  BY Zenon, <1>1, <1>2, <1>5, NobodyIsNobody DEF Inv, Types, ChannelsOpen
<1> QED
  BY Zenon, <1>6, <1>7, <1>8, <1>9 DEF Inv

LEMMA StopClosedInv == ASSUME Inv, StopClosed PROVE Inv'
<1> DEFINE h == Head(toClose)
<1>1. /\ Locked /\ toClose # <<>> /\ closeMu[h] = "Stop"
      /\ postC' = [postC EXCEPT ![h] = FALSE]
      /\ closeMu' = [closeMu EXCEPT ![h] = Nobody]
      /\ toClose' = Tail(toClose)
      /\ UNCHANGED <<subm, stopped, stop, sub, closed, subs, inside, received>>
  BY Zenon DEF StopClosed, ClosePostC, postVars
<1>2. /\ h \in Subs /\ h \in Range(toClose)
      /\ Tail(toClose) \in Seq(Subs) /\ Range(Tail(toClose)) \subseteq Range(toClose)
  <2>1. toClose \in Seq(Subs)
    BY Zenon DEF Inv, Types
  <2> QED
    BY Zenon, <1>1, <2>1, TailOf
<1>3. Registered(h)
  BY Zenon, <1>2 DEF Inv, Snapshots
<1>4. \A x \in Subs : closeMu[x] = "Stop" => x = h
  BY Zenon DEF Inv, TypeOK
<1> HIDE DEF h
<1>5. \A x : Registered(x)' <=> Registered(x)
  BY Zenon, <1>1 DEF Registered
<1>6. Types'
  BY Zenon, <1>1, <1>2 DEF Inv, Types
<1>7. TypeOK'
  <2>1. \A x \in Subs : closeMu'[x] = "Unsubscribe" <=> sub'[x] = "closing"
    BY Zenon, <1>1, <1>2, NobodyIsNobody DEF Inv, Types, TypeOK
  <2>2. \A x \in Subs : closeMu'[x] # "Stop"
    BY Zenon, <1>1, <1>2, <1>4, NobodyIsNobody DEF Inv, Types
  <2> QED
    BY Zenon, <1>1, <2>1, <2>2 DEF Inv, TypeOK, Locked
<1>8. Snapshots'
  BY Zenon, <1>1, <1>2, <1>5 DEF Inv, Snapshots, Locked
<1>9. ChannelsOpen'
  BY Zenon, <1>1, <1>2, <1>3, <1>5 DEF Inv, Types, ChannelsOpen
<1> QED
  BY Zenon, <1>6, <1>7, <1>8, <1>9 DEF Inv

LEMMA StopReturnInv == ASSUME Inv, StopReturn PROVE Inv'
<1>1. /\ Locked /\ toClose = <<>> /\ stop' = "done" /\ stopped' = TRUE /\ subm' = <<>>
      /\ UNCHANGED <<toClose, sub, closed, closeMu, postC, subs, inside, received>>
  BY Zenon DEF StopReturn, subVars, postVars
<1>2. \A x : Registered(x)' <=> Registered(x)
  BY Zenon, <1>1 DEF Registered
<1>3. <<>> \in Seq(Subs) /\ Range(<<>>) = {} /\ IsInjective(<<>>)
  BY DEF Range, IsInjective
<1>4. Types'
  BY Zenon, <1>1 DEF Inv, Types
<1>5. TypeOK'
  BY Zenon, <1>1, <1>3 DEF Inv, TypeOK
<1>6. Snapshots'
  BY Zenon, <1>1, <1>2, <1>3 DEF Inv, Snapshots
<1>7. ChannelsOpen'
  BY Zenon, <1>1, <1>2 DEF Inv, ChannelsOpen
<1> QED
  BY Zenon, <1>4, <1>5, <1>6, <1>7 DEF Inv

LEMMA NextInv == ASSUME Inv, [Next]_vars PROVE Inv'
<1>1. CASE UNCHANGED vars
  BY Zenon, <1>1, PosterFrame DEF vars, muxVars, subVars, postVars, Inv, Types, TypeOK, Snapshots
<1>2. CASE Next
  BY Zenon, <1>2, NewSubInv, SubscribeInv, DelInv, UnsubscribeInv, UnsubscribedInv, PostInv,
     DeliverInv, SelectInv, StopInv, StopCloseInv, StopClosedInv, StopReturnInv DEF Next
<1> QED
  BY Zenon, <1>1, <1>2

LEMMA Invariance == Spec => []Inv
  BY InitInv, NextInv, PTL DEF Spec

---------------------------------------------------------------------------
(* The multiplexer's state stays well formed, for every number of          *)
(* subscriptions and posters: a subscription is registered at most once,   *)
(* and the one call in its closewait holds closeMu.                        *)
THEOREM TypeCorrect == Spec => []TypeOK
<1>1. Inv => TypeOK
  BY Zenon DEF Inv
<1> QED
  BY <1>1, Invariance, PTL

(* No Post ever sends on a channel that closewait or Subscribe has closed. *)
THEOREM PostNeverPanics == Spec => NoSendOnClosed
<1>1. ASSUME Inv, [Next]_vars, NEW p \in Posters, NEW s \in Subs,
             inside[p] = s, inside'[p] = s
      PROVE  postC'[s] = postC[s]
  <2>1. Registered(s)
    BY Zenon, <1>1, NobodyIsNobody DEF Inv, Snapshots
  <2>2. postC \in [Subs -> BOOLEAN]
    BY Zenon, <1>1 DEF Inv, Types
  <2>3. ASSUME NEW x \in Subs, Subscribe(x) PROVE postC'[s] = postC[s]
    BY Zenon, <2>1, <2>2, <2>3 DEF Subscribe, Registered
  <2>4. ASSUME NEW x \in Subs, Unsubscribed(x) PROVE postC'[s] = postC[s]
    BY Zenon, <1>1, <2>2, <2>4 DEF Unsubscribed, ClosePostC
  <2>5. ASSUME StopClosed PROVE postC'[s] = postC[s]
    BY Zenon, <1>1, <2>2, <2>5 DEF StopClosed, ClosePostC
  <2>6. ASSUME NEW x \in Subs, NewSub(x) \/ Del(x) \/ Unsubscribe(x) PROVE postC' = postC
    BY Zenon, <2>6 DEF NewSub, Del, Unsubscribe
  <2>7. ASSUME NEW r \in Posters,
               \/ Post(r) \/ Snapshot(r) \/ PostReturn(r)
               \/ Skip(r) \/ Deliver(r) \/ Receive(r) \/ Closing(r)
        PROVE  postC' = postC
    BY Zenon, <2>7 DEF Post, Snapshot, PostReturn, Skip, Deliver, Receive, Closing, subVars
  <2>8. ASSUME Stop \/ StopClose \/ StopReturn PROVE postC' = postC
    BY Zenon, <2>8 DEF Stop, StopClose, StopReturn, subVars
  <2>9. ASSUME UNCHANGED vars PROVE postC' = postC
    BY Zenon, <2>9 DEF vars, subVars
  <2> QED
    BY Zenon, <1>1, <2>3, <2>4, <2>5, <2>6, <2>7, <2>8, <2>9 DEF Next
<1>2. Inv /\ [Next]_vars =>
        [\A p \in Posters : \A s \in Subs :
           inside[p] = s /\ inside'[p] = s => postC'[s] = postC[s]]_vars
  BY Zenon, <1>1
<1> QED
  BY <1>2, Invariance, PTL DEF Spec, NoSendOnClosed

(* Once Unsubscribe has returned its reader receives nothing more, for     *)
(* every number of posters and whatever Stop does meanwhile.               *)
THEOREM UnsubscribedForGood == Spec => UnsubscribeIsFinal
<1>1. ASSUME Inv, [Next]_vars, NEW s \in Subs, sub[s] = "unsubscribed"
      PROVE  received'[s] = received[s]
  <2>1. ~postC[s] /\ received \in [Subs -> Nat]
    BY Zenon, <1>1 DEF Inv, Types, ChannelsOpen
  <2>2. ASSUME NEW p \in Posters, Receive(p) PROVE received'[s] = received[s]
    <3>1. inside[p] # s
      BY Zenon, <2>1, <2>2 DEF Receive
    <3> QED
      BY Zenon, <2>1, <2>2, <3>1 DEF Receive
  <2>3. ASSUME NEW x \in Subs,
               NewSub(x) \/ Subscribe(x) \/ Del(x) \/ Unsubscribe(x) \/ Unsubscribed(x)
        PROVE  received' = received
    BY Zenon, <2>3 DEF NewSub, Subscribe, Del, Unsubscribe, Unsubscribed
  <2>4. ASSUME NEW p \in Posters,
               \/ Post(p) \/ Snapshot(p) \/ PostReturn(p)
               \/ Skip(p) \/ Deliver(p) \/ Closing(p)
        PROVE  received' = received
    BY Zenon, <2>4 DEF Post, Snapshot, PostReturn, Skip, Deliver, Closing
  <2>5. ASSUME Stop \/ StopClose \/ StopClosed \/ StopReturn PROVE received' = received
    BY Zenon, <2>5 DEF Stop, StopClose, StopClosed, StopReturn
  <2>6. ASSUME UNCHANGED vars PROVE received' = received
    BY Zenon, <2>6 DEF vars
  <2> QED
    BY Zenon, <1>1, <2>2, <2>3, <2>4, <2>5, <2>6 DEF Next
<1>2. Inv /\ [Next]_vars =>
        [\A s \in Subs : sub[s] = "unsubscribed" => received'[s] = received[s]]_vars
  BY Zenon, <1>1
<1> QED
  BY <1>2, Invariance, PTL DEF Spec, UnsubscribeIsFinal

---------------------------------------------------------------------------
(* The feed: what its slices hold, and where a Send has got to             *)

LEMMA DeleteOf ==
  ASSUME NEW S, NEW q \in Seq(S), NEW c \in Range(q), IsInjective(q),
         NEW d, d = F!Delete(q, F!Find(q, c))
  PROVE  /\ d \in Seq(S) /\ IsInjective(d) /\ Range(d) = Range(q) \ {c}
         /\ Len(d) = Len(q) - 1
         /\ \E i \in 1 .. Len(q) :
              /\ q[i] = c
              /\ \A k \in 1 .. Len(q) - 1 : d[k] = IF k < i THEN q[k] ELSE q[k + 1]
<1> DEFINE i == Find(q, c)
<1>1. /\ DOMAIN q = 1 .. Len(q) /\ Len(q) \in Nat
      /\ i \in 1 .. Len(q) /\ q[i] = c
  BY DEF Find, Range
<1>2. d = PosDelete(q, i) /\ d = Without(q, c)
  <2>1. F!Find(q, c) = Find(q, c)
    BY Zenon DEF F!Find, Find
  <2>2. d = F!Delete(q, Find(q, c))
    BY Zenon, <2>1
  <2>3. d = PosDelete(q, Find(q, c))
    BY Zenon, <2>2 DEF F!Delete, PosDelete
  <2>4. Without(q, c) = PosDelete(q, Find(q, c))
    BY Zenon DEF Without
  <2> QED
    BY Zenon, <2>3, <2>4
<1> HIDE DEF i
<1>3. d \in Seq(S) /\ IsInjective(d) /\ Range(d) \subseteq Range(q) \ {c}
  BY <1>2, WithoutOf
<1>4. /\ Len(d) = Len(q) - 1
      /\ \A k \in 1 .. Len(q) - 1 : d[k] = IF k < i THEN q[k] ELSE q[k + 1]
  BY Zenon, <1>1, <1>2, PosDeleteOf
<1>5. ASSUME NEW x \in Range(q), x # c PROVE x \in Range(d)
  <2>1. PICK j \in 1 .. Len(q) : q[j] = x
    BY Zenon, <1>1 DEF Range
  <2>2. j # i
    BY Zenon, <1>1, <1>5, <2>1
  <2>3. CASE j < i
    <3>1. j \in 1 .. Len(q) - 1
      BY <1>1, <2>1, <2>3
    <3>2. d[j] = x /\ j \in 1 .. Len(d)
      BY Zenon, <1>4, <2>1, <2>3, <3>1
    <3> QED
      BY Zenon, <1>3, <3>2, RangeOf
  <2>4. CASE j > i
    <3>1. j - 1 \in 1 .. Len(q) - 1 /\ ~(j - 1 < i) /\ (j - 1) + 1 = j
      BY <1>1, <2>1, <2>4
    <3>2. d[j - 1] = x /\ j - 1 \in 1 .. Len(d)
      BY Zenon, <1>4, <2>1, <3>1
    <3> QED
      BY <1>3, <3>2, RangeOf
  <2> QED
    BY <1>1, <2>1, <2>2, <2>3, <2>4
<1>6. Range(d) = Range(q) \ {c}
  BY Zenon, <1>3, <1>5
<1> QED
  BY Zenon, <1>1, <1>3, <1>4, <1>6

LEMMA ConcatOf ==
  ASSUME NEW S, NEW p \in Seq(S), NEW q \in Seq(S), IsInjective(p), IsInjective(q),
         Range(p) \cap Range(q) = {}
  PROVE  /\ p \o q \in Seq(S) /\ Len(p \o q) = Len(p) + Len(q)
         /\ IsInjective(p \o q) /\ Range(p \o q) = Range(p) \cup Range(q)
<1> DEFINE r == p \o q
<1>1. /\ Len(p) \in Nat /\ Len(q) \in Nat /\ DOMAIN p = 1 .. Len(p) /\ DOMAIN q = 1 .. Len(q)
      /\ r \in Seq(S) /\ Len(r) = Len(p) + Len(q) /\ DOMAIN r = 1 .. Len(p) + Len(q)
  BY ConcatProperties
<1>2. /\ \A i \in 1 .. Len(p) : r[i] = p[i]
      /\ \A i \in 1 .. Len(q) : r[Len(p) + i] = q[i]
  BY <1>1, ConcatProperties
<1> HIDE DEF r
<1>3. \A i \in 1 .. Len(p) + Len(q) : i \in 1 .. Len(p) \/ i - Len(p) \in 1 .. Len(q)
  BY <1>1
<1>4. ASSUME NEW i \in 1 .. Len(p) + Len(q), i - Len(p) \in 1 .. Len(q)
      PROVE  r[i] = q[i - Len(p)]
  <2>1. Len(p) + (i - Len(p)) = i
    BY <1>1
  <2> QED
    BY Zenon, <1>2, <1>4, <2>1
<1>5. \A i \in 1 .. Len(p) : \A j \in 1 .. Len(q) : p[i] # q[j]
  BY Zenon, <1>1 DEF Range
<1>6. ASSUME NEW i \in 1 .. Len(p) + Len(q), NEW j \in 1 .. Len(p) + Len(q), r[i] = r[j]
      PROVE  i = j
  <2>1. CASE i \in 1 .. Len(p) /\ j \in 1 .. Len(p)
    BY Zenon, <1>1, <1>2, <1>6, <2>1 DEF IsInjective
  <2>2. CASE i - Len(p) \in 1 .. Len(q) /\ j - Len(p) \in 1 .. Len(q)
    <3>1. q[i - Len(p)] = q[j - Len(p)]
      BY Zenon, <1>4, <1>6, <2>2
    <3>2. i - Len(p) = j - Len(p)
      BY Zenon, <1>1, <2>2, <3>1 DEF IsInjective
    <3> QED
      BY <1>1, <3>2
  <2>3. CASE i \in 1 .. Len(p) /\ j - Len(p) \in 1 .. Len(q)
    BY <1>2, <1>4, <1>5, <1>6, <2>3
  <2>4. CASE i - Len(p) \in 1 .. Len(q) /\ j \in 1 .. Len(p)
    BY Zenon, <1>2, <1>4, <1>5, <1>6, <2>4
  <2> QED
    BY Zenon, <1>3, <2>1, <2>2, <2>3, <2>4
<1>7. IsInjective(r)
  BY Zenon, <1>1, <1>6 DEF IsInjective
<1>8. Range(r) \subseteq Range(p) \cup Range(q)
  <2> SUFFICES ASSUME NEW i \in 1 .. Len(p) + Len(q) PROVE r[i] \in Range(p) \cup Range(q)
    BY Zenon, <1>1 DEF Range
  <2>1. CASE i \in 1 .. Len(p)
    BY Zenon, <1>1, <1>2, <2>1 DEF Range
  <2>2. CASE i - Len(p) \in 1 .. Len(q)
    BY Zenon, <1>1, <1>4, <2>2 DEF Range
  <2> QED
    BY Zenon, <1>3, <2>1, <2>2
<1>9. Range(p) \subseteq Range(r)
  <2>1. \A i \in 1 .. Len(p) : i \in 1 .. Len(p) + Len(q)
    BY <1>1
  <2> QED
    BY Zenon, <1>1, <1>2, <2>1 DEF Range
<1>10. Range(q) \subseteq Range(r)
  <2>1. \A i \in 1 .. Len(q) : Len(p) + i \in 1 .. Len(p) + Len(q)
    BY <1>1
  <2> QED
    BY Zenon, <1>1, <1>2, <2>1 DEF Range
<1> QED
  BY Zenon, <1>1, <1>7, <1>8, <1>9, <1>10 DEF r

(* Moving a case behind the active prefix. *)
Swapped(d, q, n, i) ==
  /\ Len(d) = Len(q) /\ IsInjective(d) /\ Range(d) = Range(q)
  /\ \A k \in 1 .. Len(q) : d[k] = IF k = n THEN q[i] ELSE IF k = i THEN q[n] ELSE q[k]

LEMMA DeactivateOf ==
  ASSUME NEW S, NEW q \in Seq(S), IsInjective(q), NEW n \in 1 .. Len(q), NEW i \in 1 .. n,
         NEW d, d = F!Deactivate(q, n, i)
  PROVE  d \in Seq(S) /\ Swapped(d, q, n, i)
<1> DEFINE To(k) == IF k = n THEN i ELSE IF k = i THEN n ELSE k
<1>1. /\ Len(q) \in Nat /\ DOMAIN q = 1 .. Len(q) /\ i \in 1 .. Len(q) /\ q[i] \in S /\ q[n] \in S
      /\ q = [k \in 1 .. Len(q) |-> q[k]]
  OBVIOUS
<1>2. d \in Seq(S) /\ Len(d) = Len(q) /\ DOMAIN d = 1 .. Len(q)
  BY <1>1 DEF F!Deactivate
<1>3. \A k \in 1 .. Len(q) : d[k] = IF k = n THEN q[i] ELSE IF k = i THEN q[n] ELSE q[k]
  BY Zenon, <1>1 DEF F!Deactivate
<1>4. \A k \in 1 .. Len(q) : To(k) \in 1 .. Len(q) /\ d[k] = q[To(k)] /\ To(To(k)) = k
  BY Zenon, <1>1, <1>3
<1>5. IsInjective(d)
  <2> SUFFICES ASSUME NEW k \in 1 .. Len(q), NEW l \in 1 .. Len(q), d[k] = d[l] PROVE k = l
    BY Zenon, <1>2 DEF IsInjective
  <2>1. To(k) = To(l)
    BY <1>1, <1>4 DEF IsInjective
  <2> QED
    BY Zenon, <1>4, <2>1
<1>6. Range(d) \subseteq Range(q)
  BY <1>1, <1>2, <1>4 DEF Range
<1>7. Range(q) \subseteq Range(d)
  <2> SUFFICES ASSUME NEW k \in 1 .. Len(q) PROVE q[k] \in Range(d)
    BY Zenon, <1>1 DEF Range
  <2>1. To(k) \in 1 .. Len(q) /\ d[To(k)] = q[To(To(k))] /\ To(To(k)) = k
    BY Zenon, <1>4
  <2> QED
    BY Zenon, <1>2, <2>1 DEF Range
<1> QED
  BY Zenon, <1>2, <1>3, <1>5, <1>6, <1>7 DEF Swapped

(* Where the feed is.  The one Send that holds the lock has a prefix of    *)
(* sendCases; who is in the inbox is in no case and has got nothing; and   *)
(* remove finds the channel that it hands over.                            *)
FeedTypes ==
  /\ sendCases \in Seq(Channels) /\ IsInjective(sendCases)
  /\ inbox \in Seq(Channels) /\ IsInjective(inbox)
  /\ cases \in Nat /\ index \in Nat \ {0} /\ sent \in Nat
  /\ send \in [Senders -> {"idle", "waiting", "locked", "try", "select"}]
  /\ subscription \in [Channels -> {"none", "active", "removing", "ended"}]
  /\ got \in [Channels -> Seq(Nat)]

FeedLock ==
  /\ sendLock \in Senders \cup {Nobody}
  /\ \A s \in Senders : send[s] \in {"locked", "try", "select"} <=> sendLock = s
  /\ F!Active <= Len(sendCases)

Slices ==
  /\ \A c \in Range(inbox) :
       subscription[c] = "active" /\ got[c] = <<>> /\ c \notin Range(sendCases)
  /\ \A c \in Range(sendCases) : subscription[c] \in {"active", "removing"}
  /\ \A c \in Channels :
       /\ subscription[c] = "none" => got[c] = <<>>
       /\ subscription[c] \in {"active", "removing"} => c \in Range(inbox) \cup Range(sendCases)
       /\ subscription[c] = "removing" => c \in Range(sendCases)

FeedInv == FeedTypes /\ FeedLock /\ Slices /\ DeliveredOnce

(* The active prefix, by where the holder of the lock is. *)
LEMMA ActiveIs ==
  ASSUME FeedInv
  PROVE  /\ F!Active \in Nat
         /\ \A s \in Senders : send[s] \in {"try", "select"} => F!Active = cases
         /\ \A s \in Senders : send[s] = "locked" => F!Active = 0
         /\ sendLock = Nobody => F!Active = 0
<1>1. cases \in Nat
  BY Zenon DEF FeedInv, FeedTypes
<1>2. ASSUME NEW s \in Senders, send[s] \in {"locked", "try", "select"}
      PROVE  sendLock = s /\ sendLock # Nobody
  BY Zenon, <1>2, FeedAssumption DEF FeedInv, FeedLock
<1> QED
  BY Zenon, <1>1, <1>2 DEF F!Active, F!Sending

(* Steps that leave the slices and the values alone. *)
LEMMA SlicesSame ==
  ASSUME FeedInv, UNCHANGED <<sendCases, inbox, subscription, got>>
  PROVE  Slices'
  BY Zenon DEF FeedInv, Slices

LEMMA DeliveredSame ==
  ASSUME FeedInv, UNCHANGED <<sendCases, got, sent>>, F!Active' = F!Active
  PROVE  DeliveredOnce'
  BY Zenon DEF FeedInv, DeliveredOnce, F!DeliveredOnce

LEMMA FeedInit == F!Init => FeedInv
<1> SUFFICES ASSUME F!Init PROVE FeedInv
  BY Zenon
<1>1. FeedTypes
  BY DEF F!Init, FeedTypes, IsInjective
<1>2. sendLock = Nobody /\ F!Active = 0
  BY Zenon DEF F!Init, F!Active, F!Sending
<1>3. FeedLock
  BY <1>2, FeedAssumption DEF F!Init, FeedLock
<1>4. Slices
  BY DEF F!Init, Slices, Range
<1>5. DeliveredOnce
  BY <1>2 DEF F!Init, DeliveredOnce, F!DeliveredOnce
<1> QED
  BY Zenon, <1>1, <1>3, <1>4, <1>5 DEF FeedInv

LEMMA FeedSubscribeInv == ASSUME FeedInv, NEW c \in Channels, F!Subscribe(c) PROVE FeedInv'
<1>1. /\ subscription[c] = "none" /\ subscription' = [subscription EXCEPT ![c] = "active"]
      /\ inbox' = Append(inbox, c)
      /\ UNCHANGED <<sendLock, sendCases, cases, index, send, sent, got>>
  BY Zenon DEF F!Subscribe, F!sendVars, F!chanVars
<1>2. inbox \in Seq(Channels) /\ IsInjective(inbox) /\ sendCases \in Seq(Channels)
      /\ subscription \in [Channels -> {"none", "active", "removing", "ended"}]
  BY Zenon DEF FeedInv, FeedTypes
<1>3. c \notin Range(inbox) /\ c \notin Range(sendCases) /\ got[c] = <<>>
  BY Zenon, <1>1 DEF FeedInv, Slices
<1>4. /\ inbox' \in Seq(Channels) /\ IsInjective(inbox') /\ Range(inbox') = Range(inbox) \cup {c}
  BY <1>1, <1>2, <1>3, AppendOf
<1>5. FeedTypes'
  BY Zenon, <1>1, <1>2, <1>4 DEF FeedInv, FeedTypes
<1>6. F!Active' = F!Active
  BY Zenon, <1>1 DEF F!Active, F!Sending
<1>7. FeedLock'
  BY Zenon, <1>1, <1>6 DEF FeedInv, FeedLock
<1>8. \A x \in Channels : subscription'[x] = IF x = c THEN "active" ELSE subscription[x]
  BY Zenon, <1>1, <1>2
<1>9. Range(inbox) \subseteq Channels /\ Range(sendCases) \subseteq Channels
  BY Zenon, <1>2, RangeOf
<1>10. Slices'
  BY <1>1, <1>3, <1>4, <1>8, <1>9 DEF FeedInv, Slices
<1>11. DeliveredOnce'
  BY Zenon, <1>1, <1>6, DeliveredSame
<1> QED
  BY Zenon, <1>5, <1>7, <1>10, <1>11 DEF FeedInv

LEMMA FeedUnsubscribeInv == ASSUME FeedInv, NEW c \in Channels, F!Unsubscribe(c) PROVE FeedInv'
<1>1. /\ subscription[c] = "active"
      /\ UNCHANGED <<sendLock, sendCases, cases, index, send, sent, got>>
  BY Zenon DEF F!Unsubscribe, F!sendVars, F!chanVars
<1>2. inbox \in Seq(Channels) /\ IsInjective(inbox) /\ sendCases \in Seq(Channels)
      /\ subscription \in [Channels -> {"none", "active", "removing", "ended"}]
  BY Zenon DEF FeedInv, FeedTypes
<1>3. /\ inbox' \in Seq(Channels) /\ IsInjective(inbox') /\ Range(inbox') = Range(inbox) \ {c}
      /\ subscription' = [subscription EXCEPT ![c] = IF c \in Range(inbox) THEN "ended" ELSE "removing"]
  <2>1. CASE c \in Range(inbox)
    <3>1. /\ inbox' = F!Delete(inbox, F!Find(inbox, c))
          /\ subscription' = [subscription EXCEPT ![c] = "ended"]
      BY Zenon, <2>1 DEF F!Unsubscribe, F!Range, Range
    <3>2. PICK q, d : q = inbox /\ d = inbox'
      BY Zenon
    <3>3. d \in Seq(Channels) /\ IsInjective(d) /\ Range(d) = Range(q) \ {c}
      BY <1>2, <2>1, <3>1, <3>2, DeleteOf
    <3> QED
      BY Zenon, <2>1, <3>1, <3>2, <3>3
  <2>2. CASE c \notin Range(inbox)
    <3>1. inbox' = inbox /\ subscription' = [subscription EXCEPT ![c] = "removing"]
      BY Zenon, <2>2 DEF F!Unsubscribe, F!Range, Range
    <3> QED
      BY Zenon, <1>2, <2>2, <3>1
  <2> QED
    BY Zenon, <2>1, <2>2
<1>4. FeedTypes'
  BY Zenon, <1>1, <1>2, <1>3 DEF FeedInv, FeedTypes
<1>5. F!Active' = F!Active
  BY Zenon, <1>1 DEF F!Active, F!Sending
<1>6. FeedLock'
  BY Zenon, <1>1, <1>5 DEF FeedInv, FeedLock
<1>7. \A x \in Channels :
        subscription'[x] = IF x = c THEN IF c \in Range(inbox) THEN "ended" ELSE "removing"
                                    ELSE subscription[x]
  BY Zenon, <1>2, <1>3
<1>8. Range(inbox) \subseteq Channels /\ Range(sendCases) \subseteq Channels
  BY Zenon, <1>2, RangeOf
<1>9. Slices'
  BY <1>1, <1>3, <1>7, <1>8 DEF FeedInv, Slices
<1>10. DeliveredOnce'
  BY Zenon, <1>1, <1>5, DeliveredSame
<1> QED
  BY Zenon, <1>4, <1>6, <1>9, <1>10 DEF FeedInv

(* remove with the lock, or a Send that remove hands the channel to. *)
LEMMA RemovedSlices ==
  ASSUME FeedInv, NEW c \in Channels, subscription[c] = "removing",
         sendCases' = F!Delete(sendCases, F!Find(sendCases, c)),
         subscription' = [subscription EXCEPT ![c] = "ended"], UNCHANGED <<inbox, got>>
  PROVE  /\ sendCases' \in Seq(Channels) /\ IsInjective(sendCases') /\ Slices'
         /\ subscription' \in [Channels -> {"none", "active", "removing", "ended"}]
         /\ Len(sendCases') = Len(sendCases) - 1
         /\ \E i \in 1 .. Len(sendCases) :
              /\ sendCases[i] = c
              /\ \A k \in 1 .. Len(sendCases) - 1 :
                   sendCases'[k] = IF k < i THEN sendCases[k] ELSE sendCases[k + 1]
<1>1. /\ sendCases \in Seq(Channels) /\ IsInjective(sendCases) /\ inbox \in Seq(Channels)
      /\ subscription \in [Channels -> {"none", "active", "removing", "ended"}]
  BY Zenon DEF FeedInv, FeedTypes
<1>2. c \in Range(sendCases) /\ c \notin Range(inbox)
  BY Zenon DEF FeedInv, Slices
<1>3. PICK q, d : q = sendCases /\ d = sendCases'
  BY Zenon
<1>4. /\ d \in Seq(Channels) /\ IsInjective(d) /\ Range(d) = Range(q) \ {c}
      /\ Len(d) = Len(q) - 1
      /\ \E i \in 1 .. Len(q) :
           /\ q[i] = c
           /\ \A k \in 1 .. Len(q) - 1 : d[k] = IF k < i THEN q[k] ELSE q[k + 1]
  <2>1. /\ q \in Seq(Channels) /\ c \in Range(q) /\ IsInjective(q)
        /\ d = F!Delete(q, F!Find(q, c))
    BY Zenon, <1>1, <1>2, <1>3
  <2> QED
    BY ONLY <2>1, DeleteOf
<1>5. Range(sendCases') = Range(sendCases) \ {c}
  BY Zenon, <1>3, <1>4
<1>6. \A x \in Channels : subscription'[x] = IF x = c THEN "ended" ELSE subscription[x]
  BY Zenon, <1>1
<1>7. Range(inbox) \subseteq Channels /\ Range(sendCases) \subseteq Channels
  BY Zenon, <1>1, RangeOf
<1>8. Slices'
  BY <1>2, <1>5, <1>6, <1>7 DEF FeedInv, Slices
<1> QED
  BY Zenon, <1>1, <1>3, <1>4, <1>8

LEMMA RemoveLockedInv == ASSUME FeedInv, NEW c \in Channels, F!RemoveLocked(c) PROVE FeedInv'
<1>1. /\ subscription[c] = "removing" /\ sendLock = Nobody
      /\ sendCases' = F!Delete(sendCases, F!Find(sendCases, c))
      /\ subscription' = [subscription EXCEPT ![c] = "ended"]
      /\ UNCHANGED <<sendLock, cases, index, inbox, send, sent, got>>
  BY Zenon DEF F!RemoveLocked, F!sendVars, F!chanVars
<1>2. /\ sendCases' \in Seq(Channels) /\ IsInjective(sendCases') /\ Slices'
      /\ subscription' \in [Channels -> {"none", "active", "removing", "ended"}]
      /\ Len(sendCases') = Len(sendCases) - 1
  BY Zenon, <1>1, RemovedSlices
<1>3. PICK i \in 1 .. Len(sendCases) :
        \A k \in 1 .. Len(sendCases) - 1 :
          sendCases'[k] = IF k < i THEN sendCases[k] ELSE sendCases[k + 1]
  BY Zenon, <1>1, RemovedSlices
<1>4. FeedTypes'
  BY Zenon, <1>1, <1>2 DEF FeedInv, FeedTypes
<1>5. F!Active = 0 /\ F!Active' = 0 /\ Len(sendCases) \in Nat
  BY <1>1 DEF F!Active, F!Sending, FeedInv, FeedTypes
<1>6. FeedLock'
  BY <1>1, <1>2, <1>3, <1>5 DEF FeedInv, FeedLock
<1>7. \A k \in 1 .. Len(sendCases) - 1 : k > 0 /\ k \in 1 .. Len(sendCases) /\ k + 1 \in 1 .. Len(sendCases)
  BY <1>5
<1>8. \A k \in 1 .. Len(sendCases) :
        got[sendCases[k]] # <<>> /\ got[sendCases[k]][Len(got[sendCases[k]])] = sent
  BY <1>5 DEF FeedInv, DeliveredOnce, F!DeliveredOnce
<1>9. \A k \in 1 .. Len(sendCases) - 1 :
        got[sendCases'[k]] # <<>> /\ got[sendCases'[k]][Len(got[sendCases'[k]])] = sent
  BY Zenon, <1>3, <1>7, <1>8
<1>10. \A k \in 1 .. Len(sendCases') :
         /\ k > F!Active'
         /\ got'[sendCases'[k]] # <<>> /\ got'[sendCases'[k]][Len(got'[sendCases'[k]])] = sent'
  BY Zenon, <1>1, <1>2, <1>5, <1>7, <1>9
<1>11. DeliveredOnce'
  BY Zenon, <1>1, <1>10 DEF FeedInv, DeliveredOnce, F!DeliveredOnce
<1> QED
  BY Zenon, <1>2, <1>4, <1>6, <1>11 DEF FeedInv

LEMMA FeedReceiveInv == ASSUME FeedInv, NEW c \in Channels, F!Receive(c) PROVE FeedInv'
<1>1. UNCHANGED <<sendLock, sendCases, cases, index, inbox, send, sent, subscription, got>>
  BY Zenon DEF F!Receive, F!sendVars
<1>2. F!Active' = F!Active
  BY Zenon, <1>1 DEF F!Active, F!Sending
<1> QED
  BY Zenon, <1>1, <1>2, SlicesSame, DeliveredSame DEF FeedInv, FeedTypes, FeedLock

---------------------------------------------------------------------------
(* Send *)

LEMMA FeedSendInv == ASSUME FeedInv, NEW s \in Senders, F!Send(s) PROVE FeedInv'
<1>1. /\ send[s] = "idle" /\ send' = [send EXCEPT ![s] = "waiting"]
      /\ UNCHANGED <<sendLock, sendCases, cases, index, inbox, sent, subscription, got>>
  BY Zenon DEF F!Send, F!chanVars
<1>2. send \in [Senders -> {"idle", "waiting", "locked", "try", "select"}]
  BY Zenon DEF FeedInv, FeedTypes
<1>3. \A r \in Senders : send'[r] = IF r = s THEN "waiting" ELSE send[r]
  BY Zenon, <1>1, <1>2
<1>4. sendLock # s /\ (sendLock = Nobody \/ sendLock \in Senders)
  BY Zenon, <1>1 DEF FeedInv, FeedLock
<1>5. F!Active' = F!Active
  BY Zenon, <1>1, <1>3, <1>4 DEF F!Active, F!Sending
<1>6. FeedLock'
  BY <1>1, <1>3, <1>4, <1>5 DEF FeedInv, FeedLock
<1>7. FeedTypes'
  BY Zenon, <1>1, <1>2 DEF FeedInv, FeedTypes
<1> QED
  BY Zenon, <1>1, <1>5, <1>6, <1>7, SlicesSame, DeliveredSame DEF FeedInv

LEMMA TakeSendLockInv == ASSUME FeedInv, NEW s \in Senders, F!TakeSendLock(s) PROVE FeedInv'
<1>1. /\ send[s] = "waiting" /\ sendLock = Nobody
      /\ sendLock' = s /\ send' = [send EXCEPT ![s] = "locked"]
      /\ UNCHANGED <<sendCases, cases, index, inbox, sent, subscription, got>>
  BY Zenon DEF F!TakeSendLock, F!chanVars
<1>2. send \in [Senders -> {"idle", "waiting", "locked", "try", "select"}]
  BY Zenon DEF FeedInv, FeedTypes
<1>3. \A r \in Senders : send'[r] = IF r = s THEN "locked" ELSE send[r]
  BY Zenon, <1>1, <1>2
<1>4. F!Active = 0 /\ F!Active' = 0
  BY <1>1, <1>3 DEF F!Active, F!Sending
<1>5. \A r \in Senders : r # Nobody /\ send[r] \notin {"locked", "try", "select"}
  BY Zenon, <1>1, FeedAssumption DEF FeedInv, FeedLock
<1>6. FeedLock'
  BY Zenon, <1>1, <1>3, <1>4, <1>5 DEF FeedInv, FeedLock
<1>7. FeedTypes'
  BY Zenon, <1>1, <1>2 DEF FeedInv, FeedTypes
<1> QED
  BY Zenon, <1>1, <1>4, <1>6, <1>7, SlicesSame, DeliveredSame DEF FeedInv

LEMMA TriedInv == ASSUME FeedInv, NEW s \in Senders, F!Tried(s) PROVE FeedInv'
<1>1. /\ send[s] = "try"
      /\ UNCHANGED <<sendCases, cases, index, inbox, sent, subscription, got>>
      /\ IF cases = 0 THEN sendLock' = Nobody /\ send' = [send EXCEPT ![s] = "idle"]
                      ELSE sendLock' = sendLock /\ send' = [send EXCEPT ![s] = "select"]
  BY Zenon DEF F!Tried, F!chanVars
<1>2. send \in [Senders -> {"idle", "waiting", "locked", "try", "select"}]
  BY Zenon DEF FeedInv, FeedTypes
<1>3. sendLock = s /\ s # Nobody /\ F!Active = cases
  BY Zenon, <1>1, ActiveIs, FeedAssumption DEF FeedInv, FeedLock
<1>4. \A r \in Senders : r # s => send'[r] = send[r] /\ send[r] \notin {"locked", "try", "select"}
  BY Zenon, <1>1, <1>2, <1>3 DEF FeedInv, FeedLock
<1>5. send'[s] = IF cases = 0 THEN "idle" ELSE "select"
  BY Zenon, <1>1, <1>2
<1>6. F!Active' = F!Active
  BY Zenon, <1>1, <1>3, <1>5 DEF F!Active, F!Sending
<1>7. FeedLock'
  <2>1. sendLock' \in Senders \cup {Nobody}
    BY Zenon, <1>1, <1>3
  <2>2. ASSUME NEW r \in Senders
        PROVE  send'[r] \in {"locked", "try", "select"} <=> sendLock' = r
    BY Zenon, <1>1, <1>3, <1>4, <1>5, FeedAssumption
  <2> QED
    BY Zenon, <1>1, <1>6, <2>1, <2>2 DEF FeedInv, FeedLock
<1>8. FeedTypes'
  BY Zenon, <1>1, <1>2 DEF FeedInv, FeedTypes
<1> QED
  BY Zenon, <1>1, <1>6, <1>7, <1>8, SlicesSame, DeliveredSame DEF FeedInv

(* The cases of a Send are those of the last one and the inbox. *)
LEMMA AddInboxInv == ASSUME FeedInv, NEW s \in Senders, F!AddInbox(s) PROVE FeedInv'
<1>1. /\ send[s] = "locked" /\ sendCases' = sendCases \o inbox /\ inbox' = <<>>
      /\ cases' = Len(sendCases') /\ index' = 1 /\ sent' = sent + 1
      /\ send' = [send EXCEPT ![s] = "try"] /\ UNCHANGED <<sendLock, subscription, got>>
  BY Zenon DEF F!AddInbox, F!chanVars
<1>2. /\ sendCases \in Seq(Channels) /\ IsInjective(sendCases)
      /\ inbox \in Seq(Channels) /\ IsInjective(inbox) /\ sent \in Nat
      /\ send \in [Senders -> {"idle", "waiting", "locked", "try", "select"}]
  BY Zenon DEF FeedInv, FeedTypes
<1>3. Range(sendCases) \cap Range(inbox) = {}
  BY Zenon DEF FeedInv, Slices
<1>4. /\ sendCases' \in Seq(Channels) /\ Len(sendCases') = Len(sendCases) + Len(inbox)
      /\ IsInjective(sendCases') /\ Range(sendCases') = Range(sendCases) \cup Range(inbox)
  <2>1. PICK p, q : p = sendCases /\ q = inbox
    BY Zenon
  <2>2. /\ p \o q \in Seq(Channels) /\ Len(p \o q) = Len(p) + Len(q)
        /\ IsInjective(p \o q) /\ Range(p \o q) = Range(p) \cup Range(q)
    BY <1>2, <1>3, <2>1, ConcatOf
  <2> QED
    BY Zenon, <1>1, <2>1, <2>2
<1>5. Range(inbox') = {} /\ inbox' \in Seq(Channels) /\ IsInjective(inbox')
  BY <1>1 DEF Range, IsInjective
<1>6. Len(sendCases') \in Nat
  BY <1>4
<1>7. FeedTypes'
  BY <1>1, <1>2, <1>4, <1>5, <1>6 DEF FeedInv, FeedTypes
<1>8. sendLock = s /\ s # Nobody /\ F!Active = 0
  BY Zenon, <1>1, ActiveIs, FeedAssumption DEF FeedInv, FeedLock
<1>9. \A r \in Senders : send'[r] = IF r = s THEN "try" ELSE send[r]
  BY Zenon, <1>1, <1>2
<1>10. F!Active' = Len(sendCases')
  BY Zenon, <1>1, <1>8, <1>9 DEF F!Active, F!Sending
<1>11. FeedLock'
  BY <1>1, <1>6, <1>8, <1>9, <1>10 DEF FeedInv, FeedLock
<1>12. Slices'
  BY Zenon, <1>1, <1>4, <1>5 DEF FeedInv, Slices
<1>13. ASSUME NEW k \in 1 .. Len(sendCases'), NEW g, g = got[sendCases'[k]]
       PROVE  ~(k > Len(sendCases')) /\ (g = <<>> \/ g[Len(g)] = (sent + 1) - 1)
  <2>1. sendCases'[k] \in Range(sendCases) \cup Range(inbox)
    BY Zenon, <1>4, <1>13, RangeOf
  <2>2. CASE sendCases'[k] \in Range(inbox)
    BY <1>6, <1>13, <2>2 DEF FeedInv, Slices
  <2>3. CASE sendCases'[k] \in Range(sendCases)
    <3>1. PICK i \in 1 .. Len(sendCases) : sendCases[i] = sendCases'[k]
      BY Zenon, <1>2, <2>3, RangeOf
    <3>2. i > 0
      BY <1>2, <3>1
    <3>3. got[sendCases[i]][Len(got[sendCases[i]])] = sent
      BY Zenon, <1>8, <3>2 DEF FeedInv, DeliveredOnce, F!DeliveredOnce
    <3> QED
      BY <1>2, <1>6, <1>13, <3>1, <3>3
  <2> QED
    BY Zenon, <2>1, <2>2, <2>3
<1>14. DeliveredOnce'
  BY Zenon, <1>1, <1>10, <1>13 DEF FeedInv, DeliveredOnce, F!DeliveredOnce
<1> QED
  BY Zenon, <1>7, <1>11, <1>12, <1>14 DEF FeedInv

(* A value goes into the i-th active case, which leaves the prefix. *)
LEMMA SendOnInv ==
  ASSUME FeedInv, NEW s \in Senders, send[s] \in {"try", "select"}, NEW i \in 1 .. cases,
         F!SendOn(i), UNCHANGED <<sendLock, inbox, sent, subscription>>,
         send' = [send EXCEPT ![s] = "try"], index' \in Nat \ {0}
  PROVE  FeedInv'
<1>1. PICK c, q, g, n : c = sendCases[i] /\ q = sendCases /\ g = got[sendCases[i]] /\ n = cases
  BY Zenon
<1>2. /\ got' = [got EXCEPT ![c] = Append(g, sent)]
      /\ sendCases' = F!Deactivate(q, n, i) /\ cases' = n - 1
  BY Zenon, <1>1 DEF F!SendOn
<1>3. /\ q \in Seq(Channels) /\ IsInjective(q) /\ n \in Nat /\ sent \in Nat
      /\ got \in [Channels -> Seq(Nat)]
      /\ send \in [Senders -> {"idle", "waiting", "locked", "try", "select"}]
  BY Zenon, <1>1 DEF FeedInv, FeedTypes
<1>4. sendLock = s /\ s # Nobody /\ F!Active = n
  BY Zenon, <1>1, ActiveIs, FeedAssumption DEF FeedInv, FeedLock
<1>5. n \in 1 .. Len(q) /\ i \in 1 .. n /\ i \in 1 .. Len(q) /\ Len(q) \in Nat
  BY <1>1, <1>3, <1>4 DEF FeedInv, FeedLock
<1>6. c \in Channels /\ g \in Seq(Nat) /\ q[i] = c /\ g = got[c]
  BY <1>1, <1>3, <1>5
<1>7. PICK d : d = F!Deactivate(q, n, i)
  BY Zenon
<1>8. /\ d \in Seq(Channels) /\ Len(d) = Len(q) /\ IsInjective(d) /\ Range(d) = Range(q)
      /\ \A k \in 1 .. Len(q) : d[k] = IF k = n THEN q[i] ELSE IF k = i THEN q[n] ELSE q[k]
  <2>1. d \in Seq(Channels) /\ Swapped(d, q, n, i)
    BY Zenon, <1>3, <1>5, <1>7, DeactivateOf
  <2> QED
    BY ONLY Zenon, <2>1 DEF Swapped
<1>9. /\ Append(g, sent) \in Seq(Nat) /\ Append(g, sent) # <<>>
      /\ Len(Append(g, sent)) = Len(g) + 1 /\ Append(g, sent)[Len(g) + 1] = sent
      /\ \A k \in 1 .. Len(g) : Append(g, sent)[k] = g[k]
      /\ Len(g) \in Nat
  <2>1. g \in Seq(Nat) /\ sent \in Nat
    BY Zenon, <1>3, <1>6
  <2> QED
    BY ONLY <2>1
<1>10. /\ got' \in [Channels -> Seq(Nat)]
       /\ \A x \in Channels : got'[x] = IF x = c THEN Append(g, sent) ELSE got[x]
  BY Zenon, <1>2, <1>3, <1>6, <1>9
<1>11. cases' \in Nat /\ sendCases' = d
  BY <1>2, <1>3, <1>5, <1>7
<1>12. FeedTypes'
  BY Zenon, <1>3, <1>8, <1>10, <1>11 DEF FeedInv, FeedTypes
<1>13. \A r \in Senders : send'[r] = IF r = s THEN "try" ELSE send[r]
  BY Zenon, <1>3
<1>14. F!Active' = n - 1
  BY Zenon, <1>2, <1>4, <1>13 DEF F!Active, F!Sending
<1>15. FeedLock'
  <2>1. n - 1 <= Len(q)
    BY <1>3, <1>5
  <2> QED
    BY Zenon, <1>4, <1>8, <1>11, <1>13, <1>14, <2>1 DEF FeedInv, FeedLock
<1>16. Slices'
  <2>1. c \in Range(q) /\ c \notin Range(inbox) /\ subscription[c] # "none"
    BY Zenon, <1>1, <1>3, <1>5, <1>6, RangeOf DEF FeedInv, Slices
  <2>2. Range(inbox) \subseteq Channels
    BY Zenon, RangeOf DEF FeedInv, FeedTypes
  <2> QED
    BY Zenon, <1>1, <1>8, <1>10, <1>11, <2>1, <2>2 DEF FeedInv, Slices
<1>17. g = <<>> \/ g[Len(g)] = sent - 1
  <2>1. ~(i > n) /\ i \in 1 .. Len(sendCases)
    BY <1>1, <1>3, <1>5
  <2> QED
    BY Zenon, <1>1, <1>4, <2>1 DEF FeedInv, DeliveredOnce, F!DeliveredOnce
<1>18. ASSUME NEW x \in Channels, NEW k \in 1 .. Len(got'[x]) - 1
       PROVE  got'[x][k + 1] = got'[x][k] + 1
  <2>1. CASE x # c
    BY Zenon, <1>10, <1>18, <2>1 DEF FeedInv, DeliveredOnce, F!DeliveredOnce
  <2>2. CASE x = c /\ k \in 1 .. Len(g) - 1
    <3>1. g[k + 1] = g[k] + 1
      BY Zenon, <1>6, <2>2 DEF FeedInv, DeliveredOnce, F!DeliveredOnce
    <3>2. k \in 1 .. Len(g) /\ k + 1 \in 1 .. Len(g)
      BY <1>9, <2>2
    <3> QED
      BY Zenon, <1>9, <1>10, <2>2, <3>1, <3>2
  <2>3. CASE x = c /\ k = Len(g)
    <3>1. k \in 1 .. Len(g) /\ g # <<>>
      BY <1>6, <1>9, <1>10, <1>18, <2>3
    <3>2. got'[x][k + 1] = sent /\ got'[x][k] = sent - 1
      BY Zenon, <1>9, <1>10, <1>17, <2>3, <3>1
    <3> QED
      BY <1>3, <3>2
  <2>4. x = c => k \in 1 .. Len(g) - 1 \/ k = Len(g)
    BY <1>9, <1>10, <1>18
  <2> QED
    BY Zenon, <2>1, <2>2, <2>3, <2>4
<1>19. ASSUME NEW k \in 1 .. Len(q), NEW h, h = got'[d[k]]
       PROVE  IF k > n - 1 THEN h # <<>> /\ h[Len(h)] = sent
                           ELSE h = <<>> \/ h[Len(h)] = sent - 1
  <2> DEFINE j == IF k = n THEN i ELSE IF k = i THEN n ELSE k
  <2>1. d[k] = q[j] /\ j \in 1 .. Len(q)
    BY Zenon, <1>5, <1>8
  <2>2. IF j > n THEN got[q[j]] # <<>> /\ got[q[j]][Len(got[q[j]])] = sent
                 ELSE got[q[j]] = <<>> \/ got[q[j]][Len(got[q[j]])] = sent - 1
    BY Zenon, <1>1, <1>4, <2>1 DEF FeedInv, DeliveredOnce, F!DeliveredOnce
  <2>3. CASE k = n
    <3>1. d[k] = c
      BY Zenon, <1>6, <2>1, <2>3
    <3>2. h = Append(g, sent)
      BY Zenon, <1>6, <1>10, <1>19, <3>1
    <3> QED
      BY <1>3, <1>9, <2>3, <3>2
  <2>4. CASE k # n
    <3>1. j # i
      BY Zenon, <2>4
    <3>2. q[j] # c /\ q[j] \in Channels
      <4>1. \A a, b \in 1 .. Len(q) : q[a] = q[b] => a = b
        BY <1>3 DEF IsInjective
      <4> HIDE DEF j
      <4>2. q[j] # q[i]
        BY ONLY Zenon, <1>5, <2>1, <3>1, <4>1
      <4> QED
        BY <1>3, <1>6, <2>1, <4>2
    <3>3. h = got[q[j]]
      BY Zenon, <1>10, <1>19, <2>1, <3>2
    <3>4. (j > n) = (k > n - 1)
      BY <1>3, <1>5, <2>4
    <3> QED
      BY Zenon, <2>2, <3>3, <3>4
  <2> QED
    BY Zenon, <2>3, <2>4
<1>20. DeliveredOnce'
  BY Zenon, <1>8, <1>11, <1>14, <1>18, <1>19 DEF DeliveredOnce, F!DeliveredOnce
<1> QED
  BY Zenon, <1>12, <1>15, <1>16, <1>20 DEF FeedInv

LEMMA TrySendInv == ASSUME FeedInv, NEW s \in Senders, F!TrySend(s) PROVE FeedInv'
<1>1. /\ send[s] = "try" /\ index <= cases
      /\ UNCHANGED <<sendLock, send, sent, inbox, subscription>>
  BY Zenon DEF F!TrySend
<1>2. /\ index \in Nat \ {0} /\ cases \in Nat
      /\ send \in [Senders -> {"idle", "waiting", "locked", "try", "select"}]
  BY Zenon DEF FeedInv, FeedTypes
<1>3. CASE F!SendOn(index) /\ UNCHANGED index
  <2>1. PICK i : i = index
    BY Zenon
  <2>2. i \in 1 .. cases /\ F!SendOn(i) /\ send' = [send EXCEPT ![s] = "try"]
        /\ index' \in Nat \ {0} /\ send[s] \in {"try", "select"}
    BY <1>1, <1>2, <1>3, <2>1
  <2> QED
    BY Zenon, <1>1, <2>2, SendOnInv
<1>4. CASE index' = index + 1 /\ UNCHANGED <<buffer, got, sendCases, cases>>
  <2>1. F!Active' = F!Active
    BY Zenon, <1>1, <1>4 DEF F!Active, F!Sending
  <2>2. FeedTypes'
    BY <1>1, <1>2, <1>4 DEF FeedInv, FeedTypes
  <2>3. FeedLock'
    BY Zenon, <1>1, <1>4, <2>1 DEF FeedInv, FeedLock
  <2> QED
    BY Zenon, <1>1, <1>4, <2>1, <2>2, <2>3, SlicesSame, DeliveredSame DEF FeedInv
<1> QED
  BY Zenon, <1>3, <1>4 DEF F!TrySend

LEMMA SelectSendInv == ASSUME FeedInv, NEW s \in Senders, F!SelectSend(s) PROVE FeedInv'
<1>1. /\ send[s] = "select" /\ send' = [send EXCEPT ![s] = "try"] /\ index' = 1
      /\ UNCHANGED <<sendLock, inbox, sent, subscription>>
  BY Zenon DEF F!SelectSend
<1>2. PICK i \in 1 .. cases : F!SendOn(i)
  BY Zenon DEF F!SelectSend
<1>3. send[s] \in {"try", "select"} /\ index' \in Nat \ {0}
  BY <1>1
<1> QED
  BY Zenon, <1>1, <1>2, <1>3, SendOnInv

(* Deleting a case before or behind the end of the active prefix. *)
LEMMA SelectRemoveInv == ASSUME FeedInv, NEW s \in Senders, F!SelectRemove(s) PROVE FeedInv'
<1>1. /\ send[s] = "select" /\ send' = [send EXCEPT ![s] = "try"] /\ index' = 1
      /\ UNCHANGED <<sendLock, sent, inbox, got>>
  BY Zenon DEF F!SelectRemove, F!chanVars
<1>2. PICK c \in Channels :
        /\ subscription[c] = "removing"
        /\ sendCases' = F!Delete(sendCases, F!Find(sendCases, c))
        /\ cases' = F!Shrunk(c)
        /\ subscription' = [subscription EXCEPT ![c] = "ended"]
  BY Zenon DEF F!SelectRemove
<1>3. /\ sendCases' \in Seq(Channels) /\ IsInjective(sendCases') /\ Slices'
      /\ subscription' \in [Channels -> {"none", "active", "removing", "ended"}]
      /\ Len(sendCases') = Len(sendCases) - 1
  BY Zenon, <1>1, <1>2, RemovedSlices
<1>4. PICK i \in 1 .. Len(sendCases) :
        /\ sendCases[i] = c
        /\ \A k \in 1 .. Len(sendCases) - 1 :
             sendCases'[k] = IF k < i THEN sendCases[k] ELSE sendCases[k + 1]
  BY Zenon, <1>1, <1>2, RemovedSlices
<1>5. /\ sendCases \in Seq(Channels) /\ cases \in Nat /\ Len(sendCases) \in Nat
      /\ send \in [Senders -> {"idle", "waiting", "locked", "try", "select"}]
      /\ \A j, k \in 1 .. Len(sendCases) : sendCases[j] = sendCases[k] => j = k
  BY DEF FeedInv, FeedTypes, IsInjective
<1>6. sendLock = s /\ s # Nobody /\ F!Active = cases /\ cases <= Len(sendCases)
  BY Zenon, <1>1, ActiveIs, FeedAssumption DEF FeedInv, FeedLock
<1>7. cases' = IF i <= cases THEN cases - 1 ELSE cases
  <2>1. CASE i <= cases
    <3>1. i \in 1 .. cases
      BY <1>4, <1>5, <2>1
    <3> QED
      BY Zenon, <1>2, <1>4, <2>1, <3>1 DEF F!Shrunk
  <2>2. CASE ~(i <= cases)
    <3>1. \A k \in 1 .. cases : k \in 1 .. Len(sendCases) /\ k # i
      BY <1>4, <1>5, <1>6, <2>2
    <3>2. \A k \in 1 .. cases : sendCases[k] # c
      BY Zenon, <1>4, <1>5, <3>1
    <3> QED
      BY Zenon, <1>2, <2>2, <3>2 DEF F!Shrunk
  <2> QED
    BY Zenon, <2>1, <2>2
<1>8. cases' \in Nat /\ cases' <= Len(sendCases) - 1
  BY <1>4, <1>5, <1>6, <1>7
<1>9. FeedTypes'
  BY <1>1, <1>3, <1>5, <1>8 DEF FeedInv, FeedTypes
<1>10. \A r \in Senders : send'[r] = IF r = s THEN "try" ELSE send[r]
  BY Zenon, <1>1, <1>5
<1>11. F!Active' = cases'
  BY Zenon, <1>1, <1>6, <1>10 DEF F!Active, F!Sending
<1>12. FeedLock'
  BY Zenon, <1>1, <1>3, <1>6, <1>8, <1>10, <1>11 DEF FeedInv, FeedLock
<1>13. ASSUME NEW k \in 1 .. Len(sendCases) - 1, NEW h, h = got[sendCases'[k]]
       PROVE  IF k > cases' THEN h # <<>> /\ h[Len(h)] = sent
                            ELSE h = <<>> \/ h[Len(h)] = sent - 1
  <2>1. PICK j : j = IF k < i THEN k ELSE k + 1
    BY Zenon
  <2>2. j \in 1 .. Len(sendCases) /\ (j > cases) = (k > cases')
    BY <1>4, <1>5, <1>6, <1>7, <2>1
  <2>3. sendCases'[k] = sendCases[j]
    BY Zenon, <1>4, <2>1
  <2>4. IF j > cases THEN h # <<>> /\ h[Len(h)] = sent ELSE h = <<>> \/ h[Len(h)] = sent - 1
    BY Zenon, <1>6, <1>13, <2>2, <2>3 DEF FeedInv, DeliveredOnce, F!DeliveredOnce
  <2> QED
    BY Zenon, <2>2, <2>4
<1>14. DeliveredOnce'
  BY Zenon, <1>1, <1>3, <1>11, <1>13 DEF FeedInv, DeliveredOnce, F!DeliveredOnce
<1> QED
  BY Zenon, <1>3, <1>9, <1>12, <1>14 DEF FeedInv

LEMMA FeedAlways == F!Spec => []FeedInv
<1>1. ASSUME FeedInv, F!Next PROVE FeedInv'
  BY Zenon, <1>1, FeedSubscribeInv, FeedUnsubscribeInv, RemoveLockedInv, FeedReceiveInv, FeedSendInv,
     TakeSendLockInv, AddInboxInv, TrySendInv, TriedInv, SelectSendInv, SelectRemoveInv
  DEF F!Next
<1>2. ASSUME FeedInv, UNCHANGED F!vars PROVE FeedInv'
  <2>1. UNCHANGED <<sendLock, sendCases, cases, index, inbox, send, sent, subscription, got>>
    BY Zenon, <1>2 DEF F!vars, F!sendVars, F!chanVars
  <2>2. F!Active' = F!Active
    BY Zenon, <2>1 DEF F!Active, F!Sending
  <2> QED
    BY Zenon, <1>2, <2>1, <2>2, SlicesSame, DeliveredSame DEF FeedInv, FeedTypes, FeedLock
<1>3. FeedInv /\ [F!Next]_(F!vars) => FeedInv'
  BY Zenon, <1>1, <1>2
<1> QED
  BY <1>3, FeedInit, PTL DEF F!Spec

---------------------------------------------------------------------------
(* Every channel is sent every value once and in order from its first one  *)
(* on, for any number of channels and senders, whatever Unsubscribe        *)
(* deletes from the cases of a Send in progress: no case is skipped and    *)
(* none is served twice.                                                   *)
THEOREM FeedDeliversOnce == F!Spec => []DeliveredOnce
<1>1. FeedInv => DeliveredOnce
  BY Zenon DEF FeedInv
<1> QED
  BY <1>1, FeedAlways, PTL

(* Once Unsubscribe has returned, no Send puts a value into the channel.   *)
THEOREM FeedUnsubscribedForGood == F!Spec => FeedUnsubscribeIsFinal
<1>1. ASSUME FeedInv, F!Next, NEW c \in Channels, subscription[c] = "ended"
      PROVE  got'[c] = got[c]
  <2>1. /\ sendCases \in Seq(Channels) /\ got \in [Channels -> Seq(Nat)] /\ cases \in Nat
        /\ index \in Nat \ {0}
    BY Zenon, <1>1 DEF FeedInv, FeedTypes
  <2>2. c \notin Range(sendCases)
    BY Zenon, <1>1 DEF FeedInv, Slices
  <2>3. ASSUME NEW s \in Senders, send[s] \in {"try", "select"}, NEW i \in 1 .. cases, F!SendOn(i)
        PROVE  got'[c] = got[c]
    <3>1. cases <= Len(sendCases)
      BY Zenon, <1>1, <2>3, ActiveIs DEF FeedInv, FeedLock
    <3>2. i \in 1 .. Len(sendCases)
      BY <2>1, <2>3, <3>1
    <3>3. sendCases[i] # c
      BY Zenon, <2>1, <2>2, <3>2, RangeOf
    <3> QED
      BY Zenon, <2>1, <2>3, <3>3 DEF F!SendOn
  <2>4. ASSUME NEW s \in Senders, F!TrySend(s) PROVE got'[c] = got[c]
    <3>1. send[s] \in {"try", "select"} /\ index \in 1 .. cases
      BY <2>1, <2>4 DEF F!TrySend
    <3>2. F!SendOn(index) \/ got' = got
      BY Zenon, <2>4 DEF F!TrySend
    <3> QED
      BY Zenon, <2>3, <3>1, <3>2
  <2>5. ASSUME NEW s \in Senders, F!SelectSend(s) PROVE got'[c] = got[c]
    BY Zenon, <2>3, <2>5 DEF F!SelectSend
  <2>6. ASSUME NEW s \in Senders,
               F!Send(s) \/ F!TakeSendLock(s) \/ F!AddInbox(s) \/ F!Tried(s) \/ F!SelectRemove(s)
        PROVE  got'[c] = got[c]
    BY Zenon, <2>6 DEF F!Send, F!TakeSendLock, F!AddInbox, F!Tried, F!SelectRemove, F!chanVars
  <2>7. ASSUME NEW x \in Channels,
               F!Subscribe(x) \/ F!Unsubscribe(x) \/ F!RemoveLocked(x) \/ F!Receive(x)
        PROVE  got'[c] = got[c]
    BY Zenon, <2>7 DEF F!Subscribe, F!Unsubscribe, F!RemoveLocked, F!Receive, F!chanVars
  <2> QED
    BY Zenon, <1>1, <2>4, <2>5, <2>6, <2>7 DEF F!Next
<1>2. FeedInv /\ [F!Next]_(F!vars) =>
        [\A c \in Channels : subscription[c] = "ended" => got'[c] = got[c]]_(F!vars)
  BY Zenon, <1>1
<1> QED
  BY <1>2, FeedAlways, PTL DEF F!Spec, FeedUnsubscribeIsFinal, F!UnsubscribeIsFinal
===========================================================================
