---------------------------- MODULE SenderProofs ----------------------------
(***************************************************************************)
(* What TLAPS proves of Sender, for every set of keys, values and          *)
(* receivers and any number of changes of the cache.                       *)
(***************************************************************************)
EXTENDS Sender, FiniteSetTheorems, TLAPS

-----------------------------------------------------------------------------
(* clearNilReceivers keeps every receiver, and none twice.                 *)

(* The places of the receivers that are left are 1, 2, ... in their order. *)
LEMMA Places ==
  ASSUME slots \in Seq(Receivers \union {Nil})
  PROVE  /\ Cardinality(Kept) \in Nat
         /\ \A i \in Kept : Place(i) \in 1 .. Cardinality(Kept)
         /\ \A i, j \in Kept : Place(i) = Place(j) => i = j
         /\ \A n \in 1 .. Cardinality(Kept) : \E i \in Kept : Place(i) = n
<1> DEFINE To(i) == {j \in Kept : j <= i}
           N == Cardinality(Kept)
           f == [i \in Kept |-> Place(i)]
<1>1. IsFiniteSet(Kept) /\ N \in Nat /\ Kept \subseteq 1 .. Len(slots)
  <2>1. Kept \subseteq 1 .. Len(slots) /\ Len(slots) \in Nat
    BY DEF Kept
  <2>2. IsFiniteSet(1 .. Len(slots))
    BY <2>1, FS_Interval
  <2>. QED  BY <2>1, <2>2, FS_Subset, FS_CardinalityType
<1>2. ASSUME NEW i \in Kept
      PROVE  IsFiniteSet(To(i)) /\ Place(i) \in 1 .. N
  <2>1. To(i) \in SUBSET Kept
    OBVIOUS
  <2>2. IsFiniteSet(To(i)) /\ Cardinality(To(i)) <= N /\ Cardinality(To(i)) \in Nat
    BY <1>1, <2>1, FS_Subset, FS_CardinalityType
  <2>3. i \in To(i)
    BY <1>1
  <2>4. Cardinality(To(i)) # 0
    BY <2>2, <2>3, FS_EmptySet
  <2>. QED  BY <1>1, <2>2, <2>4 DEF Place
<1>3. ASSUME NEW i \in Kept, NEW j \in Kept, i < j
      PROVE  Place(i) < Place(j)
  <2>0. i \in Int /\ j \in Int /\ Kept \subseteq Int
    BY <1>1
  <2>1. To(i) \in SUBSET To(j) /\ j \in To(j) /\ j \notin To(i)
    <3>1. j \in To(j) /\ j \notin To(i)
      BY <2>0, <1>3
    <3>2. \A k \in Kept : k <= i => k <= j
      BY <2>0, <1>3
    <3>. QED  BY <3>1, <3>2
  <2>2. /\ Cardinality(To(i)) <= Cardinality(To(j))
        /\ Cardinality(To(i)) # Cardinality(To(j))
    <3>1. IsFiniteSet(To(j)) /\ To(i) # To(j)
      BY <1>2, <2>1
    <3>. HIDE DEF To
    <3>. QED  BY <2>1, <3>1, FS_Subset
  <2>3. Cardinality(To(i)) \in Nat /\ Cardinality(To(j)) \in Nat
    BY <1>2, FS_CardinalityType
  <2>. QED  BY <2>2, <2>3 DEF Place
<1>4. ASSUME NEW i \in Kept, NEW j \in Kept, Place(i) = Place(j)
      PROVE  i = j
  <2>1. i \in Int /\ j \in Int
    BY <1>1
  <2>0. Place(i) \in 1 .. N /\ Place(j) \in 1 .. N
    BY <1>2
  <2>2. ~(i < j) /\ ~(j < i)
    <3>. HIDE DEF N
    <3>. QED  BY <1>1, <1>3, <1>4, <2>0
  <2>. QED  BY <2>1, <2>2
<1>5. f \in Injection(Kept, 1 .. N)
  <2>1. f \in [Kept -> 1 .. N]
    BY <1>2
  <2>2. \A a, b \in Kept : f[a] = f[b] => a = b
    BY <1>4
  <2>3. DOMAIN f = Kept
    OBVIOUS
  <2>. HIDE DEF f, N
  <2>. QED  BY <2>1, <2>2, <2>3 DEF Injection, IsInjective
<1>6. IsFiniteSet(1 .. N) /\ Cardinality(1 .. N) = N
  BY <1>1, FS_Interval
<1>7. f \in Surjection(Kept, 1 .. N)
  BY <1>5, <1>6, FS_Injection
<1>8. \A n \in 1 .. N : \E i \in Kept : f[i] = n
  BY <1>7 DEF Surjection
<1>. QED  BY <1>1, <1>2, <1>4, <1>8

LEMMA NewList ==
  ASSUME slots \in Seq(Receivers \union {Nil})
  PROVE  /\ newList \in Seq(Receivers \union {Nil})
         /\ \A m \in DOMAIN newList : \E i \in Kept : newList[m] = slots[i]
         /\ \A i \in Kept : \E m \in DOMAIN newList : newList[m] = slots[i]
         /\ \A m, n \in DOMAIN newList : m # n =>
              \E i, j \in Kept : i # j /\ newList[m] = slots[i]
                                       /\ newList[n] = slots[j]
<1> DEFINE N == Cardinality(Kept)
           At(n) == CHOOSE i \in Kept : Place(i) = n
<1>1. N \in Nat /\ DOMAIN newList = 1 .. N
  BY Places DEF newList
<1>2. ASSUME NEW n \in 1 .. N
      PROVE  At(n) \in Kept /\ Place(At(n)) = n /\ newList[n] = slots[At(n)]
  <2>1. \E i \in Kept : Place(i) = n
    BY Places
  <2>. QED  BY <2>1 DEF newList
<1>3. ASSUME NEW n \in 1 .. N
      PROVE  newList[n] \in Receivers \union {Nil}
  <2>1. newList[n] = slots[At(n)] /\ At(n) \in DOMAIN slots
    BY <1>2 DEF Kept
  <2>. HIDE DEF At
  <2>. QED  BY <2>1
<1>4. newList \in Seq(Receivers \union {Nil})
  <2>1. newList \in [1 .. N -> Receivers \union {Nil}]
    <3>1. newList = [n \in 1 .. N |-> slots[At(n)]]
      BY DEF newList
    <3>2. \A n \in 1 .. N : slots[At(n)] \in Receivers \union {Nil}
      BY <1>2, <1>3
    <3>. HIDE DEF N, At
    <3>. QED  BY <3>1, <3>2
  <2>. QED  BY <1>1, <2>1
<1>5. ASSUME NEW i \in Kept
      PROVE  \E m \in DOMAIN newList : newList[m] = slots[i]
  <2>1. Place(i) \in 1 .. N
    BY Places
  <2>2. At(Place(i)) = i
    BY <1>2, <2>1, Places
  <2>. QED  BY <1>1, <1>2, <2>1, <2>2
<1>6. \A m \in 1 .. N : newList[m] = slots[At(m)] /\ At(m) \in Kept
  BY <1>2
<1>7. \A m, n \in 1 .. N : m # n => At(m) # At(n)
  BY <1>2
<1>8. \A m \in DOMAIN newList : \E i \in Kept : newList[m] = slots[i]
  BY <1>1, <1>6
<1>9. \A m, n \in DOMAIN newList : m # n =>
        \E i, j \in Kept : i # j /\ newList[m] = slots[i] /\ newList[n] = slots[j]
  <2>. HIDE DEF At
  <2>. QED  BY <1>1, <1>6, <1>7
<1>. HIDE DEF N, At
<1>. QED  BY <1>4, <1>5, <1>8, <1>9, Zenon

-----------------------------------------------------------------------------
(* What Get answers.                                                       *)

LEMMA GetType ==
  ASSUME NEW c \in Caches, NEW s
  PROVE  Get(c, s) \in SUBSET (Keys \X Values)
BY DEF Get, Present, Caches

(* A change of other keys than those under s leaves the answer as it was.  *)
LEMMA GetUnchanged ==
  ASSUME NEW r \in Receivers, NEW c \in Caches, NEW d \in Caches,
         \A k \in Under[Watched[r]] : c[k] = d[k]
  PROVE  Get(c, Watched[r]) = Get(d, Watched[r])
<1> DEFINE s == Watched[r]
           Found(e) == IF s \in Present(e) THEN {s} ELSE Present(e) \intersect Under[s]
<1>1. Under[s] \subseteq Keys /\ (s \in Keys => s \in Under[s])
  BY SenderAssumption
<1>2. s \in Present(c) <=> s \in Present(d)
  BY <1>1 DEF Present
<1>3. Present(c) \intersect Under[s] = Present(d) \intersect Under[s]
  BY <1>1 DEF Present
<1>4. Found(c) = Found(d)
  BY <1>2, <1>3
<1>5. \A k \in Found(c) : c[k] = d[k]
  BY <1>1 DEF Present
<1>6. {<<k, c[k]>> : k \in Found(c)} = {<<k, d[k]>> : k \in Found(d)}
  <2>. HIDE DEF Found
  <2>. QED  BY <1>4, <1>5
<1>. QED  BY <1>6 DEF Get

LEMMA EventType ==
  ASSUME TypeOK, NEW r \in Receivers, NEW id \in Nat
  PROVE  EventFor(r, id) \in Events
BY GetType DEF EventFor, Events, TypeOK, SourceTypeOK

-----------------------------------------------------------------------------
(* The types.                                                              *)

LEMMA InitInv == Init => IInv
<1>. SUFFICES ASSUME Init PROVE IInv
  OBVIOUS
<1>. USE DEF Init, SourceInit
<1>1. cache \in Caches
  BY DEF Caches
<1>2. \A r \in Receivers : EventFor(r, 1) \in Events
  BY <1>1, GetType DEF EventFor, Events
<1>3. TypeOK
  BY <1>1, <1>2 DEF TypeOK, SourceTypeOK
<1>4. WalkInv /\ ListedOnce /\ ChannelInv /\ DoomedInv /\ CaughtInv
  BY DEF WalkInv, ListedOnce, ChannelInv, DoomedInv, CaughtInv
<1>5. CountInv
  BY DEF CountInv, EventFor
<1>. QED  BY <1>3, <1>4, <1>5 DEF IInv

(* A new cache, from the watcher's goroutine. *)
LEMMA CacheType ==
  ASSUME TypeOK, WalkInv, NEW new \in Caches, CacheRead(new) \/ CacheEvent(new)
  PROVE  TypeOK' /\ WalkInv'
<1>. USE DEF TypeOK, SourceTypeOK, WalkInv
<1>1. /\ cache' \in Caches /\ mode' \in {"idle", "announcing"}
      /\ pending' \subseteq Keys /\ clock' = clock + 1
      /\ UNCHANGED <<senderVars, got, doomed>> /\ missed' \subseteq Receivers
      /\ mode' = "idle" => pending' = {}
      /\ walk = 0
  <2>1. CASE Load(new) /\ CacheRead(new)
    BY <2>1 DEF Load, CacheRead, PassedOver
  <2>2. CASE Replace(new) /\ CacheRead(new)
    BY <2>2 DEF Replace, CacheRead, PassedOver, Present
  <2>3. CASE CacheEvent(new)
    BY <2>3 DEF CacheEvent, Change, Lock
  <2>. QED  BY <2>1, <2>2, <2>3 DEF CacheRead
<1>2. clock' \in Nat
  BY <1>1
<1>. QED  BY <1>1, <1>2 DEF senderVars

(* A step of Broadcast. *)
LEMMA WalkType ==
  ASSUME TypeOK, WalkInv, Walk
  PROVE  TypeOK' /\ WalkInv'
<1>. USE DEF TypeOK, SourceTypeOK, WalkInv, sourceVars
<1>1. CASE Broadcast
  BY <1>1 DEF Broadcast
<1>2. CASE VisitNil
  BY <1>2 DEF VisitNil, Visiting
<1>3. CASE BroadcastReturns
  <2>1. clears' \in Nat
    BY <1>3 DEF BroadcastReturns
  <2>. QED  BY <1>3, <2>1 DEF BroadcastReturns, Announce, receiverHist
<1>4. ASSUME NEW r \in Receivers, VisitCanceled(r)
      PROVE  TypeOK' /\ WalkInv'
  <2>1. slots' \in Seq(Receivers \union {Nil})
    BY <1>4 DEF VisitCanceled, Visiting
  <2>. QED  BY <1>4, <2>1 DEF VisitCanceled, Visiting
<1>5. ASSUME NEW r \in Receivers, VisitSends(r)
      PROVE  TypeOK' /\ WalkInv'
  <2> DEFINE e == EventFor(r, counter[r])
  <2>1. e \in Events /\ <<e>> \in Seq(Events) /\ Len(<<e>>) = 1
    BY EventType
  <2>2. counter' \in [Receivers -> Nat] /\ walk' \in Nat
    BY <1>5 DEF VisitSends, Visiting
  <2>3. /\ chan' = [chan EXCEPT ![r] = <<e>>]
        /\ got' = [got EXCEPT ![r] = e]
        /\ missed' = missed \ {r}
        /\ UNCHANGED <<sourceVars, slots, nils, clears, open, canceled, clock, doomed>>
        /\ walk # 0
    BY <1>5 DEF VisitSends, Visiting
  <2>. HIDE DEF e
  <2>4. chan' \in [Receivers -> Seq(Events)] /\ got' \in [Receivers -> Events]
    BY <2>1, <2>3
  <2>5. \A q \in Receivers : Len(chan'[q]) <= 1
    BY <2>1, <2>3
  <2>. QED  BY <2>2, <2>3, <2>4, <2>5
<1>6. ASSUME NEW r \in Receivers, VisitDrops(r)
      PROVE  TypeOK' /\ WalkInv'
  BY <1>6 DEF VisitDrops, Visiting
<1>7. ASSUME NEW r \in Receivers, VisitUnconcerned(r)
      PROVE  TypeOK' /\ WalkInv'
  BY <1>7 DEF VisitUnconcerned, Visiting
<1>. QED  BY <1>1, <1>2, <1>3, <1>4, <1>5, <1>6, <1>7 DEF Walk

(* The others who use the list and the channels. *)
LEMMA OthersType ==
  ASSUME TypeOK, WalkInv,
         ClearNilReceivers \/ (\E r \in Receivers : Watch(r) \/ Receive(r) \/ Cancel(r))
  PROVE  TypeOK' /\ WalkInv'
<1>. USE DEF TypeOK, SourceTypeOK, WalkInv, sourceVars, receiverHist
<1>1. CASE ClearNilReceivers
  <2>1. slots' \in Seq(Receivers \union {Nil}) /\ clears' \in Nat
    BY <1>1, NewList DEF ClearNilReceivers
  <2>. QED  BY <1>1, <2>1 DEF ClearNilReceivers
<1>2. ASSUME NEW r \in Receivers, Watch(r)
      PROVE  TypeOK' /\ WalkInv'
  <2>1. EventFor(r, 1) \in Events
    BY EventType
  <2>2. slots' \in Seq(Receivers \union {Nil})
    BY <1>2 DEF Watch
  <2>3. got' \in [Receivers -> Events]
    BY <1>2, <2>1 DEF Watch
  <2>. QED  BY <1>2, <2>2, <2>3 DEF Watch, Lock
<1>3. ASSUME NEW r \in Receivers, Receive(r)
      PROVE  TypeOK' /\ WalkInv'
  <2>1. Tail(chan[r]) \in Seq(Events) /\ Len(Tail(chan[r])) <= 1
    BY <1>3 DEF Receive
  <2>. QED  BY <1>3, <2>1 DEF Receive
<1>4. ASSUME NEW r \in Receivers, Cancel(r)
      PROVE  TypeOK' /\ WalkInv'
  BY <1>4 DEF Cancel
<1>. QED  BY <1>1, <1>2, <1>3, <1>4

(* Every step of Next, by what it does. *)
LEMMA StepType ==
  ASSUME TypeOK, WalkInv, Next
  PROVE  TypeOK' /\ WalkInv'
BY CacheType, WalkType, OthersType DEF Next

-----------------------------------------------------------------------------
(* The list and the channels.                                              *)

(* The list never loses a receiver and never has one twice. *)
LEMMA StepListed ==
  ASSUME TypeOK, ListedOnce, Next
  PROVE  ListedOnce'
<1>. USE SenderAssumption DEF TypeOK, ListedOnce, sourceVars, receiverHist
<1>1. ASSUME NEW new \in Caches, CacheRead(new) \/ CacheEvent(new)
      PROVE  ListedOnce'
  BY <1>1 DEF CacheRead, CacheEvent, senderVars
<1>2. CASE Broadcast \/ VisitNil \/ BroadcastReturns
  BY <1>2 DEF Broadcast, VisitNil, BroadcastReturns
<1>3. ASSUME NEW r \in Receivers, VisitCanceled(r)
      PROVE  ListedOnce'
  <2>1. /\ walk \in 1 .. Len(slots) /\ slots[walk] = r
        /\ slots' = [slots EXCEPT ![walk] = Nil]
        /\ open' = [open EXCEPT ![r] = "closed"]
    BY <1>3 DEF VisitCanceled, Visiting
  <2>2. /\ DOMAIN slots' = DOMAIN slots
        /\ \A i \in DOMAIN slots : slots'[i] = IF i = walk THEN Nil ELSE slots[i]
    BY <2>1
  <2>3. \A i \in DOMAIN slots : slots[i] # Nil => slots[i] \in Receivers
    OBVIOUS
  <2>4. \A i \in DOMAIN slots' : slots'[i] # Nil => open'[slots'[i]] = "open"
    BY <2>1, <2>2, <2>3
  <2>5. \A i, j \in DOMAIN slots' :
          i # j /\ slots'[i] # Nil => slots'[i] # slots'[j]
    BY <2>1, <2>2
  <2>6. \A q \in Receivers :
          open'[q] = "open" => \E i \in DOMAIN slots' : slots'[i] = q
    BY <2>1, <2>2
  <2>. QED  BY <2>4, <2>5, <2>6
<1>4. ASSUME NEW r \in Receivers, VisitSends(r) \/ VisitDrops(r) \/ VisitUnconcerned(r)
      PROVE  ListedOnce'
  BY <1>4 DEF VisitSends, VisitDrops, VisitUnconcerned
<1>5. CASE ClearNilReceivers
  <2>1. slots' = newList /\ open' = open
    BY <1>5 DEF ClearNilReceivers
  <2>2. \A i \in DOMAIN slots' : slots'[i] # Nil => open'[slots'[i]] = "open"
    BY <2>1, NewList DEF Kept
  <2>3. ASSUME NEW m \in DOMAIN slots', NEW n \in DOMAIN slots', m # n
        PROVE  slots'[m] # slots'[n]
    <3>1. PICK i, j \in Kept : i # j /\ slots'[m] = slots[i] /\ slots'[n] = slots[j]
      BY <2>1, <2>3, NewList
    <3>. QED  BY <3>1 DEF Kept
  <2>4. ASSUME NEW q \in Receivers, open[q] = "open"
        PROVE  \E i \in DOMAIN slots' : slots'[i] = q
    <3>1. PICK i \in DOMAIN slots : slots[i] = q
      BY <2>4
    <3>2. i \in Kept
      BY <3>1 DEF Kept
    <3>. QED  BY <2>1, <3>1, <3>2, NewList
  <2>. QED  BY <2>1, <2>2, <2>3, <2>4
<1>6. ASSUME NEW r \in Receivers, Watch(r)
      PROVE  ListedOnce'
  <2>1. slots' = Append(slots, r) /\ open' = [open EXCEPT ![r] = "open"] /\ open[r] = "new"
    BY <1>6 DEF Watch
  <2>2. /\ Len(slots') = Len(slots) + 1 /\ slots'[Len(slots')] = r
        /\ DOMAIN slots' = 1 .. Len(slots') /\ DOMAIN slots = 1 .. Len(slots)
        /\ \A i \in DOMAIN slots : slots'[i] = slots[i]
    BY <2>1
  <2>3. ASSUME NEW i \in DOMAIN slots PROVE slots[i] # r
    <3>1. r # Nil /\ open[r] # "open"
      BY <2>1, SenderAssumption
    <3>2. slots[i] # Nil => open[slots[i]] = "open"
      OBVIOUS
    <3>. QED  BY <3>1, <3>2
  <2>4. \A i \in DOMAIN slots' : i \in DOMAIN slots \/ i = Len(slots')
    <3>1. Len(slots) \in Nat
      BY DEF TypeOK
    <3>. QED  BY ONLY <2>2, <3>1
  <2>5. \A i \in DOMAIN slots' : slots'[i] # Nil => open'[slots'[i]] = "open"
    BY <2>1, <2>2, <2>3, <2>4
  <2>6. \A i, j \in DOMAIN slots' :
          i # j /\ slots'[i] # Nil => slots'[i] # slots'[j]
    BY <2>2, <2>3, <2>4
  <2>7. \A q \in Receivers :
          open'[q] = "open" => \E i \in DOMAIN slots' : slots'[i] = q
    <3>1. ASSUME NEW q \in Receivers, open'[q] = "open", q # r
          PROVE  \E i \in DOMAIN slots' : slots'[i] = q
      <4>1. PICK i \in DOMAIN slots : slots[i] = q
        BY <2>1, <3>1
      <4>2. i \in DOMAIN slots' /\ slots'[i] = q
        BY <2>2, <4>1
      <4>. QED  BY <4>2
    <3>2. Len(slots') \in DOMAIN slots'
      BY <2>2
    <3>. QED  BY <2>2, <3>1, <3>2
  <2>. QED  BY <2>5, <2>6, <2>7
<1>7. ASSUME NEW r \in Receivers, Receive(r) \/ Cancel(r)
      PROVE  ListedOnce'
  BY <1>7 DEF Receive, Cancel
<1>. QED  BY <1>1, <1>2, <1>3, <1>4, <1>5, <1>6, <1>7 DEF Next, Walk

(* What a channel holds, and how its events are numbered. *)
LEMMA StepChannel ==
  ASSUME TypeOK, ListedOnce, ChannelInv, CountInv, Next
  PROVE  ChannelInv' /\ CountInv'
<1>. USE DEF TypeOK, ChannelInv, CountInv, sourceVars, receiverHist, Events
<1>1. ASSUME NEW new \in Caches, CacheRead(new) \/ CacheEvent(new)
      PROVE  ChannelInv' /\ CountInv'
  BY <1>1 DEF CacheRead, CacheEvent, senderVars
<1>2. CASE Broadcast \/ VisitNil \/ BroadcastReturns
  BY <1>2 DEF Broadcast, VisitNil, BroadcastReturns, Visiting
<1>3. ASSUME NEW r \in Receivers, VisitCanceled(r)
      PROVE  ChannelInv' /\ CountInv'
  BY <1>3 DEF VisitCanceled, Visiting
<1>4. ASSUME NEW r \in Receivers, VisitSends(r)
      PROVE  ChannelInv' /\ CountInv'
  <2>1. PICK e : /\ e = EventFor(r, counter[r])
                 /\ chan' = [chan EXCEPT ![r] = <<e>>]
                 /\ got' = [got EXCEPT ![r] = e]
    BY <1>4 DEF VisitSends
  <2>2. /\ counter' = [counter EXCEPT ![r] = @ + 1]
        /\ UNCHANGED <<open, canceled, clock>> 
    BY <1>4 DEF VisitSends, Visiting
  <2>3. e.id = counter[r] /\ e.at = clock
    BY <2>1 DEF EventFor
  <2>0. open[r] = "open"
    BY <1>4, SenderAssumption DEF VisitSends, Visiting, ListedOnce
  <2>4. ChannelInv'
    BY <2>0, <2>1, <2>2
  <2>5. CountInv'
    BY <2>0, <2>1, <2>2, <2>3, SMTT(20)
  <2>. QED  BY <2>4, <2>5
<1>5. ASSUME NEW r \in Receivers, VisitDrops(r) \/ VisitUnconcerned(r)
      PROVE  ChannelInv' /\ CountInv'
  BY <1>5 DEF VisitDrops, VisitUnconcerned, Visiting
<1>6. CASE ClearNilReceivers
  BY <1>6 DEF ClearNilReceivers
<1>7. ASSUME NEW r \in Receivers, Watch(r)
      PROVE  ChannelInv' /\ CountInv'
  <2>1. EventFor(r, 1).id = 1 /\ EventFor(r, 1).at = clock
    BY DEF EventFor
  <2>2. /\ got' = [got EXCEPT ![r] = EventFor(r, 1)]
        /\ open' = [open EXCEPT ![r] = "open"] /\ open[r] = "new"
        /\ UNCHANGED <<chan, canceled, counter, clock>>
    BY <1>7 DEF Watch
  <2>3. ChannelInv'
    BY <2>2
  <2>4. CountInv'
    BY <2>1, <2>2
  <2>. QED  BY <2>3, <2>4
<1>8. ASSUME NEW r \in Receivers, Receive(r)
      PROVE  ChannelInv' /\ CountInv'
  BY <1>8 DEF Receive
<1>9. ASSUME NEW r \in Receivers, Cancel(r)
      PROVE  ChannelInv' /\ CountInv'
  BY <1>9 DEF Cancel
<1>. QED  BY <1>1, <1>2, <1>3, <1>4, <1>5, <1>6, <1>7, <1>8, <1>9 DEF Next, Walk

-----------------------------------------------------------------------------
(* The walk of Broadcast.                                                  *)

(* A step of the walk comes by nobody but the receiver it looks at. *)
LEMMA StillAhead ==
  ASSUME TypeOK, NEW q \in Receivers, Ahead(q),
         walk \in 1 .. Len(slots), slots[walk] # q, walk' = walk + 1,
         Len(slots') = Len(slots),
         \A i \in 1 .. Len(slots) : i # walk => slots'[i] = slots[i]
  PROVE  Ahead(q)'
<1>1. PICK i \in walk .. Len(slots) : slots[i] = q
  BY DEF Ahead
<1>2. i \in walk' .. Len(slots') /\ slots'[i] = q
  BY <1>1 DEF TypeOK
<1>. QED  BY <1>2 DEF Ahead

(* At its start, every receiver with an open channel is still to come. *)
LEMMA AllAhead ==
  ASSUME TypeOK, ListedOnce, walk' = 1, slots' = slots,
         NEW q \in Receivers, open[q] = "open"
  PROVE  Ahead(q)'
<1>1. PICK i \in DOMAIN slots : slots[i] = q
  BY DEF ListedOnce
<1>2. i \in 1 .. Len(slots)
  BY DEF TypeOK
<1>. QED  BY <1>1, <1>2 DEF Ahead

LEMMA StepDoomed ==
  ASSUME TypeOK, WalkInv, ListedOnce, DoomedInv, Next
  PROVE  DoomedInv'
<1>. USE DEF TypeOK
<1>1. ASSUME NEW new \in Caches, CacheRead(new) \/ CacheEvent(new)
      PROVE  DoomedInv'
  <2>1. walk = 0
    BY <1>1 DEF CacheRead, CacheEvent, Load, Replace, Lock, WalkInv
  <2>. QED  BY <1>1, <2>1
            DEF CacheRead, CacheEvent, senderVars, WalkInv, DoomedInv, Ahead
<1>2. CASE Broadcast
  <2>1. ASSUME NEW q \in doomed'
        PROVE  Ahead(q)'
    BY <1>2, <2>1, AllAhead DEF Broadcast
  <2>2. doomed' \subseteq canceled'
    BY <1>2 DEF Broadcast
  <2>. QED  BY <2>1, <2>2 DEF DoomedInv
<1>3. ASSUME walk \in 1 .. Len(slots), walk' = walk + 1,
             UNCHANGED <<doomed, canceled>>,
             Len(slots') = Len(slots),
             \A i \in 1 .. Len(slots) : i # walk => slots'[i] = slots[i],
             \A q \in Receivers : open[q] = "closed" => open'[q] = "closed",
             slots[walk] \in doomed => open'[slots[walk]] = "closed"
      PROVE  DoomedInv'
  <2>1. ASSUME NEW q \in doomed PROVE open'[q] = "closed" \/ Ahead(q)'
    <3>1. q \in Receivers /\ (open[q] = "closed" \/ Ahead(q))
      BY <1>3, <2>1 DEF DoomedInv
    <3>2. CASE slots[walk] = q
      BY <1>3, <3>2
    <3>3. CASE slots[walk] # q /\ Ahead(q)
      BY <1>3, <3>1, <3>3, StillAhead
    <3>. QED  BY <1>3, <3>1, <3>2, <3>3
  <2>. QED  BY <1>3, <2>1 DEF DoomedInv
<1>4. CASE VisitNil
  <2>1. /\ UNCHANGED <<slots, open, doomed, canceled>> /\ walk' = walk + 1
        /\ walk \in 1 .. Len(slots) /\ slots[walk] = Nil /\ Nil \notin doomed
    BY <1>4, SenderAssumption DEF VisitNil, Visiting
  <2>. QED  BY <1>3, <2>1
<1>5. ASSUME NEW r \in Receivers, VisitCanceled(r)
      PROVE  DoomedInv'
  <2>1. /\ UNCHANGED <<doomed, canceled>> /\ walk' = walk + 1
        /\ walk \in 1 .. Len(slots) /\ slots[walk] = r
        /\ slots' = [slots EXCEPT ![walk] = Nil]
        /\ open' = [open EXCEPT ![r] = "closed"]
    BY <1>5 DEF VisitCanceled, Visiting
  <2>2. /\ Len(slots') = Len(slots)
        /\ \A i \in 1 .. Len(slots) : i # walk => slots'[i] = slots[i]
    BY <2>1
  <2>. QED  BY <1>3, <2>1, <2>2
<1>6. ASSUME NEW r \in Receivers, VisitSends(r) \/ VisitDrops(r) \/ VisitUnconcerned(r)
      PROVE  DoomedInv'
  <2>1. /\ UNCHANGED <<slots, open, doomed, canceled>> /\ walk' = walk + 1
        /\ walk \in 1 .. Len(slots) /\ slots[walk] = r /\ r \notin canceled
    BY <1>6 DEF VisitSends, VisitDrops, VisitUnconcerned, Visiting
  <2>2. r \notin doomed
    BY <2>1 DEF DoomedInv
  <2>. QED  BY <1>3, <2>1, <2>2
<1>7. CASE BroadcastReturns \/ ClearNilReceivers
  BY <1>7 DEF BroadcastReturns, ClearNilReceivers, Lock, receiverHist, DoomedInv
<1>8. ASSUME NEW r \in Receivers, Watch(r) \/ Receive(r) \/ Cancel(r)
      PROVE  DoomedInv'
  BY <1>8 DEF Watch, Receive, Cancel, Lock, receiverHist, DoomedInv, Ahead
<1>. QED  BY <1>1, <1>2, <1>4, <1>5, <1>6, <1>7, <1>8 DEF Next, Walk

-----------------------------------------------------------------------------
(* The data of the receivers.                                              *)

(* A receiver whose data a new cache changes is concerned by the notice,   *)
(* or counts as having missed it.                                          *)
LEMMA Noticed ==
  ASSUME TypeOK, WalkInv, NEW new \in Caches, CacheRead(new) \/ CacheEvent(new),
         NEW q \in Receivers, q \notin missed'
  PROVE  /\ q \notin missed
         /\ \/ Get(cache', Watched[q]) = Get(cache, Watched[q])
            \/ mode' = "announcing" /\ Concerns(pending', q)
<1>. USE DEF TypeOK, SourceTypeOK
<1>1. CASE CacheRead(new)
  <2>1. /\ q \notin PassedOver(new, pending') /\ q \notin missed /\ cache' = new
        /\ Load(new) \/ Replace(new)
    BY <1>1 DEF CacheRead, Load, Replace
  <2>2. Concerns(pending', q) \/ Get(new, Watched[q]) = Get(cache, Watched[q])
    BY <2>1 DEF PassedOver
  <2>3. CASE Load(new)
    <3>1. pending' = {}
      BY <2>3 DEF Load, WalkInv
    <3>. QED  BY <2>1, <2>2, <3>1 DEF Concerns
  <2>. QED  BY <2>1, <2>2, <2>3 DEF Replace
<1>2. CASE CacheEvent(new)
  <2>1. PICK keys \in SUBSET Keys : Change(new, keys)
    BY <1>2 DEF CacheEvent
  <2>2. /\ mode' = "announcing" /\ keys \subseteq pending' /\ cache' = new
        /\ \A k \in Keys : new[k] # cache[k] => k \in keys
    BY <2>1 DEF Change
  <2>3. CASE ~Concerns(pending', q)
    <3>1. \A k \in Under[Watched[q]] : new[k] = cache[k]
      BY <2>2, <2>3, SenderAssumption DEF Concerns
    <3>2. Get(new, Watched[q]) = Get(cache, Watched[q])
      BY <3>1, GetUnchanged
    <3>. QED  BY <1>2, <2>2, <3>2 DEF CacheEvent
  <2>. QED  BY <1>2, <2>2, <2>3 DEF CacheEvent
<1>. QED  BY <1>1, <1>2

LEMMA StepCaught ==
  ASSUME TypeOK, WalkInv, ListedOnce, CaughtInv, Next
  PROVE  CaughtInv'
<1> DEFINE Live(q) == open[q] = "open" /\ q \notin canceled \union missed
           Has(q) == got[q].data = Get(cache, Watched[q])
           Due(q) == mode = "announcing" /\ Concerns(pending, q)
                       /\ (walk = 0 \/ Ahead(q))
<1>0. SUFFICES ASSUME NEW q \in Receivers, Live(q)'
               PROVE  Has(q)' \/ Due(q)'
  BY DEF CaughtInv
<1>. USE DEF TypeOK
<1>1. ASSUME NEW new \in Caches, CacheRead(new) \/ CacheEvent(new)
      PROVE  Has(q)' \/ Due(q)'
  <2>1. UNCHANGED <<senderVars, got>> /\ walk = 0
    BY <1>1 DEF CacheRead, CacheEvent, Load, Replace, Lock, WalkInv
  <2>2. q \notin missed'
    BY <1>0
  <2>3. /\ q \notin missed
        /\ \/ Get(cache', Watched[q]) = Get(cache, Watched[q])
           \/ mode' = "announcing" /\ Concerns(pending', q)
    BY <1>1, <2>2, Noticed
  <2>4. (Has(q) \/ Due(q)) /\ walk' = 0 /\ got' = got
    BY <1>0, <2>1, <2>3 DEF senderVars, CaughtInv
  <2>5. CASE Has(q)
    BY <2>3, <2>4, <2>5
  <2>6. CASE Due(q)
    <3>1. PICK keys \in SUBSET Keys : Change(new, keys)
      BY <1>1, <2>6 DEF CacheRead, CacheEvent, Load, Replace
    <3>2. mode' = "announcing" /\ pending \subseteq pending'
      BY <3>1 DEF Change
    <3>. QED  BY <2>4, <2>6, <3>2 DEF Concerns
  <2>. QED  BY <2>4, <2>5, <2>6
<1>2. CASE Broadcast
  <2>1. /\ UNCHANGED <<sourceVars, got, open, missed, canceled, slots>>
        /\ walk' = 1
    BY <1>2 DEF Broadcast
  <2>2. Ahead(q)' /\ Live(q)
    BY <1>0, <2>1, AllAhead
  <2>3. Has(q) \/ Due(q)
    BY <2>2 DEF CaughtInv
  <2>. QED  BY <2>1, <2>2, <2>3 DEF sourceVars
<1>3. ASSUME walk \in 1 .. Len(slots), walk' = walk + 1, slots[walk] # q,
             UNCHANGED sourceVars, UNCHANGED canceled,
             got'[q] = got[q], open'[q] = open[q], q \in missed <=> q \in missed',
             Len(slots') = Len(slots),
             \A i \in 1 .. Len(slots) : i # walk => slots'[i] = slots[i]
      PROVE  Has(q)' \/ Due(q)'
  <2>1. Has(q) \/ Due(q)
    BY <1>0, <1>3 DEF CaughtInv
  <2>2. CASE Has(q)
    BY <1>3, <2>2 DEF sourceVars
  <2>3. CASE Due(q)
    <3>1. Ahead(q)'
      BY <1>3, <2>3, StillAhead
    <3>. QED  BY <1>3, <2>3, <3>1 DEF sourceVars
  <2>. QED  BY <2>1, <2>2, <2>3
<1>4. CASE VisitNil
  BY <1>3, <1>4, SenderAssumption DEF VisitNil, Visiting
<1>5. ASSUME NEW r \in Receivers, VisitCanceled(r)
      PROVE  Has(q)' \/ Due(q)'
  <2>1. /\ UNCHANGED <<sourceVars, canceled, got, missed>> /\ walk' = walk + 1
        /\ walk \in 1 .. Len(slots) /\ slots[walk] = r
        /\ slots' = [slots EXCEPT ![walk] = Nil]
        /\ open' = [open EXCEPT ![r] = "closed"]
    BY <1>5 DEF VisitCanceled, Visiting
  <2>2. /\ Len(slots') = Len(slots)
        /\ \A i \in 1 .. Len(slots) : i # walk => slots'[i] = slots[i]
        /\ q # r
    BY <1>0, <2>1
  <2>. QED  BY <1>3, <2>1, <2>2
<1>6. ASSUME NEW r \in Receivers, VisitSends(r)
      PROVE  Has(q)' \/ Due(q)'
  <2>1. /\ UNCHANGED <<sourceVars, canceled, slots, open>> /\ walk' = walk + 1
        /\ walk \in 1 .. Len(slots) /\ slots[walk] = r
        /\ missed' = missed \ {r}
    BY <1>6 DEF VisitSends, Visiting
  <2>2. got' = [got EXCEPT ![r] = EventFor(r, counter[r])]
    BY <1>6 DEF VisitSends
  <2>3. CASE q = r
    BY <2>1, <2>2, <2>3 DEF EventFor, sourceVars
  <2>4. CASE q # r
    BY <1>3, <2>1, <2>2, <2>4
  <2>. QED  BY <2>3, <2>4
<1>7. ASSUME NEW r \in Receivers, VisitDrops(r)
      PROVE  Has(q)' \/ Due(q)'
  <2>1. /\ UNCHANGED <<sourceVars, canceled, slots, open, got>> /\ walk' = walk + 1
        /\ walk \in 1 .. Len(slots) /\ slots[walk] = r
        /\ missed' = missed \union {r}
    BY <1>7 DEF VisitDrops, Visiting
  <2>2. q # r
    BY <1>0, <2>1
  <2>. QED  BY <1>3, <2>1, <2>2
<1>8. ASSUME NEW r \in Receivers, VisitUnconcerned(r)
      PROVE  Has(q)' \/ Due(q)'
  <2>1. /\ UNCHANGED <<sourceVars, canceled, slots, open, got, missed>>
        /\ walk' = walk + 1
        /\ walk \in 1 .. Len(slots) /\ slots[walk] = r /\ ~Concerns(pending, r)
    BY <1>8 DEF VisitUnconcerned, Visiting
  <2>2. CASE q = r
    BY <1>0, <2>1, <2>2 DEF sourceVars, CaughtInv
  <2>3. CASE q # r
    BY <1>3, <2>1, <2>3
  <2>. QED  BY <2>2, <2>3
<1>9. CASE BroadcastReturns
  <2>1. /\ UNCHANGED <<cache, slots, open, canceled, receiverHist>>
        /\ walk > Len(slots)
    BY <1>9 DEF BroadcastReturns, Announce
  <2>2. ~Due(q)
    BY <2>1 DEF Ahead
  <2>. QED  BY <1>0, <2>1, <2>2 DEF CaughtInv, receiverHist
<1>10. CASE ClearNilReceivers
  BY <1>0, <1>10 DEF ClearNilReceivers, Lock, sourceVars, receiverHist, CaughtInv
<1>11. ASSUME NEW r \in Receivers, Watch(r)
      PROVE  Has(q)' \/ Due(q)'
  <2>1. /\ UNCHANGED <<sourceVars, walk, canceled>> /\ walk = 0
        /\ open' = [open EXCEPT ![r] = "open"]
        /\ got' = [got EXCEPT ![r] = EventFor(r, 1)]
        /\ missed' = missed \ {r}
    BY <1>11 DEF Watch, Lock
  <2>2. CASE q = r
    BY <2>1, <2>2 DEF EventFor, sourceVars
  <2>3. CASE q # r
    BY <1>0, <2>1, <2>3 DEF sourceVars, CaughtInv
  <2>. QED  BY <2>2, <2>3
<1>12. ASSUME NEW r \in Receivers, Receive(r) \/ Cancel(r)
      PROVE  Has(q)' \/ Due(q)'
  BY <1>0, <1>12 DEF Receive, Cancel, sourceVars, receiverHist, CaughtInv, Ahead
<1>. QED  BY <1>1, <1>2, <1>4, <1>5, <1>6, <1>7, <1>8, <1>9, <1>10, <1>11, <1>12
          DEF Next, Walk

-----------------------------------------------------------------------------
(* The theorems.                                                           *)

LEMMA StepInv ==
  ASSUME IInv, [Next]_allVars
  PROVE  IInv'
<1>1. CASE Next
  BY <1>1, StepType, StepListed, StepChannel, StepDoomed, StepCaught DEF IInv
<1>2. CASE UNCHANGED allVars
  <2>. USE <1>2 DEF allVars, sourceVars, senderVars, receiverHist
  <2>1. TypeOK' /\ WalkInv'
    BY DEF IInv, TypeOK, SourceTypeOK, WalkInv
  <2>2. ListedOnce'
    BY DEF IInv, ListedOnce
  <2>3. ChannelInv' /\ CountInv'
    BY DEF IInv, ChannelInv, CountInv
  <2>4. DoomedInv'
    BY DEF IInv, DoomedInv, Ahead
  <2>5. CaughtInv'
    BY DEF IInv, CaughtInv, Concerns, Ahead
  <2>. QED  BY <2>1, <2>2, <2>3, <2>4, <2>5 DEF IInv
<1>. QED  BY <1>1, <1>2

(* The list, the walk of Broadcast, the channels and the data of receivers *)
(* stay as IInv says of them, for any number of receivers and broadcasts   *)
(* (sender.go 40-114).                                                     *)
THEOREM Invariant == Spec => []IInv
<1>. QED  BY InitInv, StepInv, PTL DEF Spec

(* Watch, Broadcast and clearNilReceivers together keep every open channel *)
(* in the list exactly once and no closed one (sender.go 40-83, 87-114).   *)
THEOREM ReceiversListedOnce == Spec => []ListedOnce
<1>1. IInv => ListedOnce
  BY DEF IInv
<1>. QED  BY <1>1, Invariant, PTL

(* A Broadcast closes the channel of every receiver that was canceled when *)
(* it began (sender.go 48-61).                                             *)
THEOREM CanceledGetClosed == Spec => []DoomedClosed
<1>1. IInv => DoomedClosed
  BY DEF IInv, TypeOK, DoomedInv, DoomedClosed, Ahead
<1>. QED  BY <1>1, Invariant, PTL

(* Between broadcasts, who missed nothing was sent its part of the cache,  *)
(* although notices go by prefix and Get by exact key first (sender.go     *)
(* 62-77, cacher.go 67-82).                                                *)
THEOREM ReceiversCaughtUp == Spec => []CaughtUp
<1>1. IInv => CaughtUp
  BY DEF IInv, CaughtInv, CaughtUp
<1>. QED  BY <1>1, Invariant, PTL

(* The events of a receiver are numbered without a hole and never carry    *)
(* an older cache, whatever is dropped (sender.go 62-77, 87-100).          *)
THEOREM EventsNumbered == Spec => EventsInOrder
<1> DEFINE InOrder(r) == counter'[r] # counter[r] =>
                           got'[r].id = got[r].id + 1 /\ got'[r].at >= got[r].at
<1>1. IInv /\ [Next]_allVars => [\A r \in Receivers : InOrder(r)]_allVars
  <2>. SUFFICES ASSUME IInv, Next, NEW r \in Receivers PROVE InOrder(r)
    OBVIOUS
  <2>1. ASSUME NEW q \in Receivers, VisitSends(q)
        PROVE  InOrder(r)
    <3>1. /\ got' = [got EXCEPT ![q] = EventFor(q, counter[q])]
          /\ counter' = [counter EXCEPT ![q] = @ + 1]
      BY <2>1 DEF VisitSends
    <3>2. EventFor(q, counter[q]).id = counter[q] /\ EventFor(q, counter[q]).at = clock
      BY DEF EventFor
    <3>. QED  BY <3>1, <3>2 DEF IInv, TypeOK, CountInv
  <2>2. CASE ~\E q \in Receivers : VisitSends(q)
    <3>1. UNCHANGED counter
      BY <2>2 DEF Next, Walk, CacheRead, CacheEvent, senderVars, Broadcast, VisitNil,
         BroadcastReturns, VisitCanceled, VisitDrops, VisitUnconcerned,
         ClearNilReceivers, Watch, Receive, Cancel
    <3>. QED  BY <3>1
  <2>. QED  BY <2>1, <2>2
<1>. QED  BY <1>1, Invariant, PTL DEF Spec, EventsInOrder
=============================================================================
